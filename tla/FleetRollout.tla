---------------------------- MODULE FleetRollout ----------------------------
(***************************************************************************)
(* A fleet upgrade (lib/fleet/controller.ts) on its state store             *)
(* (lib/fleet/store.ts): one run that upgrades the canary and then the      *)
(* other ventures, one at a time, each through the same plan of hooks and   *)
(* file changes.                                                           *)
(*                                                                         *)
(* Controllers share the run's record.  One that holds the record's lease   *)
(* works on the copy it read when it took the lease, and replaces the       *)
(* record by its copy whenever it makes progress.  Controllers may die, and *)
(* their leases may expire while they live: only progress renews them, and  *)
(* nothing bounds how long a hook takes.                                    *)
(*                                                                         *)
(* The history variables effect, overtaken and recorded are read by no      *)
(* guard but that of a read-back, which asks what effect a hook had.        *)
(***************************************************************************)
EXTENDS Naturals, Sequences

CONSTANTS
  Controllers,
  Ventures,
  Order,         \* the ventures in order: the canary, then the batches
  Plan,          \* the phases of an upgrade in order
  Hooks,         \* the phases that call out, "compensate" among them
  PreviousRelease,  \* the release's rollback mode: previous_release or forward_fix
  None,
  MaxTroubles,   \* bound on crashes, hooks that throw, reconciliations that find
                 \* nothing out, and leases that expire under a controller at work,
  LapseCost      \* each of which takes this much of the bound

Local == {"upgrade", "merge_gate", "touch", "production_readback", "lock"}

ASSUME FleetAssumption ==
  /\ Order \in Seq(Ventures) /\ \A v \in Ventures : \E i \in DOMAIN Order : Order[i] = v
  /\ \A i, j \in DOMAIN Order : Order[i] = Order[j] => i = j  \* targets are unique
  /\ Plan \in Seq(Hooks \cup Local)
  /\ "compensate" \in Hooks /\ Hooks \cap Local = {}
  /\ PreviousRelease \in BOOLEAN /\ None \notin Controllers
  /\ MaxTroubles \in Nat /\ LapseCost \in Nat \ {0}

\* The order of upgradeOne: production is marked as touched before it is deployed,
\* and read back after, and the lock is written last.
Planned(n) == \E i \in DOMAIN Plan : Plan[i] = n
Before(m, n) == \A i, j \in DOMAIN Plan : Plan[i] = m /\ Plan[j] = n => i < j

ASSUME PlanAssumption ==
  /\ \A i, j \in DOMAIN Plan : Plan[i] = Plan[j] => i = j
  /\ Planned("touch") /\ Planned("production") /\ Planned("production_readback")
  /\ Planned("lock") /\ ~Planned("compensate")
  /\ Before("touch", "production") /\ Before("production", "production_readback")
  /\ \A i, j \in DOMAIN Plan : Plan[j] = "lock" => i <= j

VARIABLES
  record,   \* the run as stored; its status is "none" before it is created
  live,     \* is the record's lease unexpired?
  ctl,      \* the controllers
  files,    \* the managed files and the lock of each venture
  effect,   \* history: how often a hook took effect, and with which result
  deployed, \* the version a venture serves
  late,     \* hooks on their way though nobody waits for them
  troubles, \* crashes, throws and lapses so far
  policy,   \* the ventures that merge without a human, and those that deploy
  overtaken,\* history: was a controller's expired lease taken while it worked?
  recorded  \* history: the ventures the record has ever reported as verified

past == <<overtaken, recorded>>
vars == <<record, live, ctl, files, effect, deployed, late, troubles, policy, past>>

Phases == Hooks \cup Local

NoCheckpoint ==
  [open |-> FALSE, touched |-> FALSE, lock |-> "old", phase |-> [n \in Phases |-> "none"]]
NewRun ==
  [status |-> "running", results |-> [v \in Ventures |-> "none"],
   cps |-> [v \in Ventures |-> NoCheckpoint], lease |-> None]
Idle == [pc |-> "idle", mem |-> [NewRun EXCEPT !.status = "none"], at |-> 1, step |-> 1,
         hook |-> "none", done |-> FALSE, result |-> "none"]

Init ==
  /\ record = [NewRun EXCEPT !.status = "none"]
  /\ live = FALSE
  /\ ctl = [c \in Controllers |-> Idle]
  /\ files = [v \in Ventures |-> "old"]
  /\ effect = [v \in Ventures |-> [n \in Hooks |-> [times |-> 0, passed |-> FALSE]]]
  /\ deployed = [v \in Ventures |-> "old"]
  /\ late = {}
  /\ troubles = 0
  /\ policy \in [automatic : SUBSET Ventures, deploys : SUBSET Ventures]
  /\ overtaken = FALSE /\ recorded = {}

outside == <<files, effect, deployed, late, troubles, policy>>
world == <<outside, past>>

Goes(c, pc) == ctl' = [ctl EXCEPT ![c].pc = pc]
\* rollout rejects; a lease it took stays.
Rejects(c) == ctl' = [ctl EXCEPT ![c] = Idle]

Trouble(cost) == troubles + cost <= MaxTroubles /\ troubles' = troubles + cost

AtWork(c) == ctl[c].pc \notin {"idle", "creating", "leasing"}

V(c) == Order[ctl[c].at]
Cp(c) == ctl[c].mem.cps[V(c)]
-----------------------------------------------------------------------------
(* The store and the lease.                                                 *)

\* Mutant: an expired lease is not looked at.
LeasableAlways(c) == TRUE
\* acquireLease refuses while another owner's lease is unexpired.
Leasable(c) == record.lease = c \/ record.lease = None \/ ~live

\* Mutant: only the lock the upgrade started from is accepted.
BoundToOriginal(v) == record.cps[v].open => files[v] = "old"
\* The lock of a venture must be the one the checkpoint started from or holds.
Bound(v) == record.cps[v].open => files[v] \in {"old", record.cps[v].lock}

\* rollout reads the record: an ended run is returned, a changed target refused.
Begin(c) ==
  /\ ctl[c].pc = "idle"
  /\ record.status \in {"none", "running"} /\ \A v \in Ventures : Bound(v)
  /\ Goes(c, IF record.status = "none" THEN "creating" ELSE "leasing")
  /\ UNCHANGED <<record, live, world>>

\* put without an owner creates the record, and only if there is none.
Create(c) ==
  /\ ctl[c].pc = "creating"
  /\ record' = IF record.status = "none" THEN NewRun ELSE record
  /\ Goes(c, "leasing")
  /\ UNCHANGED <<live, world>>

\* The controller goes on with the record as it is when the lease is taken.
Lease(c) ==
  /\ ctl[c].pc = "leasing"
  /\ IF Leasable(c)
       THEN /\ record' = [record EXCEPT !.lease = c]
            /\ live' = TRUE
            /\ ctl' = [ctl EXCEPT ![c].pc = "next", ![c].mem = record']
       ELSE Rejects(c) /\ UNCHANGED <<record, live>>
  /\ overtaken' = (overtaken \/ (~live /\ \E d \in Controllers \ {c} : record.lease = d /\ AtWork(d)))
  /\ UNCHANGED <<outside, recorded>>

\* persist: renew the lease, then replace the record by the controller's own
\* copy.  With a lease just renewed the two are one step.
Persists(c, mem, next) ==
  IF Leasable(c)
    THEN /\ record' = [mem EXCEPT !.lease = c]
         /\ live' = TRUE
         /\ ctl' = [ctl EXCEPT ![c] = [next EXCEPT !.mem = record']]
    ELSE Rejects(c) /\ UNCHANGED <<record, live>>

SavesCp(c, cp, next) == Persists(c, [ctl[c].mem EXCEPT !.cps[V(c)] = cp], next)
SavesPhase(c, n, state, next) == SavesCp(c, [Cp(c) EXCEPT !.phase[n] = state], next)

At(c, pc) == [ctl[c] EXCEPT !.pc = pc, !.done = FALSE]
After(c) == [At(c, "step") EXCEPT !.step = @ + 1]

Expire ==
  /\ live /\ record.lease # None
  /\ IF AtWork(record.lease)
       THEN Trouble(LapseCost) ELSE UNCHANGED troubles
  /\ live' = FALSE
  /\ UNCHANGED <<record, ctl, files, effect, deployed, late, policy, past>>
-----------------------------------------------------------------------------
(* One venture after the other.                                             *)

Verified(c, i) == ctl[c].mem.results[Order[i]] = "verified"

\* Mutant: the rollout goes on after a venture that is not verified.
PausesNever(result) == FALSE
Pauses(result) == result # "verified"

\* Mutant: rollout does not return from a pause or the end, but goes on.
FinishesOn(c, status) ==
  /\ IF record.lease = c
       THEN record' = [ctl[c].mem EXCEPT !.status = status] /\ UNCHANGED live
       ELSE UNCHANGED <<record, live>>
  /\ ctl' = [ctl EXCEPT ![c].pc = "next", ![c].at = @ + 1]

\* finish: only the lease's owner may, expired or not.
Finishes(c, status) ==
  /\ IF record.lease = c
       THEN record' = [ctl[c].mem EXCEPT !.status = status, !.lease = None] /\ live' = FALSE
       ELSE UNCHANGED <<record, live>>
  /\ Rejects(c)

\* runVenture: a verified venture is skipped; upgradeOne opens a checkpoint.
NextVenture(c) ==
  /\ ctl[c].pc = "next"
  /\ \/ ctl[c].at > Len(Order) /\ Finishes(c, "completed")
     \/ /\ ctl[c].at <= Len(Order) /\ Verified(c, ctl[c].at)
        /\ ctl' = [ctl EXCEPT ![c].at = @ + 1]
        /\ UNCHANGED <<record, live>>
     \/ /\ ctl[c].at <= Len(Order) /\ ~Verified(c, ctl[c].at)
        /\ LET first == [ctl[c] EXCEPT !.pc = "step", !.step = 1] IN
             IF Cp(c).open THEN ctl' = [ctl EXCEPT ![c] = first] /\ UNCHANGED <<record, live>>
                           ELSE SavesCp(c, [NoCheckpoint EXCEPT !.open = TRUE], first)
  /\ UNCHANGED world

\* saveResult, and the pause when it is not a verification.
SaveResult(c) ==
  /\ ctl[c].pc = "result"
  /\ Persists(c, [ctl[c].mem EXCEPT !.results[V(c)] = ctl[c].result],
       IF Pauses(ctl[c].result) THEN At(c, "pausing") ELSE [At(c, "next") EXCEPT !.at = @ + 1])
  /\ recorded' = recorded \cup {v \in Ventures : record'.results[v] = "verified"}
  /\ UNCHANGED <<outside, overtaken>>

Pause(c) ==
  /\ ctl[c].pc = "pausing"
  /\ Finishes(c, "paused")
  /\ UNCHANGED world
-----------------------------------------------------------------------------
(* Hooks.                                                                   *)

\* The phases of a venture whose policy deploys to production.
Production == {"touch", "production", "smoke", "production_readback"}

InTurn(c, n) == ctl[c].pc = "step" /\ ctl[c].step <= Len(Plan) /\ Plan[ctl[c].step] = n
OnPhase(c, n) == InTurn(c, n) /\ (n \in Production => V(c) \in policy.deploys)

\* The hook a controller has come to; a failed production is compensated.
HookAt(c) ==
  {n \in Hooks : OnPhase(c, n)} \cup
  {n \in {"compensate"} : ctl[c].pc = "failing" /\ Cp(c).touched}

\* How the upgrade goes on after a hook with a result.
Continues(c, n, result) ==
  IF n = "compensate" THEN At(c, "compensated")
  ELSE IF result = "passed" THEN After(c) ELSE At(c, "failing")

Result(passed) == IF passed THEN "passed" ELSE "failed"

\* Nobody carries the hook out, now or later.
NotApplied(v, n) ==
  /\ effect[v][n].times = 0 /\ <<v, n>> \notin late
  /\ \A c \in Controllers : ctl[c].pc = "invoking" => <<V(c), ctl[c].hook>> # <<v, n>>

ReadBackFirst(state) == state = "prepared"

\* runHook: a completed phase is reused, a prepared one read back before it is
\* invoked again, a new one saved as prepared.
RunHook(c) ==
  /\ \E n \in HookAt(c) :
       LET state == Cp(c).phase[n]
           invoke == [At(c, "invoking") EXCEPT !.hook = n]
       IN \/ /\ state \in {"passed", "failed"}
             /\ ctl' = [ctl EXCEPT ![c] = Continues(c, n, state)]
             /\ UNCHANGED <<record, live, troubles>>
          \/ /\ ReadBackFirst(state) /\ effect[V(c)][n].times > 0
             /\ LET result == Result(effect[V(c)][n].passed)
                IN SavesPhase(c, n, result, Continues(c, n, result))
             /\ UNCHANGED troubles
          \/ /\ state = "none" \/ ~ReadBackFirst(state) \/ NotApplied(V(c), n)
             /\ state \in {"none", "prepared"}
             /\ SavesPhase(c, n, "prepared", invoke)
             /\ UNCHANGED troubles
          \/ /\ ReadBackFirst(state) /\ Trouble(1)
             /\ Rejects(c) /\ UNCHANGED <<record, live>>
  /\ UNCHANGED <<files, effect, deployed, late, policy, past>>

\* A hook takes effect, and passes or not; neither says what is deployed.
TakesEffect(v, n) ==
  \E passed \in BOOLEAN :
    /\ effect' = [effect EXCEPT ![v][n] = [times |-> @.times + 1, passed |-> passed]]
    /\ \/ n = "production" /\ deployed' = [deployed EXCEPT ![v] = "new"]
       \/ n = "compensate" /\ deployed' = [deployed EXCEPT ![v] = "old"]
       \/ UNCHANGED deployed

HookActs(c) ==
  /\ ctl[c].pc = "invoking" /\ ~ctl[c].done
  /\ TakesEffect(V(c), ctl[c].hook)
  /\ ctl' = [ctl EXCEPT ![c].done = TRUE]
  /\ UNCHANGED <<record, live, files, late, troubles, policy, past>>

LateEffect(v, n) ==
  /\ <<v, n>> \in late
  /\ late' = late \ {<<v, n>>}
  /\ TakesEffect(v, n)
  /\ UNCHANGED <<record, live, ctl, files, troubles, policy, past>>

HookAnswers(c) ==
  /\ ctl[c].pc = "invoking" /\ ctl[c].done
  /\ LET n == ctl[c].hook
         result == Result(effect[V(c)][n].passed)
     IN SavesPhase(c, n, result, Continues(c, n, result))
  /\ UNCHANGED world

\* A hook that nobody waits for any more, and that has had no effect yet, is
\* lost, as one that was never sent, or is on its way.
Abandoned(c) ==
  \/ UNCHANGED late
  \/ /\ ctl[c].pc = "invoking" /\ ~ctl[c].done
     /\ late' = late \cup {<<V(c), ctl[c].hook>>}

HookThrows(c) ==
  /\ ctl[c].pc = "invoking" /\ Trouble(1)
  /\ Abandoned(c)
  /\ Rejects(c)
  /\ UNCHANGED <<record, live, files, effect, deployed, policy, past>>
-----------------------------------------------------------------------------
(* Phases of the controller's own.                                          *)

Writes(c, content) == files' = [files EXCEPT ![V(c)] = content]
Ends(c, result) == ctl' = [ctl EXCEPT ![c].pc = "result", ![c].result = result]

\* A phase already completed is not done again, and one the venture's policy
\* does not ask for not at all.
Reused(c) ==
  /\ \/ \E n \in {"upgrade", "lock"} : OnPhase(c, n) /\ Cp(c).phase[n] = "passed"
     \/ \E n \in Production : InTurn(c, n) /\ ~OnPhase(c, n)
  /\ ctl' = [ctl EXCEPT ![c] = After(c)]
  /\ UNCHANGED <<record, live, world>>

\* An upgrade that was begun is taken back first.
PrepareUpgrade(c) ==
  /\ OnPhase(c, "upgrade") /\ Cp(c).phase["upgrade"] # "passed"
  /\ IF Cp(c).phase["upgrade"] = "prepared" THEN Writes(c, "old") ELSE UNCHANGED files
  /\ SavesPhase(c, "upgrade", "prepared", At(c, "upgrading"))
  /\ UNCHANGED <<effect, deployed, late, troubles, policy, past>>

\* applyUpgrade writes the files and the lock, or meets a conflict.
ApplyUpgrade(c) ==
  /\ ctl[c].pc = "upgrading"
  /\ \/ Writes(c, "candidate") /\ Goes(c, "upgraded")
     \/ UNCHANGED files /\ Goes(c, "failing")
  /\ UNCHANGED <<record, live, effect, deployed, late, troubles, policy, past>>

\* The new lock first, then the phase: two writes of the record.
SaveUpgrade(c) ==
  /\ \/ ctl[c].pc = "upgraded" /\ SavesCp(c, [Cp(c) EXCEPT !.lock = "candidate"], At(c, "lock_kept"))
     \/ ctl[c].pc = "lock_kept" /\ SavesPhase(c, "upgrade", "passed", After(c))
  /\ UNCHANGED world

\* Without an automatic merge the files are taken back and a human is awaited.
MergeGate(c) ==
  /\ OnPhase(c, "merge_gate")
  /\ IF V(c) \in policy.automatic
       THEN ctl' = [ctl EXCEPT ![c] = After(c)] /\ UNCHANGED files
       ELSE Writes(c, "old") /\ Ends(c, "waiting")
  /\ UNCHANGED <<record, live, effect, deployed, late, troubles, policy, past>>

Touch(c) ==
  /\ OnPhase(c, "touch")
  /\ IF Cp(c).touched THEN ctl' = [ctl EXCEPT ![c] = After(c)] /\ UNCHANGED <<record, live>>
                      ELSE SavesCp(c, [Cp(c) EXCEPT !.touched = TRUE], After(c))
  /\ UNCHANGED world

\* deployedHealth: a version that answers healthy, or anything else.
ProductionReadBack(c) ==
  /\ OnPhase(c, "production_readback")
  /\ \/ deployed[V(c)] = "new" /\ SavesPhase(c, "production_readback", "passed", After(c))
     \/ SavesPhase(c, "production_readback", "failed", At(c, "failing"))
  /\ UNCHANGED world

PrepareLock(c) ==
  /\ OnPhase(c, "lock") /\ Cp(c).phase["lock"] # "passed"
  /\ SavesPhase(c, "lock", "prepared", At(c, "locking"))
  /\ UNCHANGED world

WriteLock(c) ==
  /\ ctl[c].pc = "locking"
  /\ Writes(c, "new") /\ Goes(c, "locked")
  /\ UNCHANGED <<record, live, effect, deployed, late, troubles, policy, past>>

SaveLock(c) ==
  /\ \/ ctl[c].pc = "locked" /\ SavesCp(c, [Cp(c) EXCEPT !.lock = "new"], At(c, "lock_known"))
     \/ ctl[c].pc = "lock_known" /\ SavesPhase(c, "lock", "passed", After(c))
  /\ UNCHANGED world

Verify(c) ==
  /\ ctl[c].pc = "step" /\ ctl[c].step > Len(Plan)
  /\ Ends(c, "verified")
  /\ UNCHANGED <<record, live, world>>

\* Before production a failure only takes the files back.
RollBack(c) ==
  /\ ctl[c].pc = "failing" /\ ~Cp(c).touched
  /\ Writes(c, "old") /\ Ends(c, "rolled_back")
  /\ UNCHANGED <<record, live, effect, deployed, late, troubles, policy, past>>

\* Mutant: a compensation that passed is believed.
Believed(c) == TRUE
\* deployedHealth of the previous version.
RollbackSeen(c) == deployed[V(c)] = "old"

\* After compensation: rolled back only when that is seen.
Compensated(c) ==
  /\ ctl[c].pc = "compensated"
  /\ LET may == PreviousRelease /\ Cp(c).phase["compensate"] = "passed" IN
       \/ may /\ RollbackSeen(c) /\ Persists(c, ctl[c].mem, At(c, "restoring"))
       \/ may /\ Persists(c, ctl[c].mem, [At(c, "result") EXCEPT !.result = "forward_fix"])
       \/ ~may /\ Ends(c, "forward_fix") /\ UNCHANGED <<record, live>>
  /\ UNCHANGED world

RestoreCompensated(c) ==
  /\ ctl[c].pc = "restoring"
  /\ Writes(c, "old") /\ Ends(c, "rolled_back")
  /\ UNCHANGED <<record, live, effect, deployed, late, troubles, policy, past>>
-----------------------------------------------------------------------------
Crash(c) ==
  /\ ctl[c].pc # "idle" /\ Trouble(1)
  /\ Abandoned(c)
  /\ Rejects(c)
  /\ UNCHANGED <<record, live, files, effect, deployed, policy, past>>

Step(c) ==
  \/ Begin(c) \/ Create(c) \/ Lease(c) \/ NextVenture(c) \/ SaveResult(c) \/ Pause(c)
  \/ RunHook(c) \/ HookActs(c) \/ HookAnswers(c)
  \/ Reused(c) \/ PrepareUpgrade(c) \/ ApplyUpgrade(c) \/ SaveUpgrade(c) \/ MergeGate(c)
  \/ Touch(c) \/ ProductionReadBack(c) \/ PrepareLock(c) \/ WriteLock(c) \/ SaveLock(c)
  \/ Verify(c) \/ RollBack(c) \/ Compensated(c) \/ RestoreCompensated(c)

Next ==
  \/ \E c \in Controllers : Step(c) \/ HookThrows(c) \/ Crash(c)
  \/ \E v \in Ventures, n \in Hooks : LateEffect(v, n)
  \/ Expire

\* Controllers that die or reject are started again, hooks return, leases expire.
Fairness ==
  /\ \A c \in Controllers : SF_vars(Step(c))
  /\ WF_vars(Expire)
  /\ WF_vars(\E v \in Ventures, n \in Hooks : LateEffect(v, n))

Spec == Init /\ [][Next]_vars
FairSpec == Spec /\ Fairness
-----------------------------------------------------------------------------
Checkpoints ==
  [open : BOOLEAN, touched : BOOLEAN, lock : {"old", "candidate", "new"},
   phase : [Phases -> {"none", "prepared", "passed", "failed"}]]
Records ==
  [status : {"none", "running", "paused", "completed"},
   results : [Ventures -> {"none", "verified", "waiting", "rolled_back", "forward_fix"}],
   cps : [Ventures -> Checkpoints], lease : Controllers \cup {None}]

TypeOK ==
  /\ record \in Records /\ live \in BOOLEAN
  /\ \A c \in Controllers :
       ctl[c].mem \in Records /\ ctl[c].at \in 1..Len(Order) + 1 /\ ctl[c].step \in 1..Len(Plan) + 1
  /\ files \in [Ventures -> {"old", "candidate", "new"}]
  /\ deployed \in [Ventures -> {"old", "new"}]
  /\ late \subseteq Ventures \X Hooks

\* As commented: a completed effect is never invoked again; no crash, handover,
\* answer lost or hook sent again makes one take effect twice, as long as no
\* controller is overtaken at work.
CompletedNotRepeated ==
  ~overtaken => \A v \in Ventures, n \in Hooks : effect[v][n].times <= 1

\* The canary bounds the damage, also of controllers that overtake each other: no
\* hook of a venture takes effect before the record has reported every venture
\* before it as verified.
BlastRadius ==
  \A i, j \in DOMAIN Order :
    i < j /\ (\E n \in Hooks : effect[Order[j]][n].times > 0) => Order[i] \in recorded

AtRest == record.status \in {"paused", "completed"} /\ record.lease = None

\* At rest, an ended run tells the truth: a venture it reports as rolled back
\* serves the old version from the old files, and a verified one the new, unless
\* a controller was overtaken or a crash interrupted the compensation.
ResultIsTrue ==
  AtRest /\ ~overtaken => \A v \in Ventures :
    /\ record.results[v] = "rolled_back" => files[v] = "old" /\ deployed[v] = "old"
    /\ record.results[v] = "verified" /\ record.cps[v].phase["compensate"] = "none" =>
         /\ files[v] = "new"
         /\ "production" \in Hooks /\ v \in policy.deploys => deployed[v] = "new"

\* As documented: until the compensation, if any, has been observed a venture
\* is never reported as verified.
VerifiedNotCompensated ==
  \A v \in Ventures :
    record.results[v] = "verified" => effect[v]["compensate"].times = 0

\* The lock on disk is one that no checkpoint knows: the run cannot be resumed.
Stranded ==
  \E v \in Ventures :
    record.cps[v].open /\ files[v] # "old" /\ files[v] # record.cps[v].lock

\* A run ends, paused or completed, unless a crash has left a lock file that
\* its checkpoint does not know.
RunEnds == <>[](record.status \in {"paused", "completed"} \/ Stranded)
=============================================================================
