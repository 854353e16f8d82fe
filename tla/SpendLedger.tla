----------------------------- MODULE SpendLedger -----------------------------
(***************************************************************************)
(* The winner loop's spend ledger (lib/winner-loop/spend.ts) on its SQLite  *)
(* store (lib/winner-loop/spend-store.ts).                                 *)
(*                                                                         *)
(* Processes that share nothing but the database reserve money under the   *)
(* caps of a grant, let a provider spend it, and settle, release or mark    *)
(* the reservation for reconciliation; others read provider spending back, *)
(* halt grants and work off the obligations to pause campaigns.  A store    *)
(* operation is a transaction and one step; reads before it, provider calls *)
(* and crashes lie between the steps.                                      *)
(***************************************************************************)
EXTENDS Naturals, FiniteSets, Functions

CONSTANTS
  Procs,        \* processes, each busy with one call at a time
  Grants,
  Campaigns,
  Keys,         \* idempotency keys of reservations
  RequestsOf,   \* the requests a key is used for: [grant, campaign, amount]
  Total,        \* a grant's own cap
  Ceiling,      \* the cap a grant puts on everything its platform spends
  Pausable,     \* grants on a network with a campaign-pause adapter
  None,
  MaxFailures   \* transactions that throw, and crashes

Requests == [grant : Grants, campaign : Campaigns, amount : Nat \ {0}]

ASSUME SpendAssumption ==
  /\ \A k \in Keys : \A r \in RequestsOf[k] : r \in Requests
  /\ Total \in [Grants -> Nat] /\ Ceiling \in [Grants -> Nat]
  /\ Pausable \subseteq Grants
  /\ None \notin Keys /\ None \notin Grants /\ None \notin Campaigns
  /\ MaxFailures \in Nat

VARIABLES
  grants,    \* registered grants
  halted,    \* halted grants
  res,       \* the reservation made under each key
  pauses,    \* pause obligations, by grant and campaign (None: no campaign known)
  job,       \* each process's call
  charged,   \* history: what the provider really spent for each key
  late,      \* keys whose request is on its way though nobody waits for it
  asked,     \* history: pause requests sent
  paused,    \* campaigns the provider has paused
  failures   \* failures so far

ledger == <<grants, halted, res, pauses>>
world == <<charged, late, asked, paused>>
vars == <<ledger, job, world, failures>>

Targets == Campaigns \cup {None}
Unreserved == [status |-> "absent", request |-> None, settled |-> 0]
NoPause == [state |-> "none", tried |-> FALSE, incidents |-> {}]
Idle == [pc |-> "idle", key |-> None, amount |-> 0, done |-> FALSE, ofRun |-> FALSE,
         grant |-> None, targets |-> {}, state |-> "none"]

Init ==
  /\ grants = {} /\ halted = {} /\ late = {} /\ paused = {} /\ failures = 0
  /\ res = [k \in Keys |-> Unreserved]
  /\ pauses = [g \in Grants |-> [t \in Targets |-> NoPause]]
  /\ job = [p \in Procs |-> Idle]
  /\ charged = [k \in Keys |-> 0]
  /\ asked = [g \in Grants |-> [t \in Targets |-> 0]]

Goes(p, pc) == job' = [job EXCEPT ![p].pc = pc]
Ends(p) == job' = [job EXCEPT ![p] = Idle]
Status(k, status) == res' = [res EXCEPT ![k].status = status]

\* A new approval; caps of registered grants never change.
RegisterGrant(g) ==
  /\ g \notin grants
  /\ grants' = grants \cup {g}
  /\ UNCHANGED <<halted, res, pauses, job, world, failures>>
-----------------------------------------------------------------------------
(* Reservations.                                                            *)

Reserved == {k \in Keys : res[k].status # "absent"}
Of(g) == {k \in Reserved : res[k].request.grant = g}

\* Mutant: money of unknown fate leaves the caps.
CountedKnown(k) ==
  CASE res[k].status = "settled" -> res[k].settled
    [] res[k].status = "held"    -> res[k].request.amount
    [] res[k].status \in {"absent", "pending", "released"} -> 0

\* What a reservation takes from the caps: promised money counts like spent money.
Counted(k) ==
  CASE res[k].status = "settled"            -> res[k].settled
    [] res[k].status \in {"held", "pending"} -> res[k].request.amount
    [] res[k].status \in {"absent", "released"} -> 0

Consumed(keys) == SumFunctionOnSet([k \in Keys |-> Counted(k)], keys)

\* Every cap must hold the amount; a platform's is the lowest any grant sets.
WithinCaps(r) ==
  /\ Consumed(Of(r.grant)) + r.amount <= Total[r.grant]
  /\ \A g \in grants : Consumed(Reserved) + r.amount <= Ceiling[g]

\* reserveAtomically's answer: replay before halt before caps.
Verdict(k, r) ==
  CASE res[k].status # "absent" /\ res[k].request = r                      -> "replay"
    [] res[k].status # "absent" /\ res[k].request # r                      -> "conflict"
    [] res[k].status = "absent" /\ r.grant \in halted                      -> "halted"
    [] res[k].status = "absent" /\ r.grant \notin halted /\ ~WithinCaps(r) -> "cap_exceeded"
    [] res[k].status = "absent" /\ r.grant \notin halted /\ WithinCaps(r)  -> "created"

\* withReservation, until it calls the provider: only for a new reservation.
\* A replay returns the settled result or is refused, and changes nothing.
Reserve(p) ==
  /\ job[p].pc = "idle"
  /\ \E k \in Keys : \E r \in RequestsOf[k] :
       /\ r.grant \in grants /\ Verdict(k, r) = "created"
       /\ res' = [res EXCEPT ![k] = [status |-> "held", request |-> r, settled |-> 0]]
       /\ job' = [job EXCEPT ![p] = [Idle EXCEPT !.pc = "running", !.key = k, !.ofRun = TRUE]]
  /\ UNCHANGED <<grants, halted, pauses, world, failures>>

\* The provider spends: the amount approved, less or more.
Spends(k) ==
  \E a \in {res[k].request.amount - 1, res[k].request.amount, res[k].request.amount + 1} \ {0} :
    charged' = [charged EXCEPT ![k] = @ + a]

ProviderSpends(p) ==
  /\ job[p].pc = "running" /\ ~job[p].done
  /\ Spends(job[p].key)
  /\ job' = [job EXCEPT ![p].done = TRUE]
  /\ UNCHANGED <<ledger, late, asked, paused, failures>>

LateSpending(k) ==
  /\ k \in late
  /\ Spends(k)
  /\ late' = late \ {k}
  /\ UNCHANGED <<ledger, job, asked, paused, failures>>

\* A request not carried out yet may still be.
Abandoned(p) == IF job[p].pc = "running" /\ ~job[p].done THEN {job[p].key} ELSE {}

\* The adapter returns what was spent; settle finds the reservation still held.
RunReturns(p) ==
  /\ job[p].pc = "running" /\ job[p].done
  /\ IF res[job[p].key].status = "held"
       THEN job' = [job EXCEPT ![p].pc = "settling", ![p].amount = charged[job[p].key]]
       ELSE Ends(p)
  /\ UNCHANGED <<ledger, world, failures>>

\* ProviderOperationError("confirmed_no_write").
RunRefused(p) ==
  /\ job[p].pc = "running" /\ ~job[p].done
  /\ Goes(p, "releasing")
  /\ UNCHANGED <<ledger, world, failures>>

\* Every other error: the outcome is unknown.
RunUnknown(p) ==
  /\ job[p].pc = "running"
  /\ Goes(p, "marking")
  /\ late' = late \cup Abandoned(p)
  /\ UNCHANGED <<ledger, charged, asked, paused, failures>>

Release(p) ==
  /\ job[p].pc = "releasing"
  /\ IF res[job[p].key].status = "held" THEN Status(job[p].key, "released") ELSE UNCHANGED res
  /\ Ends(p)
  /\ UNCHANGED <<grants, halted, pauses, world, failures>>

\* Mutant: an unknown outcome gives the money back.
UnknownReleased == "released"
\* Mutant: a status that no reader of the ledger knows.
UnknownNamed == "unknown"
\* Where a reservation of unknown outcome goes: it keeps its place in the caps.
UnknownStatus == "pending"

MarkPending(p) ==
  /\ job[p].pc = "marking"
  /\ IF res[job[p].key].status = "held" THEN Status(job[p].key, UnknownStatus) ELSE UNCHANGED res
  /\ Ends(p)
  /\ UNCHANGED <<grants, halted, pauses, world, failures>>

\* recordProviderSpend and reconcileProviderOutcome with what was spent.
ReadBack(p) ==
  /\ job[p].pc = "idle"
  /\ \E k \in Reserved :
       /\ charged[k] > 0 /\ res[k].status \in {"held", "pending"}
       /\ job' = [job EXCEPT ![p] = [Idle EXCEPT !.pc = "settling", !.key = k, !.amount = charged[k]]]
  /\ UNCHANGED <<ledger, world, failures>>

\* Nothing was spent for the key, and a request that is still out is lost.
ProvedAbsent(k) ==
  /\ charged[k] = 0 /\ late' = late \ {k}
  /\ \A p \in Procs : job[p].key = k => job[p].pc # "running"

\* reconcileProviderOutcome with "absent": for a reservation found pending.
ReconcileAbsent(p) ==
  /\ job[p].pc = "idle"
  /\ \E k \in Keys :
       /\ res[k].status = "pending" /\ ProvedAbsent(k)
       /\ job' = [job EXCEPT ![p] = [Idle EXCEPT !.pc = "absent", !.key = k]]
  /\ UNCHANGED <<ledger, charged, asked, paused, failures>>

ReleaseAbsent(p) ==
  /\ job[p].pc = "absent"
  /\ IF res[job[p].key].status = "pending" THEN Status(job[p].key, "released") ELSE UNCHANGED res
  /\ Ends(p)
  /\ UNCHANGED <<grants, halted, pauses, world, failures>>
-----------------------------------------------------------------------------
(* Obligations to pause campaigns.                                          *)

Executable(g, t) == g \in Pausable /\ t # None

\* upsertProviderPause: a new incident takes a verification back.
Queued(pause, g, t, incidents) ==
  [pause EXCEPT
     !.incidents = @ \cup incidents,
     !.state = CASE @ = "none" /\ Executable(g, t)  -> "pending"
                 [] @ = "none" /\ ~Executable(g, t) -> "blocked"
                 [] @ = "verified" /\ ~(incidents \subseteq pause.incidents) -> "accepted"
                 [] @ \in {"pending", "attempting", "accepted", "unknown", "failed", "blocked"} -> @
                 [] @ = "verified" /\ incidents \subseteq pause.incidents -> @]

\* updateProviderPauseObligation: only a verification replaces a verification.
Persisted(pause, state) ==
  IF pause.state # "verified" \/ state = "verified" THEN [pause EXCEPT !.state = state] ELSE pause
-----------------------------------------------------------------------------
(* settleAtomically.                                                        *)

\* Mutant: an overspend is one of the grant's total.
OverspentTotal(k, amount) == amount > Total[res[k].request.grant]
Overspent(k, amount) == amount > res[k].request.amount

\* Settlement, incident, halt and pause obligation are one transaction.
Settlement(k, amount) ==
  LET g == res[k].request.grant
      t == res[k].request.campaign
  IN /\ res' = [res EXCEPT ![k].status = "settled", ![k].settled = amount]
     /\ IF Overspent(k, amount)
          THEN /\ halted' = halted \cup {g}
               /\ pauses' = [pauses EXCEPT ![g][t] = Queued(@, g, t, {k})]
          ELSE UNCHANGED <<halted, pauses>>
     /\ UNCHANGED grants

Settles(p) ==
  IF res[job[p].key].status \in {"held", "pending"}
    THEN Settlement(job[p].key, job[p].amount) ELSE UNCHANGED ledger

Settle(p) ==
  /\ job[p].pc = "settling"
  /\ Settles(p)
  /\ Ends(p)
  /\ UNCHANGED <<world, failures>>

\* The transaction throws, before or after it is committed; a run whose
\* reservation is still held marks it.
SettleThrows(p) ==
  /\ job[p].pc = "settling" /\ failures < MaxFailures
  /\ failures' = failures + 1
  /\ Settles(p) \/ UNCHANGED ledger
  /\ IF job[p].ofRun THEN Goes(p, "marking") ELSE Ends(p)
  /\ UNCHANGED world
-----------------------------------------------------------------------------
(* Halting and pausing.                                                     *)

\* activateKillSwitch and revokeGrant.
Halt(g) ==
  /\ g \in grants /\ g \notin halted
  /\ halted' = halted \cup {g}
  /\ UNCHANGED <<grants, res, pauses, job, world, failures>>

\* queueAutoPause: the campaigns are listed before the transaction.
AutoPause(p) ==
  /\ job[p].pc = "idle"
  /\ \E g \in grants :
       LET known == {res[k].request.campaign : k \in {q \in Of(g) : res[q].status # "released"}} IN
         job' = [job EXCEPT ![p] = [Idle EXCEPT !.pc = "halting", !.grant = g,
                                    !.targets = IF known = {} THEN {None} ELSE known]]
  /\ UNCHANGED <<ledger, world, failures>>

\* haltAndQueueProviderPauses, with the auto-pause's own incident.
HaltAndQueue(p) ==
  /\ job[p].pc = "halting"
  /\ LET g == job[p].grant IN
       /\ halted' = halted \cup {g}
       /\ pauses' = [pauses EXCEPT ![g] = [t \in Targets |->
            IF t \in job[p].targets THEN Queued(@[t], g, t, {None}) ELSE @[t]]]
  /\ Ends(p)
  /\ UNCHANGED <<grants, res, world, failures>>

Target(p) == CHOOSE t \in job[p].targets : TRUE
Pause(p) == pauses[job[p].grant][Target(p)]
Persists(p, state) ==
  pauses' = [pauses EXCEPT ![job[p].grant][Target(p)] = Persisted(@, state)]

\* processProviderPause reads an obligation that is neither verified nor blocked
\* for want of a plan.
ProcessPause(p) ==
  /\ job[p].pc = "idle"
  /\ \E g \in grants, t \in Campaigns :
       /\ Executable(g, t) /\ pauses[g][t].state \notin {"none", "verified"}
       /\ job' = [job EXCEPT ![p] = [Idle EXCEPT !.pc = "planned", !.grant = g, !.targets = {t}]]
  /\ UNCHANGED <<ledger, world, failures>>

\* No adapter, an adapter that plans another request, a preflight not ready.
PauseUnready(p) ==
  /\ job[p].pc = "planned"
  /\ \E state \in {"pending", "failed"} : Persists(p, state)
  /\ Ends(p)
  /\ UNCHANGED <<grants, halted, res, world, failures>>

\* Mutant: the state stands for the attempts made.
ClaimableByState(pause) == pause.state = "pending"
\* claimProviderPauseAttempt: the first attempt is the only one.
Claimable(pause) == ~pause.tried /\ pause.state # "blocked"

Claim(p) ==
  /\ job[p].pc = "planned"
  /\ CASE Pause(p).state = "verified" -> Ends(p) /\ UNCHANGED <<pauses, asked>>
       [] Pause(p).state # "verified" /\ Claimable(Pause(p)) ->
            /\ pauses' = [pauses EXCEPT ![job[p].grant][Target(p)] =
                            [@ EXCEPT !.state = "attempting", !.tried = TRUE]]
            /\ asked' = [asked EXCEPT ![job[p].grant][Target(p)] = @ + 1]
            /\ Goes(p, "applying")
       [] Pause(p).state # "verified" /\ ~Claimable(Pause(p)) ->
            /\ job' = [job EXCEPT ![p].pc = "reading", ![p].state = Pause(p).state]
            /\ UNCHANGED <<pauses, asked>>
  /\ UNCHANGED <<grants, halted, res, charged, late, paused, failures>>

\* The provider carries the pause out, if it got it.
ProviderPauses(g, t) ==
  /\ asked[g][t] > 0 /\ <<g, t>> \notin paused
  /\ paused' = paused \cup {<<g, t>>}
  /\ UNCHANGED <<ledger, job, charged, late, asked, failures>>

ApplyAnswers(p) ==
  /\ job[p].pc = "applying"
  /\ \E s \in {"accepted", "unknown", "blocked", "failed"} :
       /\ Persists(p, s)
       /\ job' = [job EXCEPT ![p].pc = "reading", ![p].state = s]
  /\ UNCHANGED <<grants, halted, res, world, failures>>

\* The state a read-back or a reconciliation leads to.
ReadAs(seen, before) ==
  CASE seen = "matched"  -> "verified"
    [] seen = "conflict" -> "failed"
    [] seen = "blocked"  -> "blocked"
    [] seen \in {"missing", "unknown"} ->
         IF seen = "missing" /\ before \in {"failed", "blocked"} THEN before ELSE "unknown"

ReadPause(p) ==
  /\ job[p].pc = "reading"
  /\ \E seen \in {"matched", "missing", "conflict", "blocked", "unknown"} :
       /\ seen = "matched" => <<job[p].grant, Target(p)>> \in paused
       /\ job' = [job EXCEPT ![p].pc = "persisting", ![p].state = ReadAs(seen, @)]
  /\ UNCHANGED <<ledger, world, failures>>

PersistRead(p) ==
  /\ job[p].pc = "persisting"
  /\ Persists(p, job[p].state)
  /\ Ends(p)
  /\ UNCHANGED <<grants, halted, res, world, failures>>
-----------------------------------------------------------------------------
\* A process dies; the database keeps what was committed.
Crash(p) ==
  /\ job[p].pc # "idle" /\ failures < MaxFailures
  /\ failures' = failures + 1
  /\ late' = late \cup Abandoned(p)
  /\ Ends(p)
  /\ UNCHANGED <<ledger, charged, asked, paused>>

Step(p) ==
  \/ Reserve(p) \/ ProviderSpends(p) \/ RunReturns(p) \/ RunRefused(p) \/ RunUnknown(p)
  \/ Release(p) \/ MarkPending(p) \/ ReadBack(p) \/ ReconcileAbsent(p) \/ ReleaseAbsent(p)
  \/ Settle(p) \/ SettleThrows(p) \/ AutoPause(p) \/ HaltAndQueue(p) \/ ProcessPause(p)
  \/ PauseUnready(p) \/ Claim(p) \/ ApplyAnswers(p) \/ ReadPause(p)
  \/ PersistRead(p) \/ Crash(p)

Next ==
  \/ \E p \in Procs : Step(p)
  \/ \E g \in Grants : RegisterGrant(g) \/ Halt(g)
  \/ \E k \in Keys : LateSpending(k)
  \/ \E g \in Grants, t \in Campaigns : ProviderPauses(g, t)

Spec == Init /\ [][Next]_vars
-----------------------------------------------------------------------------
TypeOK ==
  /\ grants \subseteq Grants /\ halted \subseteq grants
  /\ \A k \in Keys :
       /\ res[k].status \in {"absent", "held", "pending", "settled", "released"}
       /\ res[k].request \in RequestsOf[k] \/ res[k] = Unreserved
       /\ res[k].settled \in Nat /\ charged[k] \in Nat
  /\ \A g \in Grants, t \in Targets :
       /\ pauses[g][t].state \in {"none", "pending", "attempting", "accepted", "unknown",
                                  "failed", "blocked", "verified"}
       /\ pauses[g][t].tried \in BOOLEAN
       /\ pauses[g][t].incidents \subseteq Keys \cup {None}
       /\ asked[g][t] \in Nat
  /\ late \subseteq Keys /\ paused \subseteq Grants \X Campaigns

Excess(k) ==
  IF res[k].status = "settled" /\ res[k].settled > res[k].request.amount
    THEN res[k].settled - res[k].request.amount ELSE 0
Approved(keys) == SumFunctionOnSet([k \in Keys |-> Counted(k) - Excess(k)], keys)

\* The sum of concurrent reservations, late settlements and releases never
\* passes a cap, but for what providers charged above a reservation; a grant
\* that lowers its platform's ceiling binds the others once it has reserved.
WithinBudget ==
  \A g \in grants : Of(g) # {} =>
    /\ Approved(Of(g)) <= Total[g]
    /\ Approved(Reserved) <= Ceiling[g]

\* The ledger's account is the real one: what a provider spent is never given
\* back to the caps and is settled at its real value, once.
SpendIsAccounted ==
  \A k \in Keys :
    /\ res[k].status \in {"absent", "released"} => charged[k] = 0 /\ k \notin late
    /\ res[k].status = "settled" => charged[k] = res[k].settled

\* An overspend, however it is reported and whatever dies afterwards, leaves
\* the grant halted and an obligation to pause the campaign, with its incident.
OverspendHalts ==
  \A k \in Reserved : Excess(k) > 0 =>
    /\ res[k].request.grant \in halted
    /\ k \in pauses[res[k].request.grant][res[k].request.campaign].incidents

\* A campaign is asked to pause at most once, by whichever process, and counts
\* as paused only when the provider was seen to have paused it.
PausedOnceAndSeen ==
  \A g \in Grants, t \in Targets :
    /\ asked[g][t] <= 1
    /\ pauses[g][t].state = "verified" => <<g, t>> \in paused
=============================================================================
