------------------------ MODULE FleetRolloutProofs ------------------------
(***************************************************************************)
(* Proofs about FleetRollout, for every plan and order: its types, that the *)
(* canary bounds the damage, that no hook takes effect twice until a        *)
(* controller is overtaken at work, and that an ended run tells the truth.  *)
(*                                                                         *)
(* The argument: whatever controllers overtake each other, each follows     *)
(* only ventures that the record has reported as verified (BlastInv).       *)
(* Until one is overtaken at most one controller works, the one the record  *)
(* is leased to, and its copy is the record.  So a phase whose hook is on   *)
(* its way or has taken effect is at least recorded as prepared, and a      *)
(* prepared one is invoked again only when nobody carries it out            *)
(* (FleetInv).  On top of that the record tells what the plan has done to a *)
(* venture, in its order (TruthInv).                                        *)
(***************************************************************************)
EXTENDS FleetRollout, TLAPS

Results == {"none", "verified", "waiting", "rolled_back", "forward_fix"}
PhaseStates == {"none", "prepared", "passed", "failed"}

\* Where a controller that has no lease is, and one that works on a venture.
Resting == {"idle", "creating", "leasing"}
Upgrading ==
  {"step", "invoking", "upgrading", "upgraded", "lock_kept", "locking", "locked", "lock_known",
   "failing", "compensated", "restoring", "result"}
\* Within a phase of the plan's.
InPhase == {"upgrading", "upgraded", "lock_kept", "locking", "locked", "lock_known"}

Controls ==
  [pc : Resting \cup Upgrading \cup {"next", "pausing"}, mem : Records,
   at : 1..Len(Order) + 1, step : 1..Len(Plan) + 1, hook : Hooks \cup {"none"},
   done : BOOLEAN, result : Results]

\* Where a controller's counters point within the order and the plan.
Placed(k) ==
  /\ k.pc \in Upgrading \cup {"pausing"} => k.at \in DOMAIN Order
  /\ k.pc \in InPhase => k.step \in DOMAIN Plan
  /\ k.pc = "invoking" =>
       k.hook \in Hooks /\ (k.hook = "compensate" \/ k.step \in DOMAIN Plan)

Typed ==
  /\ record \in Records /\ live \in BOOLEAN
  /\ ctl \in [Controllers -> Controls] /\ \A c \in Controllers : Placed(ctl[c])
  /\ files \in [Ventures -> {"old", "candidate", "new"}]
  /\ effect \in [Ventures -> [Hooks -> [times : Nat, passed : BOOLEAN]]]
  /\ deployed \in [Ventures -> {"old", "new"}]
  /\ late \subseteq Ventures \X Hooks
  /\ troubles \in Nat /\ policy \in [automatic : SUBSET Ventures, deploys : SUBSET Ventures]

Works(c) == ctl[c].pc \notin Resting

\* The controller that works holds the lease, and its copy is the record.
Holds(c) == Works(c) => record.lease = c /\ ctl[c].mem = record
\* It has found a run, and the ventures before the one it is at verified.
Follows(c) ==
  /\ ctl[c].pc \notin {"idle", "creating"} => record.status # "none"
  /\ Works(c) => \A i \in DOMAIN Order : i < ctl[c].at => record.results[Order[i]] = "verified"
  /\ ~Works(c) => ctl[c].at = 1
\* It works on an open checkpoint of a venture that is not verified yet.
OnOpen(c) ==
  ctl[c].pc \in Upgrading => record.cps[V(c)].open /\ record.results[V(c)] # "verified"

\* What the record says of a venture is opened in order.
NotBegun == record.status = "none" => record = [NewRun EXCEPT !.status = "none"]
Opened ==
  /\ \A v \in Ventures, n \in Hooks : record.cps[v].phase[n] # "none" => record.cps[v].open
  /\ \A i, j \in DOMAIN Order :
       i < j /\ record.cps[Order[j]].open => record.results[Order[i]] = "verified"

\* A controller that waits for a hook of a venture.
Invokes(c, v, n) == ctl[c].pc = "invoking" /\ V(c) = v /\ ctl[c].hook = n

\* A hook on its way, waited for or not, is recorded as prepared, is on its way
\* only once, and has not taken effect yet.
Once(v, n) ==
  /\ effect[v][n].times > 0 \/ <<v, n>> \in late => record.cps[v].phase[n] # "none"
  /\ \A c \in Controllers : Invokes(c, v, n) => record.cps[v].phase[n] = "prepared"
  /\ <<v, n>> \in late => effect[v][n].times = 0 /\ \A c \in Controllers : ~Invokes(c, v, n)
  /\ \A c \in Controllers : Invokes(c, v, n) /\ ~ctl[c].done => effect[v][n].times = 0
  /\ effect[v][n].times <= 1

FleetInv ==
  /\ Typed
  /\ \A c \in Controllers : Holds(c) /\ Follows(c) /\ OnOpen(c)
  /\ NotBegun /\ Opened
  /\ \A v \in Ventures, n \in Hooks : Once(v, n)
-----------------------------------------------------------------------------
(* Types.                                                                   *)

(* The positions of the order and of the plan.                              *)
LEMMA Bounds ==
  /\ Len(Order) \in Nat /\ DOMAIN Order = 1..Len(Order)
  /\ Len(Plan) \in Nat /\ DOMAIN Plan = 1..Len(Plan)
  /\ \A i \in DOMAIN Order : Order[i] \in Ventures
  /\ \A i \in DOMAIN Plan : Plan[i] \in Phases
  /\ Phases = Hooks \cup Local
BY FleetAssumption DEF Phases

(* What a controller that works on a venture reads.                         *)
LEMMA OnVenture ==
  ASSUME Typed, NEW c \in Controllers
  PROVE  /\ ctl[c] \in Controls /\ Placed(ctl[c]) /\ ctl[c].mem \in Records
         /\ ctl[c].pc \in Upgrading \cup {"pausing"} =>
              V(c) \in Ventures /\ Cp(c) \in Checkpoints /\ ctl[c].at \in 1..Len(Order)
<1>1. ctl[c] \in Controls /\ Placed(ctl[c]) /\ ctl[c].mem \in Records
  BY DEF Typed, Controls
<1>2. ASSUME ctl[c].pc \in Upgrading \cup {"pausing"}
      PROVE  V(c) \in Ventures /\ Cp(c) \in Checkpoints /\ ctl[c].at \in 1..Len(Order)
  <2>1. ctl[c].at \in DOMAIN Order
    BY <1>1, <1>2 DEF Placed
  <2>2. V(c) \in Ventures
    BY <2>1, Bounds DEF V
  <2> QED
    BY <1>1, <2>1, <2>2, Bounds DEF Cp, Records
<1> QED
  BY <1>1, <1>2

(* A checkpoint with a phase, a lock or a mark changed is one.              *)
LEMMA CheckpointChanged ==
  ASSUME NEW cp \in Checkpoints
  PROVE  /\ NoCheckpoint \in Checkpoints /\ [NoCheckpoint EXCEPT !.open = TRUE] \in Checkpoints
         /\ [cp EXCEPT !.touched = TRUE] \in Checkpoints
         /\ \A l \in {"old", "candidate", "new"} : [cp EXCEPT !.lock = l] \in Checkpoints
         /\ \A n \in Phases, s \in PhaseStates : [cp EXCEPT !.phase[n] = s] \in Checkpoints
  BY DEF Checkpoints, NoCheckpoint, PhaseStates

(* A record with a venture's checkpoint or result changed is one.           *)
LEMMA RecordChanged ==
  ASSUME NEW r \in Records, NEW v \in Ventures
  PROVE  /\ \A cp \in Checkpoints : [r EXCEPT !.cps[v] = cp] \in Records
         /\ \A s \in Results : [r EXCEPT !.results[v] = s] \in Records
  BY DEF Records, Results

(* A record that is leased to a controller, or ended, is one.               *)
LEMMA RecordEnded ==
  ASSUME NEW r \in Records
  PROVE  /\ \A c \in Controllers : [r EXCEPT !.lease = c] \in Records
         /\ \A s \in {"paused", "completed"} : [r EXCEPT !.status = s, !.lease = None] \in Records
  BY DEF Records

(* The first record, and the one nobody has created yet.                    *)
LEMMA FirstRecords == NewRun \in Records /\ [NewRun EXCEPT !.status = "none"] \in Records
<1>1. NoCheckpoint \in Checkpoints
  BY DEF NoCheckpoint, Checkpoints
<1> QED
  BY <1>1 DEF NewRun, Records

(* Where a controller goes.                                                 *)
LEMMA IdleTyped == Idle \in Controls /\ Placed(Idle) /\ Idle.pc = "idle"
<1>1. 1 \in 1..Len(Order) + 1 /\ 1 \in 1..Len(Plan) + 1
  BY Bounds
<1> QED
  BY <1>1, FirstRecords DEF Idle, Controls, Placed, Results, Resting, Upgrading, InPhase

(* A controller that goes to another pc keeps the rest.                     *)
LEMMA AtFacts ==
  ASSUME Typed, NEW c \in Controllers,
         NEW pc \in Resting \cup Upgrading \cup {"next", "pausing"}
  PROVE  LET k == At(c, pc) IN
           /\ k \in Controls /\ k.pc = pc /\ k.done = FALSE
           /\ k.at = ctl[c].at /\ k.step = ctl[c].step /\ k.mem = ctl[c].mem
           /\ k.hook = ctl[c].hook /\ k.result = ctl[c].result
  BY OnVenture DEF At, Controls

(* A controller that has done a step of the plan is at the next.            *)
LEMMA AfterFacts ==
  ASSUME Typed, NEW c \in Controllers, ctl[c].step \in DOMAIN Plan,
         ctl[c].at \in DOMAIN Order
  PROVE  LET k == After(c) IN
           /\ k \in Controls /\ Placed(k) /\ k.pc = "step" /\ k.at = ctl[c].at
           /\ k.step = ctl[c].step + 1 /\ k.mem = ctl[c].mem
<1>1. "step" \in Resting \cup Upgrading \cup {"next", "pausing"}
  BY DEF Upgrading
<1>2. ctl[c].step + 1 \in 1..Len(Plan) + 1
  BY Bounds
<1> DEFINE k == At(c, "step")
<1>3. k \in Controls /\ k.pc = "step" /\ k.at = ctl[c].at /\ k.step = ctl[c].step /\ k.mem = ctl[c].mem
  BY <1>1, AtFacts
<1>4. After(c) = [k EXCEPT !.step = k.step + 1]
  BY <1>3 DEF After
<1> HIDE DEF k
<1> QED
  BY <1>2, <1>3, <1>4 DEF Controls, Placed, Upgrading, InPhase

(* One controller moves.                                                    *)
LEMMA Moves ==
  ASSUME Typed, NEW c \in Controllers, NEW k \in Controls, Placed(k), ctl' = [ctl EXCEPT ![c] = k]
  PROVE  /\ ctl' \in [Controllers -> Controls] /\ \A d \in Controllers : Placed(ctl'[d])
         /\ ctl'[c] = k /\ \A d \in Controllers \ {c} : ctl'[d] = ctl[d]
  BY DEF Typed

(* A controller that only goes on.                                          *)
LEMMA GoesFacts ==
  ASSUME Typed, NEW c \in Controllers,
         NEW pc \in Resting \cup Upgrading \cup {"next", "pausing"}, Goes(c, pc),
         Placed([ctl[c] EXCEPT !.pc = pc])
  PROVE  /\ ctl' \in [Controllers -> Controls] /\ \A d \in Controllers : Placed(ctl'[d])
         /\ ctl'[c] = [ctl[c] EXCEPT !.pc = pc] /\ \A d \in Controllers \ {c} : ctl'[d] = ctl[d]
<1>1. [ctl[c] EXCEPT !.pc = pc] \in Controls
  BY OnVenture DEF Controls
<1>2. ctl' = [ctl EXCEPT ![c] = [ctl[c] EXCEPT !.pc = pc]]
  BY DEF Goes
<1> QED
  BY <1>1, <1>2, Moves

(* A controller that has come to a result.                                  *)
LEMMA EndsFacts ==
  ASSUME Typed, NEW c \in Controllers, NEW result \in Results, Ends(c, result),
         ctl[c].pc \in Upgrading
  PROVE  /\ ctl' \in [Controllers -> Controls] /\ \A d \in Controllers : Placed(ctl'[d])
         /\ ctl'[c] = [ctl[c] EXCEPT !.pc = "result", !.result = result]
         /\ \A d \in Controllers \ {c} : ctl'[d] = ctl[d]
<1> DEFINE k == [ctl[c] EXCEPT !.pc = "result", !.result = result]
<1>1. k \in Controls /\ Placed(k)
  BY OnVenture DEF Controls, Upgrading, InPhase, Placed
<1>2. ctl' = [ctl EXCEPT ![c] = k]
  BY OnVenture DEF Ends, Typed, Controls
<1> HIDE DEF k
<1>3. /\ ctl' \in [Controllers -> Controls] /\ \A d \in Controllers : Placed(ctl'[d])
      /\ ctl'[c] = k /\ \A d \in Controllers \ {c} : ctl'[d] = ctl[d]
  BY <1>1, <1>2, Moves
<1> QED
  BY <1>3 DEF k

(* A controller that gives up.                                              *)
LEMMA RejectsFacts ==
  ASSUME Typed, NEW c \in Controllers, Rejects(c)
  PROVE  /\ ctl' \in [Controllers -> Controls] /\ \A d \in Controllers : Placed(ctl'[d])
         /\ ctl'[c] = Idle /\ \A d \in Controllers \ {c} : ctl'[d] = ctl[d]
<1>1. ctl' = [ctl EXCEPT ![c] = Idle]
  BY DEF Rejects
<1> QED
  BY <1>1, IdleTyped, Moves

(* A controller that saves its copy of the record, or finds it leased.      *)
LEMMA PersistsTyped ==
  ASSUME Typed, NEW c \in Controllers, NEW mem \in Records, NEW next \in Controls, Placed(next),
         Persists(c, mem, next)
  PROVE  /\ record' \in Records /\ live' \in BOOLEAN
         /\ ctl' \in [Controllers -> Controls] /\ \A d \in Controllers : Placed(ctl'[d])
         /\ \A d \in Controllers \ {c} : ctl'[d] = ctl[d]
<1>1. CASE Leasable(c)
  <2>1. /\ record' = [mem EXCEPT !.lease = c] /\ live' = TRUE
        /\ ctl' = [ctl EXCEPT ![c] = [next EXCEPT !.mem = record']]
    BY <1>1 DEF Persists
  <2>2. record' \in Records
    BY <2>1, RecordEnded
  <2>3. [next EXCEPT !.mem = record'] \in Controls /\ Placed([next EXCEPT !.mem = record'])
    BY <2>2 DEF Controls, Placed
  <2> QED
    BY <2>1, <2>2, <2>3, Moves
<1>2. CASE ~Leasable(c)
  BY <1>2, RejectsFacts DEF Persists, Typed
<1> QED
  BY <1>1, <1>2

(* A controller that saves its venture's checkpoint.                        *)
LEMMA SavesTyped ==
  ASSUME Typed, NEW c \in Controllers, V(c) \in Ventures, NEW cp \in Checkpoints,
         NEW next \in Controls, Placed(next), SavesCp(c, cp, next)
  PROVE  /\ record' \in Records /\ live' \in BOOLEAN
         /\ ctl' \in [Controllers -> Controls] /\ \A d \in Controllers : Placed(ctl'[d])
         /\ \A d \in Controllers \ {c} : ctl'[d] = ctl[d]
<1> DEFINE mem == [ctl[c].mem EXCEPT !.cps[V(c)] = cp]
<1>1. mem \in Records
  BY OnVenture, RecordChanged
<1>2. Persists(c, mem, next)
  BY DEF SavesCp
<1> HIDE DEF mem
<1> QED
  BY <1>1, <1>2, PersistsTyped

(* What a controller does about a hook, as its types go.                    *)
LEMMA HookTyped ==
  ASSUME Typed, NEW c \in Controllers, NEW n \in HookAt(c)
  PROVE  /\ n \in Hooks /\ n \in Phases
         /\ ctl[c].pc \in Upgrading /\ (n = "compensate" \/ ctl[c].step \in DOMAIN Plan)
<1>1. n \in Hooks
  BY FleetAssumption DEF HookAt
<1>2. ctl[c].pc \in Upgrading
  BY DEF HookAt, OnPhase, InTurn, Upgrading
<1>3. n = "compensate" \/ ctl[c].step \in DOMAIN Plan
  <2>1. ctl[c].step \in 1..Len(Plan) + 1
    BY OnVenture DEF Controls
  <2>2. n = "compensate" \/ ctl[c].step <= Len(Plan)
    BY DEF HookAt, OnPhase, InTurn
  <2> QED
    BY <2>1, <2>2, Bounds
<1> QED
  BY <1>1, <1>2, <1>3 DEF Phases

(* Where a controller goes after a hook with a result.                      *)
LEMMA ContinuesFacts ==
  ASSUME Typed, NEW c \in Controllers, NEW n \in Hooks, NEW result \in PhaseStates,
         ctl[c].pc \in Upgrading, n = "compensate" \/ ctl[c].step \in DOMAIN Plan
  PROVE  LET k == Continues(c, n, result) IN
           /\ k \in Controls /\ Placed(k) /\ k.pc \in {"step", "failing", "compensated"}
           /\ k.at = ctl[c].at /\ k.mem = ctl[c].mem
<1>1. ctl[c].at \in DOMAIN Order
  BY OnVenture DEF Placed
<1> DEFINE k == Continues(c, n, result)
<1>2. CASE n = "compensate"
  <2>1. k = At(c, "compensated")
    BY <1>2 DEF Continues
  <2>2. "compensated" \in Resting \cup Upgrading \cup {"next", "pausing"}
    BY DEF Upgrading
  <2> DEFINE a == At(c, "compensated")
  <2>3. /\ a \in Controls /\ a.pc = "compensated" /\ a.at = ctl[c].at /\ a.mem = ctl[c].mem
    BY <2>2, AtFacts
  <2> HIDE DEF k
  <2> HIDE DEF a
  <2>4. Placed(a)
    BY <1>1, <2>3 DEF Placed, InPhase
  <2> QED
    BY <2>1, <2>3, <2>4 DEF k, a
<1>3. CASE n # "compensate" /\ result = "passed"
  <2>1. k = After(c)
    BY <1>3 DEF Continues
  <2> QED
    BY <1>1, <1>3, <2>1, AfterFacts
<1>4. CASE n # "compensate" /\ result # "passed"
  <2>1. k = At(c, "failing")
    BY <1>4 DEF Continues
  <2>2. "failing" \in Resting \cup Upgrading \cup {"next", "pausing"}
    BY DEF Upgrading
  <2> DEFINE a == At(c, "failing")
  <2>3. /\ a \in Controls /\ a.pc = "failing" /\ a.at = ctl[c].at /\ a.mem = ctl[c].mem
    BY <2>2, AtFacts
  <2> HIDE DEF k
  <2> HIDE DEF a
  <2>4. Placed(a)
    BY <1>1, <2>3 DEF Placed, InPhase
  <2> QED
    BY <2>1, <2>3, <2>4 DEF k, a
<1> QED
  BY <1>2, <1>3, <1>4

(* A controller that sets out to invoke a hook.                             *)
LEMMA InvokeFacts ==
  ASSUME Typed, NEW c \in Controllers, NEW n \in HookAt(c)
  PROVE  LET k == [At(c, "invoking") EXCEPT !.hook = n] IN
           /\ k \in Controls /\ Placed(k) /\ k.pc = "invoking" /\ k.hook = n /\ k.done = FALSE
           /\ k.at = ctl[c].at /\ k.step = ctl[c].step /\ k.mem = ctl[c].mem
<1>1. /\ n \in Hooks /\ ctl[c].pc \in Upgrading
      /\ n = "compensate" \/ ctl[c].step \in DOMAIN Plan
  BY HookTyped
<1>2. ctl[c].at \in DOMAIN Order
  BY <1>1, OnVenture DEF Placed
<1>3. "invoking" \in Resting \cup Upgrading \cup {"next", "pausing"}
  BY DEF Upgrading
<1> DEFINE k == At(c, "invoking")
<1>4. /\ k \in Controls /\ k.pc = "invoking" /\ k.done = FALSE /\ k.at = ctl[c].at
      /\ k.step = ctl[c].step /\ k.mem = ctl[c].mem
  BY <1>3, AtFacts
<1> HIDE DEF k
<1>5. LET i == [k EXCEPT !.hook = n] IN
        /\ i \in Controls /\ Placed(i) /\ i.pc = "invoking" /\ i.hook = n /\ i.done = FALSE
        /\ i.at = ctl[c].at /\ i.step = ctl[c].step /\ i.mem = ctl[c].mem
  BY <1>1, <1>2, <1>4 DEF Controls, Placed, InPhase
<1> QED
  BY <1>5 DEF k

(* Reading the record, creating it, leasing it, and its end.                *)
LEMMA StoreTyped ==
  ASSUME Typed, NEW c \in Controllers,
         Begin(c) \/ Create(c) \/ Lease(c) \/ Pause(c)
  PROVE  Typed'
<1>1. CASE Begin(c)
  <2> DEFINE pc == IF record.status = "none" THEN "creating" ELSE "leasing"
  <2>1. pc \in Resting \cup Upgrading \cup {"next", "pausing"} /\ pc \in Resting
    BY DEF Resting
  <2>2. Goes(c, pc) /\ UNCHANGED <<record, live, world>>
    BY <1>1 DEF Begin
  <2>3. Placed([ctl[c] EXCEPT !.pc = pc])
    BY <2>1, OnVenture DEF Placed, Controls, Resting, Upgrading, InPhase
  <2> HIDE DEF pc
  <2> QED
    BY <2>1, <2>2, <2>3, GoesFacts DEF Typed, world, outside
<1>2. CASE Create(c)
  <2>1. "leasing" \in Resting \cup Upgrading \cup {"next", "pausing"}
    BY DEF Resting
  <2>2. Goes(c, "leasing") /\ record' \in Records /\ UNCHANGED <<live, world>>
    BY <1>2, FirstRecords DEF Create, Typed
  <2>3. Placed([ctl[c] EXCEPT !.pc = "leasing"])
    BY OnVenture DEF Placed, Controls, Upgrading, InPhase
  <2> QED
    BY <2>1, <2>2, <2>3, GoesFacts DEF Typed, world, outside
<1>3. CASE Lease(c)
  <2>1. CASE Leasable(c)
    <3>1. /\ record' = [record EXCEPT !.lease = c] /\ live' = TRUE
          /\ ctl' = [ctl EXCEPT ![c].pc = "next", ![c].mem = record']
          /\ UNCHANGED outside
      BY <1>3, <2>1 DEF Lease
    <3>2. record' \in Records
      BY <3>1, RecordEnded DEF Typed
    <3> DEFINE k == [ctl[c] EXCEPT !.pc = "next", !.mem = record']
    <3>3. k \in Controls /\ Placed(k)
      BY <3>2, OnVenture DEF Placed, Controls, Upgrading, InPhase
    <3>4. ctl' = [ctl EXCEPT ![c] = k]
      BY <3>1, OnVenture DEF Controls, Typed
    <3> HIDE DEF k
    <3> QED
      BY <3>1, <3>2, <3>3, <3>4, Moves DEF Typed, world, outside
  <2>2. CASE ~Leasable(c)
    BY <1>3, <2>2, RejectsFacts DEF Lease, Typed, world, outside
  <2> QED
    BY <2>1, <2>2
<1>4. CASE Pause(c)
  <2>1. Rejects(c) /\ live' \in BOOLEAN /\ UNCHANGED world
    BY <1>4 DEF Pause, Finishes, Typed
  <2>2. record' = record \/ record' = [ctl[c].mem EXCEPT !.status = "paused", !.lease = None]
    BY <1>4 DEF Pause, Finishes
  <2>3. [ctl[c].mem EXCEPT !.status = "paused", !.lease = None] \in Records
    <3> DEFINE r == ctl[c].mem
    <3>1. r \in Records
      BY OnVenture
    <3> HIDE DEF r
    <3>2. [r EXCEPT !.status = "paused", !.lease = None] \in Records
      BY <3>1, RecordEnded
    <3> QED
      BY <3>2 DEF r
  <2> QED
    BY <2>1, <2>2, <2>3, RejectsFacts DEF Typed, world, outside
<1> QED
  BY <1>1, <1>2, <1>3, <1>4

(* One venture after the other, and its result.                             *)
LEMMA VentureTyped ==
  ASSUME Typed, NEW c \in Controllers, NextVenture(c) \/ SaveResult(c)
  PROVE  Typed'
<1>1. CASE NextVenture(c)
  <2>1. UNCHANGED world /\ ctl[c].pc = "next"
    BY <1>1 DEF NextVenture
  <2>2. CASE ctl[c].at > Len(Order) /\ Finishes(c, "completed")
    <3>1. Rejects(c) /\ live' \in BOOLEAN
      BY <2>2 DEF Finishes, Typed
    <3>2. record' \in Records
      BY ZenonT(60), <2>2, OnVenture, RecordEnded DEF Finishes, Typed
    <3> QED
      BY <2>1, <3>1, <3>2, RejectsFacts DEF Typed, world, outside
  <2>3. CASE ctl[c].at <= Len(Order) /\ ctl' = [ctl EXCEPT ![c].at = @ + 1] /\ UNCHANGED <<record, live>>
    <3> DEFINE k == [ctl[c] EXCEPT !.at = ctl[c].at + 1]
    <3>1. ctl[c].at + 1 \in 1..Len(Order) + 1
      BY <2>3, OnVenture, Bounds DEF Controls
    <3>2. k \in Controls /\ Placed(k)
      BY <2>1, <3>1, OnVenture DEF Placed, Controls, Upgrading, InPhase
    <3>3. ctl' = [ctl EXCEPT ![c] = k]
      BY <2>3, OnVenture DEF Controls, Typed
    <3> HIDE DEF k
    <3> QED
      BY <2>1, <2>3, <3>2, <3>3, Moves DEF Typed, world, outside
  <2>4. ASSUME ctl[c].at <= Len(Order),
               LET first == [ctl[c] EXCEPT !.pc = "step", !.step = 1] IN
                 IF Cp(c).open THEN ctl' = [ctl EXCEPT ![c] = first] /\ UNCHANGED <<record, live>>
                               ELSE SavesCp(c, [NoCheckpoint EXCEPT !.open = TRUE], first)
        PROVE  Typed'
    <3> DEFINE first == [ctl[c] EXCEPT !.pc = "step", !.step = 1]
               cp == [NoCheckpoint EXCEPT !.open = TRUE]
    <3>1. ctl[c].at \in DOMAIN Order /\ 1 \in 1..Len(Plan) + 1
      BY <2>4, OnVenture, Bounds DEF Controls
    <3>2. V(c) \in Ventures /\ cp \in Checkpoints
      BY ZenonT(60), <3>1, Bounds, CheckpointChanged, OnVenture DEF V, NoCheckpoint, Checkpoints
    <3>3. first \in Controls /\ Placed(first)
      BY <3>1, OnVenture DEF Placed, Controls, Upgrading, InPhase
    <3>4. \/ ctl' = [ctl EXCEPT ![c] = first] /\ UNCHANGED <<record, live>>
          \/ SavesCp(c, cp, first)
      BY <2>4
    <3> HIDE DEF first, cp
    <3> QED
      BY <2>1, <3>2, <3>3, <3>4, Moves, SavesTyped DEF Typed, world, outside
  <2> QED
    BY <1>1, <2>2, <2>3, <2>4 DEF NextVenture
<1>2. CASE SaveResult(c)
  <2> DEFINE mem == [ctl[c].mem EXCEPT !.results[V(c)] = ctl[c].result]
             next == IF Pauses(ctl[c].result) THEN At(c, "pausing")
                     ELSE [At(c, "next") EXCEPT !.at = @ + 1]
  <2>1. UNCHANGED outside /\ ctl[c].pc = "result" /\ ctl[c].pc \in Upgrading /\ Persists(c, mem, next)
    BY <1>2 DEF SaveResult, Upgrading
  <2>2. mem \in Records
    BY <2>1, OnVenture, RecordChanged DEF Controls
  <2>3. At(c, "pausing") \in Controls /\ Placed(At(c, "pausing"))
    <3> DEFINE k == At(c, "pausing")
    <3>1. k \in Controls /\ k.pc = "pausing" /\ k.at = ctl[c].at
      BY AtFacts
    <3> HIDE DEF k
    <3>2. Placed(k)
      BY <2>1, <3>1, OnVenture, Bounds DEF Placed, InPhase
    <3> QED
      BY <3>1, <3>2 DEF k
  <2>4. [At(c, "next") EXCEPT !.at = @ + 1] \in Controls
        /\ Placed([At(c, "next") EXCEPT !.at = @ + 1])
    <3> DEFINE k == At(c, "next")
    <3>1. k \in Controls /\ k.pc = "next" /\ k.at = ctl[c].at
      BY AtFacts
    <3> HIDE DEF k
    <3>2. k.at + 1 \in 1..Len(Order) + 1
      BY <2>1, <3>1, OnVenture, Bounds
    <3>3. LET m == [k EXCEPT !.at = @ + 1] IN m \in Controls /\ Placed(m)
      BY <3>1, <3>2 DEF Controls, Placed, Upgrading, InPhase
    <3> QED
      BY <3>3 DEF k
  <2>5. next \in Controls /\ Placed(next)
    BY <2>3, <2>4
  <2> HIDE DEF mem, next
  <2> QED
    BY <2>1, <2>2, <2>5, PersistsTyped DEF Typed, world, outside
<1> QED
  BY <1>1, <1>2

(* A hook that takes effect does so once more, for its venture alone.       *)
LEMMA EffectFacts ==
  ASSUME Typed, NEW v \in Ventures, NEW n \in Hooks, TakesEffect(v, n)
  PROVE  /\ effect' \in [Ventures -> [Hooks -> [times : Nat, passed : BOOLEAN]]]
         /\ deployed' \in [Ventures -> {"old", "new"}]
         /\ effect'[v][n].times = effect[v][n].times + 1
         /\ \A w \in Ventures, m \in Hooks : <<w, m>> # <<v, n>> => effect'[w][m] = effect[w][m]
<1>1. PICK passed \in BOOLEAN :
        /\ effect' = [effect EXCEPT ![v][n] = [times |-> @.times + 1, passed |-> passed]]
        /\ \/ deployed' = [deployed EXCEPT ![v] = "new"]
           \/ deployed' = [deployed EXCEPT ![v] = "old"]
           \/ UNCHANGED deployed
  BY DEF TakesEffect
<1> DEFINE e == [times |-> effect[v][n].times + 1, passed |-> passed]
<1>2. effect[v] \in [Hooks -> [times : Nat, passed : BOOLEAN]] /\ effect[v][n].times \in Nat
  BY DEF Typed
<1>3. e \in [times : Nat, passed : BOOLEAN] /\ e.times = effect[v][n].times + 1
  BY <1>1, <1>2
<1>4. effect' = [effect EXCEPT ![v] = [effect[v] EXCEPT ![n] = e]]
  BY <1>1, <1>2 DEF Typed
<1> HIDE DEF e
<1>5. [effect[v] EXCEPT ![n] = e] \in [Hooks -> [times : Nat, passed : BOOLEAN]]
  BY <1>2, <1>3
<1>6. effect' \in [Ventures -> [Hooks -> [times : Nat, passed : BOOLEAN]]]
  BY <1>4, <1>5 DEF Typed
<1>7. deployed' \in [Ventures -> {"old", "new"}]
  BY <1>1 DEF Typed
<1>8. effect'[v][n].times = effect[v][n].times + 1
  BY <1>2, <1>3, <1>4 DEF Typed
<1>9. \A w \in Ventures, m \in Hooks : <<w, m>> # <<v, n>> => effect'[w][m] = effect[w][m]
  BY <1>2, <1>4 DEF Typed
<1> QED
  BY <1>6, <1>7, <1>8, <1>9

(* The hooks.                                                               *)
LEMMA HooksTyped ==
  ASSUME Typed, NEW c \in Controllers, RunHook(c) \/ HookActs(c) \/ HookAnswers(c)
  PROVE  Typed'
<1>1. CASE RunHook(c)
  <2>1. UNCHANGED <<files, effect, deployed, late, policy>>
    BY <1>1 DEF RunHook
  <2>2. PICK n \in HookAt(c) :
          LET state == Cp(c).phase[n]
              invoke == [At(c, "invoking") EXCEPT !.hook = n]
          IN \/ /\ state \in {"passed", "failed"}
                /\ ctl' = [ctl EXCEPT ![c] = Continues(c, n, state)]
                /\ UNCHANGED <<record, live, troubles>>
             \/ /\ LET result == Result(effect[V(c)][n].passed)
                   IN SavesPhase(c, n, result, Continues(c, n, result))
                /\ UNCHANGED troubles
             \/ /\ SavesPhase(c, n, "prepared", invoke)
                /\ UNCHANGED troubles
             \/ /\ Trouble(1)
                /\ Rejects(c) /\ UNCHANGED <<record, live>>
    BY <1>1 DEF RunHook
  <2>3. /\ n \in Hooks /\ n \in Phases /\ ctl[c].pc \in Upgrading
        /\ n = "compensate" \/ ctl[c].step \in DOMAIN Plan
    BY HookTyped
  <2>4. V(c) \in Ventures /\ Cp(c) \in Checkpoints
    BY <2>3, OnVenture
  <2>5. ASSUME NEW s \in PhaseStates
        PROVE  [Cp(c) EXCEPT !.phase[n] = s] \in Checkpoints
               /\ Continues(c, n, s) \in Controls /\ Placed(Continues(c, n, s))
    BY <2>3, <2>4, CheckpointChanged, ContinuesFacts
  <2>6. Result(effect[V(c)][n].passed) \in PhaseStates
    BY DEF Result, PhaseStates
  <2>7. CASE /\ Cp(c).phase[n] \in {"passed", "failed"}
             /\ ctl' = [ctl EXCEPT ![c] = Continues(c, n, Cp(c).phase[n])]
             /\ UNCHANGED <<record, live, troubles>>
    <3>1. Cp(c).phase[n] \in PhaseStates
      BY <2>7 DEF PhaseStates
    <3> QED
      BY <2>1, <2>5, <2>7, <3>1, Moves DEF Typed
  <2>8. CASE /\ LET result == Result(effect[V(c)][n].passed)
                IN SavesPhase(c, n, result, Continues(c, n, result))
             /\ UNCHANGED troubles
    <3> DEFINE result == Result(effect[V(c)][n].passed)
    <3>1. SavesCp(c, [Cp(c) EXCEPT !.phase[n] = result], Continues(c, n, result))
      BY <2>8 DEF SavesPhase
    <3> HIDE DEF result
    <3>2. result \in PhaseStates
      BY <2>6 DEF result
    <3> DEFINE cp == [Cp(c) EXCEPT !.phase[n] = result]
               next == Continues(c, n, result)
    <3>3. cp \in Checkpoints /\ next \in Controls /\ Placed(next)
      BY <2>5, <3>2
    <3> HIDE DEF cp, next
    <3> QED
      BY <2>1, <2>4, <2>8, <3>1, <3>3, SavesTyped DEF Typed, cp, next
  <2>9. CASE /\ SavesPhase(c, n, "prepared", [At(c, "invoking") EXCEPT !.hook = n])
             /\ UNCHANGED troubles
    <3> DEFINE cp == [Cp(c) EXCEPT !.phase[n] = "prepared"]
               next == [At(c, "invoking") EXCEPT !.hook = n]
    <3>1. SavesCp(c, cp, next)
      BY <2>9 DEF SavesPhase
    <3>2. next \in Controls /\ Placed(next)
      BY InvokeFacts
    <3>3. cp \in Checkpoints
      BY <2>3, <2>4, CheckpointChanged DEF PhaseStates
    <3> HIDE DEF cp, next
    <3> QED
      BY <2>1, <2>4, <2>9, <3>1, <3>2, <3>3, SavesTyped DEF Typed
  <2>10. CASE /\ Trouble(1)
              /\ Rejects(c) /\ UNCHANGED <<record, live>>
    <3>1. troubles' \in Nat
      BY <2>10 DEF Trouble, Typed
    <3> QED
      BY <2>1, <2>10, <3>1, RejectsFacts DEF Typed
  <2> QED
    BY <2>2, <2>7, <2>8, <2>9, <2>10
<1>2. CASE HookActs(c)
  <2>1. /\ ctl[c].pc = "invoking" /\ TakesEffect(V(c), ctl[c].hook)
        /\ ctl' = [ctl EXCEPT ![c].done = TRUE]
        /\ UNCHANGED <<record, live, files, late, troubles, policy>>
    BY <1>2 DEF HookActs
  <2>2. [ctl[c] EXCEPT !.done = TRUE] \in Controls /\ Placed([ctl[c] EXCEPT !.done = TRUE])
    BY OnVenture DEF Controls, Placed
  <2>3. ctl' = [ctl EXCEPT ![c] = [ctl[c] EXCEPT !.done = TRUE]]
    BY <2>1, OnVenture DEF Typed, Controls
  <2>4. V(c) \in Ventures /\ ctl[c].hook \in Hooks
    BY <2>1, OnVenture DEF Upgrading, Placed
  <2>5. /\ effect' \in [Ventures -> [Hooks -> [times : Nat, passed : BOOLEAN]]]
        /\ deployed' \in [Ventures -> {"old", "new"}]
    BY <2>1, <2>4, EffectFacts
  <2> QED
    BY <2>1, <2>2, <2>3, <2>4, <2>5, Moves DEF Typed
<1>3. CASE HookAnswers(c)
  <2> DEFINE n == ctl[c].hook
             result == Result(effect[V(c)][n].passed)
             cp == [Cp(c) EXCEPT !.phase[n] = result]
             next == Continues(c, n, result)
  <2>1. ctl[c].pc = "invoking" /\ SavesCp(c, cp, next) /\ UNCHANGED world
    BY <1>3 DEF HookAnswers, SavesPhase
  <2>2. ctl[c].pc \in Upgrading
    BY <2>1 DEF Upgrading
  <2>3. n \in Hooks /\ (n = "compensate" \/ ctl[c].step \in DOMAIN Plan)
    BY <2>1, OnVenture DEF Placed
  <2>4. result \in PhaseStates
    BY DEF Result, PhaseStates
  <2>5. V(c) \in Ventures /\ Cp(c) \in Checkpoints /\ n \in Phases
    BY <2>2, <2>3, OnVenture DEF Phases
  <2> HIDE DEF n, result
  <2>6. cp \in Checkpoints /\ next \in Controls /\ Placed(next)
    BY <2>2, <2>3, <2>4, <2>5, CheckpointChanged, ContinuesFacts
  <2> HIDE DEF cp, next
  <2> QED
    BY <2>1, <2>5, <2>6, SavesTyped DEF Typed, world, outside
<1> QED
  BY <1>1, <1>2, <1>3
-----------------------------------------------------------------------------
(* The controller's own phases: they leave every hook's phase as it is.     *)

Onward(c, k) ==
  /\ k \in Controls /\ Placed(k) /\ k.pc \in Upgrading \ {"invoking"}
  /\ k.at = ctl[c].at /\ k.mem = ctl[c].mem

GoesOn(c) ==
  /\ ctl[c].pc \in Upgrading \ {"invoking"}
  /\ \E k :
       /\ Onward(c, k)
       /\ \/ ctl' = [ctl EXCEPT ![c] = k] /\ UNCHANGED <<record, live>>
          \/ \E cp \in Checkpoints :
               /\ SavesCp(c, cp, k) /\ cp.open = Cp(c).open
               /\ \A n \in Hooks : cp.phase[n] = Cp(c).phase[n]
  /\ files' \in [Ventures -> {"old", "candidate", "new"}]
  /\ UNCHANGED <<effect, deployed, late, troubles, policy, past>>

(* At another pc it is on its way within the venture.                       *)
LEMMA OnwardAt ==
  ASSUME Typed, NEW c \in Controllers, ctl[c].pc \in Upgrading,
         NEW pc \in Upgrading \ {"invoking"}, pc \in InPhase => ctl[c].step \in DOMAIN Plan
  PROVE  Onward(c, At(c, pc))
<1> DEFINE k == At(c, pc)
<1>1. k \in Controls /\ k.pc = pc /\ k.at = ctl[c].at /\ k.step = ctl[c].step /\ k.mem = ctl[c].mem
  BY ZenonT(60), AtFacts
<1> HIDE DEF k
<1>2. Onward(c, k)
  BY <1>1, OnVenture DEF Onward, Placed
<1> QED
  BY <1>2 DEF k

(* So it is at the next step of the plan,                                   *)
LEMMA OnwardAfter ==
  ASSUME Typed, NEW c \in Controllers, ctl[c].pc \in Upgrading, ctl[c].step \in DOMAIN Plan
  PROVE  Onward(c, After(c))
  BY AfterFacts, OnVenture DEF Onward, Placed, Upgrading

(* when it only goes on,                                                    *)
LEMMA OnwardGoes ==
  ASSUME Typed, NEW c \in Controllers, ctl[c].pc \in Upgrading,
         NEW pc \in Upgrading \ {"invoking"}, pc \in InPhase => ctl[c].step \in DOMAIN Plan,
         Goes(c, pc)
  PROVE  \E k : Onward(c, k) /\ ctl' = [ctl EXCEPT ![c] = k]
<1> DEFINE k == [ctl[c] EXCEPT !.pc = pc]
<1>1. Onward(c, k)
  BY OnVenture DEF Onward, Placed, Controls
<1>2. ctl' = [ctl EXCEPT ![c] = k]
  BY DEF Goes
<1> QED
  BY <1>1, <1>2

(* and when it has come to a result.                                        *)
LEMMA OnwardEnds ==
  ASSUME Typed, NEW c \in Controllers, ctl[c].pc \in Upgrading,
         NEW result \in Results, Ends(c, result)
  PROVE  \E k : Onward(c, k) /\ ctl' = [ctl EXCEPT ![c] = k]
<1> DEFINE k == [ctl[c] EXCEPT !.pc = "result", !.result = result]
<1>1. Onward(c, k)
  BY OnVenture DEF Onward, Placed, Controls, Upgrading, InPhase
<1>2. ctl' = [ctl EXCEPT ![c] = k]
  BY OnVenture DEF Ends, Typed, Controls
<1> QED
  BY <1>1, <1>2

(* A phase of the controller's own that is saved.                           *)
LEMMA SavesOwnPhase ==
  ASSUME Typed, NEW c \in Controllers, ctl[c].pc \in Upgrading, NEW n \in Local,
         NEW s \in PhaseStates, NEW k, SavesPhase(c, n, s, k)
  PROVE  \E cp \in Checkpoints :
           /\ SavesCp(c, cp, k) /\ cp.open = Cp(c).open
           /\ \A h \in Hooks : cp.phase[h] = Cp(c).phase[h]
<1> DEFINE cp == [Cp(c) EXCEPT !.phase[n] = s]
<1>1. SavesCp(c, cp, k)
  BY DEF SavesPhase
<1>2. Cp(c) \in Checkpoints /\ n \in Phases
  BY OnVenture DEF Phases
<1>3. cp \in Checkpoints
  BY <1>2, CheckpointChanged
<1>4. cp.open = Cp(c).open /\ \A h \in Hooks : cp.phase[h] = Cp(c).phase[h]
  BY <1>2, FleetAssumption DEF Checkpoints
<1> HIDE DEF cp
<1> QED
  BY <1>1, <1>3, <1>4

(* The lock that is saved in a checkpoint is no phase of a hook.            *)
LEMMA SavesLock ==
  ASSUME Typed, NEW c \in Controllers, ctl[c].pc \in Upgrading,
         NEW l \in {"candidate", "new"}, NEW k, SavesCp(c, [Cp(c) EXCEPT !.lock = l], k)
  PROVE  \E cp \in Checkpoints :
           /\ SavesCp(c, cp, k) /\ cp.open = Cp(c).open
           /\ \A h \in Hooks : cp.phase[h] = Cp(c).phase[h]
<1> DEFINE cp == [Cp(c) EXCEPT !.lock = l]
<1>1. cp \in Checkpoints /\ cp.open = Cp(c).open /\ \A h \in Hooks : cp.phase[h] = Cp(c).phase[h]
  BY OnVenture DEF Checkpoints
<1> QED
  BY <1>1

(* Nor is the mark that production was touched.                             *)
LEMMA SavesTouch ==
  ASSUME Typed, NEW c \in Controllers, ctl[c].pc \in Upgrading,
         NEW k, SavesCp(c, [Cp(c) EXCEPT !.touched = TRUE], k)
  PROVE  \E cp \in Checkpoints :
           /\ SavesCp(c, cp, k) /\ cp.open = Cp(c).open
           /\ \A h \in Hooks : cp.phase[h] = Cp(c).phase[h]
<1> DEFINE cp == [Cp(c) EXCEPT !.touched = TRUE]
<1>1. cp \in Checkpoints /\ cp.open = Cp(c).open /\ \A h \in Hooks : cp.phase[h] = Cp(c).phase[h]
  BY OnVenture DEF Checkpoints
<1> QED
  BY <1>1

\* A checkpoint saved as it is.
LEMMA SavesSame ==
  ASSUME Typed, NEW c \in Controllers, ctl[c].pc \in Upgrading,
         NEW k, Persists(c, ctl[c].mem, k)
  PROVE  \E cp \in Checkpoints :
           /\ SavesCp(c, cp, k) /\ cp.open = Cp(c).open
           /\ \A h \in Hooks : cp.phase[h] = Cp(c).phase[h]
<1>1. Cp(c) \in Checkpoints /\ V(c) \in Ventures /\ ctl[c].mem \in Records
  BY OnVenture
<1>2. [ctl[c].mem EXCEPT !.cps[V(c)] = Cp(c)] = ctl[c].mem
  BY <1>1 DEF Cp, Records
<1>3. SavesCp(c, Cp(c), k)
  BY <1>2 DEF SavesCp
<1> QED
  BY <1>1, <1>3

(* Only the venture's files are written.                                    *)
LEMMA WritesTyped ==
  ASSUME Typed, NEW c \in Controllers, NEW content \in {"old", "candidate", "new"},
         Writes(c, content)
  PROVE  files' \in [Ventures -> {"old", "candidate", "new"}]
  BY DEF Typed, Writes

(* Where a controller is that has come to a phase.                          *)
LEMMA InTurnFacts ==
  ASSUME Typed, NEW c \in Controllers, NEW n, InTurn(c, n)
  PROVE  ctl[c].pc = "step" /\ ctl[c].pc \in Upgrading /\ ctl[c].step \in DOMAIN Plan
<1>1. ctl[c].step \in 1..Len(Plan) + 1
  BY OnVenture DEF Controls
<1> QED
  BY <1>1, Bounds DEF InTurn, Upgrading

(* and when the venture's policy asks for it.                               *)
LEMMA OnPhaseFacts ==
  ASSUME Typed, NEW c \in Controllers, NEW n, OnPhase(c, n)
  PROVE  /\ ctl[c].pc = "step" /\ ctl[c].pc \in Upgrading /\ ctl[c].step \in DOMAIN Plan
         /\ InTurn(c, n)
  BY InTurnFacts DEF OnPhase

OwnAction(c) ==
  \/ Reused(c) \/ PrepareUpgrade(c) \/ ApplyUpgrade(c) \/ SaveUpgrade(c) \/ MergeGate(c)
  \/ Touch(c) \/ ProductionReadBack(c) \/ PrepareLock(c) \/ WriteLock(c) \/ SaveLock(c)
  \/ Verify(c) \/ RollBack(c) \/ Compensated(c) \/ RestoreCompensated(c)

(* Every action of the controller's own goes on with the venture.           *)
LEMMA OwnActions ==
  ASSUME Typed, NEW c \in Controllers, OwnAction(c)
  PROVE  GoesOn(c)
<1>1. files \in [Ventures -> {"old", "candidate", "new"}]
  BY DEF Typed
<1> USE DEF world, outside
<1>2. CASE Reused(c)
  <2>1. PICK n \in {"upgrade", "lock"} \cup Production : InTurn(c, n)
    BY <1>2 DEF Reused, OnPhase
  <2>2. Onward(c, After(c)) /\ ctl[c].pc = "step"
    BY <2>1, InTurnFacts, OnwardAfter
  <2> QED
    BY <1>1, <1>2, <2>2 DEF Reused, GoesOn, Upgrading
<1>3. CASE PrepareUpgrade(c)
  <2>1. ctl[c].pc = "step" /\ ctl[c].pc \in Upgrading /\ ctl[c].step \in DOMAIN Plan
    BY <1>3, OnPhaseFacts DEF PrepareUpgrade
  <2>2. Onward(c, At(c, "upgrading"))
    BY <2>1, OnwardAt DEF Upgrading
  <2>3. SavesPhase(c, "upgrade", "prepared", At(c, "upgrading"))
        /\ UNCHANGED <<effect, deployed, late, troubles, policy, past>>
    BY <1>3 DEF PrepareUpgrade
  <2>4. files' \in [Ventures -> {"old", "candidate", "new"}]
    BY <1>1, <1>3, WritesTyped DEF PrepareUpgrade
  <2>5. \E cp \in Checkpoints :
          /\ SavesCp(c, cp, At(c, "upgrading")) /\ cp.open = Cp(c).open
          /\ \A h \in Hooks : cp.phase[h] = Cp(c).phase[h]
    BY <2>1, <2>3, SavesOwnPhase DEF Local, PhaseStates
  <2> QED
    BY <2>1, <2>2, <2>3, <2>4, <2>5 DEF GoesOn
<1>4. CASE ApplyUpgrade(c)
  <2>1. ctl[c].pc = "upgrading" /\ ctl[c].pc \in Upgrading /\ ctl[c].step \in DOMAIN Plan
    BY <1>4, OnVenture DEF ApplyUpgrade, Upgrading, InPhase, Placed
  <2>2. files' \in [Ventures -> {"old", "candidate", "new"}]
    BY <1>1, <1>4, WritesTyped DEF ApplyUpgrade
  <2>3. \E k : Onward(c, k) /\ ctl' = [ctl EXCEPT ![c] = k]
    <3>1. "upgraded" \in Upgrading \ {"invoking"} /\ "failing" \in Upgrading \ {"invoking"}
      BY DEF Upgrading
    <3> QED
      BY <1>4, <2>1, <3>1, OnwardGoes DEF ApplyUpgrade
  <2> QED
    BY <1>4, <2>1, <2>2, <2>3 DEF ApplyUpgrade, GoesOn
<1>5. CASE SaveUpgrade(c)
  <2>1. ctl[c].pc \in Upgrading \ {"invoking"} /\ ctl[c].step \in DOMAIN Plan
    BY <1>5, OnVenture DEF SaveUpgrade, Upgrading, InPhase, Placed
  <2>2. Onward(c, At(c, "lock_kept")) /\ Onward(c, After(c))
    BY <2>1, OnwardAt, OnwardAfter DEF Upgrading
  <2>3. \/ SavesCp(c, [Cp(c) EXCEPT !.lock = "candidate"], At(c, "lock_kept"))
        \/ SavesPhase(c, "upgrade", "passed", After(c))
    BY <1>5 DEF SaveUpgrade
  <2>4. \E k : Onward(c, k) /\ \E cp \in Checkpoints :
          /\ SavesCp(c, cp, k) /\ cp.open = Cp(c).open
          /\ \A h \in Hooks : cp.phase[h] = Cp(c).phase[h]
    <3>1. CASE SavesCp(c, [Cp(c) EXCEPT !.lock = "candidate"], At(c, "lock_kept"))
      BY <2>1, <2>2, <3>1, SavesLock
    <3>2. CASE SavesPhase(c, "upgrade", "passed", After(c))
      <4>1. \E cp \in Checkpoints :
              /\ SavesCp(c, cp, After(c)) /\ cp.open = Cp(c).open
              /\ \A h \in Hooks : cp.phase[h] = Cp(c).phase[h]
        BY <2>1, <3>2, SavesOwnPhase DEF Local, PhaseStates
      <4> QED
        BY <2>2, <4>1
    <3> QED
      BY <2>3, <3>1, <3>2
  <2> QED
    BY <1>1, <1>5, <2>1, <2>4 DEF SaveUpgrade, GoesOn
<1>6. CASE MergeGate(c)
  <2>1. ctl[c].pc = "step" /\ ctl[c].pc \in Upgrading /\ ctl[c].step \in DOMAIN Plan
    BY <1>6, OnPhaseFacts DEF MergeGate
  <2>2. \/ ctl' = [ctl EXCEPT ![c] = After(c)] /\ UNCHANGED files
        \/ Writes(c, "old") /\ Ends(c, "waiting")
    BY <1>6 DEF MergeGate
  <2>3. files' \in [Ventures -> {"old", "candidate", "new"}]
    BY <1>1, <2>2, WritesTyped
  <2>4. \E k : Onward(c, k) /\ ctl' = [ctl EXCEPT ![c] = k]
    BY <2>1, <2>2, OnwardAfter, OnwardEnds DEF Results
  <2> QED
    BY <1>6, <2>1, <2>3, <2>4 DEF MergeGate, GoesOn
<1>7. CASE Touch(c)
  <2>1. ctl[c].pc = "step" /\ ctl[c].pc \in Upgrading /\ ctl[c].step \in DOMAIN Plan
    BY <1>7, OnPhaseFacts DEF Touch
  <2>2. Onward(c, After(c))
    BY <2>1, OnwardAfter
  <2>3. \/ ctl' = [ctl EXCEPT ![c] = After(c)] /\ UNCHANGED <<record, live>>
        \/ \E cp \in Checkpoints :
             /\ SavesCp(c, cp, After(c)) /\ cp.open = Cp(c).open
             /\ \A h \in Hooks : cp.phase[h] = Cp(c).phase[h]
    BY <1>7, <2>1, SavesTouch DEF Touch
  <2> QED
    BY <1>1, <1>7, <2>1, <2>2, <2>3 DEF Touch, GoesOn
<1>8. CASE ProductionReadBack(c)
  <2>1. ctl[c].pc = "step" /\ ctl[c].pc \in Upgrading /\ ctl[c].step \in DOMAIN Plan
    BY <1>8, OnPhaseFacts DEF ProductionReadBack
  <2>2. Onward(c, After(c)) /\ Onward(c, At(c, "failing"))
    BY <2>1, OnwardAfter, OnwardAt DEF Upgrading, InPhase
  <2>3. \E k : Onward(c, k) /\ \E cp \in Checkpoints :
          /\ SavesCp(c, cp, k) /\ cp.open = Cp(c).open
          /\ \A h \in Hooks : cp.phase[h] = Cp(c).phase[h]
    BY <1>8, <2>1, <2>2, SavesOwnPhase DEF ProductionReadBack, Local, PhaseStates
  <2> QED
    BY <1>1, <1>8, <2>1, <2>3 DEF ProductionReadBack, GoesOn
<1>9. CASE PrepareLock(c)
  <2>1. ctl[c].pc = "step" /\ ctl[c].pc \in Upgrading /\ ctl[c].step \in DOMAIN Plan
    BY <1>9, OnPhaseFacts DEF PrepareLock
  <2>2. Onward(c, At(c, "locking"))
    BY <2>1, OnwardAt DEF Upgrading
  <2>3. \E k : Onward(c, k) /\ \E cp \in Checkpoints :
          /\ SavesCp(c, cp, k) /\ cp.open = Cp(c).open
          /\ \A h \in Hooks : cp.phase[h] = Cp(c).phase[h]
    BY <1>9, <2>1, <2>2, SavesOwnPhase DEF PrepareLock, Local, PhaseStates
  <2> QED
    BY <1>1, <1>9, <2>1, <2>3 DEF PrepareLock, GoesOn
<1>10. CASE WriteLock(c)
  <2>1. ctl[c].pc = "locking" /\ ctl[c].pc \in Upgrading /\ ctl[c].step \in DOMAIN Plan
    BY <1>10, OnVenture DEF WriteLock, Upgrading, InPhase, Placed
  <2>2. files' \in [Ventures -> {"old", "candidate", "new"}]
    BY <1>10, WritesTyped DEF WriteLock
  <2>3. "locked" \in Upgrading \ {"invoking"}
    BY DEF Upgrading
  <2>4. \E k : Onward(c, k) /\ ctl' = [ctl EXCEPT ![c] = k]
    BY <1>10, <2>1, <2>3, OnwardGoes DEF WriteLock
  <2> QED
    BY <1>10, <2>1, <2>2, <2>4 DEF WriteLock, GoesOn
<1>11. CASE SaveLock(c)
  <2>1. ctl[c].pc \in Upgrading \ {"invoking"} /\ ctl[c].step \in DOMAIN Plan
    BY <1>11, OnVenture DEF SaveLock, Upgrading, InPhase, Placed
  <2>2. Onward(c, At(c, "lock_known")) /\ Onward(c, After(c))
    BY <2>1, OnwardAt, OnwardAfter DEF Upgrading
  <2>3. \/ SavesCp(c, [Cp(c) EXCEPT !.lock = "new"], At(c, "lock_known"))
        \/ SavesPhase(c, "lock", "passed", After(c))
    BY <1>11 DEF SaveLock
  <2>4. \E k : Onward(c, k) /\ \E cp \in Checkpoints :
          /\ SavesCp(c, cp, k) /\ cp.open = Cp(c).open
          /\ \A h \in Hooks : cp.phase[h] = Cp(c).phase[h]
    <3>1. CASE SavesCp(c, [Cp(c) EXCEPT !.lock = "new"], At(c, "lock_known"))
      BY <2>1, <2>2, <3>1, SavesLock
    <3>2. CASE SavesPhase(c, "lock", "passed", After(c))
      <4>1. \E cp \in Checkpoints :
              /\ SavesCp(c, cp, After(c)) /\ cp.open = Cp(c).open
              /\ \A h \in Hooks : cp.phase[h] = Cp(c).phase[h]
        BY <2>1, <3>2, SavesOwnPhase DEF Local, PhaseStates
      <4> QED
        BY <2>2, <4>1
    <3> QED
      BY <2>3, <3>1, <3>2
  <2> QED
    BY <1>1, <1>11, <2>1, <2>4 DEF SaveLock, GoesOn
<1>12. CASE Verify(c)
  <2>1. ctl[c].pc \in Upgrading \ {"invoking"} /\ Ends(c, "verified")
    BY <1>12 DEF Verify, Upgrading
  <2>2. \E k : Onward(c, k) /\ ctl' = [ctl EXCEPT ![c] = k]
    BY <2>1, OnwardEnds DEF Results
  <2> QED
    BY <1>1, <1>12, <2>1, <2>2 DEF Verify, GoesOn
<1>13. CASE RollBack(c) \/ RestoreCompensated(c)
  <2>1. /\ ctl[c].pc \in Upgrading \ {"invoking"} /\ Ends(c, "rolled_back") /\ Writes(c, "old")
        /\ UNCHANGED <<record, live, effect, deployed, late, troubles, policy, past>>
    BY <1>13 DEF RollBack, RestoreCompensated, Upgrading
  <2>2. \E k : Onward(c, k) /\ ctl' = [ctl EXCEPT ![c] = k]
    BY <2>1, OnwardEnds DEF Results
  <2>3. files' \in [Ventures -> {"old", "candidate", "new"}]
    BY <2>1, WritesTyped
  <2> QED
    BY <2>1, <2>2, <2>3 DEF GoesOn
<1>14. CASE Compensated(c)
  <2>1. ctl[c].pc \in Upgrading \ {"invoking"} /\ UNCHANGED world
    BY <1>14 DEF Compensated, Upgrading
  <2> DEFINE forward == [At(c, "result") EXCEPT !.result = "forward_fix"]
  <2>2. \/ Persists(c, ctl[c].mem, At(c, "restoring"))
        \/ Persists(c, ctl[c].mem, forward)
        \/ Ends(c, "forward_fix") /\ UNCHANGED <<record, live>>
    BY <1>14 DEF Compensated
  <2>3. Onward(c, At(c, "restoring")) /\ Onward(c, At(c, "result"))
    BY <2>1, OnwardAt DEF Upgrading, InPhase
  <2>4. Onward(c, forward)
    BY <2>3 DEF Onward, Placed, Controls, Results
  <2> HIDE DEF forward
  <2>5. CASE Ends(c, "forward_fix") /\ UNCHANGED <<record, live>>
    BY <1>1, <2>1, <2>5, OnwardEnds DEF GoesOn, Results
  <2>6. ASSUME NEW k, Onward(c, k), Persists(c, ctl[c].mem, k) PROVE GoesOn(c)
    BY <1>1, <2>1, <2>6, SavesSame DEF GoesOn
  <2> QED
    BY <2>2, <2>3, <2>4, <2>5, <2>6
<1> QED
  BY <1>2, <1>3, <1>4, <1>5, <1>6, <1>7, <1>8, <1>9, <1>10, <1>11, <1>12, <1>13, <1>14
  DEF OwnAction

(* Types are kept by the controller's own actions.                          *)
LEMMA GoesOnTyped ==
  ASSUME Typed, NEW c \in Controllers, GoesOn(c)
  PROVE  Typed'
<1>1. V(c) \in Ventures
  BY OnVenture DEF GoesOn
<1> QED
  BY <1>1, Moves, SavesTyped DEF GoesOn, Onward, Typed

(* What is not a step of a working controller.                              *)
LEMMA AroundTyped ==
  ASSUME Typed,
         \/ \E c \in Controllers : HookThrows(c) \/ Crash(c)
         \/ \E v \in Ventures, n \in Hooks : LateEffect(v, n)
         \/ Expire \/ UNCHANGED vars
  PROVE  Typed'
<1>1. ASSUME NEW c \in Controllers, HookThrows(c) \/ Crash(c) PROVE Typed'
  <2>1. /\ Rejects(c) /\ Abandoned(c) /\ Trouble(1)
        /\ UNCHANGED <<record, live, files, effect, deployed, policy>>
    BY <1>1 DEF HookThrows, Crash
  <2>2. troubles' \in Nat
    BY <2>1 DEF Trouble, Typed
  <2>3. late' \subseteq Ventures \X Hooks
    <3>1. CASE UNCHANGED late
      BY <3>1 DEF Typed
    <3>2. CASE ctl[c].pc = "invoking" /\ late' = late \cup {<<V(c), ctl[c].hook>>}
      <4>1. V(c) \in Ventures /\ ctl[c].hook \in Hooks
        BY <3>2, OnVenture DEF Placed, Upgrading
      <4> QED
        BY <3>2, <4>1 DEF Typed
    <3> QED
      BY <2>1, <3>1, <3>2 DEF Abandoned
  <2> QED
    BY <2>1, <2>2, <2>3, RejectsFacts DEF Typed
<1>2. ASSUME NEW v \in Ventures, NEW n \in Hooks, LateEffect(v, n) PROVE Typed'
  BY <1>2, EffectFacts DEF LateEffect, Typed
<1>3. CASE Expire
  <2>1. /\ live' = FALSE
        /\ Trouble(LapseCost) \/ UNCHANGED troubles
        /\ UNCHANGED <<record, ctl, files, effect, deployed, late, policy>>
    BY <1>3 DEF Expire
  <2>2. troubles' \in Nat
    BY <2>1, FleetAssumption DEF Trouble, Typed
  <2> QED
    BY <2>1, <2>2 DEF Typed
<1>4. CASE UNCHANGED vars
  BY <1>4 DEF Typed, vars
<1> QED
  BY <1>1, <1>2, <1>3, <1>4

(* Types are kept by every step.                                            *)
LEMMA TypedStep ==
  ASSUME Typed, [Next]_vars PROVE Typed'
<1>1. ASSUME NEW c \in Controllers, Step(c) PROVE Typed'
  BY <1>1, StoreTyped, VentureTyped, HooksTyped, OwnActions, GoesOnTyped DEF Step, OwnAction
<1> QED
  BY <1>1, AroundTyped DEF Next

(* Types hold at first.                                                     *)
LEMMA TypedInit ==
  ASSUME Init PROVE Typed
<1>1. ctl \in [Controllers -> Controls] /\ \A c \in Controllers : Placed(ctl[c])
  BY IdleTyped DEF Init
<1>2. effect \in [Ventures -> [Hooks -> [times : Nat, passed : BOOLEAN]]]
  BY DEF Init
<1> QED
  BY <1>1, <1>2, FirstRecords DEF Init, Typed

(* The run's record, the controllers' copies of it, where they are in the   *)
(* order and the plan, and what a venture holds and serves keep their types.*)
THEOREM FleetTypeCorrect == Spec => []TypeOK
<1>1. Init => Typed
  BY TypedInit
<1>2. Typed /\ [Next]_vars => Typed'
  BY TypedStep
<1>3. Typed => TypeOK
  BY DEF Typed, TypeOK, Controls
<1> QED
  BY <1>1, <1>2, <1>3, PTL DEF Spec
-----------------------------------------------------------------------------
(* One controller at a time.                                                *)

(* The controller that works holds the lease alone, its copy is the record. *)
LEMMA Alone ==
  ASSUME FleetInv, NEW c \in Controllers, Works(c)
  PROVE  /\ record.lease = c /\ ctl[c].mem = record /\ record.status # "none"
         /\ Leasable(c) /\ Cp(c) = record.cps[V(c)]
         /\ \A d \in Controllers \ {c} : ~Works(d)
         /\ \A i \in DOMAIN Order : i < ctl[c].at => record.results[Order[i]] = "verified"
<1>1. \A d \in Controllers : Holds(d) /\ Follows(d)
  BY DEF FleetInv
<1>2. record.lease = c /\ ctl[c].mem = record
  BY <1>1 DEF Holds
<1>3. record.status # "none"
        /\ \A i \in DOMAIN Order : i < ctl[c].at => record.results[Order[i]] = "verified"
  BY <1>1 DEF Follows, Works, Resting
<1>4. \A d \in Controllers \ {c} : ~Works(d)
  BY <1>1, <1>2 DEF Holds
<1> QED
  BY <1>2, <1>3, <1>4 DEF Leasable, Cp

(* A working controller that saves a copy leased to it replaces the record  *)
(* by it.                                                                   *)
LEMMA Persisted ==
  ASSUME FleetInv, NEW c \in Controllers, Works(c), NEW mem \in Records, mem.lease = c,
         NEW next \in Controls, Persists(c, mem, next)
  PROVE  /\ record' = mem /\ live' = TRUE
         /\ ctl'[c].pc = next.pc /\ ctl'[c].at = next.at /\ ctl'[c].hook = next.hook
         /\ ctl'[c].done = next.done /\ ctl'[c].mem = record'
         /\ ctl'[c].step = next.step /\ ctl'[c].result = next.result
         /\ \A d \in Controllers \ {c} : ctl'[d] = ctl[d]
<1>1. Leasable(c)
  BY Alone
<1>2. [mem EXCEPT !.lease = c] = mem
  BY DEF Records
<1>3. ctl \in [Controllers -> Controls]
  BY DEF FleetInv, Typed
<1>4. /\ record' = mem /\ live' = TRUE
      /\ ctl' = [ctl EXCEPT ![c] = [next EXCEPT !.mem = record']]
  BY <1>1, <1>2 DEF Persists
<1>5. ctl'[c] = [next EXCEPT !.mem = record'] /\ \A d \in Controllers \ {c} : ctl'[d] = ctl[d]
  BY <1>3, <1>4
<1> QED
  BY <1>4, <1>5 DEF Controls

(* When it saves a checkpoint, that is what changes in the record.          *)
LEMMA SavedCp ==
  ASSUME FleetInv, NEW c \in Controllers, Works(c), V(c) \in Ventures,
         NEW cp \in Checkpoints, NEW next \in Controls, SavesCp(c, cp, next)
  PROVE  /\ record' = [record EXCEPT !.cps[V(c)] = cp] /\ live' = TRUE
         /\ ctl'[c].pc = next.pc /\ ctl'[c].at = next.at /\ ctl'[c].hook = next.hook
         /\ ctl'[c].done = next.done /\ ctl'[c].mem = record'
         /\ ctl'[c].step = next.step /\ ctl'[c].result = next.result
         /\ \A d \in Controllers \ {c} : ctl'[d] = ctl[d]
<1>1. record \in Records /\ ctl[c].mem = record /\ record.lease = c
  BY Alone DEF FleetInv, Typed
<1> DEFINE mem == [record EXCEPT !.cps[V(c)] = cp]
<1>2. mem \in Records
  BY <1>1, RecordChanged
<1>3. mem.lease = c
  BY <1>1 DEF Records
<1>4. Persists(c, mem, next)
  BY <1>1 DEF SavesCp
<1> HIDE DEF mem
<1> QED
  BY <1>2, <1>3, <1>4, Persisted DEF mem

(* The controller works on its venture: it may complete a hook's phase, or  *)
(* set out for a hook that is not recorded yet or that nobody carries out.  *)
WorksOn(c) ==
  /\ ctl[c].pc \in Upgrading /\ ctl'[c].pc \in Upgrading /\ ctl'[c].at = ctl[c].at
  /\ ctl'[c].mem = record' /\ \A d \in Controllers \ {c} : ctl'[d] = ctl[d]
  /\ record'.status = record.status /\ record'.lease = record.lease
  /\ record'.results = record.results
  /\ \A w \in Ventures \ {V(c)} : record'.cps[w] = record.cps[w]
  /\ record'.cps[V(c)].open
  /\ \A n \in Hooks :
       LET was == record.cps[V(c)].phase[n]
           is == record'.cps[V(c)].phase[n]
       IN is \in {was, "passed", "failed"} \/ (was \in {"none", "prepared"} /\ is = "prepared")
  /\ ctl'[c].pc = "invoking" =>
       LET n == ctl'[c].hook
       IN /\ n \in Hooks /\ record'.cps[V(c)].phase[n] = "prepared" /\ ~ctl'[c].done
          /\ record.cps[V(c)].phase[n] = "none" \/ NotApplied(V(c), n)
  /\ UNCHANGED <<effect, late>>

(* The invariant through work on a venture.                                 *)
LEMMA WorksOnStep ==
  ASSUME FleetInv, NEW c \in Controllers, WorksOn(c), Typed'
  PROVE  FleetInv'
<1>1. /\ Works(c) /\ Works(c)' /\ V(c) \in Ventures /\ V(c)' = V(c)
      /\ record.cps[V(c)].open /\ record.results[V(c)] # "verified"
  BY OnVenture DEF WorksOn, Works, Upgrading, Resting, V, FleetInv, OnOpen
<1>2. /\ record.lease = c /\ record.status # "none"
      /\ \A d \in Controllers \ {c} : ~Works(d) /\ ctl'[d] = ctl[d]
      /\ \A i \in DOMAIN Order : i < ctl[c].at => record.results[Order[i]] = "verified"
  BY <1>1, Alone DEF WorksOn
<1>3. \A d \in Controllers \ {c} : ~Works(d)'
  BY <1>2 DEF Works
<1>4. ASSUME NEW d \in Controllers PROVE (Holds(d) /\ Follows(d) /\ OnOpen(d))'
  <2>1. CASE d = c
    BY <1>1, <1>2, <2>1 DEF WorksOn, Holds, Follows, OnOpen
  <2>2. CASE d # c
    <3>1. ~Works(d)' /\ ctl'[d].pc \notin Upgrading
      BY <1>2, <1>3, <2>2 DEF Works, Upgrading, Resting
    <3> QED
      BY <1>2, <2>2, <3>1 DEF WorksOn, Holds, Follows, OnOpen, FleetInv
  <2> QED
    BY <2>1, <2>2
<1>5. NotBegun'
  BY <1>2 DEF NotBegun, WorksOn
<1>6. Opened'
  <2>1. Opened
    BY DEF FleetInv
  <2>2. ASSUME NEW v \in Ventures, NEW n \in Hooks, record'.cps[v].phase[n] # "none"
        PROVE  record'.cps[v].open
    BY <2>1, <2>2 DEF WorksOn, Opened
  <2>3. ASSUME NEW i \in DOMAIN Order, NEW j \in DOMAIN Order, i < j, record'.cps[Order[j]].open
        PROVE  record'.results[Order[i]] = "verified"
    <3>1. Order[j] \in Ventures
      BY Bounds
    <3>2. record.cps[Order[j]].open
      BY <1>1, <2>3, <3>1 DEF WorksOn
    <3> QED
      BY <2>1, <2>3, <3>2 DEF WorksOn, Opened
  <2> QED
    BY <2>2, <2>3 DEF Opened
<1>7. ASSUME NEW v \in Ventures, NEW n \in Hooks PROVE Once(v, n)'
  <2>1. Once(v, n) /\ effect[v][n].times \in Nat /\ effect' = effect /\ late' = late
    <3>1. Once(v, n) /\ Typed
      BY DEF FleetInv
    <3>2. effect' = effect /\ late' = late
      BY DEF WorksOn
    <3> QED
      BY <3>1, <3>2 DEF Typed
  <2>2. record.cps[v].phase[n] # "none" => record'.cps[v].phase[n] # "none"
    BY DEF WorksOn
  <2>3. ASSUME NEW d \in Controllers, Invokes(d, v, n)'
        PROVE  /\ record'.cps[v].phase[n] = "prepared" /\ effect[v][n].times = 0
               /\ <<v, n>> \notin late
    <3>1. d = c
      BY <1>3, <2>3 DEF Invokes, Works, Resting
    <3>2. v = V(c) /\ ctl'[c].pc = "invoking" /\ ctl'[c].hook = n
      BY <1>1, <2>3, <3>1 DEF Invokes
    <3>3. /\ record'.cps[v].phase[n] = "prepared"
          /\ record.cps[v].phase[n] = "none" \/ NotApplied(v, n)
      BY <3>2 DEF WorksOn
    <3>4. record.cps[v].phase[n] = "none" => effect[v][n].times = 0 /\ <<v, n>> \notin late
      BY <2>1 DEF Once
    <3> QED
      BY <3>3, <3>4 DEF NotApplied
  <2> QED
    BY <2>1, <2>2, <2>3 DEF Once
<1> QED
  BY <1>4, <1>5, <1>6, <1>7 DEF FleetInv

(* The controller's own actions are such work.                              *)
LEMMA GoesOnWorks ==
  ASSUME FleetInv, NEW c \in Controllers, GoesOn(c) PROVE WorksOn(c)
<1>1. ctl[c].pc \in Upgrading \ {"invoking"} /\ UNCHANGED <<effect, late>>
  BY DEF GoesOn
<1>2. Works(c) /\ V(c) \in Ventures /\ record \in Records /\ ctl \in [Controllers -> Controls]
  BY <1>1, OnVenture DEF Works, Upgrading, Resting, FleetInv, Typed
<1>3. /\ record.lease = c /\ ctl[c].mem = record /\ Cp(c) = record.cps[V(c)]
      /\ record.cps[V(c)].open
  BY <1>1, <1>2, Alone DEF FleetInv, OnOpen
<1>4. PICK k :
        /\ Onward(c, k)
        /\ \/ ctl' = [ctl EXCEPT ![c] = k] /\ UNCHANGED <<record, live>>
           \/ \E cp \in Checkpoints :
                /\ SavesCp(c, cp, k) /\ cp.open = Cp(c).open
                /\ \A n \in Hooks : cp.phase[n] = Cp(c).phase[n]
  BY DEF GoesOn
<1>5. k \in Controls /\ k.pc \in Upgrading \ {"invoking"} /\ k.at = ctl[c].at /\ k.mem = record
  BY <1>3, <1>4 DEF Onward
<1>6. CASE ctl' = [ctl EXCEPT ![c] = k] /\ UNCHANGED <<record, live>>
  BY <1>1, <1>2, <1>3, <1>5, <1>6 DEF WorksOn
<1>7. ASSUME NEW cp \in Checkpoints, SavesCp(c, cp, k), cp.open = Cp(c).open,
             \A n \in Hooks : cp.phase[n] = Cp(c).phase[n]
      PROVE  WorksOn(c)
  <2>0. Works(c) /\ V(c) \in Ventures /\ k \in Controls /\ SavesCp(c, cp, k)
    BY <1>2, <1>5, <1>7
  <2>1. record' = [record EXCEPT !.cps[V(c)] = cp] /\ live' = TRUE
    BY <2>0, SavedCp
  <2>2. /\ ctl'[c].pc = k.pc /\ ctl'[c].at = k.at /\ ctl'[c].mem = record'
        /\ \A d \in Controllers \ {c} : ctl'[d] = ctl[d]
    BY <2>0, SavedCp
  <2>3. ctl'[c].pc \in Upgrading \ {"invoking"} /\ ctl'[c].at = ctl[c].at
    BY <1>5, <2>2
  <2>4. /\ record'.status = record.status /\ record'.lease = record.lease
        /\ record'.results = record.results /\ record'.cps[V(c)] = cp
        /\ \A w \in Ventures \ {V(c)} : record'.cps[w] = record.cps[w]
    BY <1>2, <2>1 DEF Records
  <2> QED
    BY <1>1, <1>3, <1>7, <2>1, <2>2, <2>3, <2>4 DEF WorksOn
<1> QED
  BY <1>4, <1>6, <1>7

(* A hook's phase is saved as the controller goes on, or sets out for it.   *)
LEMMA SavesHookPhase ==
  ASSUME FleetInv, NEW c \in Controllers, ctl[c].pc \in Upgrading,
         NEW n \in Hooks, NEW s \in PhaseStates, NEW k \in Controls,
         k.pc \in Upgrading, k.at = ctl[c].at, SavesPhase(c, n, s, k), UNCHANGED <<effect, late>>,
         s \in {"passed", "failed"} \/ (Cp(c).phase[n] \in {"none", "prepared"} /\ s = "prepared"),
         k.pc = "invoking" =>
           /\ k.hook = n /\ ~k.done /\ s = "prepared"
           /\ Cp(c).phase[n] = "none" \/ NotApplied(V(c), n)
  PROVE  WorksOn(c)
<1>1. Works(c) /\ V(c) \in Ventures /\ record \in Records /\ ctl \in [Controllers -> Controls]
  BY OnVenture DEF Works, Upgrading, Resting, FleetInv, Typed
<1>2. /\ record.lease = c /\ ctl[c].mem = record /\ Cp(c) = record.cps[V(c)]
      /\ record.cps[V(c)].open /\ Cp(c) \in Checkpoints /\ n \in Phases
  BY <1>1, Alone, OnVenture DEF FleetInv, OnOpen, Phases
<1> DEFINE cp == [Cp(c) EXCEPT !.phase[n] = s]
<1>3. cp \in Checkpoints
  BY <1>2, CheckpointChanged
<1>4. cp.open = Cp(c).open /\ cp.phase[n] = s /\ \A m \in Hooks \ {n} : cp.phase[m] = Cp(c).phase[m]
  BY <1>2 DEF Checkpoints
<1>5. SavesCp(c, cp, k)
  BY DEF SavesPhase
<1> HIDE DEF cp
<1>6. record' = [record EXCEPT !.cps[V(c)] = cp] /\ live' = TRUE
  BY <1>1, <1>3, <1>5, SavedCp
<1>7. /\ ctl'[c].pc = k.pc /\ ctl'[c].at = k.at /\ ctl'[c].hook = k.hook
      /\ ctl'[c].done = k.done /\ ctl'[c].mem = record'
      /\ \A d \in Controllers \ {c} : ctl'[d] = ctl[d]
  BY <1>1, <1>3, <1>5, SavedCp
<1>8. /\ record'.status = record.status /\ record'.lease = record.lease
      /\ record'.results = record.results /\ record'.cps[V(c)] = cp
      /\ \A w \in Ventures \ {V(c)} : record'.cps[w] = record.cps[w]
  BY <1>1, <1>6 DEF Records
<1>9. ASSUME NEW m \in Hooks
      PROVE  \/ cp.phase[m] \in {record.cps[V(c)].phase[m], "passed", "failed"}
             \/ record.cps[V(c)].phase[m] \in {"none", "prepared"} /\ cp.phase[m] = "prepared"
  BY <1>2, <1>4
<1>10. /\ ctl'[c].pc \in Upgrading /\ ctl'[c].at = ctl[c].at
       /\ record'.cps[V(c)].open
  BY <1>2, <1>4, <1>7, <1>8
<1>11. ASSUME ctl'[c].pc = "invoking"
       PROVE  /\ ctl'[c].hook \in Hooks /\ record'.cps[V(c)].phase[ctl'[c].hook] = "prepared"
              /\ ~ctl'[c].done
              /\ \/ record.cps[V(c)].phase[ctl'[c].hook] = "none"
                 \/ NotApplied(V(c), ctl'[c].hook)
  <2>1. /\ k.hook = n /\ ~k.done /\ s = "prepared"
        /\ record.cps[V(c)].phase[n] = "none" \/ NotApplied(V(c), n)
    BY <1>2, <1>7, <1>11
  <2> QED
    BY <1>4, <1>7, <1>8, <2>1
<1>12. ASSUME NEW m \in Hooks
       PROVE  \/ record'.cps[V(c)].phase[m]
                  \in {record.cps[V(c)].phase[m], "passed", "failed"}
              \/ /\ record.cps[V(c)].phase[m] \in {"none", "prepared"}
                 /\ record'.cps[V(c)].phase[m] = "prepared"
  BY <1>8, <1>9
<1> QED
  BY <1>6, <1>7, <1>8, <1>10, <1>11, <1>12 DEF WorksOn

(* So is what it does about its hooks, unless it gives up.                  *)
LEMMA HooksWork ==
  ASSUME FleetInv, NEW c \in Controllers, RunHook(c) \/ HookAnswers(c)
  PROVE  WorksOn(c) \/ (Rejects(c) /\ UNCHANGED <<record, live, effect, late>>)
<1>1. Typed
  BY DEF FleetInv
<1>2. CASE RunHook(c)
  <2>1. UNCHANGED <<effect, late>>
    BY <1>2 DEF RunHook
  <2>2. PICK n \in HookAt(c) :
          LET state == Cp(c).phase[n]
              invoke == [At(c, "invoking") EXCEPT !.hook = n]
          IN \/ /\ state \in {"passed", "failed"}
                /\ ctl' = [ctl EXCEPT ![c] = Continues(c, n, state)]
                /\ UNCHANGED <<record, live, troubles>>
             \/ /\ ReadBackFirst(state) /\ effect[V(c)][n].times > 0
                /\ LET result == Result(effect[V(c)][n].passed)
                   IN SavesPhase(c, n, result, Continues(c, n, result))
                /\ UNCHANGED troubles
             \/ /\ state = "none" \/ ~ReadBackFirst(state) \/ NotApplied(V(c), n)
                /\ state \in {"none", "prepared"}
                /\ SavesPhase(c, n, "prepared", invoke)
                /\ UNCHANGED troubles
             \/ /\ Rejects(c) /\ UNCHANGED <<record, live>>
    BY <1>2 DEF RunHook
  <2>3. /\ n \in Hooks /\ n \in Phases /\ ctl[c].pc \in Upgrading
        /\ n = "compensate" \/ ctl[c].step \in DOMAIN Plan
    BY <1>1, HookTyped
  <2>4. ASSUME NEW s \in PhaseStates
        PROVE  LET k == Continues(c, n, s) IN
                 /\ k \in Controls /\ Placed(k) /\ k.pc \in Upgrading \ {"invoking"}
                 /\ k.at = ctl[c].at /\ k.mem = ctl[c].mem
    BY <1>1, <2>3, ContinuesFacts DEF Upgrading
  <2>5. Result(effect[V(c)][n].passed) \in {"passed", "failed"} \cap PhaseStates
    BY DEF Result, PhaseStates
  <2>6. CASE /\ Cp(c).phase[n] \in {"passed", "failed"}
             /\ ctl' = [ctl EXCEPT ![c] = Continues(c, n, Cp(c).phase[n])]
             /\ UNCHANGED <<record, live, troubles>>
    <3> DEFINE k == Continues(c, n, Cp(c).phase[n])
    <3>1. Cp(c).phase[n] \in PhaseStates
      BY <2>6 DEF PhaseStates
    <3>2. k.pc \in Upgrading \ {"invoking"} /\ k.at = ctl[c].at /\ k.mem = ctl[c].mem
      BY <2>4, <3>1
    <3> HIDE DEF k
    <3>3. ctl'[c] = k /\ \A d \in Controllers \ {c} : ctl'[d] = ctl[d]
      BY <1>1, <2>6 DEF k, Typed
    <3>4. Works(c) /\ record.cps[V(c)].open
      BY <2>3 DEF Works, Upgrading, Resting, FleetInv, OnOpen
    <3> QED
      BY <2>1, <2>3, <2>6, <3>2, <3>3, <3>4, Alone DEF WorksOn
  <2>7. CASE LET result == Result(effect[V(c)][n].passed)
             IN SavesPhase(c, n, result, Continues(c, n, result))
    <3> DEFINE result == Result(effect[V(c)][n].passed)
               k == Continues(c, n, result)
    <3>1. SavesPhase(c, n, result, k)
      BY <2>7
    <3>2. result \in {"passed", "failed"} /\ result \in PhaseStates
      BY <2>5
    <3>3. k \in Controls /\ k.pc \in Upgrading \ {"invoking"} /\ k.at = ctl[c].at
      BY <2>4, <3>2
    <3> HIDE DEF result, k
    <3> QED
      BY <2>1, <2>3, <3>1, <3>2, <3>3, SavesHookPhase
  <2>8. CASE /\ Cp(c).phase[n] = "none" \/ ~ReadBackFirst(Cp(c).phase[n]) \/ NotApplied(V(c), n)
             /\ Cp(c).phase[n] \in {"none", "prepared"}
             /\ SavesPhase(c, n, "prepared", [At(c, "invoking") EXCEPT !.hook = n])
    <3> DEFINE k == [At(c, "invoking") EXCEPT !.hook = n]
    <3>1. SavesPhase(c, n, "prepared", k)
      BY <2>8
    <3>2. k \in Controls /\ k.pc = "invoking" /\ k.hook = n /\ ~k.done /\ k.at = ctl[c].at
      BY <1>1, InvokeFacts
    <3> HIDE DEF k
    <3>3. Cp(c).phase[n] = "none" \/ NotApplied(V(c), n)
      BY <2>8 DEF ReadBackFirst
    <3>4. "prepared" \in PhaseStates /\ "invoking" \in Upgrading
      BY DEF PhaseStates, Upgrading
    <3> QED
      BY <2>1, <2>3, <2>8, <3>1, <3>2, <3>3, <3>4, SavesHookPhase
  <2> QED
    BY <2>1, <2>2, <2>6, <2>7, <2>8
<1>3. CASE HookAnswers(c)
  <2> DEFINE n == ctl[c].hook
             result == Result(effect[V(c)][n].passed)
             k == Continues(c, n, result)
  <2>1. ctl[c].pc = "invoking" /\ SavesPhase(c, n, result, k) /\ UNCHANGED <<effect, late>>
    BY <1>3 DEF HookAnswers, world, outside
  <2>2. ctl[c].pc \in Upgrading /\ n \in Hooks /\ (n = "compensate" \/ ctl[c].step \in DOMAIN Plan)
    BY <1>1, <2>1, OnVenture DEF Placed, Upgrading
  <2>3. result \in {"passed", "failed"} /\ result \in PhaseStates
    BY DEF Result, PhaseStates
  <2> HIDE DEF n, result
  <2>4. k \in Controls /\ k.pc \in Upgrading \ {"invoking"} /\ k.at = ctl[c].at
    BY <1>1, <2>2, <2>3, ContinuesFacts DEF Upgrading
  <2> HIDE DEF k
  <2> QED
    BY <2>1, <2>2, <2>3, <2>4, SavesHookPhase
<1> QED
  BY <1>2, <1>3

(* A controller stops: it ends the run, gives up, or dies with a hook on    *)
(* its way.                                                                 *)
Stops(c) ==
  /\ ctl'[c] = Idle /\ \A d \in Controllers \ {c} : ctl'[d] = ctl[d]
  /\ \/ UNCHANGED <<record, live>>
     \/ /\ Works(c) /\ record'.status # "none"
        /\ record'.cps = record.cps /\ record'.results = record.results
  /\ effect' = effect /\ Abandoned(c)

(* The invariant when a controller stops, and leaves what it invoked on its *)
(* way.                                                                     *)
LEMMA StopsStep ==
  ASSUME FleetInv, NEW c \in Controllers, Stops(c), Typed'
  PROVE  FleetInv'
<1>1. ctl'[c].pc = "idle" /\ ctl'[c].at = 1 /\ \A d \in Controllers \ {c} : ctl'[d] = ctl[d]
  BY DEF Stops, Idle
<1>2. /\ record'.cps = record.cps /\ record'.results = record.results /\ effect' = effect
      /\ record' = record \/ record'.status # "none"
  BY DEF Stops
<1>3. ASSUME NEW d \in Controllers PROVE (Holds(d) /\ Follows(d) /\ OnOpen(d))'
  <2>1. CASE d = c
    BY <1>1, <2>1 DEF Holds, Follows, OnOpen, Works, Resting, Upgrading
  <2>2. CASE d # c /\ Works(c)
    <3>1. ctl'[d] = ctl[d] /\ ~Works(d)
      BY <1>1, <2>2, Alone
    <3>2. ~Works(d)' /\ ctl'[d].pc \notin Upgrading
      BY <3>1 DEF Works, Resting, Upgrading
    <3>3. record'.status # "none"
      BY <1>2, <2>2, Alone
    <3> QED
      BY <3>1, <3>2, <3>3 DEF Holds, Follows, OnOpen, FleetInv
  <2>3. CASE d # c /\ ~Works(c)
    <3>1. UNCHANGED <<record, live>> /\ ctl'[d] = ctl[d]
      BY <1>1, <2>3 DEF Stops
    <3> QED
      BY <3>1 DEF FleetInv, Holds, Follows, OnOpen, Works, V
  <2> QED
    BY <2>1, <2>2, <2>3
<1>4. NotBegun' /\ Opened'
  BY <1>2 DEF FleetInv, NotBegun, Opened
<1>5. ASSUME NEW v \in Ventures, NEW n \in Hooks PROVE Once(v, n)'
  <2>1. Once(v, n)
    BY DEF FleetInv
  <2>2. ASSUME NEW d \in Controllers, Invokes(d, v, n)'
        PROVE  d # c /\ ctl'[d] = ctl[d] /\ Invokes(d, v, n)
    BY <1>1, <2>2 DEF Invokes, V
  <2>3. ASSUME <<v, n>> \in late', <<v, n>> \notin late
        PROVE  /\ record.cps[v].phase[n] # "none" /\ effect[v][n].times = 0
               /\ \A d \in Controllers : ~Invokes(d, v, n)'
    <3>1. Invokes(c, v, n) /\ ~ctl[c].done
      BY <2>3 DEF Stops, Abandoned, Invokes
    <3>2. Works(c)
      BY <3>1 DEF Invokes, Works, Resting
    <3>3. \A d \in Controllers \ {c} : ~Invokes(d, v, n)
      BY <3>2, Alone DEF Invokes, Works, Resting
    <3> QED
      BY <2>1, <2>2, <3>1, <3>3 DEF Once
  <2>4. <<v, n>> \in late => <<v, n>> \in late'
    BY DEF Stops, Abandoned
  <2> QED
    BY <1>2, <2>1, <2>2, <2>3, <2>4 DEF Once
<1> QED
  BY <1>3, <1>4, <1>5 DEF FleetInv

(* The actions by which one stops.                                          *)
LEMMA StopActions ==
  ASSUME FleetInv, NEW c \in Controllers,
         \/ HookThrows(c) \/ Crash(c) \/ Pause(c)
         \/ NextVenture(c) /\ ctl[c].at > Len(Order)
         \/ Rejects(c) /\ UNCHANGED <<record, live, effect, late>>
  PROVE  Stops(c)
<1>1. Typed /\ ctl[c] \in Controls
  BY OnVenture DEF FleetInv
<1>2. CASE HookThrows(c) \/ Crash(c) \/ (Rejects(c) /\ UNCHANGED <<record, live, effect, late>>)
  <2>1. Rejects(c) /\ UNCHANGED <<record, live, effect>> /\ Abandoned(c)
    BY <1>2 DEF HookThrows, Crash, Abandoned
  <2> QED
    BY <1>1, <2>1, RejectsFacts DEF Stops
<1>3. CASE Pause(c) \/ (NextVenture(c) /\ ctl[c].at > Len(Order))
  <2>1. PICK s \in {"paused", "completed"} : Finishes(c, s)
    BY <1>1, <1>3, Bounds DEF Pause, NextVenture, Controls
  <2>2. ctl[c].pc \in {"next", "pausing"} /\ UNCHANGED <<effect, late>>
    BY <1>3 DEF Pause, NextVenture, world, outside
  <2>3. Works(c)
    BY <2>2 DEF Works, Resting
  <2>4. record.lease = c /\ ctl[c].mem = record /\ record \in Records
    BY <1>1, <2>3, Alone DEF Typed
  <2>5. record' = [record EXCEPT !.status = s, !.lease = None] /\ Rejects(c)
    BY <2>1, <2>4 DEF Finishes
  <2>6. record'.status # "none" /\ record'.cps = record.cps /\ record'.results = record.results
    BY <2>4, <2>5 DEF Records
  <2> QED
    BY <1>1, <2>2, <2>3, <2>5, <2>6, RejectsFacts DEF Stops, Abandoned
<1> QED
  BY <1>2, <1>3

(* A controller that does not work yet reads, creates or leases the record. *)
Arrives(c) ==
  /\ ~Works(c) /\ \A d \in Controllers \ {c} : ctl'[d] = ctl[d]
  /\ ctl'[c].pc \in {"creating", "leasing"} /\ ctl'[c].at = ctl[c].at
  /\ ctl'[c].pc = "leasing" => record'.status # "none"
  /\ UNCHANGED <<live, effect, late>>
  /\ \/ record' = record
     \/ record.status = "none" /\ record' = NewRun

(* The invariant when a controller comes up to the lease.                   *)
LEMMA ArrivesStep ==
  ASSUME FleetInv, NEW c \in Controllers, Arrives(c), Typed'
  PROVE  FleetInv'
<1>1. /\ record'.cps = record.cps /\ record'.results = record.results
      /\ record' = record \/ record'.status # "none"
  BY DEF FleetInv, NotBegun, Arrives, NewRun
<1>2. /\ ~Works(c)' /\ ctl'[c].pc \notin Upgrading /\ ctl'[c].pc # "invoking"
      /\ \A d \in Controllers \ {c} : ctl'[d] = ctl[d]
  BY DEF Arrives, Works, Resting, Upgrading
<1>3. ASSUME NEW d \in Controllers PROVE (Holds(d) /\ Follows(d) /\ OnOpen(d))'
  <2>1. CASE d = c
    BY <1>2, <2>1 DEF FleetInv, Arrives, Holds, Follows, OnOpen
  <2>2. CASE d # c /\ record' = record
    <3>1. UNCHANGED <<record, live>> /\ ctl'[d] = ctl[d]
      BY <2>2 DEF Arrives
    <3> QED
      BY <3>1 DEF FleetInv, Holds, Follows, OnOpen, Works, V
  <2>3. CASE d # c /\ record' # record
    <3>1. record.status = "none" /\ record'.status # "none" /\ ctl'[d] = ctl[d]
      BY <1>1, <2>3 DEF Arrives
    <3>2. ~Works(d) /\ ctl[d].pc \notin Upgrading
      BY <3>1, Alone DEF Works, Upgrading, Resting
    <3>3. ~Works(d)' /\ ctl'[d].pc \notin Upgrading
      BY <3>1, <3>2 DEF Works
    <3> QED
      BY <3>1, <3>2, <3>3 DEF Holds, Follows, OnOpen, FleetInv
  <2> QED
    BY <2>1, <2>2, <2>3
<1>4. NotBegun' /\ Opened'
  BY <1>1 DEF FleetInv, NotBegun, Opened
<1>5. ASSUME NEW v \in Ventures, NEW n \in Hooks PROVE Once(v, n)'
  <2>1. Once(v, n) /\ UNCHANGED <<effect, late>>
    BY DEF FleetInv, Arrives
  <2>2. ASSUME NEW d \in Controllers, Invokes(d, v, n)'
        PROVE  ctl'[d] = ctl[d] /\ Invokes(d, v, n)
    BY <1>2, <2>2 DEF Invokes, V
  <2> QED
    BY <1>1, <2>1, <2>2 DEF Once
<1> QED
  BY <1>3, <1>4, <1>5 DEF FleetInv

(* The actions by which one does.                                           *)
LEMMA ArrivalActions ==
  ASSUME FleetInv, NEW c \in Controllers, Begin(c) \/ Create(c)
  PROVE  Arrives(c)
<1>1. ctl \in [Controllers -> Controls]
  BY DEF FleetInv, Typed
<1>2. CASE Begin(c)
  <2> DEFINE pc == IF record.status = "none" THEN "creating" ELSE "leasing"
  <2>1. ctl' = [ctl EXCEPT ![c].pc = pc] /\ ctl[c].pc = "idle" /\ UNCHANGED <<record, live, effect, late>>
    BY <1>2 DEF Begin, Goes, world, outside
  <2>2. ctl'[c].pc = pc /\ ctl'[c].at = ctl[c].at /\ \A d \in Controllers \ {c} : ctl'[d] = ctl[d]
    BY <1>1, <2>1 DEF Controls
  <2> QED
    BY <2>1, <2>2 DEF Arrives, Works, Resting
<1>3. CASE Create(c)
  <2>1. /\ ctl' = [ctl EXCEPT ![c].pc = "leasing"] /\ ctl[c].pc = "creating"
        /\ record' = IF record.status = "none" THEN NewRun ELSE record
        /\ UNCHANGED <<live, effect, late>>
    BY <1>3 DEF Create, Goes, world, outside
  <2>2. ctl'[c].pc = "leasing" /\ ctl'[c].at = ctl[c].at /\ \A d \in Controllers \ {c} : ctl'[d] = ctl[d]
    BY <1>1, <2>1 DEF Controls
  <2>3. record'.status # "none"
    BY <2>1 DEF NewRun
  <2> QED
    BY <2>1, <2>2, <2>3 DEF Arrives, Works, Resting
<1> QED
  BY <1>2, <1>3

(* A controller takes the lease, and the record with it: the one it takes   *)
(* it from does not work, or is overtaken.                                  *)
LEMMA LeaseStep ==
  ASSUME FleetInv, NEW c \in Controllers, Lease(c), Leasable(c), Typed', ~overtaken'
  PROVE  FleetInv'
<1>1. Typed /\ ctl \in [Controllers -> Controls] /\ record \in Records
  BY DEF FleetInv, Typed
<1>2. /\ ctl[c].pc = "leasing" /\ record' = [record EXCEPT !.lease = c] /\ live' = TRUE
      /\ ctl' = [ctl EXCEPT ![c].pc = "next", ![c].mem = record'] /\ UNCHANGED <<effect, late>>
  BY DEF Lease, world, outside
<1>3. /\ ctl'[c].pc = "next" /\ ctl'[c].mem = record' /\ ctl'[c].at = ctl[c].at
      /\ \A d \in Controllers \ {c} : ctl'[d] = ctl[d]
  BY <1>1, <1>2 DEF Controls
<1>4. /\ record'.lease = c /\ record'.status = record.status
      /\ record'.cps = record.cps /\ record'.results = record.results
  BY <1>1, <1>2 DEF Records
<1>5. ~Works(c) /\ \A d \in Controllers : Holds(d) /\ Follows(d) /\ OnOpen(d)
  BY <1>2 DEF FleetInv, Works, Resting
<1>6. ASSUME NEW d \in Controllers \ {c}, Works(d) PROVE FALSE
  <2>1. record.lease = d
    BY <1>5, <1>6 DEF Holds
  <2>2. ~live
    BY <2>1, FleetAssumption DEF Leasable
  <2>3. AtWork(d)
    BY <1>6 DEF AtWork, Works, Resting
  <2>4. ~(~live /\ \E e \in Controllers \ {c} : record.lease = e /\ AtWork(e))
    BY DEF Lease
  <2> QED
    BY <2>1, <2>2, <2>3, <2>4
<1>7. record.status # "none" /\ ctl[c].at = 1
  BY <1>2, <1>5 DEF Follows
<1>8. ASSUME NEW d \in Controllers PROVE (Holds(d) /\ Follows(d) /\ OnOpen(d))'
  <2>1. CASE d = c
    <3>1. \A i \in DOMAIN Order : ~(i < ctl'[c].at)
      BY <1>3, <1>7, Bounds
    <3>2. Works(c)' /\ ctl'[c].pc \notin Upgrading
      BY <1>3 DEF Works, Resting, Upgrading
    <3> QED
      BY <1>2, <1>3, <1>4, <1>7, <2>1, <3>1, <3>2 DEF Holds, Follows, OnOpen
  <2>2. CASE d # c
    <3>1. ~Works(d) /\ ctl'[d] = ctl[d]
      BY <1>3, <1>6, <2>2
    <3>2. ~Works(d)' /\ ctl'[d].pc \notin Upgrading
      BY <3>1 DEF Works, Resting, Upgrading
    <3> QED
      BY <1>4, <1>5, <3>1, <3>2 DEF Holds, Follows, OnOpen
  <2> QED
    BY <2>1, <2>2
<1>9. NotBegun' /\ Opened'
  BY <1>4, <1>7 DEF FleetInv, NotBegun, Opened
<1>10. ASSUME NEW v \in Ventures, NEW n \in Hooks PROVE Once(v, n)'
  <2>1. Once(v, n)
    BY DEF FleetInv
  <2>2. ASSUME NEW d \in Controllers, Invokes(d, v, n)'
        PROVE  ctl'[d] = ctl[d] /\ Invokes(d, v, n)
    BY <1>3, <2>2 DEF Invokes, V
  <2> QED
    BY <1>2, <1>4, <2>1, <2>2 DEF Once
<1> QED
  BY <1>8, <1>9, <1>10 DEF FleetInv

(* A controller that works goes to its next venture, opens its checkpoint,  *)
(* or saves its result: no hook is on its way meanwhile.                    *)
Advances(c) ==
  /\ Works(c) /\ Works(c)' /\ ctl'[c].pc # "invoking"
  /\ ctl'[c].mem = record' /\ \A d \in Controllers \ {c} : ctl'[d] = ctl[d]
  /\ record'.status = record.status /\ record'.lease = record.lease
  /\ \A v \in Ventures : record.results[v] = "verified" => record'.results[v] = "verified"
  /\ \A i \in DOMAIN Order : i < ctl'[c].at => record'.results[Order[i]] = "verified"
  /\ \A v \in Ventures :
       \/ record'.cps[v] = record.cps[v]
       \/ /\ ctl[c].at \in DOMAIN Order /\ v = Order[ctl[c].at] /\ ~record.cps[v].open
          /\ record'.cps[v] = [NoCheckpoint EXCEPT !.open = TRUE]
  /\ ctl'[c].pc \in Upgrading =>
       LET v == Order[ctl'[c].at] IN record'.cps[v].open /\ record'.results[v] # "verified"
  /\ UNCHANGED <<effect, late>>

(* The invariant when a controller moves on in the order.                   *)
LEMMA AdvancesStep ==
  ASSUME FleetInv, NEW c \in Controllers, Advances(c), Typed'
  PROVE  FleetInv'
<1>1. /\ record.lease = c /\ record.status # "none"
      /\ \A d \in Controllers \ {c} : ~Works(d) /\ ctl'[d] = ctl[d]
      /\ \A i \in DOMAIN Order : i < ctl[c].at => record.results[Order[i]] = "verified"
  BY Alone DEF Advances
<1>2. ASSUME NEW v \in Ventures, NEW n \in Hooks
      PROVE  record'.cps[v].phase[n] = record.cps[v].phase[n]
  <2>1. ~record.cps[v].open => record.cps[v].phase[n] = "none"
    BY DEF FleetInv, Opened
  <2>2. [NoCheckpoint EXCEPT !.open = TRUE].phase[n] = "none"
    BY DEF NoCheckpoint, Phases
  <2> QED
    BY <2>1, <2>2 DEF Advances
<1>3. ASSUME NEW v \in Ventures, record.cps[v].open PROVE record'.cps[v] = record.cps[v]
  BY <1>3 DEF Advances
<1>4. ASSUME NEW d \in Controllers PROVE (Holds(d) /\ Follows(d) /\ OnOpen(d))'
  <2>1. CASE d = c
    BY <1>1, <2>1 DEF Advances, Holds, Follows, OnOpen, V
  <2>2. CASE d # c
    <3>1. ~Works(d) /\ ctl'[d] = ctl[d] /\ Follows(d)
      BY <1>1, <2>2 DEF FleetInv
    <3>2. ~Works(d)' /\ ctl'[d].pc \notin Upgrading
      BY <3>1 DEF Works, Resting, Upgrading
    <3> QED
      BY <3>1, <3>2 DEF Advances, Holds, Follows, OnOpen
  <2> QED
    BY <2>1, <2>2
<1>5. NotBegun'
  BY <1>1 DEF NotBegun, Advances
<1>6. Opened'
  <2>1. Opened
    BY DEF FleetInv
  <2>2. ASSUME NEW v \in Ventures, NEW n \in Hooks, record'.cps[v].phase[n] # "none"
        PROVE  record'.cps[v].open
    BY <1>2, <1>3, <2>1, <2>2 DEF Opened
  <2>3. ASSUME NEW i \in DOMAIN Order, NEW j \in DOMAIN Order, i < j, record'.cps[Order[j]].open
        PROVE  record'.results[Order[i]] = "verified"
    <3>1. Order[i] \in Ventures /\ Order[j] \in Ventures
      BY Bounds
    <3>2. CASE record.cps[Order[j]].open
      BY <2>1, <2>3, <3>1, <3>2 DEF Opened, Advances
    <3>3. CASE ~record.cps[Order[j]].open
      <4>1. ctl[c].at \in DOMAIN Order /\ Order[j] = Order[ctl[c].at]
        BY <2>3, <3>1, <3>3 DEF Advances
      <4>2. j = ctl[c].at
        BY <4>1, FleetAssumption
      <4>3. record.results[Order[i]] = "verified"
        BY <1>1, <2>3, <4>2
      <4> QED
        BY <3>1, <4>3 DEF Advances
    <3> QED
      BY <3>2, <3>3
  <2> QED
    BY <2>2, <2>3 DEF Opened
<1>7. ASSUME NEW v \in Ventures, NEW n \in Hooks PROVE Once(v, n)'
  <2>1. Once(v, n) /\ UNCHANGED <<effect, late>>
    BY DEF FleetInv, Advances
  <2>2. ASSUME NEW d \in Controllers, Invokes(d, v, n)'
        PROVE  ctl'[d] = ctl[d] /\ Invokes(d, v, n)
    BY <1>1, <2>2 DEF Invokes, V, Advances
  <2> QED
    BY <1>2, <2>1, <2>2 DEF Once
<1> QED
  BY <1>4, <1>5, <1>6, <1>7 DEF FleetInv

(* So it does when it looks for the next venture,                           *)
LEMMA NextAdvances ==
  ASSUME FleetInv, NEW c \in Controllers, NextVenture(c), ctl[c].at <= Len(Order)
  PROVE  Advances(c)
<1>1. /\ Typed /\ ctl[c] \in Controls /\ record \in Records /\ ctl \in [Controllers -> Controls]
      /\ ctl[c].at \in DOMAIN Order /\ V(c) = Order[ctl[c].at] /\ V(c) \in Ventures
  BY SMTT(30), OnVenture, Bounds DEF FleetInv, Typed, Controls, V
<1>2. ctl[c].pc = "next" /\ UNCHANGED <<effect, late>>
  BY DEF NextVenture, world, outside
<1>3. Works(c)
  BY <1>2 DEF Works, Resting
<1>4. /\ record.lease = c /\ ctl[c].mem = record /\ Cp(c) = record.cps[V(c)]
      /\ \A i \in DOMAIN Order : i < ctl[c].at => record.results[Order[i]] = "verified"
  BY <1>3, Alone
<1> DEFINE first == [ctl[c] EXCEPT !.pc = "step", !.step = 1]
           cp == [NoCheckpoint EXCEPT !.open = TRUE]
<1>5. \/ /\ record.results[V(c)] = "verified" /\ ctl' = [ctl EXCEPT ![c].at = @ + 1]
         /\ UNCHANGED <<record, live>>
      \/ /\ record.results[V(c)] # "verified" /\ record.cps[V(c)].open
         /\ ctl' = [ctl EXCEPT ![c] = first] /\ UNCHANGED <<record, live>>
      \/ /\ record.results[V(c)] # "verified" /\ ~record.cps[V(c)].open
         /\ SavesCp(c, cp, first)
  <2>1. ~(ctl[c].at > Len(Order))
    BY <1>1, Bounds
  <2> QED
    BY <1>1, <1>4, <2>1 DEF NextVenture, Verified
<1>6. first \in Controls /\ first.pc = "step" /\ first.at = ctl[c].at /\ first.mem = ctl[c].mem
  <2>1. 1 \in 1..Len(Plan) + 1
    BY Bounds
  <2> QED
    BY <1>1, <2>1 DEF Controls, Upgrading
<1>7. cp \in Checkpoints /\ cp.open
  BY DEF NoCheckpoint, Checkpoints
<1> HIDE DEF first, cp
<1>8. CASE /\ record.results[V(c)] = "verified" /\ ctl' = [ctl EXCEPT ![c].at = @ + 1]
           /\ UNCHANGED <<record, live>>
  <2>1. /\ ctl'[c].pc = "next" /\ ctl'[c].at = ctl[c].at + 1 /\ ctl'[c].mem = record'
        /\ \A d \in Controllers \ {c} : ctl'[d] = ctl[d]
    BY <1>1, <1>2, <1>4, <1>8 DEF Controls
  <2>2. \A i \in DOMAIN Order : i < ctl[c].at + 1 => i < ctl[c].at \/ i = ctl[c].at
    BY <1>1, Bounds
  <2>3. \A i \in DOMAIN Order : i < ctl'[c].at => record'.results[Order[i]] = "verified"
    BY <1>1, <1>4, <1>8, <2>1, <2>2
  <2>4. Works(c)' /\ ctl'[c].pc # "invoking" /\ ctl'[c].pc \notin Upgrading
    BY <2>1 DEF Works, Resting, Upgrading
  <2> QED
    BY <1>2, <1>3, <1>4, <1>8, <2>1, <2>3, <2>4 DEF Advances
<1>9. CASE /\ record.results[V(c)] # "verified" /\ record.cps[V(c)].open
           /\ ctl' = [ctl EXCEPT ![c] = first] /\ UNCHANGED <<record, live>>
  <2>1. /\ ctl'[c].pc = "step" /\ ctl'[c].at = ctl[c].at /\ ctl'[c].mem = record'
        /\ \A d \in Controllers \ {c} : ctl'[d] = ctl[d]
    BY <1>1, <1>4, <1>6, <1>9
  <2>2. Works(c)' /\ ctl'[c].pc # "invoking"
    BY <2>1 DEF Works, Resting
  <2> QED
    BY <1>1, <1>2, <1>3, <1>4, <1>9, <2>1, <2>2 DEF Advances
<1>10. CASE /\ record.results[V(c)] # "verified" /\ ~record.cps[V(c)].open
            /\ SavesCp(c, cp, first)
  <2>0. /\ FleetInv /\ Works(c) /\ V(c) \in Ventures /\ cp \in Checkpoints /\ first \in Controls
        /\ SavesCp(c, cp, first)
    BY <1>1, <1>3, <1>7, <1>6, <1>10
  <2>1. record' = [record EXCEPT !.cps[V(c)] = cp] /\ live' = TRUE
    BY <2>0, SavedCp
  <2>2. /\ ctl'[c].pc = "step" /\ ctl'[c].at = ctl[c].at /\ ctl'[c].mem = record'
        /\ \A d \in Controllers \ {c} : ctl'[d] = ctl[d]
    BY <1>6, <2>0, SavedCp
  <2>3. /\ record'.status = record.status /\ record'.lease = record.lease
        /\ record'.results = record.results /\ record'.cps[V(c)] = cp
        /\ \A w \in Ventures \ {V(c)} : record'.cps[w] = record.cps[w]
    BY <1>1, <2>1 DEF Records
  <2>4. Works(c)' /\ ctl'[c].pc # "invoking"
    BY <2>2 DEF Works, Resting
  <2>5. \A v \in Ventures :
          \/ record'.cps[v] = record.cps[v]
          \/ v = V(c) /\ ~record.cps[v].open /\ record'.cps[v] = cp
    BY <1>10, <2>3
  <2>6. ctl'[c].at = ctl[c].at /\ record'.cps[V(c)].open
    BY <1>7, <2>2, <2>3
  <2> QED
    BY <1>1, <1>2, <1>3, <1>4, <1>10, <2>1, <2>2, <2>3, <2>4, <2>5, <2>6 DEF Advances, cp
<1> QED
  BY <1>5, <1>8, <1>9, <1>10

(* and when it saves a result.                                              *)
LEMMA ResultAdvances ==
  ASSUME FleetInv, NEW c \in Controllers, SaveResult(c)
  PROVE  /\ Advances(c) /\ record'.cps = record.cps /\ record'.results[V(c)] = ctl[c].result
         /\ \A v \in Ventures \ {V(c)} : record'.results[v] = record.results[v]
         /\ ctl'[c].pc \in {"pausing", "next"}
         /\ ctl'[c].pc = "pausing" => ctl'[c].at = ctl[c].at /\ ctl[c].result # "verified"
<1>1. ctl[c].pc = "result" /\ UNCHANGED <<effect, late>> /\ ctl[c].pc \in Upgrading
  BY DEF SaveResult, world, outside, Upgrading
<1>2. /\ Typed /\ ctl[c] \in Controls /\ record \in Records
      /\ ctl[c].at \in DOMAIN Order /\ V(c) = Order[ctl[c].at] /\ V(c) \in Ventures
  BY <1>1, OnVenture, Bounds DEF FleetInv, Typed, V
<1>3. Works(c) /\ record.results[V(c)] # "verified"
  BY <1>1 DEF Works, Resting, FleetInv, OnOpen
<1>4. /\ record.lease = c /\ ctl[c].mem = record
      /\ \A i \in DOMAIN Order : i < ctl[c].at => record.results[Order[i]] = "verified"
  BY <1>3, Alone
<1> DEFINE mem == [record EXCEPT !.results[V(c)] = ctl[c].result]
           next == IF Pauses(ctl[c].result) THEN At(c, "pausing")
                   ELSE [At(c, "next") EXCEPT !.at = @ + 1]
<1>5. Persists(c, mem, next)
  BY <1>4 DEF SaveResult
<1>6. mem \in Records /\ mem.lease = c
  BY <1>2, <1>4 DEF Records, Controls, Results
<1>7. /\ next \in Controls /\ next.pc \in {"pausing", "next"}
      /\ next.pc = "pausing" => next.at = ctl[c].at /\ ctl[c].result # "verified"
      /\ next.at = ctl[c].at \/ (next.at = ctl[c].at + 1 /\ ctl[c].result = "verified")
  <2> DEFINE p == At(c, "pausing")
             q == At(c, "next")
  <2>1. p \in Controls /\ p.pc = "pausing" /\ p.at = ctl[c].at
    BY <1>2, AtFacts
  <2>2. q \in Controls /\ q.pc = "next" /\ q.at = ctl[c].at
    BY <1>2, AtFacts
  <2> HIDE DEF p, q
  <2>3. ctl[c].at + 1 \in 1..Len(Order) + 1
    BY <1>2, Bounds
  <2>4. LET k == [q EXCEPT !.at = @ + 1] IN k \in Controls /\ k.pc = "next" /\ k.at = ctl[c].at + 1
    BY <2>2, <2>3 DEF Controls
  <2>5. next = IF ctl[c].result # "verified" THEN p ELSE [q EXCEPT !.at = @ + 1]
    BY DEF Pauses, p, q
  <2> HIDE DEF next
  <2> QED
    BY <2>1, <2>4, <2>5
<1>8. /\ mem.status = record.status /\ mem.lease = record.lease /\ mem.cps = record.cps
      /\ mem.results[V(c)] = ctl[c].result
      /\ \A v \in Ventures \ {V(c)} : mem.results[v] = record.results[v]
  BY <1>2 DEF Records
<1> HIDE DEF mem, next
<1>9. record' = mem /\ live' = TRUE
  BY <1>3, <1>5, <1>6, <1>7, Persisted
<1>10. /\ ctl'[c].pc = next.pc /\ ctl'[c].at = next.at /\ ctl'[c].mem = record'
       /\ \A d \in Controllers \ {c} : ctl'[d] = ctl[d]
  BY <1>3, <1>5, <1>6, <1>7, Persisted
<1>11. Works(c)' /\ ctl'[c].pc # "invoking" /\ ctl'[c].pc \notin Upgrading
  BY <1>7, <1>10 DEF Works, Resting, Upgrading
<1>12. \A v \in Ventures : record.results[v] = "verified" => record'.results[v] = "verified"
  BY <1>3, <1>8, <1>9
<1>13. ASSUME NEW i \in DOMAIN Order, i < ctl'[c].at PROVE record'.results[Order[i]] = "verified"
  <2>1. Order[i] \in Ventures
    BY Bounds
  <2>2. CASE i < ctl[c].at
    BY <1>4, <1>12, <2>1, <2>2
  <2>3. CASE ~(i < ctl[c].at)
    <3>1. i = ctl[c].at /\ ctl[c].result = "verified"
      BY <1>2, <1>7, <1>10, <1>13, <2>3, Bounds
    <3> QED
      BY <1>2, <1>8, <1>9, <3>1
  <2> QED
    BY <2>2, <2>3
<1>14. Advances(c)
  BY <1>1, <1>3, <1>4, <1>8, <1>9, <1>10, <1>11, <1>12, <1>13 DEF Advances
<1> QED
  BY <1>7, <1>8, <1>9, <1>10, <1>14

(* A hook takes effect: its controller is told, or nobody waits for it.     *)
LEMMA HookActsStep ==
  ASSUME FleetInv, NEW c \in Controllers, HookActs(c)
  PROVE  FleetInv'
<1>1. /\ Typed /\ Typed' /\ ctl \in [Controllers -> Controls]
  BY HooksTyped DEF FleetInv, Typed
<1> DEFINE v == V(c)
           n == ctl[c].hook
<1>2. /\ Invokes(c, v, n) /\ ~ctl[c].done /\ ctl[c].pc = "invoking" /\ TakesEffect(v, n)
      /\ ctl' = [ctl EXCEPT ![c].done = TRUE] /\ UNCHANGED <<record, live, late>>
  BY DEF HookActs, Invokes
<1>3. v \in Ventures /\ n \in Hooks
  BY <1>1, <1>2, OnVenture DEF Placed, Upgrading
<1> HIDE DEF v, n
<1>4. /\ effect'[v][n].times = effect[v][n].times + 1
      /\ \A w \in Ventures, m \in Hooks : <<w, m>> # <<v, n>> => effect'[w][m] = effect[w][m]
  BY <1>1, <1>2, <1>3, EffectFacts
<1>5. /\ ctl'[c].done /\ ctl'[c].pc = ctl[c].pc /\ ctl'[c].at = ctl[c].at
      /\ ctl'[c].hook = ctl[c].hook /\ ctl'[c].mem = ctl[c].mem
      /\ \A d \in Controllers \ {c} : ctl'[d] = ctl[d]
  BY <1>1, <1>2 DEF Controls
<1>6. ASSUME NEW d \in Controllers
      PROVE  /\ ctl'[d].pc = ctl[d].pc /\ ctl'[d].at = ctl[d].at /\ ctl'[d].hook = ctl[d].hook
             /\ ctl'[d].mem = ctl[d].mem
  BY <1>5
<1>7. ASSUME NEW d \in Controllers PROVE (Holds(d) /\ Follows(d) /\ OnOpen(d))'
  BY <1>2, <1>6 DEF FleetInv, Holds, Follows, OnOpen, Works, V
<1>8. NotBegun' /\ Opened'
  BY <1>2 DEF FleetInv, NotBegun, Opened
<1>9. ASSUME NEW w \in Ventures, NEW m \in Hooks PROVE Once(w, m)'
  <2>1. Once(w, m) /\ effect[w][m].times \in Nat
    BY <1>1 DEF FleetInv, Typed
  <2>2. ASSUME NEW d \in Controllers PROVE Invokes(d, w, m)' <=> Invokes(d, w, m)
    BY <1>6 DEF Invokes, V
  <2>3. CASE <<w, m>> = <<v, n>>
    <3>1. effect[w][m].times = 0 /\ <<w, m>> \notin late /\ record.cps[w].phase[m] # "none"
      BY <1>2, <2>1, <2>3 DEF Once
    <3>2. ASSUME NEW d \in Controllers, Invokes(d, w, m)' PROVE ctl'[d].done
      <4>1. d = c
        <5>1. Works(c) /\ Works(d)
          BY <1>2, <2>2, <3>2 DEF Invokes, Works, Resting
        <5> QED
          BY <5>1, Alone
      <4> QED
        BY <1>5, <4>1
    <3> QED
      BY <1>2, <1>4, <2>1, <2>2, <2>3, <3>1, <3>2 DEF Once
  <2>4. CASE <<w, m>> # <<v, n>>
    <3>1. effect'[w][m] = effect[w][m]
      BY <1>4, <2>4
    <3>2. ASSUME NEW d \in Controllers, Invokes(d, w, m) PROVE ctl'[d] = ctl[d]
      <4>1. d # c
        BY <1>2, <2>4, <3>2 DEF Invokes
      <4> QED
        BY <1>5, <4>1
    <3> QED
      BY <1>2, <2>1, <2>2, <3>1, <3>2 DEF Once
  <2> QED
    BY <2>3, <2>4
<1> QED
  BY <1>1, <1>7, <1>8, <1>9 DEF FleetInv

(* A hook nobody waits for takes effect.                                    *)
LEMMA LateEffectStep ==
  ASSUME FleetInv, NEW v \in Ventures, NEW n \in Hooks, LateEffect(v, n)
  PROVE  FleetInv'
<1>1. Typed /\ Typed'
  BY AroundTyped DEF FleetInv
<1>2. /\ <<v, n>> \in late /\ late' = late \ {<<v, n>>} /\ TakesEffect(v, n)
      /\ UNCHANGED <<record, live, ctl>>
  BY DEF LateEffect
<1>3. /\ effect'[v][n].times = effect[v][n].times + 1
      /\ \A w \in Ventures, m \in Hooks : <<w, m>> # <<v, n>> => effect'[w][m] = effect[w][m]
  BY <1>1, <1>2, EffectFacts
<1>4. /\ \A d \in Controllers : (Holds(d) /\ Follows(d) /\ OnOpen(d))'
      /\ NotBegun' /\ Opened'
  BY <1>2 DEF FleetInv, Holds, Follows, OnOpen, Works, V, NotBegun, Opened
<1>5. ASSUME NEW w \in Ventures, NEW m \in Hooks PROVE Once(w, m)'
  <2>1. Once(w, m) /\ effect[w][m].times \in Nat
    BY <1>1 DEF FleetInv, Typed
  <2>2. \A d \in Controllers : Invokes(d, w, m)' <=> Invokes(d, w, m)
    BY <1>2 DEF Invokes, V
  <2>3. CASE <<w, m>> = <<v, n>>
    <3>1. /\ effect[w][m].times = 0 /\ record.cps[w].phase[m] # "none"
          /\ \A d \in Controllers : ~Invokes(d, w, m)
      BY <1>2, <2>1, <2>3 DEF Once
    <3>2. effect'[w][m].times = 1 /\ <<w, m>> \notin late'
      BY <1>2, <1>3, <2>3, <3>1
    <3> QED
      BY <1>2, <2>2, <3>1, <3>2 DEF Once
  <2>4. CASE <<w, m>> # <<v, n>>
    BY <1>2, <1>3, <2>1, <2>2, <2>4 DEF Once
  <2> QED
    BY <2>3, <2>4
<1> QED
  BY <1>1, <1>4, <1>5 DEF FleetInv

(* A lease that expires changes nothing else.                               *)
LEMMA ExpireStep ==
  ASSUME FleetInv, Expire
  PROVE  FleetInv'
<1>1. /\ Typed' /\ UNCHANGED <<record, ctl, effect, late>>
  BY AroundTyped DEF FleetInv, Expire
<1> QED
  BY <1>1 DEF FleetInv, Holds, Follows, OnOpen, Works, V, NotBegun, Opened, Once, Invokes

(* The invariant holds at first.                                            *)
LEMMA FleetInvInit ==
  ASSUME Init PROVE FleetInv
<1>1. \A c \in Controllers : ctl[c] = Idle
  BY DEF Init
<1>2. /\ \A c \in Controllers : ctl[c].pc = "idle" /\ ctl[c].at = 1
      /\ record = [NewRun EXCEPT !.status = "none"] /\ late = {}
      /\ \A v \in Ventures, n \in Hooks : effect[v][n].times = 0
  BY <1>1 DEF Init, Idle
<1>3. record.cps = [v \in Ventures |-> NoCheckpoint] /\ record.status = "none"
  BY <1>2 DEF NewRun
<1>4. \A v \in Ventures, n \in Hooks :
        record.cps[v].phase[n] = "none" /\ ~record.cps[v].open
  BY <1>3 DEF NoCheckpoint, Phases
<1>5. \A v \in Ventures : ~record.cps[v].open
  BY <1>3 DEF NoCheckpoint
<1>6. Opened
  BY <1>4, <1>5, Bounds DEF Opened
<1>7. \A c \in Controllers : Holds(c) /\ Follows(c) /\ OnOpen(c)
  BY <1>2 DEF Holds, Follows, OnOpen, Works, Resting, Upgrading
<1>8. \A v \in Ventures, n \in Hooks : Once(v, n)
  BY <1>2, <1>4 DEF Once, Invokes
<1> QED
  BY <1>2, <1>6, <1>7, <1>8, TypedInit DEF FleetInv, NotBegun

(* A controller that was overtaken stays so.                                *)
LEMMA OvertakenStays ==
  ASSUME [Next]_vars, ~overtaken' PROVE ~overtaken
<1>1. ASSUME NEW c \in Controllers, Lease(c) PROVE ~overtaken
  BY <1>1 DEF Lease
<1>2. ASSUME NEW c \in Controllers, ~Lease(c), Step(c) PROVE overtaken' = overtaken
  <2>1. CASE \/ Begin(c) \/ Create(c) \/ NextVenture(c) \/ SaveResult(c) \/ Pause(c)
             \/ RunHook(c) \/ HookActs(c) \/ HookAnswers(c)
    BY <2>1 DEF Begin, Create, NextVenture, SaveResult, Pause, RunHook, HookActs, HookAnswers,
      world, outside, past
  <2>2. CASE \/ Reused(c) \/ PrepareUpgrade(c) \/ ApplyUpgrade(c) \/ SaveUpgrade(c)
             \/ MergeGate(c) \/ Touch(c) \/ ProductionReadBack(c)
    BY <2>2 DEF Reused, PrepareUpgrade, ApplyUpgrade, SaveUpgrade, MergeGate, Touch,
      ProductionReadBack, world, outside, past
  <2>3. CASE \/ PrepareLock(c) \/ WriteLock(c) \/ SaveLock(c) \/ Verify(c) \/ RollBack(c)
             \/ Compensated(c) \/ RestoreCompensated(c)
    BY <2>3 DEF PrepareLock, WriteLock, SaveLock, Verify, RollBack, Compensated,
      RestoreCompensated, world, outside, past
  <2> QED
    BY <1>2, <2>1, <2>2, <2>3 DEF Step
<1>3. CASE \E c \in Controllers : HookThrows(c) \/ Crash(c)
  BY <1>3 DEF HookThrows, Crash, past
<1>4. CASE Expire \/ (\E v \in Ventures, n \in Hooks : LateEffect(v, n)) \/ UNCHANGED vars
  BY <1>4 DEF Expire, LateEffect, vars, past
<1> QED
  BY <1>1, <1>2, <1>3, <1>4 DEF Next

(* The invariant is kept by every step that overtakes no working controller.*)
LEMMA FleetInvStep ==
  ASSUME FleetInv, [Next]_vars, ~overtaken' PROVE FleetInv'
<1>1. Typed'
  BY TypedStep DEF FleetInv
<1>2. ASSUME NEW c \in Controllers, Begin(c) \/ Create(c) PROVE FleetInv'
  BY <1>1, <1>2, ArrivalActions, ArrivesStep
<1>3. ASSUME NEW c \in Controllers, Lease(c) PROVE FleetInv'
  <2>1. CASE Leasable(c)
    BY <1>1, <1>3, <2>1, LeaseStep
  <2>2. CASE ~Leasable(c)
    <3>1. Rejects(c) /\ UNCHANGED <<record, live, effect, late>>
      BY <1>3, <2>2 DEF Lease, world, outside
    <3> QED
      BY <1>1, <3>1, StopActions, StopsStep
  <2> QED
    BY <2>1, <2>2
<1>4. ASSUME NEW c \in Controllers, NextVenture(c) PROVE FleetInv'
  <2>1. ctl[c].at > Len(Order) \/ ctl[c].at <= Len(Order)
    BY OnVenture, Bounds DEF FleetInv, Controls
  <2> QED
    BY <1>1, <1>4, <2>1, StopActions, StopsStep, NextAdvances, AdvancesStep
<1>5. ASSUME NEW c \in Controllers, SaveResult(c) PROVE FleetInv'
  BY <1>1, <1>5, ResultAdvances, AdvancesStep
<1>6. ASSUME NEW c \in Controllers, Pause(c) \/ HookThrows(c) \/ Crash(c) PROVE FleetInv'
  BY <1>1, <1>6, StopActions, StopsStep
<1>7. ASSUME NEW c \in Controllers, RunHook(c) \/ HookAnswers(c) PROVE FleetInv'
  <2>1. WorksOn(c) \/ (Rejects(c) /\ UNCHANGED <<record, live, effect, late>>)
    BY <1>7, HooksWork
  <2> QED
    BY <1>1, <2>1, WorksOnStep, StopActions, StopsStep
<1>8. ASSUME NEW c \in Controllers, OwnAction(c) PROVE FleetInv'
  <2>1. GoesOn(c)
    BY <1>8, OwnActions DEF FleetInv
  <2> QED
    BY <1>1, <2>1, GoesOnWorks, WorksOnStep
<1>9. CASE UNCHANGED vars
  BY <1>1, <1>9 DEF vars, FleetInv, Holds, Follows, OnOpen, Works, V, NotBegun, Opened, Once, Invokes
<1>10. ASSUME NEW c \in Controllers, Step(c) PROVE FleetInv'
  BY <1>2, <1>3, <1>4, <1>5, <1>6, <1>7, <1>8, <1>10, HookActsStep DEF Step, OwnAction
<1> QED
  BY <1>6, <1>9, <1>10, LateEffectStep, ExpireStep DEF Next

UntilOvertaken == Typed /\ (~overtaken => FleetInv)

(* However controllers die, take over and lose answers and hooks, a         *)
(* completed effect is not invoked again until a controller is overtaken.   *)
THEOREM FleetCompletedNotRepeated == Spec => []CompletedNotRepeated
<1>1. Init => UntilOvertaken
  BY FleetInvInit, TypedInit DEF UntilOvertaken
<1>2. UntilOvertaken /\ [Next]_vars => UntilOvertaken'
  BY TypedStep, OvertakenStays, FleetInvStep DEF UntilOvertaken
<1>3. UntilOvertaken => CompletedNotRepeated
  BY DEF UntilOvertaken, FleetInv, Once, CompletedNotRepeated
<1> QED
  BY <1>1, <1>2, <1>3, PTL DEF Spec
-----------------------------------------------------------------------------
(* The canary bounds the damage, also when controllers overtake each other: *)
(* what a controller's copy reports as verified, the record has reported.   *)

Copies(c) == \A v \in Ventures : ctl[c].mem.results[v] = "verified" => v \in recorded
Told == \A v \in Ventures : record.results[v] = "verified" => v \in recorded
\* The ventures before a position of the order have been verified.
Led(k) == \A i \in DOMAIN Order : i < k => Order[i] \in recorded
\* A hook takes effect, or is on its way, only for a venture that is led to.
Preceded ==
  \A j \in DOMAIN Order, n \in Hooks :
    effect[Order[j]][n].times > 0 \/ <<Order[j], n>> \in late => Led(j)

BlastInv ==
  /\ Typed /\ Told /\ Preceded
  /\ \A c \in Controllers : Copies(c) /\ Led(ctl[c].at)

\* What a controller's step does to the record and the copies.
Leads ==
  /\ recorded \subseteq recorded' /\ Told'
  /\ \A c \in Controllers : (Copies(c) /\ Led(ctl[c].at))'

(* A step that leads and starts no hook keeps the invariant.                *)
LEMMA LeadsStep ==
  ASSUME BlastInv, Typed', Leads, UNCHANGED <<effect, late>> PROVE BlastInv'
  BY DEF BlastInv, Leads, Preceded, Led

(* A controller moves, with nothing new in its copy.                        *)
LEMMA MovesLeads ==
  ASSUME BlastInv, NEW c \in Controllers, NEW k \in Controls, ctl' = [ctl EXCEPT ![c] = k],
         record'.results = record.results, recorded' = recorded, Led(k.at),
         \A v \in Ventures : k.mem.results[v] = "verified" => v \in recorded
  PROVE  Leads
<1>1. ctl'[c] = k /\ \A d \in Controllers \ {c} : ctl'[d] = ctl[d]
  BY DEF BlastInv, Typed
<1>2. ASSUME NEW d \in Controllers PROVE (Copies(d) /\ Led(ctl[d].at))'
  BY <1>1 DEF BlastInv, Copies, Led
<1> QED
  BY <1>2 DEF BlastInv, Leads, Told

(* A controller that gives up, or ends the run, forgets its copy.           *)
LEMMA RejectsLeads ==
  ASSUME BlastInv, NEW c \in Controllers, Rejects(c), recorded' = recorded,
         \A v \in Ventures : record'.results[v] = "verified" => v \in recorded
  PROVE  Leads
<1>1. ctl'[c] = Idle /\ \A d \in Controllers \ {c} : ctl'[d] = ctl[d]
  BY RejectsFacts DEF BlastInv
<1>2. Idle.at = 1 /\ \A v \in Ventures : Idle.mem.results[v] = "none"
  BY DEF Idle, NewRun
<1>3. ASSUME NEW d \in Controllers PROVE (Copies(d) /\ Led(ctl[d].at))'
  <2>1. CASE d = c
    BY <1>1, <1>2, <2>1, Bounds DEF Copies, Led
  <2>2. CASE d # c
    BY <1>1, <2>2 DEF BlastInv, Copies, Led
  <2> QED
    BY <2>1, <2>2
<1> QED
  BY <1>3 DEF Leads, Told

(* A controller replaces the record by what it knows, and goes no further   *)
(* than what is recorded by then.                                           *)
LEMMA PersistsLeads ==
  ASSUME BlastInv, NEW c \in Controllers, NEW mem \in Records, NEW next \in Controls,
         Persists(c, mem, next), Leasable(c), recorded \subseteq recorded',
         \A v \in Ventures : mem.results[v] = "verified" => v \in recorded',
         \A i \in DOMAIN Order : i < next.at => Order[i] \in recorded'
  PROVE  Leads
<1>1. record' = [mem EXCEPT !.lease = c] /\ ctl' = [ctl EXCEPT ![c] = [next EXCEPT !.mem = record']]
  BY DEF Persists
<1>2. record'.results = mem.results
  BY <1>1 DEF Records
<1>3. ctl'[c] = [next EXCEPT !.mem = record'] /\ \A d \in Controllers \ {c} : ctl'[d] = ctl[d]
  BY <1>1 DEF BlastInv, Typed
<1>4. ctl'[c].mem = record' /\ ctl'[c].at = next.at
  BY <1>3 DEF Controls
<1>5. ASSUME NEW d \in Controllers PROVE (Copies(d) /\ Led(ctl[d].at))'
  <2>1. CASE d = c
    BY <1>2, <1>4, <2>1 DEF Copies, Led
  <2>2. CASE d # c
    BY <1>3, <2>2 DEF BlastInv, Copies, Led
  <2> QED
    BY <2>1, <2>2
<1> QED
  BY <1>2, <1>5 DEF Leads, Told

(* So it does when it saves its venture's checkpoint.                       *)
LEMMA SavesLeads ==
  ASSUME BlastInv, NEW c \in Controllers, V(c) \in Ventures, NEW cp \in Checkpoints,
         NEW next \in Controls, next.at = ctl[c].at, SavesCp(c, cp, next), recorded' = recorded
  PROVE  Leads
<1> DEFINE mem == [ctl[c].mem EXCEPT !.cps[V(c)] = cp]
<1>1. ctl[c].mem \in Records
  BY OnVenture DEF BlastInv
<1>2. mem \in Records /\ mem.results = ctl[c].mem.results
  BY <1>1, RecordChanged DEF Records
<1>3. Persists(c, mem, next)
  BY DEF SavesCp
<1>4. \A v \in Ventures : mem.results[v] = "verified" => v \in recorded'
  BY <1>2 DEF BlastInv, Copies
<1>5. \A i \in DOMAIN Order : i < next.at => Order[i] \in recorded'
  BY DEF BlastInv, Led
<1> HIDE DEF mem
<1>6. CASE Leasable(c)
  BY <1>2, <1>3, <1>4, <1>5, <1>6, PersistsLeads
<1>7. CASE ~Leasable(c)
  BY <1>3, <1>7, RejectsLeads DEF Persists, BlastInv, Told
<1> QED
  BY <1>6, <1>7

(* Reading, creating, leasing and ending the run.                           *)
LEMMA StoreLeads ==
  ASSUME BlastInv, NEW c \in Controllers, Begin(c) \/ Create(c) \/ Lease(c) \/ Pause(c)
  PROVE  Leads /\ UNCHANGED <<effect, late>>
<1>1. /\ UNCHANGED <<effect, late, recorded>>
      /\ ctl[c] \in Controls /\ ctl[c].mem \in Records /\ ctl \in [Controllers -> Controls]
      /\ record \in Records /\ Typed
  BY OnVenture DEF BlastInv, Typed, Begin, Create, Lease, Pause, world, outside, past
<1>2. ASSUME NEW pc \in {"creating", "leasing"}, Goes(c, pc), record'.results = record.results
      PROVE  Leads
  <2> DEFINE k == [ctl[c] EXCEPT !.pc = pc]
  <2>1. /\ k \in Controls /\ k.at = ctl[c].at /\ k.mem = ctl[c].mem
        /\ ctl' = [ctl EXCEPT ![c] = k]
    BY <1>1, <1>2 DEF Goes, Controls, Resting
  <2> HIDE DEF k
  <2> QED
    BY <1>1, <1>2, <2>1, MovesLeads DEF BlastInv, Copies
<1>3. CASE Begin(c)
  BY <1>1, <1>2, <1>3 DEF Begin
<1>4. CASE Create(c)
  <2>1. CASE record.status # "none"
    BY <1>1, <1>2, <1>4, <2>1 DEF Create
  <2>2. CASE record.status = "none"
    <3>1. /\ ctl' = [ctl EXCEPT ![c] = [ctl[c] EXCEPT !.pc = "leasing"]]
          /\ \A v \in Ventures : record'.results[v] = "none"
      BY <1>4, <2>2 DEF Create, Goes, NewRun
    <3>2. /\ ctl'[c] = [ctl[c] EXCEPT !.pc = "leasing"]
          /\ \A d \in Controllers \ {c} : ctl'[d] = ctl[d]
      BY <1>1, <3>1
    <3>3. ASSUME NEW d \in Controllers PROVE ctl'[d].at = ctl[d].at /\ ctl'[d].mem = ctl[d].mem
      BY <1>1, <3>2 DEF Controls
    <3>4. ASSUME NEW d \in Controllers PROVE (Copies(d) /\ Led(ctl[d].at))'
      BY <1>1, <3>3 DEF BlastInv, Copies, Led
    <3> QED
      BY <1>1, <3>1, <3>4 DEF Leads, Told
  <2> QED
    BY <1>1, <2>1, <2>2
<1>5. CASE Lease(c)
  <2>1. CASE Leasable(c)
    <3>1. /\ record' = [record EXCEPT !.lease = c]
          /\ ctl' = [ctl EXCEPT ![c].pc = "next", ![c].mem = record']
      BY <1>5, <2>1 DEF Lease
    <3> DEFINE k == [ctl[c] EXCEPT !.pc = "next", !.mem = record']
    <3>2. record' \in Records /\ record'.results = record.results
      BY <1>1, <3>1, RecordEnded DEF Records
    <3>3. k \in Controls /\ k.at = ctl[c].at /\ k.mem = record'
      BY <1>1, <3>2 DEF Controls
    <3>4. ctl' = [ctl EXCEPT ![c] = k]
      BY <1>1, <3>1 DEF Controls
    <3> HIDE DEF k
    <3> QED
      BY <1>1, <3>2, <3>3, <3>4, MovesLeads DEF BlastInv, Told
  <2>2. CASE ~Leasable(c)
    BY <1>1, <1>5, <2>2, RejectsLeads DEF Lease, BlastInv, Told
  <2> QED
    BY <1>1, <2>1, <2>2
<1>6. CASE Pause(c)
  <2>1. Finishes(c, "paused")
    BY <1>6 DEF Pause
  <2>2. record' = record \/ record' = [ctl[c].mem EXCEPT !.status = "paused", !.lease = None]
    BY <2>1 DEF Finishes
  <2>3. record'.results = record.results \/ record'.results = ctl[c].mem.results
    BY <1>1, <2>2 DEF Records
  <2>4. \A v \in Ventures : record'.results[v] = "verified" => v \in recorded
    BY <2>3 DEF BlastInv, Told, Copies
  <2> QED
    BY <1>1, <2>1, <2>4, RejectsLeads DEF Finishes
<1> QED
  BY <1>1, <1>3, <1>4, <1>5, <1>6

(* A controller passes over the ventures its copy reports as verified.      *)
LEMMA NextLeads ==
  ASSUME BlastInv, NEW c \in Controllers, NextVenture(c)
  PROVE  Leads /\ UNCHANGED <<effect, late>>
<1>1. /\ UNCHANGED <<effect, late, recorded>> /\ ctl[c].pc = "next"
      /\ ctl[c] \in Controls /\ ctl[c].mem \in Records /\ ctl \in [Controllers -> Controls]
      /\ ctl[c].at \in 1..Len(Order) + 1 /\ Typed
  BY OnVenture DEF BlastInv, Typed, NextVenture, world, outside, past, Controls
<1>2. CASE ctl[c].at > Len(Order) /\ Finishes(c, "completed")
  <2>1. record' = record \/ record' = [ctl[c].mem EXCEPT !.status = "completed", !.lease = None]
    BY <1>2 DEF Finishes
  <2>2. record'.results = record.results \/ record'.results = ctl[c].mem.results
    BY <1>1, <2>1 DEF Records
  <2>3. \A v \in Ventures : record'.results[v] = "verified" => v \in recorded
    BY <2>2 DEF BlastInv, Told, Copies
  <2> QED
    BY <1>1, <1>2, <2>3, RejectsLeads DEF Finishes
<1>3. CASE /\ ctl[c].at <= Len(Order) /\ Verified(c, ctl[c].at)
           /\ ctl' = [ctl EXCEPT ![c].at = @ + 1] /\ UNCHANGED <<record, live>>
  <2> DEFINE k == [ctl[c] EXCEPT !.at = ctl[c].at + 1]
  <2>1. ctl[c].at + 1 \in 1..Len(Order) + 1 /\ ctl[c].at \in DOMAIN Order
    BY <1>1, <1>3, Bounds
  <2>2. /\ k \in Controls /\ k.at = ctl[c].at + 1 /\ k.mem = ctl[c].mem
        /\ ctl' = [ctl EXCEPT ![c] = k]
    BY <1>1, <1>3, <2>1 DEF Controls
  <2>3. Order[ctl[c].at] \in recorded
    BY <1>3, <2>1, Bounds DEF Verified, BlastInv, Copies
  <2>4. ASSUME NEW i \in DOMAIN Order, i < ctl[c].at + 1 PROVE Order[i] \in recorded
    <3>1. i < ctl[c].at \/ i = ctl[c].at
      BY <2>1, <2>4, Bounds
    <3> QED
      BY <2>3, <3>1 DEF BlastInv, Led
  <2> HIDE DEF k
  <2>5. Led(k.at)
    BY <2>2, <2>4 DEF Led
  <2>6. \A v \in Ventures : k.mem.results[v] = "verified" => v \in recorded
    BY <2>2 DEF BlastInv, Copies
  <2> QED
    BY <1>1, <1>3, <2>2, <2>5, <2>6, MovesLeads
<1>4. ASSUME ctl[c].at <= Len(Order),
             LET first == [ctl[c] EXCEPT !.pc = "step", !.step = 1] IN
               IF Cp(c).open THEN ctl' = [ctl EXCEPT ![c] = first] /\ UNCHANGED <<record, live>>
                             ELSE SavesCp(c, [NoCheckpoint EXCEPT !.open = TRUE], first)
      PROVE  Leads
  <2> DEFINE first == [ctl[c] EXCEPT !.pc = "step", !.step = 1]
             cp == [NoCheckpoint EXCEPT !.open = TRUE]
  <2>1. 1 \in 1..Len(Plan) + 1 /\ ctl[c].at \in DOMAIN Order
    BY <1>1, <1>4, Bounds
  <2>2. first \in Controls /\ first.at = ctl[c].at /\ first.mem = ctl[c].mem
    BY <1>1, <2>1 DEF Controls, Upgrading
  <2>3. V(c) \in Ventures /\ cp \in Checkpoints
    BY <2>1, Bounds DEF V, NoCheckpoint, Checkpoints
  <2>4. \/ ctl' = [ctl EXCEPT ![c] = first] /\ UNCHANGED <<record, live>>
        \/ SavesCp(c, cp, first)
    BY <1>4
  <2> HIDE DEF first, cp
  <2>5. CASE ctl' = [ctl EXCEPT ![c] = first] /\ UNCHANGED <<record, live>>
    BY <1>1, <2>2, <2>5, MovesLeads DEF BlastInv, Copies
  <2>6. CASE SavesCp(c, cp, first)
    BY <1>1, <2>2, <2>3, <2>6, SavesLeads
  <2> QED
    BY <2>4, <2>5, <2>6
<1> QED
  BY <1>1, <1>2, <1>3, <1>4 DEF NextVenture

(* It goes on to the next venture as it records this one as verified.       *)
LEMMA ResultLeads ==
  ASSUME BlastInv, NEW c \in Controllers, SaveResult(c)
  PROVE  Leads /\ UNCHANGED <<effect, late>>
<1>1. /\ UNCHANGED <<effect, late>> /\ ctl[c].pc = "result" /\ Typed /\ ctl[c].pc \in Upgrading
      /\ recorded' = recorded \cup {v \in Ventures : record'.results[v] = "verified"}
  BY DEF BlastInv, SaveResult, world, outside, Upgrading
<1>2. /\ ctl[c] \in Controls /\ ctl[c].mem \in Records /\ ctl[c].at \in DOMAIN Order
      /\ V(c) \in Ventures /\ V(c) = Order[ctl[c].at]
  BY <1>1, OnVenture, Bounds DEF V
<1> DEFINE mem == [ctl[c].mem EXCEPT !.results[V(c)] = ctl[c].result]
           next == IF Pauses(ctl[c].result) THEN At(c, "pausing")
                   ELSE [At(c, "next") EXCEPT !.at = @ + 1]
<1>3. Persists(c, mem, next)
  BY DEF SaveResult
<1>4. mem \in Records /\ mem.results = [ctl[c].mem.results EXCEPT ![V(c)] = ctl[c].result]
  BY <1>2 DEF Records, Controls, Results
<1>5. /\ next \in Controls
      /\ next.at = ctl[c].at \/ (next.at = ctl[c].at + 1 /\ ctl[c].result = "verified")
  <2> DEFINE p == At(c, "pausing")
             q == At(c, "next")
  <2>1. p \in Controls /\ p.at = ctl[c].at
    BY <1>1, AtFacts
  <2>2. q \in Controls /\ q.at = ctl[c].at
    BY <1>1, AtFacts
  <2> HIDE DEF p, q
  <2>3. ctl[c].at + 1 \in 1..Len(Order) + 1
    BY <1>2, Bounds
  <2>4. LET k == [q EXCEPT !.at = @ + 1] IN k \in Controls /\ k.at = ctl[c].at + 1
    BY <2>2, <2>3 DEF Controls
  <2>5. next = IF ctl[c].result # "verified" THEN p ELSE [q EXCEPT !.at = @ + 1]
    BY DEF Pauses, p, q
  <2> HIDE DEF next
  <2> QED
    BY <2>1, <2>4, <2>5
<1> HIDE DEF mem, next
<1>6. CASE Leasable(c)
  <2>1. record' = [mem EXCEPT !.lease = c]
    BY <1>3, <1>6 DEF Persists
  <2>2. record'.results = mem.results
    BY <1>4, <2>1 DEF Records
  <2>3. \A v \in Ventures : mem.results[v] = "verified" => v \in recorded'
    BY <1>1, <2>2
  <2>4. ASSUME NEW i \in DOMAIN Order, i < next.at PROVE Order[i] \in recorded'
    <3>1. CASE i < ctl[c].at
      BY <1>1, <3>1 DEF BlastInv, Led
    <3>2. CASE ~(i < ctl[c].at)
      <4>1. i = ctl[c].at /\ ctl[c].result = "verified"
        BY <1>2, <1>5, <2>4, <3>2, Bounds
      <4>2. mem.results[V(c)] = "verified"
        BY <1>2, <1>4, <4>1 DEF Records
      <4> QED
        BY <1>2, <2>3, <4>1, <4>2
    <3> QED
      BY <3>1, <3>2
  <2>5. recorded \subseteq recorded'
    BY <1>1
  <2> QED
    BY <1>1, <1>3, <1>4, <1>5, <1>6, <2>3, <2>4, <2>5, PersistsLeads
<1>7. CASE ~Leasable(c)
  <2>1. Rejects(c) /\ record' = record
    BY <1>3, <1>7 DEF Persists
  <2>2. recorded' = recorded
    BY <1>1, <2>1 DEF BlastInv, Told
  <2> QED
    BY <1>1, <2>1, <2>2, RejectsLeads DEF BlastInv, Told
<1> QED
  BY <1>6, <1>7

(* What it does about a hook before it is sent, or when it is answered.     *)
LEMMA HooksLead ==
  ASSUME BlastInv, NEW c \in Controllers, RunHook(c) \/ HookAnswers(c)
  PROVE  Leads /\ UNCHANGED <<effect, late>>
<1>1. Typed /\ UNCHANGED <<effect, late, recorded>> /\ ctl[c].mem \in Records
  BY OnVenture DEF BlastInv, RunHook, HookAnswers, world, outside, past
<1>2. ASSUME NEW n \in Hooks, NEW s \in PhaseStates, NEW k \in Controls, k.at = ctl[c].at,
             ctl[c].pc \in Upgrading, SavesPhase(c, n, s, k)
      PROVE  Leads
  <2>1. V(c) \in Ventures /\ [Cp(c) EXCEPT !.phase[n] = s] \in Checkpoints
    BY <1>1, <1>2, OnVenture, CheckpointChanged DEF Phases
  <2>2. SavesCp(c, [Cp(c) EXCEPT !.phase[n] = s], k)
    BY <1>2 DEF SavesPhase
  <2> QED
    BY <1>1, <1>2, <2>1, <2>2, SavesLeads
<1>3. CASE RunHook(c)
  <2>1. PICK n \in HookAt(c) :
          LET state == Cp(c).phase[n]
              invoke == [At(c, "invoking") EXCEPT !.hook = n]
          IN \/ /\ state \in {"passed", "failed"}
                /\ ctl' = [ctl EXCEPT ![c] = Continues(c, n, state)]
                /\ UNCHANGED <<record, live>>
             \/ LET result == Result(effect[V(c)][n].passed)
                IN SavesPhase(c, n, result, Continues(c, n, result))
             \/ SavesPhase(c, n, "prepared", invoke)
             \/ Rejects(c) /\ UNCHANGED <<record, live>>
    BY <1>3 DEF RunHook
  <2>2. /\ n \in Hooks /\ ctl[c].pc \in Upgrading
        /\ n = "compensate" \/ ctl[c].step \in DOMAIN Plan
    BY <1>1, HookTyped
  <2>3. ASSUME NEW s \in PhaseStates
        PROVE  LET k == Continues(c, n, s) IN
                 k \in Controls /\ k.at = ctl[c].at /\ k.mem = ctl[c].mem
    BY <1>1, <2>2, ContinuesFacts
  <2>4. CASE /\ Cp(c).phase[n] \in {"passed", "failed"}
             /\ ctl' = [ctl EXCEPT ![c] = Continues(c, n, Cp(c).phase[n])]
             /\ UNCHANGED <<record, live>>
    <3> DEFINE k == Continues(c, n, Cp(c).phase[n])
    <3>1. Cp(c).phase[n] \in PhaseStates
      BY <2>4 DEF PhaseStates
    <3>2. k \in Controls /\ k.at = ctl[c].at /\ k.mem = ctl[c].mem
      BY <2>3, <3>1
    <3>3. ctl' = [ctl EXCEPT ![c] = k]
      BY <2>4
    <3> HIDE DEF k
    <3>4. Led(k.at) /\ \A v \in Ventures : k.mem.results[v] = "verified" => v \in recorded
      BY <3>2 DEF BlastInv, Copies
    <3> QED
      BY <1>1, <2>4, <3>2, <3>3, <3>4, MovesLeads
  <2>5. CASE LET result == Result(effect[V(c)][n].passed)
             IN SavesPhase(c, n, result, Continues(c, n, result))
    <3> DEFINE result == Result(effect[V(c)][n].passed)
    <3>1. SavesPhase(c, n, result, Continues(c, n, result))
      BY <2>5
    <3>2. result \in PhaseStates
      BY DEF Result, PhaseStates
    <3> HIDE DEF result
    <3>3. Continues(c, n, result) \in Controls /\ Continues(c, n, result).at = ctl[c].at
      BY <2>3, <3>2
    <3> QED
      BY <1>1, <1>2, <2>2, <3>1, <3>2, <3>3
  <2>6. CASE SavesPhase(c, n, "prepared", [At(c, "invoking") EXCEPT !.hook = n])
    <3> DEFINE k == [At(c, "invoking") EXCEPT !.hook = n]
    <3>1. k \in Controls /\ k.at = ctl[c].at
      BY <1>1, InvokeFacts
    <3>2. SavesPhase(c, n, "prepared", k) /\ "prepared" \in PhaseStates
      BY <2>6 DEF PhaseStates
    <3> HIDE DEF k
    <3> QED
      BY <1>1, <1>2, <2>2, <3>1, <3>2
  <2>7. CASE Rejects(c) /\ UNCHANGED <<record, live>>
    BY <1>1, <2>7, RejectsLeads DEF BlastInv, Told
  <2> QED
    BY <1>1, <2>1, <2>4, <2>5, <2>6, <2>7
<1>4. CASE HookAnswers(c)
  <2> DEFINE n == ctl[c].hook
             result == Result(effect[V(c)][n].passed)
  <2>1. ctl[c].pc = "invoking" /\ SavesPhase(c, n, result, Continues(c, n, result))
    BY <1>4 DEF HookAnswers
  <2>2. /\ ctl[c].pc \in Upgrading /\ n \in Hooks
        /\ n = "compensate" \/ ctl[c].step \in DOMAIN Plan
    BY <1>1, <2>1, OnVenture DEF Placed, Upgrading
  <2>3. result \in PhaseStates
    BY DEF Result, PhaseStates
  <2> HIDE DEF n, result
  <2>4. Continues(c, n, result) \in Controls /\ Continues(c, n, result).at = ctl[c].at
    BY <1>1, <2>2, <2>3, ContinuesFacts
  <2> QED
    BY <1>1, <1>2, <2>1, <2>2, <2>3, <2>4
<1> QED
  BY <1>3, <1>4

(* Its own phases.                                                          *)
LEMMA GoesOnLeads ==
  ASSUME BlastInv, NEW c \in Controllers, GoesOn(c)
  PROVE  Leads /\ UNCHANGED <<effect, late>>
<1>1. UNCHANGED <<effect, late, recorded>> /\ Typed /\ ctl[c].pc \in Upgrading
  BY DEF GoesOn, past, BlastInv
<1>2. PICK k :
        /\ Onward(c, k)
        /\ \/ ctl' = [ctl EXCEPT ![c] = k] /\ UNCHANGED <<record, live>>
           \/ \E cp \in Checkpoints : SavesCp(c, cp, k)
  BY DEF GoesOn
<1>3. k \in Controls /\ k.at = ctl[c].at /\ k.mem = ctl[c].mem
  BY <1>2 DEF Onward
<1>4. CASE ctl' = [ctl EXCEPT ![c] = k] /\ UNCHANGED <<record, live>>
  BY <1>1, <1>3, <1>4, MovesLeads DEF BlastInv, Copies
<1>5. ASSUME NEW cp \in Checkpoints, SavesCp(c, cp, k) PROVE Leads
  BY <1>1, <1>3, <1>5, OnVenture, SavesLeads
<1> QED
  BY <1>1, <1>2, <1>4, <1>5

(* A hook is sent only for the venture its controller is at: it takes       *)
(* effect there, or is abandoned on its way.                                *)
LEMMA EffectsPreceded ==
  ASSUME BlastInv, NEW c \in Controllers, HookActs(c) \/ HookThrows(c) \/ Crash(c)
  PROVE  BlastInv'
<1>1. Typed /\ Typed'
  BY HooksTyped, AroundTyped DEF BlastInv
<1>2. ASSUME ctl[c].pc = "invoking"
      PROVE  /\ V(c) \in Ventures /\ ctl[c].hook \in Hooks
             /\ \A j \in DOMAIN Order : Order[j] = V(c) => Led(j)
  <2>1. ctl[c].at \in DOMAIN Order /\ V(c) \in Ventures /\ ctl[c].hook \in Hooks
    BY <1>1, <1>2, OnVenture, Bounds DEF Placed, Upgrading
  <2>2. ASSUME NEW j \in DOMAIN Order, Order[j] = V(c) PROVE j = ctl[c].at
    BY <2>1, <2>2, FleetAssumption DEF V
  <2> QED
    BY <2>1, <2>2 DEF BlastInv
<1>3. CASE HookActs(c)
  <2>1. /\ ctl[c].pc = "invoking" /\ TakesEffect(V(c), ctl[c].hook)
        /\ ctl' = [ctl EXCEPT ![c].done = TRUE] /\ UNCHANGED <<record, late, recorded>>
    BY <1>3 DEF HookActs, past
  <2> DEFINE k == [ctl[c] EXCEPT !.done = TRUE]
  <2>2. /\ k \in Controls /\ k.at = ctl[c].at /\ k.mem = ctl[c].mem
        /\ ctl' = [ctl EXCEPT ![c] = k]
    BY <1>1, <2>1, OnVenture DEF Typed, Controls
  <2> HIDE DEF k
  <2>3. Leads
    <3>1. Led(k.at) /\ \A v \in Ventures : k.mem.results[v] = "verified" => v \in recorded
      BY <2>2 DEF BlastInv, Copies
    <3> QED
      BY <2>1, <2>2, <3>1, MovesLeads
  <2>4. \A w \in Ventures, m \in Hooks :
          <<w, m>> # <<V(c), ctl[c].hook>> => effect'[w][m] = effect[w][m]
    BY <1>1, <1>2, <2>1, EffectFacts
  <2>5. ASSUME NEW j \in DOMAIN Order, NEW n \in Hooks,
               effect'[Order[j]][n].times > 0 \/ <<Order[j], n>> \in late'
        PROVE  Led(j)
    <3>1. CASE Order[j] = V(c)
      BY <1>2, <2>1, <3>1
    <3>2. CASE Order[j] # V(c)
      <4>1. effect'[Order[j]][n] = effect[Order[j]][n]
        BY <2>4, <3>2, Bounds
      <4> QED
        BY <2>1, <2>5, <4>1 DEF BlastInv, Preceded
    <3> QED
      BY <3>1, <3>2
  <2>6. Preceded'
    BY <2>1, <2>5 DEF Preceded, Led
  <2> QED
    BY <1>1, <2>3, <2>6 DEF BlastInv, Leads
<1>4. CASE HookThrows(c) \/ Crash(c)
  <2>1. Rejects(c) /\ Abandoned(c) /\ UNCHANGED <<record, effect, recorded>>
    BY <1>4 DEF HookThrows, Crash, past
  <2>2. Leads
    BY <2>1, RejectsLeads DEF BlastInv, Told
  <2>3. ASSUME NEW j \in DOMAIN Order, NEW n \in Hooks,
               effect'[Order[j]][n].times > 0 \/ <<Order[j], n>> \in late'
        PROVE  Led(j)
    <3>1. CASE effect[Order[j]][n].times > 0 \/ <<Order[j], n>> \in late
      BY <3>1 DEF BlastInv, Preceded
    <3>2. CASE <<Order[j], n>> \in late' /\ <<Order[j], n>> \notin late
      <4>1. ctl[c].pc = "invoking" /\ Order[j] = V(c)
        BY <2>1, <3>2 DEF Abandoned
      <4> QED
        BY <1>2, <4>1
    <3> QED
      BY <2>1, <2>3, <3>1, <3>2
  <2>4. Preceded'
    BY <2>1, <2>3 DEF Preceded, Led
  <2> QED
    BY <1>1, <2>2, <2>4 DEF BlastInv, Leads
<1> QED
  BY <1>3, <1>4

(* A hook nobody waits for takes effect where it was sent.                  *)
LEMMA LatePreceded ==
  ASSUME BlastInv, NEW v \in Ventures, NEW m \in Hooks, LateEffect(v, m)
  PROVE  BlastInv'
<1>1. /\ Typed /\ Typed' /\ <<v, m>> \in late /\ late' \subseteq late /\ TakesEffect(v, m)
      /\ UNCHANGED <<record, ctl, recorded>>
  BY AroundTyped DEF BlastInv, LateEffect, past
<1>2. \A w \in Ventures, n \in Hooks : <<w, n>> # <<v, m>> => effect'[w][n] = effect[w][n]
  BY <1>1, EffectFacts
<1>3. ASSUME NEW j \in DOMAIN Order, NEW n \in Hooks,
             effect'[Order[j]][n].times > 0 \/ <<Order[j], n>> \in late'
      PROVE  Led(j)
  <2>1. CASE <<Order[j], n>> = <<v, m>>
    BY <1>1, <2>1 DEF BlastInv, Preceded
  <2>2. CASE <<Order[j], n>> # <<v, m>>
    <3>1. effect'[Order[j]][n] = effect[Order[j]][n]
      BY <1>2, <2>2, Bounds
    <3> QED
      BY <1>1, <1>3, <3>1 DEF BlastInv, Preceded
  <2> QED
    BY <2>1, <2>2
<1>4. Preceded'
  BY <1>1, <1>3 DEF Preceded, Led
<1> QED
  BY <1>1, <1>4 DEF BlastInv, Told, Copies, Led

(* The invariant is kept by every step.                                     *)
LEMMA BlastInvStep ==
  ASSUME BlastInv, [Next]_vars PROVE BlastInv'
<1>1. Typed'
  BY TypedStep DEF BlastInv
<1>2. ASSUME NEW c \in Controllers, Begin(c) \/ Create(c) \/ Lease(c) \/ Pause(c) PROVE BlastInv'
  BY <1>1, <1>2, StoreLeads, LeadsStep
<1>3. ASSUME NEW c \in Controllers, NextVenture(c) \/ SaveResult(c) PROVE BlastInv'
  BY <1>1, <1>3, NextLeads, ResultLeads, LeadsStep
<1>4. ASSUME NEW c \in Controllers, RunHook(c) \/ HookAnswers(c) PROVE BlastInv'
  BY <1>1, <1>4, HooksLead, LeadsStep
<1>5. ASSUME NEW c \in Controllers, OwnAction(c) PROVE BlastInv'
  <2>1. GoesOn(c)
    BY <1>5, OwnActions DEF BlastInv
  <2> QED
    BY <1>1, <2>1, GoesOnLeads, LeadsStep
<1>6. ASSUME NEW c \in Controllers, Step(c) \/ HookThrows(c) \/ Crash(c) PROVE BlastInv'
  BY <1>2, <1>3, <1>4, <1>5, <1>6, EffectsPreceded DEF Step, OwnAction
<1>7. CASE Expire
  BY <1>1, <1>7 DEF Expire, past, BlastInv, Told, Preceded, Copies, Led
<1>8. CASE UNCHANGED vars
  BY <1>1, <1>8 DEF vars, past, BlastInv, Told, Preceded, Copies, Led
<1> QED
  BY <1>6, <1>7, <1>8, LatePreceded DEF Next

(* The invariant holds at first.                                            *)
LEMMA BlastInvInit ==
  ASSUME Init PROVE BlastInv
<1>1. /\ \A c \in Controllers : ctl[c] = Idle
      /\ record = [NewRun EXCEPT !.status = "none"] /\ late = {}
      /\ \A v \in Ventures, n \in Hooks : effect[v][n].times = 0
  BY DEF Init
<1>2. /\ Idle.at = 1 /\ \A v \in Ventures : Idle.mem.results[v] = "none"
      /\ \A v \in Ventures : record.results[v] = "none"
  BY <1>1 DEF Idle, NewRun
<1>3. ASSUME NEW c \in Controllers PROVE Copies(c) /\ Led(ctl[c].at)
  BY <1>1, <1>2, Bounds DEF Copies, Led
<1>4. Preceded
  BY <1>1, Bounds DEF Preceded
<1> QED
  BY <1>2, <1>3, <1>4, TypedInit DEF BlastInv, Told

(* Whatever controllers die, take over or overtake each other, and in a     *)
(* fleet of any size, no hook of a venture takes effect before the record   *)
(* has reported every venture before it as verified.                        *)
THEOREM FleetBlastRadius == Spec => []BlastRadius
<1>1. Init => BlastInv
  BY BlastInvInit
<1>2. BlastInv /\ [Next]_vars => BlastInv'
  BY BlastInvStep
<1>3. BlastInv => BlastRadius
  BY DEF BlastInv, Preceded, Led, BlastRadius
<1> QED
  BY <1>1, <1>2, <1>3, PTL DEF Spec
-----------------------------------------------------------------------------
(* An ended run tells the truth.  The record tells what the plan has done,  *)
(* for phases are completed in its order: so a venture is verified only     *)
(* when its files are new and production was read back, and before a file   *)
(* is taken back nothing that follows the phase at hand has begun.  And a   *)
(* compensation begins only when production is settled, so that nothing     *)
(* that is still on its way can undo it.                                    *)

Phase(v, n) == record.cps[v].phase[n]

\* What the record says has been done for a venture, if its policy asks for it.
Asked(v, n) == n \in Production => v \in policy.deploys
Did(v, n) ==
  Asked(v, n) =>
    /\ n = "touch" => record.cps[v].touched
    /\ n = "merge_gate" => v \in policy.automatic
    /\ n \notin {"touch", "merge_gate"} => Phase(v, n) = "passed"

\* A phase begins when those before it are done; a read-back is repeated.
InOrder(v) ==
  \A i, j \in DOMAIN Plan :
    i < j /\ Phase(v, Plan[j]) # "none" /\ Plan[i] # "production_readback" => Did(v, Plan[i])

\* What the policy does not ask for never begins.
Bare(v) == \A n \in Phases : ~Asked(v, n) => Phase(v, n) = "none"

\* Until it is compensated a venture keeps its new files and what was seen of it.
Lasting(v) ==
  Phase(v, "compensate") = "none" =>
    /\ Phase(v, "lock") = "passed" => files[v] = "new"
    /\ Phase(v, "production_readback") = "passed" => deployed[v] = "new"

\* Only production deploys the new version.
Served(v) == deployed[v] = "new" => effect[v]["production"].times > 0
\* A hook that nobody waits for is recorded as prepared.
Underway(v) == \A n \in Hooks : <<v, n>> \in late => Phase(v, n) = "prepared"
\* A result belongs to an open checkpoint, and a verified venture has done it all.
Known(v) ==
  /\ record.results[v] # "none" => record.cps[v].open
  /\ ~record.cps[v].open => record.cps[v] = NoCheckpoint
Proved(v) == record.results[v] = "verified" => \A i \in DOMAIN Plan : Did(v, Plan[i])

Unsettled(v) == Phase(v, "production") = "prepared"
RolledBack(v) == files[v] = "old" /\ deployed[v] = "old" /\ ~Unsettled(v)

\* A controller that follows the plan has done the phases before the one it is at.
Compensates(c) ==
  \/ ctl[c].pc \in {"failing", "compensated", "restoring"}
  \/ ctl[c].pc = "invoking" /\ ctl[c].hook = "compensate"
OnPlan(c) ==
  \/ ctl[c].pc \in InPhase \cup {"step"}
  \/ ctl[c].pc = "invoking" /\ ctl[c].hook # "compensate"

AsPlanned(c) ==
  /\ OnPlan(c) => \A i \in DOMAIN Plan : i < ctl[c].step => Did(V(c), Plan[i])
  /\ ctl[c].pc = "invoking" /\ ctl[c].hook # "compensate" => Plan[ctl[c].step] = ctl[c].hook
  /\ ctl[c].pc \in {"upgrading", "upgraded", "lock_kept"} =>
       Plan[ctl[c].step] = "upgrade" /\ Phase(V(c), "upgrade") = "prepared"
  /\ ctl[c].pc \in {"locking", "locked", "lock_known"} =>
       Plan[ctl[c].step] = "lock" /\ Phase(V(c), "lock") = "prepared"
  /\ ctl[c].pc \in {"locked", "lock_known"} => files[V(c)] = "new"
  /\ ctl[c].pc = "result" /\ ctl[c].result = "verified" =>
       \A i \in DOMAIN Plan : Did(V(c), Plan[i])

\* One that takes a venture back has settled its production, and if it had not
\* touched it, not written the lock.
Undoes(c) ==
  /\ Compensates(c) => ~Unsettled(V(c))
  /\ ctl[c].pc = "failing" => record.cps[V(c)].touched \/ Phase(V(c), "lock") # "passed"
  /\ ctl[c].pc = "restoring" => deployed[V(c)] = "old" /\ Phase(V(c), "compensate") # "none"
  /\ ctl[c].pc = "result" /\ ctl[c].result = "rolled_back" => RolledBack(V(c))
  /\ ctl[c].pc = "pausing" =>
       /\ record.results[V(c)] # "verified"
       /\ record.results[V(c)] = "rolled_back" => RolledBack(V(c))

Past(v) ==
  InOrder(v) /\ Bare(v) /\ Lasting(v) /\ Served(v) /\ Underway(v) /\ Known(v) /\ Proved(v)
AtEnd == AtRest => \A v \in Ventures : record.results[v] = "rolled_back" => RolledBack(v)

TruthInv ==
  /\ FleetInv /\ AtEnd
  /\ \A v \in Ventures : Past(v)
  /\ \A c \in Controllers : AsPlanned(c) /\ Undoes(c)
-----------------------------------------------------------------------------
(* The plan.                                                                *)

(* Its phases, and those whose place in it matters.                         *)
LEMMA PlanFacts ==
  /\ DOMAIN Plan = 1..Len(Plan) /\ Len(Plan) \in Nat
  /\ \A i \in DOMAIN Plan : Plan[i] \in Phases /\ Plan[i] # "compensate"
  /\ \A i, j \in DOMAIN Plan : Plan[i] = Plan[j] => i = j
  /\ "production" \in Hooks /\ "compensate" \in Hooks
  /\ {"touch", "upgrade", "merge_gate", "production_readback", "lock", "production", "compensate"}
       \subseteq Phases
  /\ {"touch", "upgrade", "merge_gate", "production_readback", "lock"} \cap Hooks = {}
  /\ {"upgrade", "merge_gate", "lock", "compensate"} \cap Production = {}
<1>1. PICK i \in DOMAIN Plan : Plan[i] = "production"
  BY PlanAssumption DEF Planned
<1>2. Plan[i] \in Hooks
  BY <1>1, Bounds DEF Phases, Local
<1> QED
  BY <1>1, <1>2, Bounds, PlanAssumption, FleetAssumption DEF Planned, Phases, Local, Production

(* Nothing that follows a phase not done has begun.                         *)
LEMMA NotBegunAfter ==
  ASSUME NEW v, InOrder(v), NEW m, NEW n, Planned(m), Planned(n), Before(m, n),
         m # "production_readback", ~Did(v, m)
  PROVE  Phase(v, n) = "none"
<1>1. PICK i, j \in DOMAIN Plan : Plan[i] = m /\ Plan[j] = n
  BY DEF Planned
<1> QED
  BY <1>1 DEF Before, InOrder

(* A phase of the plan that is reached and fails leaves production settled. *)
LEMMA FailsSettled ==
  ASSUME NEW v, InOrder(v), Bare(v), NEW i \in DOMAIN Plan,
         \A j \in DOMAIN Plan : j < i => Did(v, Plan[j]),
         Plan[i] # "production", ~Did(v, Plan[i]) \/ Plan[i] = "production_readback"
  PROVE  ~Unsettled(v)
<1>1. PICK j \in DOMAIN Plan : Plan[j] = "production"
  BY PlanAssumption DEF Planned
<1>2. i \in Nat /\ j \in Nat /\ i # j
  BY <1>1, PlanFacts
<1>3. CASE j < i
  <2>1. Phase(v, "production") \in {"none", "passed"}
    BY <1>1, <1>3, PlanFacts DEF Did, Bare
  <2> QED
    BY <2>1 DEF Unsettled
<1>4. CASE i < j
  <2>1. Plan[i] # "production_readback"
    BY <1>1, <1>2, <1>4, PlanAssumption DEF Before
  <2> QED
    BY <1>1, <1>4, <2>1 DEF InOrder, Unsettled, Phase
<1> QED
  BY <1>2, <1>3, <1>4

(* An ended run that says so tells the truth.                               *)
LEMMA TruthTold == ASSUME TruthInv PROVE ResultIsTrue
<1>1. ASSUME NEW v \in Ventures, record.results[v] = "verified",
             record.cps[v].phase["compensate"] = "none"
      PROVE  files[v] = "new" /\ (v \in policy.deploys => deployed[v] = "new")
  <2>1. Lasting(v) /\ Proved(v)
    BY DEF TruthInv, Past
  <2>2. Did(v, "lock") /\ Did(v, "production_readback")
    BY <1>1, <2>1, PlanAssumption DEF Proved, Planned
  <2> QED
    BY <1>1, <2>1, <2>2, PlanFacts DEF Did, Asked, Lasting, Phase
<1> QED
  BY <1>1 DEF TruthInv, AtEnd, RolledBack, ResultIsTrue
-----------------------------------------------------------------------------
(* Steps that leave most as it is.                                          *)

(* Of a controller that does not work on a venture nothing is claimed.      *)
LEMMA Unconcerned ==
  ASSUME NEW c \in Controllers, ctl'[c].pc \in Resting \cup {"next"}
  PROVE  AsPlanned(c)' /\ Undoes(c)'
  BY DEF AsPlanned, Undoes, Compensates, OnPlan, Resting, InPhase

\* A checkpoint that tells the same, and is open.
SameCheckpoint(v) ==
  /\ \A n \in Phases : Phase(v, n)' = Phase(v, n)
  /\ record'.cps[v].touched = record.cps[v].touched /\ record'.cps[v].open

(* A venture with the same checkpoint, files and hooks has the same past.   *)
LEMMA SamePast ==
  ASSUME NEW v \in Ventures, Past(v), UNCHANGED policy,
         record'.cps[v] = record.cps[v] \/ SameCheckpoint(v),
         \/ record'.results[v] = record.results[v]
         \/ /\ record.cps[v].open
            /\ record'.results[v] = "verified" => \A i \in DOMAIN Plan : Did(v, Plan[i]),
         files'[v] = files[v], deployed'[v] = deployed[v],
         effect'[v]["production"].times = effect[v]["production"].times,
         \A n \in Hooks : <<v, n>> \in late' => <<v, n>> \in late \/ Phase(v, n) = "prepared"
  PROVE  Past(v)'
<1>1. /\ \A n \in Phases : Phase(v, n)' = Phase(v, n)
      /\ record'.cps[v].touched = record.cps[v].touched
  BY DEF Phase, SameCheckpoint
<1>2. \A i \in DOMAIN Plan : Phase(v, Plan[i])' = Phase(v, Plan[i]) /\ Did(v, Plan[i])' = Did(v, Plan[i])
  BY <1>1, PlanFacts DEF Did, Asked
<1>3. InOrder(v)' /\ Proved(v)'
  BY <1>2 DEF Past, InOrder, Proved
<1>4. Lasting(v)' /\ Served(v)' /\ Known(v)' /\ Bare(v)'
  <2>1. Bare(v)'
    BY <1>1 DEF Past, Bare, Asked
  <2> QED
    BY <1>1, <2>1, PlanFacts DEF Past, Lasting, Served, Known, SameCheckpoint
<1>5. Underway(v)'
  BY <1>1 DEF Past, Underway, Phases
<1> QED
  BY <1>3, <1>4, <1>5 DEF Past

(* A controller that works on its venture, of which nothing else changes.   *)
OnlyAt(c) ==
  /\ WorksOn(c) /\ UNCHANGED <<deployed, policy>>
  /\ \A w \in Ventures \ {V(c)} : files'[w] = files[w]

(* The invariant through its steps needs the venture and it alone.          *)
LEMMA OnlyAtStep ==
  ASSUME TruthInv, FleetInv', NEW c \in Controllers, OnlyAt(c), NEW v \in Ventures, v = V(c),
         InOrder(v)', Bare(v)', Lasting(v)', Underway(v)', AsPlanned(c)', Undoes(c)'
  PROVE  TruthInv'
<1>1. FleetInv /\ WorksOn(c) /\ UNCHANGED <<deployed, policy, effect, late>>
  BY DEF TruthInv, OnlyAt, WorksOn
<1>2. /\ Works(c) /\ record.lease = c /\ record'.lease = c /\ record'.results = record.results
      /\ record.results[v] # "verified" /\ record'.cps[v].open
      /\ \A d \in Controllers \ {c} : ~Works(d) /\ ctl'[d] = ctl[d]
  <2>1. Works(c) /\ record.results[v] # "verified"
    BY <1>1 DEF WorksOn, Works, Resting, Upgrading, FleetInv, OnOpen
  <2> QED
    BY <1>1, <2>1, Alone DEF WorksOn
<1>3. ASSUME NEW w \in Ventures \ {v} PROVE Past(w)'
  <2>1. Past(w) /\ record'.cps[w] = record.cps[w] /\ files'[w] = files[w]
    BY <1>1 DEF TruthInv, OnlyAt, WorksOn
  <2> QED
    BY <1>1, <1>2, <2>1, SamePast
<1>4. Past(v)'
  <2>1. Served(v)
    BY DEF TruthInv, Past
  <2> QED
    BY <1>1, <1>2, <2>1 DEF Past, Served, Known, Proved
<1>5. ASSUME NEW d \in Controllers PROVE AsPlanned(d)' /\ Undoes(d)'
  <2>1. CASE d = c
    BY <2>1
  <2>2. CASE d # c
    <3>1. ctl'[d].pc \in Resting \cup {"next"}
      BY <1>2, <2>2 DEF Works
    <3> QED
      BY <3>1, Unconcerned
  <2> QED
    BY <2>1, <2>2
<1>6. AtEnd'
  BY <1>2, FleetAssumption DEF AtEnd, AtRest
<1> QED
  BY <1>3, <1>4, <1>5, <1>6 DEF TruthInv

(* Steps of the store, of controllers that come and go, and of those that   *)
(* begin with a venture.                                                    *)
LEMMA AroundStep ==
  ASSUME TruthInv, FleetInv', UNCHANGED <<files, effect, deployed, policy>>,
         \A v \in Ventures : record'.cps[v] = record.cps[v] \/ SameCheckpoint(v),
         record'.results = record.results,
         AtRest' => AtRest \/ \A v \in Ventures : record.results[v] = "rolled_back" => RolledBack(v),
         \A v \in Ventures, n \in Hooks :
           <<v, n>> \in late' => <<v, n>> \in late \/ Phase(v, n) = "prepared",
         \A d \in Controllers :
           \/ ctl'[d] = ctl[d]
           \/ ctl'[d].pc \in Resting \cup {"next"}
           \/ ctl'[d].pc = "step" /\ ctl'[d].step = 1
  PROVE  TruthInv'
<1>1. ASSUME NEW v \in Ventures PROVE Past(v)'
  BY SamePast DEF TruthInv
<1>2. /\ \A v \in Ventures, n \in Phases : Phase(v, n)' = Phase(v, n)
      /\ \A v \in Ventures : record'.cps[v].touched = record.cps[v].touched
      /\ \A v \in Ventures, i \in DOMAIN Plan : Did(v, Plan[i])' = Did(v, Plan[i])
      /\ \A v \in Ventures : Unsettled(v)' = Unsettled(v) /\ RolledBack(v)' = RolledBack(v)
  <2>1. ASSUME NEW v \in Ventures
        PROVE  /\ \A n \in Phases : Phase(v, n)' = Phase(v, n)
               /\ record'.cps[v].touched = record.cps[v].touched
    BY DEF Phase, SameCheckpoint
  <2> QED
    BY <2>1, PlanFacts DEF Did, Asked, Unsettled, RolledBack
<1>3. ASSUME NEW d \in Controllers PROVE AsPlanned(d)' /\ Undoes(d)'
  <2>1. CASE ctl'[d] = ctl[d]
    <3>1. AsPlanned(d) /\ Undoes(d) /\ V(d)' = V(d)
      BY <2>1 DEF TruthInv, V
    <3>2. ctl[d].pc \in Upgrading \cup {"pausing"} => V(d) \in Ventures
      BY OnVenture DEF TruthInv, FleetInv
    <3>3. AsPlanned(d)'
      BY <1>2, <2>1, <3>1, <3>2, PlanFacts DEF AsPlanned, OnPlan, Upgrading, InPhase
    <3>4. Undoes(d)'
      BY <1>2, <2>1, <3>1, <3>2, PlanFacts DEF Undoes, Compensates, Upgrading
    <3> QED
      BY <3>3, <3>4
  <2>2. CASE ctl'[d].pc \in Resting \cup {"next"}
    BY <2>2, Unconcerned
  <2>3. CASE ctl'[d].pc = "step" /\ ctl'[d].step = 1
    <3>1. \A i \in DOMAIN Plan : ~(i < ctl'[d].step)
      BY <2>3, PlanFacts
    <3> QED
      BY <2>3, <3>1 DEF AsPlanned, Undoes, Compensates, OnPlan, InPhase
  <2> QED
    BY <2>1, <2>2, <2>3
<1>4. AtEnd'
  BY <1>2 DEF TruthInv, AtEnd
<1> QED
  BY <1>1, <1>3, <1>4 DEF TruthInv
-----------------------------------------------------------------------------
(* At first nothing is recorded, deployed or on its way.                    *)
LEMMA TruthInit == ASSUME Init PROVE TruthInv
<1>1. FleetInv
  BY FleetInvInit
<1>2. /\ record.cps = [v \in Ventures |-> NoCheckpoint] /\ record.status = "none"
      /\ record.results = [v \in Ventures |-> "none"]
      /\ late = {} /\ deployed = [v \in Ventures |-> "old"]
  BY DEF Init, NewRun
<1>3. ASSUME NEW v \in Ventures PROVE Past(v)
  <2>1. /\ record.cps[v] = NoCheckpoint /\ \A n \in Phases : Phase(v, n) = "none"
        /\ record.results[v] = "none" /\ deployed[v] = "old"
    BY <1>2 DEF Phase, NoCheckpoint
  <2> QED
    BY <1>2, <2>1, PlanFacts DEF Past, InOrder, Bare, Lasting, Served, Underway, Known, Proved
<1>4. ASSUME NEW c \in Controllers PROVE AsPlanned(c) /\ Undoes(c)
  <2>1. ctl[c].pc = "idle"
    BY DEF Init, Idle
  <2> QED
    BY <2>1 DEF AsPlanned, Undoes, Compensates, OnPlan, InPhase
<1>5. AtEnd
  BY <1>2 DEF AtEnd, AtRest
<1> QED
  BY <1>1, <1>3, <1>4, <1>5 DEF TruthInv

(* A controller that comes to the lease, or gives up, tells nothing new.    *)
LEMMA StoreTold ==
  ASSUME TruthInv, FleetInv', NEW c \in Controllers,
         \/ Begin(c) \/ Create(c) \/ Lease(c) \/ HookThrows(c) \/ Crash(c)
         \/ Rejects(c) /\ UNCHANGED <<record, files, effect, deployed, late, policy>>
  PROVE  TruthInv'
<1>1. /\ FleetInv /\ Typed /\ ctl \in [Controllers -> Controls] /\ record \in Records
  BY DEF TruthInv, FleetInv, Typed
<1>2. UNCHANGED <<files, effect, deployed, policy>>
  BY DEF Begin, Create, Lease, HookThrows, Crash, world, outside
<1>3. /\ record'.cps = record.cps /\ record'.results = record.results
      /\ AtRest' => AtRest
  <2>1. CASE Begin(c) \/ HookThrows(c) \/ Crash(c) \/ UNCHANGED record
    BY <2>1 DEF Begin, HookThrows, Crash, AtRest
  <2>2. CASE Create(c)
    BY <1>1, <2>2 DEF Create, FleetInv, NotBegun, NewRun, AtRest
  <2>3. CASE Lease(c)
    <3>1. record' = record \/ record' = [record EXCEPT !.lease = c]
      BY <2>3 DEF Lease
    <3> QED
      BY <1>1, <3>1, FleetAssumption DEF Records, AtRest
  <2> QED
    BY <2>1, <2>2, <2>3
<1>4. UNCHANGED late \/ Abandoned(c)
  BY DEF Begin, Create, Lease, HookThrows, Crash, world, outside
<1>5. ASSUME NEW v \in Ventures, NEW n \in Hooks, <<v, n>> \in late'
      PROVE  <<v, n>> \in late \/ Phase(v, n) = "prepared"
  <2>1. CASE <<v, n>> \in late
    BY <2>1
  <2>2. CASE <<v, n>> \notin late
    <3>1. ctl[c].pc = "invoking" /\ late' = late \cup {<<V(c), ctl[c].hook>>}
      BY <1>4, <1>5, <2>2 DEF Abandoned
    <3>2. Invokes(c, v, n) /\ Once(v, n)
      BY <1>1, <1>5, <2>2, <3>1 DEF Invokes, FleetInv
    <3> QED
      BY <3>2 DEF Once, Phase
  <2> QED
    BY <2>1, <2>2
<1>6. /\ \A d \in Controllers \ {c} : ctl'[d] = ctl[d]
      /\ ctl'[c].pc \in Resting \cup {"next"}
  <2>1. CASE Begin(c) \/ Create(c)
    <3>1. PICK pc \in Resting : Goes(c, pc)
      BY <2>1 DEF Begin, Create, Resting
    <3> QED
      BY <1>1, <3>1 DEF Goes, Controls
  <2>2. CASE Rejects(c)
    BY <1>1, <2>2, RejectsFacts DEF Idle, Resting
  <2>3. CASE Lease(c) /\ ~Rejects(c)
    <3>1. ctl' = [ctl EXCEPT ![c].pc = "next", ![c].mem = record']
      BY <2>3 DEF Lease
    <3> QED
      BY <1>1, <3>1 DEF Controls
  <2> QED
    BY <2>1, <2>2, <2>3 DEF HookThrows, Crash
<1> QED
  BY <1>2, <1>3, <1>5, <1>6, AroundStep

(* Nor does a lease that expires.                                           *)
LEMMA ExpireTold ==
  ASSUME TruthInv, FleetInv', Expire
  PROVE  TruthInv'
<1>1. UNCHANGED <<record, ctl, files, effect, deployed, late, policy>>
  BY DEF Expire, world, outside
<1> QED
  BY <1>1, AroundStep DEF AtRest

(* A controller that looks for the next venture: a run is completed when    *)
(* all are verified, and the checkpoint it opens is empty.                  *)
LEMMA NextTold ==
  ASSUME TruthInv, FleetInv', NEW c \in Controllers, NextVenture(c)
  PROVE  TruthInv'
<1>1. /\ FleetInv /\ Typed /\ ctl \in [Controllers -> Controls] /\ record \in Records
      /\ ctl[c] \in Controls
  BY OnVenture DEF TruthInv, FleetInv, Typed
<1>2. ctl[c].pc = "next" /\ UNCHANGED world
  BY DEF NextVenture
<1>3. Works(c)
  BY <1>2 DEF Works, Resting
<1>4. /\ record.lease = c /\ ctl[c].mem = record /\ ~AtRest
      /\ \A i \in DOMAIN Order : i < ctl[c].at => record.results[Order[i]] = "verified"
  BY <1>1, <1>3, Alone, FleetAssumption DEF AtRest
<1>5. UNCHANGED <<files, effect, deployed, late, policy>>
  BY <1>2 DEF world, outside
<1>6. CASE ctl[c].at > Len(Order) /\ Finishes(c, "completed")
  <2>1. record' = [record EXCEPT !.status = "completed", !.lease = None] /\ Rejects(c)
    BY <1>4, <1>6 DEF Finishes
  <2>2. record'.cps = record.cps /\ record'.results = record.results
    BY <1>1, <2>1 DEF Records
  <2>3. ASSUME NEW v \in Ventures PROVE record.results[v] = "verified"
    <3>1. PICK i \in DOMAIN Order : Order[i] = v
      BY FleetAssumption
    <3> QED
      BY <1>1, <1>4, <1>6, <3>1, Bounds DEF Controls
  <2>4. ctl'[c].pc \in Resting /\ \A d \in Controllers \ {c} : ctl'[d] = ctl[d]
    BY <1>1, <2>1, RejectsFacts DEF Idle, Resting
  <2> QED
    BY <1>5, <2>2, <2>3, <2>4, AroundStep
<1>7. CASE ctl[c].at <= Len(Order) /\ ctl' = [ctl EXCEPT ![c].at = @ + 1] /\ UNCHANGED record
  <2>1. ctl'[c].pc = "next" /\ \A d \in Controllers \ {c} : ctl'[d] = ctl[d]
    BY <1>1, <1>2, <1>7 DEF Controls
  <2> QED
    BY <1>5, <1>7, <2>1, AroundStep DEF AtRest
<1> DEFINE first == [ctl[c] EXCEPT !.pc = "step", !.step = 1]
           cp == [NoCheckpoint EXCEPT !.open = TRUE]
<1>8. first \in Controls /\ first.pc = "step" /\ first.step = 1 /\ first.at = ctl[c].at
  <2>1. 1 \in 1..Len(Plan) + 1
    BY Bounds
  <2> QED
    BY <1>1, <2>1 DEF Controls, Upgrading
<1>9. CASE ctl' = [ctl EXCEPT ![c] = first] /\ UNCHANGED record
  <2>1. /\ ctl'[c].pc = "step" /\ ctl'[c].step = 1
        /\ \A d \in Controllers \ {c} : ctl'[d] = ctl[d]
    BY <1>1, <1>8, <1>9
  <2> QED
    BY <1>5, <1>9, <2>1, AroundStep DEF AtRest
<1>10. CASE ctl[c].at <= Len(Order) /\ ~Cp(c).open /\ SavesCp(c, cp, first)
  <2>1. V(c) \in Ventures /\ Cp(c) = record.cps[V(c)] /\ cp \in Checkpoints
    <3>1. ctl[c].at \in DOMAIN Order
      BY <1>1, <1>10, Bounds DEF Controls
    <3>2. V(c) \in Ventures
      BY <3>1, Bounds DEF V
    <3>3. Cp(c) = record.cps[V(c)]
      BY <1>4 DEF Cp
    <3>4. cp \in Checkpoints
      BY DEF Checkpoints, NoCheckpoint
    <3> QED
      BY <3>2, <3>3, <3>4
  <2>2. record' = [record EXCEPT !.cps[V(c)] = cp]
    BY <1>1, <1>3, <1>8, <1>10, <2>1, SavedCp
  <2>3. ctl'[c].pc = "step" /\ ctl'[c].step = 1 /\ \A d \in Controllers \ {c} : ctl'[d] = ctl[d]
    <3>1. [ctl[c].mem EXCEPT !.cps[V(c)] = cp] = [record EXCEPT !.cps[V(c)] = cp]
      BY <1>4
    <3>2. Leasable(c)
      BY <1>1, <1>3, Alone
    <3>3. ctl' = [ctl EXCEPT ![c] = [first EXCEPT !.mem = record']]
      BY <1>10, <3>2 DEF SavesCp, Persists
    <3>4. ctl'[c] = [first EXCEPT !.mem = record'] /\ \A d \in Controllers \ {c} : ctl'[d] = ctl[d]
      BY <1>1, <3>3
    <3> HIDE DEF first
    <3> QED
      BY <1>8, <3>4 DEF Controls
  <2>4. /\ record'.results = record.results /\ record'.lease = record.lease
        /\ record'.cps[V(c)] = cp
        /\ \A w \in Ventures \ {V(c)} : record'.cps[w] = record.cps[w]
    BY <1>1, <2>1, <2>2 DEF Records
  <2>5. record.cps[V(c)] = NoCheckpoint
    BY <1>10, <2>1 DEF TruthInv, Past, Known
  <2>6. PICK v \in Ventures : v = V(c)
    BY <2>1
  <2>8. SameCheckpoint(v)
    <3>1. cp.open /\ cp.phase = NoCheckpoint.phase /\ cp.touched = NoCheckpoint.touched
      BY DEF NoCheckpoint
    <3> HIDE DEF cp
    <3> QED
      BY <2>4, <2>5, <2>6, <3>1 DEF SameCheckpoint, Phase
  <2>7. ~AtRest'
    BY <1>4, <2>4, FleetAssumption DEF AtRest
  <2> QED
    BY <1>5, <2>3, <2>4, <2>6, <2>7, <2>8, AroundStep
<1> QED
  BY <1>6, <1>7, <1>9, <1>10 DEF NextVenture

(* A run is paused at a venture, after which none has begun.                *)
LEMMA PauseTold ==
  ASSUME TruthInv, FleetInv', NEW c \in Controllers, Pause(c)
  PROVE  TruthInv'
<1>1. /\ FleetInv /\ Typed /\ record \in Records /\ ctl[c].pc = "pausing"
      /\ UNCHANGED <<files, effect, deployed, late, policy>>
  BY DEF TruthInv, FleetInv, Typed, Pause, world, outside
<1>2. /\ Works(c) /\ record.lease = c /\ ctl[c].mem = record
      /\ \A i \in DOMAIN Order : i < ctl[c].at => record.results[Order[i]] = "verified"
  BY <1>1, Alone DEF Works, Resting
<1>3. ctl[c].at \in DOMAIN Order /\ DOMAIN Order \subseteq Nat
  BY <1>1, OnVenture, Bounds
<1>4. PICK v \in Ventures : v = V(c)
  BY <1>1, OnVenture
<1>5. record' = [record EXCEPT !.status = "paused", !.lease = None] /\ Rejects(c)
  BY <1>2 DEF Pause, Finishes
<1>6. record'.cps = record.cps /\ record'.results = record.results
  BY <1>1, <1>5 DEF Records
<1>7. ASSUME NEW w \in Ventures, record.results[w] = "rolled_back" PROVE RolledBack(w)
  <2>1. /\ record.results[v] # "verified"
        /\ record.results[v] = "rolled_back" => RolledBack(v)
    BY <1>1, <1>4 DEF TruthInv, Undoes
  <2>2. CASE w = v
    BY <1>7, <2>1, <2>2
  <2>3. CASE w # v
    <3>1. PICK i \in DOMAIN Order : Order[i] = w
      BY FleetAssumption
    <3>2. ~(i < ctl[c].at) /\ i # ctl[c].at
      BY <1>2, <1>4, <1>7, <2>3, <3>1 DEF V
    <3>3. ctl[c].at < i
      BY <1>3, <3>2
    <3>4. record.cps[w].open
      BY <1>7 DEF TruthInv, Past, Known
    <3>5. record.results[v] = "verified"
      BY <1>1, <1>3, <1>4, <3>1, <3>3, <3>4 DEF FleetInv, Opened, V
    <3> QED
      BY <2>1, <3>5
  <2> QED
    BY <2>2, <2>3
<1>8. ctl'[c].pc \in Resting /\ \A d \in Controllers \ {c} : ctl'[d] = ctl[d]
  BY <1>1, <1>5, RejectsFacts DEF Idle, Resting
<1> QED
  BY <1>1, <1>6, <1>7, <1>8, AroundStep

(* A result is saved by the controller that has seen it.                    *)
LEMMA SaveResultTold ==
  ASSUME TruthInv, FleetInv', NEW c \in Controllers, SaveResult(c)
  PROVE  TruthInv'
<1>1. /\ FleetInv /\ Typed /\ ctl[c].pc = "result" /\ ctl[c].pc \in Upgrading
      /\ UNCHANGED <<files, effect, deployed, late, policy>>
  BY DEF TruthInv, FleetInv, SaveResult, world, outside, Upgrading
<1>2. PICK v \in Ventures : v = V(c)
  BY <1>1, OnVenture
<1>3. /\ Advances(c) /\ record'.cps = record.cps /\ record'.results[v] = ctl[c].result
      /\ \A w \in Ventures \ {v} : record'.results[w] = record.results[w]
      /\ ctl'[c].pc \in {"pausing", "next"}
      /\ ctl'[c].pc = "pausing" => ctl'[c].at = ctl[c].at /\ ctl[c].result # "verified"
  BY <1>1, <1>2, ResultAdvances
<1>4. record.cps[v].open /\ record.lease = c /\ record'.lease = c
      /\ \A d \in Controllers \ {c} : ~Works(d) /\ ctl'[d] = ctl[d]
  BY <1>1, <1>2, <1>3, Alone DEF Advances, FleetInv, OnOpen
<1>5. /\ ctl[c].result = "verified" => \A i \in DOMAIN Plan : Did(v, Plan[i])
      /\ ctl[c].result = "rolled_back" => RolledBack(v)
  BY <1>1, <1>2 DEF TruthInv, AsPlanned, Undoes
<1>6. ASSUME NEW w \in Ventures PROVE Past(w)'
  <2>1. Past(w)
    BY DEF TruthInv
  <2> QED
    BY <1>1, <1>3, <1>4, <1>5, <2>1, SamePast
<1>7. AsPlanned(c)' /\ Undoes(c)'
  <2>1. CASE ctl'[c].pc = "next"
    BY <2>1, Unconcerned
  <2>2. CASE ctl'[c].pc = "pausing"
    <3>1. V(c)' = v
      BY <1>2, <1>3, <2>2 DEF V
    <3>2. RolledBack(v)' = RolledBack(v)
      BY <1>1, <1>3 DEF RolledBack, Unsettled, Phase
    <3>3. record'.results[v] # "verified" /\ (record'.results[v] = "rolled_back" => RolledBack(v)')
      BY <1>3, <1>5, <2>2, <3>2
    <3>4. Undoes(c)'
      BY <2>2, <3>1, <3>3 DEF Undoes, Compensates
    <3>5. AsPlanned(c)'
      BY <2>2 DEF AsPlanned, OnPlan, InPhase
    <3> QED
      BY <3>4, <3>5
  <2> QED
    BY <1>3, <2>1, <2>2
<1>8. ASSUME NEW d \in Controllers \ {c} PROVE AsPlanned(d)' /\ Undoes(d)'
  BY <1>4, Unconcerned DEF Works
<1>9. AtEnd'
  BY <1>4, FleetAssumption DEF AtEnd, AtRest
<1> QED
  BY <1>6, <1>7, <1>8, <1>9 DEF TruthInv

(* A hook takes effect while it is recorded as prepared: production deploys *)
(* the new version only before it is settled.                               *)
LEMMA EffectTold ==
  ASSUME TruthInv, FleetInv', NEW v \in Ventures, NEW n \in Hooks, TakesEffect(v, n),
         Phase(v, n) = "prepared", late' \subseteq late, UNCHANGED <<record, files, policy>>,
         \A d \in Controllers :
           /\ ctl'[d].pc = ctl[d].pc /\ ctl'[d].at = ctl[d].at /\ ctl'[d].step = ctl[d].step
           /\ ctl'[d].hook = ctl[d].hook /\ ctl'[d].result = ctl[d].result
  PROVE  TruthInv'
<1>1. /\ Typed /\ deployed \in [Ventures -> {"old", "new"}]
      /\ effect \in [Ventures -> [Hooks -> [times : Nat, passed : BOOLEAN]]]
  BY DEF TruthInv, FleetInv, Typed
<1>2. /\ effect'[v][n].times = effect[v][n].times + 1
      /\ \A w \in Ventures, m \in Hooks : <<w, m>> # <<v, n>> => effect'[w][m] = effect[w][m]
  BY <1>1, EffectFacts
<1>3. /\ \A w \in Ventures \ {v} : deployed'[w] = deployed[w]
      /\ \/ n = "production" /\ deployed'[v] = "new"
         \/ n = "compensate" /\ deployed'[v] = "old"
         \/ deployed'[v] = deployed[v]
  BY <1>1 DEF TakesEffect
<1>4. ASSUME NEW w \in Ventures, ~Unsettled(w), deployed[w] = "old" PROVE deployed'[w] = "old"
  BY <1>3, <1>4 DEF Unsettled, Phase
<1>5. \A w \in Ventures : /\ Unsettled(w)' = Unsettled(w)
                          /\ RolledBack(w) => RolledBack(w)'
  BY <1>4 DEF RolledBack, Unsettled, Phase
<1>6. ASSUME NEW w \in Ventures PROVE Past(w)'
  <2>1. Past(w)
    BY DEF TruthInv
  <2>2. InOrder(w)' /\ Bare(w)' /\ Known(w)' /\ Proved(w)' /\ Underway(w)'
    BY <2>1 DEF Past, InOrder, Bare, Known, Proved, Underway, Did, Asked, Phase
  <2>3. Lasting(w)'
    <3>1. CASE w = v /\ n = "compensate"
      BY <3>1 DEF Lasting, Phase
    <3>2. CASE w # v \/ n # "compensate"
      <4>1. deployed[w] = "new" => deployed'[w] = "new"
        BY <1>3, <3>2
      <4> QED
        BY <2>1, <4>1 DEF Past, Lasting, Phase
    <3> QED
      BY <3>1, <3>2
  <2>4. Served(w)'
    <3>1. effect[w]["production"].times \in Nat /\ "production" \in Hooks
      BY <1>1, PlanFacts
    <3>2. effect[w]["production"].times > 0 => effect'[w]["production"].times > 0
      BY <1>2, <3>1
    <3>3. CASE w = v /\ n = "production"
      BY <1>2, <3>1, <3>3 DEF Served
    <3>4. CASE ~(w = v /\ n = "production")
      <4>1. deployed'[w] = "new" => deployed[w] = "new"
        BY <1>3, <3>4
      <4> QED
        BY <2>1, <3>2, <4>1 DEF Past, Served
    <3> QED
      BY <3>3, <3>4
  <2> QED
    BY <2>2, <2>3, <2>4 DEF Past
<1>7. ASSUME NEW d \in Controllers PROVE AsPlanned(d)' /\ Undoes(d)'
  <2>1. AsPlanned(d) /\ Undoes(d) /\ V(d)' = V(d)
    BY DEF TruthInv, V
  <2>2. ctl[d].pc \in Upgrading \cup {"pausing"} => V(d) \in Ventures
    BY <1>1, OnVenture
  <2>3. AsPlanned(d)'
    BY <2>1 DEF AsPlanned, OnPlan, Did, Asked, Phase
  <2>4. Undoes(d)'
    BY <1>4, <1>5, <2>1, <2>2 DEF Undoes, Compensates, Upgrading, Phase
  <2> QED
    BY <2>3, <2>4
<1>8. AtEnd'
  BY <1>5 DEF TruthInv, AtEnd, AtRest
<1> QED
  BY <1>6, <1>7, <1>8 DEF TruthInv

(* Whether its controller waits for the hook or not.                        *)
LEMMA ActsTold ==
  ASSUME TruthInv, FleetInv',
         \/ \E c \in Controllers : HookActs(c)
         \/ \E v \in Ventures, n \in Hooks : LateEffect(v, n)
  PROVE  TruthInv'
<1>1. FleetInv /\ Typed /\ ctl \in [Controllers -> Controls]
  BY DEF TruthInv, FleetInv, Typed
<1>2. ASSUME NEW c \in Controllers, HookActs(c) PROVE TruthInv'
  <2>1. /\ ctl[c].pc = "invoking" /\ TakesEffect(V(c), ctl[c].hook)
        /\ ctl' = [ctl EXCEPT ![c].done = TRUE]
        /\ UNCHANGED <<record, files, late, policy>>
    BY <1>2 DEF HookActs
  <2>2. PICK v \in Ventures, n \in Hooks : v = V(c) /\ n = ctl[c].hook
    BY <1>1, <2>1, OnVenture DEF Upgrading, Placed
  <2>3. Phase(v, n) = "prepared"
    BY <1>1, <2>1, <2>2 DEF FleetInv, Once, Invokes, Phase
  <2>4. \A d \in Controllers :
          /\ ctl'[d].pc = ctl[d].pc /\ ctl'[d].at = ctl[d].at /\ ctl'[d].step = ctl[d].step
          /\ ctl'[d].hook = ctl[d].hook /\ ctl'[d].result = ctl[d].result
    BY <1>1, <2>1 DEF Controls
  <2>5. TakesEffect(v, n) /\ late' \subseteq late
    BY <2>1, <2>2
  <2> QED
    BY <2>1, <2>3, <2>4, <2>5, EffectTold
<1>3. ASSUME NEW v \in Ventures, NEW n \in Hooks, LateEffect(v, n) PROVE TruthInv'
  <2>1. /\ <<v, n>> \in late /\ late' \subseteq late /\ TakesEffect(v, n)
        /\ UNCHANGED <<record, ctl, files, policy>>
    BY <1>3 DEF LateEffect
  <2>2. Phase(v, n) = "prepared"
    BY <2>1 DEF TruthInv, Past, Underway
  <2> QED
    BY <2>1, <2>2, EffectTold
<1> QED
  BY <1>2, <1>3
-----------------------------------------------------------------------------
(* Steps of a controller on its venture.                                    *)

(* When a controller saves a checkpoint, this is where it stands.           *)
LEMMA CpSaved ==
  ASSUME FleetInv, NEW c \in Controllers, Works(c), NEW v \in Ventures, v = V(c),
         NEW cp \in Checkpoints, NEW k \in Controls,
         SavesCp(c, cp, k) \/ (cp = Cp(c) /\ Persists(c, ctl[c].mem, k))
  PROVE  /\ record'.cps[v] = cp
         /\ ctl'[c].pc = k.pc /\ ctl'[c].step = k.step /\ ctl'[c].at = k.at
         /\ ctl'[c].hook = k.hook /\ ctl'[c].result = k.result
<1>1. record \in Records /\ ctl[c].mem = record /\ record.lease = c /\ Cp(c) = record.cps[v]
  BY Alone DEF FleetInv, Typed
<1>2. CASE SavesCp(c, cp, k)
  <2>1. record' = [record EXCEPT !.cps[V(c)] = cp]
    BY <1>2, SavedCp
  <2>2. /\ ctl'[c].pc = k.pc /\ ctl'[c].step = k.step /\ ctl'[c].at = k.at
        /\ ctl'[c].hook = k.hook /\ ctl'[c].result = k.result
    BY <1>2, SavedCp
  <2>3. record'.cps[v] = cp
    BY <1>1, <2>1 DEF Records
  <2> QED
    BY <2>2, <2>3
<1>3. CASE cp = Cp(c) /\ Persists(c, ctl[c].mem, k)
  <2>1. /\ record' = record
        /\ ctl'[c].pc = k.pc /\ ctl'[c].step = k.step /\ ctl'[c].at = k.at
        /\ ctl'[c].hook = k.hook /\ ctl'[c].result = k.result
    BY <1>1, <1>3, Persisted
  <2> QED
    BY <1>1, <1>3, <2>1
<1> QED
  BY <1>2, <1>3

(* When it saves a phase, only that one changes.                            *)
LEMMA PhaseSaved ==
  ASSUME FleetInv, NEW c \in Controllers, Works(c), NEW v \in Ventures, v = V(c),
         NEW n \in Phases, NEW s \in PhaseStates, NEW k \in Controls, SavesPhase(c, n, s, k)
  PROVE  /\ Phase(v, n)' = s /\ \A m \in Phases \ {n} : Phase(v, m)' = Phase(v, m)
         /\ record'.cps[v].touched = record.cps[v].touched
         /\ ctl'[c].pc = k.pc /\ ctl'[c].step = k.step /\ ctl'[c].at = k.at
         /\ ctl'[c].hook = k.hook /\ ctl'[c].result = k.result
<1>1. record \in Records /\ Cp(c) = record.cps[v] /\ record.cps[v] \in Checkpoints
  BY Alone DEF FleetInv, Typed, Records
<1> DEFINE cp == [record.cps[v] EXCEPT !.phase[n] = s]
<1>2. cp \in Checkpoints
  BY <1>1, CheckpointChanged
<1>3. /\ cp.phase[n] = s /\ \A m \in Phases \ {n} : cp.phase[m] = record.cps[v].phase[m]
      /\ cp.touched = record.cps[v].touched
  BY <1>1 DEF Checkpoints
<1>4. SavesCp(c, cp, k)
  BY <1>1 DEF SavesPhase
<1> HIDE DEF cp
<1>5. /\ record'.cps[v] = cp
      /\ ctl'[c].pc = k.pc /\ ctl'[c].step = k.step /\ ctl'[c].at = k.at
      /\ ctl'[c].hook = k.hook /\ ctl'[c].result = k.result
  BY <1>2, <1>4, CpSaved
<1> QED
  BY <1>3, <1>5 DEF Phase

(* What is done stays done when one phase changes.                          *)
LEMMA DidKept ==
  ASSUME NEW v \in Ventures, NEW n \in Phases, UNCHANGED policy,
         \A m \in Phases \ {n} : Phase(v, m)' = Phase(v, m),
         record.cps[v].touched => record'.cps[v].touched
  PROVE  \A i \in DOMAIN Plan : Plan[i] # n /\ Did(v, Plan[i]) => Did(v, Plan[i])'
<1> SUFFICES ASSUME NEW i \in DOMAIN Plan, Plan[i] # n, Did(v, Plan[i])
             PROVE  Did(v, Plan[i])'
  OBVIOUS
<1>1. Phase(v, Plan[i])' = Phase(v, Plan[i])
  BY PlanFacts
<1> QED
  BY <1>1 DEF Did, Asked

(* The controller has come to the next phase, or failed.                    *)
LEMMA CameToNext ==
  ASSUME NEW c \in Controllers, NEW v \in Ventures, V(c)' = v, ctl'[c].pc = "step",
         NEW i \in DOMAIN Plan, ctl'[c].step = i + 1, Did(v, Plan[i])',
         \A j \in DOMAIN Plan : j < i => Did(v, Plan[j])'
  PROVE  AsPlanned(c)' /\ Undoes(c)'
<1>1. \A j \in DOMAIN Plan : j < ctl'[c].step => j < i \/ j = i
  BY PlanFacts
<1>2. \A j \in DOMAIN Plan : j < ctl'[c].step => Did(V(c), Plan[j])'
  BY <1>1
<1> QED
  BY <1>2 DEF AsPlanned, Undoes, OnPlan, Compensates, InPhase

(* One that fails, or has compensated, has settled production.              *)
LEMMA CameToFail ==
  ASSUME NEW c \in Controllers, NEW v \in Ventures, V(c)' = v,
         ctl'[c].pc \in {"failing", "compensated"}, ~Unsettled(v)',
         ctl'[c].pc = "failing" => record'.cps[v].touched \/ Phase(v, "lock")' # "passed"
  PROVE  AsPlanned(c)' /\ Undoes(c)'
  BY DEF AsPlanned, Undoes, OnPlan, Compensates, InPhase

(* One that is within a phase of its own.                                   *)
LEMMA CameWithin ==
  ASSUME NEW c \in Controllers, NEW v \in Ventures, V(c)' = v, ctl'[c].pc \in InPhase,
         NEW i \in DOMAIN Plan, ctl'[c].step = i, \A j \in DOMAIN Plan : j < i => Did(v, Plan[j])',
         ctl'[c].pc \in {"upgrading", "upgraded", "lock_kept"} =>
           Plan[i] = "upgrade" /\ Phase(v, "upgrade")' = "prepared",
         ctl'[c].pc \in {"locking", "locked", "lock_known"} =>
           Plan[i] = "lock" /\ Phase(v, "lock")' = "prepared",
         ctl'[c].pc \in {"locked", "lock_known"} => files'[v] = "new"
  PROVE  AsPlanned(c)' /\ Undoes(c)'
  BY DEF AsPlanned, Undoes, OnPlan, Compensates, InPhase

(* A step of the controller's that changes no phase.                        *)
LEMMA NoPhase ==
  ASSUME TruthInv, FleetInv', NEW c \in Controllers, OnlyAt(c), NEW v \in Ventures, v = V(c),
         \A n \in Phases : Phase(v, n)' = Phase(v, n),
         record.cps[v].touched => record'.cps[v].touched,
         \/ files'[v] \in {files[v], "new"}
         \/ Phase(v, "lock") # "passed" \/ Phase(v, "compensate") # "none",
         AsPlanned(c)', Undoes(c)'
  PROVE  TruthInv'
<1>1. Past(v) /\ UNCHANGED <<deployed, policy, late>>
  BY DEF TruthInv, OnlyAt, WorksOn
<1>2. \A i \in DOMAIN Plan : Did(v, Plan[i]) => Did(v, Plan[i])'
  <2>1. \A i \in DOMAIN Plan : Phase(v, Plan[i])' = Phase(v, Plan[i])
    BY PlanFacts
  <2> QED
    BY <1>1, <2>1 DEF Did, Asked
<1>3. InOrder(v)'
  <2> SUFFICES ASSUME NEW i \in DOMAIN Plan, NEW j \in DOMAIN Plan, i < j,
                      Phase(v, Plan[j])' # "none", Plan[i] # "production_readback"
               PROVE  Did(v, Plan[i])'
    BY DEF InOrder
  <2>1. Phase(v, Plan[j]) # "none"
    BY PlanFacts
  <2> QED
    BY <1>1, <1>2, <2>1 DEF Past, InOrder
<1>4. Lasting(v)'
  BY <1>1, PlanFacts DEF Past, Lasting
<1>5. Underway(v)' /\ Bare(v)'
  BY <1>1 DEF Past, Underway, Bare, Asked, Phases
<1> QED
  BY <1>3, <1>4, <1>5, OnlyAtStep

(* A step of the controller's that changes one: the phase of the plan that  *)
(* is reached, or the compensation.                                         *)
LEMMA OnePhase ==
  ASSUME TruthInv, FleetInv', NEW c \in Controllers, OnlyAt(c), NEW v \in Ventures, v = V(c),
         NEW n \in Phases, \A m \in Phases \ {n} : Phase(v, m)' = Phase(v, m),
         record'.cps[v].touched = record.cps[v].touched,
         n \in Hooks /\ <<v, n>> \in late => Phase(v, n)' = "prepared",
         Phase(v, n)' # "none", n \notin {"touch", "merge_gate"}, Asked(v, n),
         \/ n = "compensate"
         \/ \E i \in DOMAIN Plan :
              /\ Plan[i] = n /\ \A j \in DOMAIN Plan : j < i => Did(v, Plan[j])
              /\ n = "production_readback" \/ Phase(v, n)' = "passed" \/ Phase(v, n) # "passed",
         files'[v] = files[v] \/ Phase(v, "lock") # "passed",
         n = "lock" /\ Phase(v, n)' = "passed" => files'[v] = "new",
         n = "production_readback" /\ Phase(v, n)' = "passed" => deployed[v] = "new",
         AsPlanned(c)', Undoes(c)'
  PROVE  TruthInv'
<1>1. Past(v) /\ UNCHANGED <<deployed, policy, late>>
  BY DEF TruthInv, OnlyAt, WorksOn
<1>2. \A i \in DOMAIN Plan : Plan[i] # n /\ Did(v, Plan[i]) => Did(v, Plan[i])'
  BY <1>1, DidKept
<1>3. InOrder(v)'
  <2> SUFFICES ASSUME NEW i \in DOMAIN Plan, NEW j \in DOMAIN Plan, i < j,
                      Phase(v, Plan[j])' # "none", Plan[i] # "production_readback"
               PROVE  Did(v, Plan[i])'
    BY DEF InOrder
  <2>1. Plan[i] \in Phases /\ Plan[j] \in Phases /\ i # j /\ Plan[i] # Plan[j]
    BY PlanFacts
  <2>2. CASE Plan[j] = n
    <3>1. Did(v, Plan[i])
      BY <2>1, <2>2, PlanFacts
    <3> QED
      BY <1>2, <2>1, <2>2, <3>1
  <2>3. CASE Plan[j] # n
    <3>1. Did(v, Plan[i])
      BY <1>1, <2>1, <2>3 DEF Past, InOrder
    <3>2. CASE Plan[i] # n
      BY <1>2, <3>1, <3>2
    <3>3. CASE Plan[i] = n
      <4>1. Phase(v, n) = "passed"
        BY <3>1, <3>3 DEF Did, Asked
      <4>2. Phase(v, n)' = "passed"
        BY <3>3, <4>1, PlanFacts
      <4> QED
        BY <3>3, <4>2 DEF Did
    <3> QED
      BY <3>2, <3>3
  <2> QED
    BY <2>2, <2>3
<1>4. Lasting(v)'
  <2>1. CASE n = "compensate"
    BY <2>1 DEF Lasting
  <2>2. CASE n # "compensate"
    <3>1. Phase(v, "compensate")' = Phase(v, "compensate") /\ Lasting(v)
      BY <1>1, <2>2, PlanFacts DEF Past
    <3>2. ASSUME Phase(v, "compensate")' = "none", Phase(v, "lock")' = "passed"
          PROVE  files'[v] = "new"
      BY <3>1, <3>2, PlanFacts DEF Lasting
    <3>3. ASSUME Phase(v, "compensate")' = "none", Phase(v, "production_readback")' = "passed"
          PROVE  deployed'[v] = "new"
      BY <1>1, <3>1, <3>3, PlanFacts DEF Lasting
    <3> QED
      BY <3>2, <3>3 DEF Lasting
  <2> QED
    BY <2>1, <2>2
<1>5. Underway(v)' /\ Bare(v)'
  BY <1>1 DEF Past, Underway, Bare, Asked, Phases
<1> QED
  BY <1>3, <1>4, <1>5, OnlyAtStep

(* Where a controller stands that works on its venture.                     *)
LEMMA Standing ==
  ASSUME TruthInv, NEW c \in Controllers, ctl[c].pc \in Upgrading
  PROVE  /\ FleetInv /\ Typed /\ ctl \in [Controllers -> Controls] /\ Placed(ctl[c]) /\ Works(c)
         /\ V(c) \in Ventures /\ Cp(c) = record.cps[V(c)] /\ record.cps[V(c)] \in Checkpoints
         /\ ctl[c].at \in DOMAIN Order /\ Past(V(c)) /\ AsPlanned(c) /\ Undoes(c)
         /\ files \in [Ventures -> {"old", "candidate", "new"}]
<1>1. FleetInv /\ Typed /\ Works(c)
  BY DEF TruthInv, FleetInv, Works, Upgrading, Resting
<1>2. V(c) \in Ventures /\ Cp(c) = record.cps[V(c)] /\ ctl[c].at \in DOMAIN Order
  BY <1>1, OnVenture, Alone, Bounds
<1> QED
  BY <1>1, <1>2 DEF TruthInv, Typed, Records

(* The controller's own actions leave the other ventures alone.             *)
LEMMA OwnOnly ==
  ASSUME TruthInv, NEW c \in Controllers, OwnAction(c)
  PROVE  OnlyAt(c) /\ ctl[c].pc \in Upgrading /\ V(c)' = V(c)
<1>1. FleetInv /\ Typed /\ files \in [Ventures -> {"old", "candidate", "new"}]
  BY DEF TruthInv, FleetInv, Typed
<1>2. GoesOn(c)
  BY <1>1, OwnActions
<1>3. WorksOn(c) /\ UNCHANGED <<deployed, policy>>
  BY <1>1, <1>2, GoesOnWorks DEF GoesOn
<1>4. UNCHANGED files \/ \E x : Writes(c, x)
  <2>1. CASE Reused(c) \/ PrepareUpgrade(c) \/ ApplyUpgrade(c) \/ SaveUpgrade(c) \/ MergeGate(c)
    BY <2>1 DEF Reused, PrepareUpgrade, ApplyUpgrade, SaveUpgrade, MergeGate, world, outside
  <2>2. CASE Touch(c) \/ ProductionReadBack(c) \/ PrepareLock(c) \/ WriteLock(c) \/ SaveLock(c)
    BY <2>2 DEF Touch, ProductionReadBack, PrepareLock, WriteLock, SaveLock, world, outside
  <2>3. CASE Verify(c) \/ RollBack(c) \/ Compensated(c) \/ RestoreCompensated(c)
    BY <2>3 DEF Verify, RollBack, Compensated, RestoreCompensated, world, outside
  <2> QED
    BY <2>1, <2>2, <2>3 DEF OwnAction
<1>5. \A w \in Ventures \ {V(c)} : files'[w] = files[w]
  BY <1>1, <1>4 DEF Writes
<1> QED
  BY <1>3, <1>5 DEF OnlyAt, WorksOn, V

(* A phase that needs no record is done.                                    *)
LEMMA StepDone ==
  ASSUME TruthInv, FleetInv', NEW c \in Controllers, OnlyAt(c), NEW v \in Ventures, v = V(c),
         NEW i \in DOMAIN Plan, ctl[c].step = i, OnPlan(c), UNCHANGED files,
         \A n \in Phases : Phase(v, n)' = Phase(v, n),
         record.cps[v].touched => record'.cps[v].touched,
         Did(v, Plan[i])', ctl'[c].pc = "step", ctl'[c].step = i + 1
  PROVE  TruthInv'
<1>1. UNCHANGED policy /\ V(c)' = v
  BY DEF OnlyAt, WorksOn, V
<1>2. \A j \in DOMAIN Plan : j < i => Did(v, Plan[j])
  BY DEF TruthInv, AsPlanned
<1>3. \A j \in DOMAIN Plan : j < i => Did(v, Plan[j])'
  BY <1>1, <1>2, DidKept, PlanFacts
<1>4. AsPlanned(c)' /\ Undoes(c)'
  BY <1>1, <1>3, CameToNext
<1> QED
  BY <1>4, NoPhase

(* The lock is not written before what precedes it is done.                 *)
LEMMA FilesTakenBack ==
  ASSUME TruthInv, NEW v \in Ventures, NEW m, Planned(m), m \notin {"production_readback", "lock"},
         ~Did(v, m)
  PROVE  Phase(v, "lock") # "passed"
<1>1. PICK j \in DOMAIN Plan : Plan[j] = "lock"
  BY PlanAssumption DEF Planned
<1>2. Before(m, "lock") /\ Planned("lock")
  BY <1>1, PlanAssumption, PlanFacts DEF Before, Planned
<1> QED
  BY <1>2, NotBegunAfter DEF TruthInv, Past

(* Production is read back only after it was marked as touched.             *)
LEMMA TouchedBefore ==
  ASSUME NEW v \in Ventures, Asked(v, "production_readback"), NEW i \in DOMAIN Plan,
         Plan[i] = "production_readback", \A j \in DOMAIN Plan : j < i => Did(v, Plan[j])
  PROVE  record.cps[v].touched
<1>1. PICK j, k \in DOMAIN Plan : Plan[j] = "touch" /\ Plan[k] = "production"
  BY PlanAssumption DEF Planned
<1>2. j < k /\ k < i
  BY <1>1, PlanAssumption DEF Before
<1>3. Did(v, "touch")
  BY <1>1, <1>2, PlanFacts
<1> QED
  BY <1>3 DEF Did, Asked, Production

(* A phase is recorded as passed,                                           *)
LEMMA PhaseDone ==
  ASSUME TruthInv, FleetInv', NEW c \in Controllers, OnlyAt(c), NEW v \in Ventures, v = V(c),
         NEW i \in DOMAIN Plan, ctl[c].step = i, OnPlan(c), UNCHANGED files,
         NEW n \in Phases, n = Plan[i], n \notin {"touch", "merge_gate"}, Asked(v, n),
         Phase(v, n)' = "passed", \A m \in Phases \ {n} : Phase(v, m)' = Phase(v, m),
         record'.cps[v].touched = record.cps[v].touched,
         n \in Hooks => <<v, n>> \notin late, n = "lock" => files[v] = "new",
         n = "production_readback" => deployed[v] = "new",
         ctl'[c].pc = "step", ctl'[c].step = i + 1
  PROVE  TruthInv'
<1>1. UNCHANGED policy /\ V(c)' = v
  BY DEF OnlyAt, WorksOn, V
<1>2. \A j \in DOMAIN Plan : j < i => Did(v, Plan[j])
  BY DEF TruthInv, AsPlanned
<1>3. \A j \in DOMAIN Plan : j < i => Did(v, Plan[j])'
  <2>1. \A j \in DOMAIN Plan : j < i => Plan[j] # n
    BY PlanFacts
  <2> QED
    BY <1>1, <1>2, <2>1, DidKept
<1>4. Did(v, Plan[i])'
  BY DEF Did
<1>5. AsPlanned(c)' /\ Undoes(c)'
  BY <1>1, <1>3, <1>4, CameToNext
<1> QED
  BY <1>2, <1>5, OnePhase

(* or as failed: then production is settled.                                *)
LEMMA PhaseFailed ==
  ASSUME TruthInv, FleetInv', NEW c \in Controllers, OnlyAt(c), NEW v \in Ventures, v = V(c),
         NEW i \in DOMAIN Plan, ctl[c].step = i, OnPlan(c), UNCHANGED files,
         NEW n \in Phases, n = Plan[i], n \notin {"touch", "merge_gate", "lock"}, Asked(v, n),
         Phase(v, n)' = "failed", \A m \in Phases \ {n} : Phase(v, m)' = Phase(v, m),
         Phase(v, n) # "passed" \/ n = "production_readback",
         record'.cps[v].touched = record.cps[v].touched,
         n \in Hooks => <<v, n>> \notin late, ctl'[c].pc = "failing"
  PROVE  TruthInv'
<1>1. UNCHANGED policy /\ V(c)' = v /\ InOrder(v) /\ Bare(v)
  BY DEF OnlyAt, WorksOn, V, TruthInv, Past
<1>2. \A j \in DOMAIN Plan : j < i => Did(v, Plan[j])
  BY DEF TruthInv, AsPlanned
<1>3. ~Unsettled(v)'
  <2>1. CASE n = "production"
    BY <2>1 DEF Unsettled
  <2>2. CASE n # "production"
    <3>1. ~Did(v, Plan[i]) \/ Plan[i] = "production_readback"
      BY DEF Did, Asked
    <3>2. ~Unsettled(v)
      BY <1>1, <1>2, <2>2, <3>1, FailsSettled
    <3> QED
      BY <2>2, <3>2, PlanFacts DEF Unsettled
  <2> QED
    BY <2>1, <2>2
<1>4. record'.cps[v].touched \/ Phase(v, "lock")' # "passed"
  <2>1. CASE n = "production_readback"
    BY <1>2, <2>1, TouchedBefore
  <2>2. CASE n # "production_readback"
    <3>1. ~Did(v, n) /\ Planned(n)
      BY <2>2 DEF Did, Planned
    <3>2. Phase(v, "lock") # "passed"
      BY <2>2, <3>1, FilesTakenBack
    <3> QED
      BY <3>2, PlanFacts
  <2> QED
    BY <2>1, <2>2
<1>5. AsPlanned(c)' /\ Undoes(c)'
  BY <1>1, <1>3, <1>4, CameToFail
<1> QED
  BY <1>2, <1>5, OnePhase

(* Reused, Verify and Touch.                                                *)
LEMMA OwnRecordTold ==
  ASSUME TruthInv, FleetInv', NEW c \in Controllers, Reused(c) \/ Touch(c) \/ Verify(c)
  PROVE  TruthInv'
<1>1. OnlyAt(c) /\ ctl[c].pc \in Upgrading /\ V(c)' = V(c)
  BY OwnOnly DEF OwnAction
<1>2. /\ FleetInv /\ Typed /\ ctl \in [Controllers -> Controls] /\ Works(c)
      /\ ctl[c].at \in DOMAIN Order /\ AsPlanned(c)
  BY <1>1, Standing
<1>3. PICK v \in Ventures : v = V(c) /\ Cp(c) = record.cps[v] /\ record.cps[v] \in Checkpoints
  BY <1>1, Standing
<1>4. CASE Reused(c)
  <2>1. PICK n \in {"upgrade", "lock"} \cup Production :
          /\ InTurn(c, n)
          /\ (record.cps[v].phase[n] = "passed" /\ n \notin Production) \/ ~Asked(v, n)
    BY <1>3, <1>4, PlanFacts DEF Reused, OnPhase, Asked
  <2>2. /\ ctl' = [ctl EXCEPT ![c] = After(c)] /\ UNCHANGED <<record, files, policy>>
    BY <1>4 DEF Reused, world, outside
  <2>3. PICK i \in DOMAIN Plan : i = ctl[c].step
    BY <1>2, <2>1, InTurnFacts
  <2>4. ctl'[c].pc = "step" /\ ctl'[c].step = i + 1
    BY <1>2, <2>2, <2>3, AfterFacts
  <2>5. OnPlan(c) /\ Plan[i] = n
    BY <2>1, <2>3 DEF InTurn, OnPlan
  <2>6. Did(v, Plan[i])'
    <3>1. CASE ~Asked(v, n)
      BY <2>2, <2>5, <3>1 DEF Did, Asked
    <3>2. CASE record.cps[v].phase[n] = "passed" /\ n \notin Production
      BY <2>1, <2>2, <2>5, <3>2 DEF Did, Phase, Production
    <3> QED
      BY <2>1, <3>1, <3>2
  <2>7. \A m \in Phases : Phase(v, m)' = Phase(v, m)
    BY <2>2 DEF Phase
  <2> QED
    BY <1>1, <1>3, <2>2, <2>3, <2>4, <2>5, <2>6, <2>7, StepDone
<1>5. CASE Touch(c)
  <2>1. OnPhase(c, "touch") /\ UNCHANGED <<files, policy>>
    BY <1>5 DEF Touch, world, outside
  <2>2. PICK i \in DOMAIN Plan : i = ctl[c].step
    BY <1>2, <2>1, OnPhaseFacts
  <2>3. OnPlan(c) /\ Plan[i] = "touch"
    BY <2>1, <2>2 DEF OnPhase, InTurn, OnPlan
  <2> DEFINE k == After(c)
  <2>4. k \in Controls /\ k.pc = "step" /\ k.step = i + 1
    BY <1>2, <2>2, AfterFacts
  <2> HIDE DEF k
  <2>5. /\ \A m \in Phases : Phase(v, m)' = Phase(v, m)
        /\ record'.cps[v].touched /\ ctl'[c].pc = "step" /\ ctl'[c].step = i + 1
    <3>1. CASE ctl' = [ctl EXCEPT ![c] = k] /\ UNCHANGED record /\ record.cps[v].touched
      BY <1>2, <2>4, <3>1 DEF Phase
    <3>2. CASE SavesCp(c, [record.cps[v] EXCEPT !.touched = TRUE], k)
      <4> DEFINE cp == [record.cps[v] EXCEPT !.touched = TRUE]
      <4>1. cp \in Checkpoints /\ cp.touched /\ cp.phase = record.cps[v].phase
        BY <1>3 DEF Checkpoints
      <4>2. SavesCp(c, cp, k)
        BY <3>2
      <4> HIDE DEF cp
      <4>3. record'.cps[v] = cp /\ ctl'[c].pc = k.pc /\ ctl'[c].step = k.step
        BY <1>2, <1>3, <2>4, <4>1, <4>2, CpSaved
      <4> QED
        BY <2>4, <4>1, <4>3 DEF Phase
    <3> QED
      BY <1>3, <1>5, <3>1, <3>2 DEF Touch, k
  <2>6. Did(v, Plan[i])'
    BY <2>3, <2>5 DEF Did
  <2> QED
    BY <1>1, <1>3, <2>1, <2>2, <2>3, <2>5, <2>6, StepDone
<1>6. CASE Verify(c)
  <2>1. /\ ctl[c].pc = "step" /\ ctl[c].step > Len(Plan) /\ Ends(c, "verified")
        /\ UNCHANGED <<record, files, policy>>
    BY <1>6 DEF Verify, world, outside
  <2>2. ctl[c].step \in Nat /\ \A i \in DOMAIN Plan : i < ctl[c].step
    <3>1. ctl[c].step \in 1..Len(Plan) + 1
      BY <1>2 DEF Controls
    <3> QED
      BY <2>1, <3>1, PlanFacts
  <2>3. \A i \in DOMAIN Plan : Did(v, Plan[i])
    BY <1>2, <1>3, <2>1, <2>2 DEF AsPlanned, OnPlan
  <2>4. \A i \in DOMAIN Plan : Did(v, Plan[i])'
    BY <2>1, <2>3 DEF Did, Asked, Phase
  <2>5. ctl'[c].pc = "result" /\ ctl'[c].result = "verified"
    <3>1. ctl'[c] = [ctl[c] EXCEPT !.pc = "result", !.result = "verified"]
      BY <1>1, <1>2, <2>1, EndsFacts DEF Results
    <3> QED
      BY <1>2, <3>1 DEF Controls
  <2>6. AsPlanned(c)' /\ Undoes(c)'
    BY <1>1, <1>3, <2>4, <2>5 DEF AsPlanned, Undoes, OnPlan, Compensates, InPhase
  <2> QED
    BY <1>1, <1>3, <2>1, <2>6, NoPhase DEF Phase
<1> QED
  BY <1>4, <1>5, <1>6

(* The files of the upgrade: those begun are taken back, written, recorded. *)
LEMMA UpgradeTold ==
  ASSUME TruthInv, FleetInv', NEW c \in Controllers,
         PrepareUpgrade(c) \/ ApplyUpgrade(c) \/ SaveUpgrade(c)
  PROVE  TruthInv'
<1>1. OnlyAt(c) /\ ctl[c].pc \in Upgrading /\ V(c)' = V(c) /\ UNCHANGED policy
  BY OwnOnly DEF OwnAction, OnlyAt
<1>2. /\ FleetInv /\ Typed /\ ctl \in [Controllers -> Controls] /\ Placed(ctl[c]) /\ Works(c)
      /\ ctl[c].at \in DOMAIN Order /\ AsPlanned(c)
      /\ files \in [Ventures -> {"old", "candidate", "new"}]
  BY <1>1, Standing
<1>3. PICK v \in Ventures : /\ v = V(c) /\ Cp(c) = record.cps[v] /\ record.cps[v] \in Checkpoints
                            /\ InOrder(v) /\ Bare(v)
  BY <1>1, Standing DEF Past
<1>4. PICK i \in DOMAIN Plan : i = ctl[c].step /\ Plan[i] = "upgrade"
  <2>1. OnPhase(c, "upgrade") \/ ctl[c].pc \in {"upgrading", "upgraded", "lock_kept"}
    BY DEF PrepareUpgrade, ApplyUpgrade, SaveUpgrade
  <2>2. ctl[c].step \in DOMAIN Plan
    BY <1>2, <2>1, OnPhaseFacts DEF Placed, InPhase
  <2> QED
    BY <1>2, <2>1, <2>2 DEF OnPhase, InTurn, AsPlanned
<1>5. /\ OnPlan(c) /\ \A j \in DOMAIN Plan : j < i => Did(v, Plan[j])
      /\ ctl[c].pc \in {"upgrading", "upgraded", "lock_kept"} => Phase(v, "upgrade") = "prepared"
  <2>1. OnPlan(c)
    BY DEF PrepareUpgrade, ApplyUpgrade, SaveUpgrade, OnPhase, InTurn, OnPlan, InPhase
  <2> QED
    BY <1>2, <1>3, <1>4, <2>1 DEF AsPlanned
<1>6. \A j \in DOMAIN Plan : j < i => j # i /\ Plan[j] # "upgrade"
  BY <1>4, PlanFacts
<1>7. Phase(v, "upgrade") # "passed" => Phase(v, "lock") # "passed"
  BY <1>4, FilesTakenBack, PlanFacts DEF Did, Asked, Planned
<1>8. CASE PrepareUpgrade(c)
  <2> DEFINE k == At(c, "upgrading")
  <2>1. k \in Controls /\ k.pc = "upgrading" /\ k.step = i
    <3>1. "upgrading" \in Resting \cup Upgrading \cup {"next", "pausing"}
      BY DEF Upgrading
    <3> QED
      BY <1>2, <1>4, <3>1, AtFacts
  <2>2. SavesPhase(c, "upgrade", "prepared", k) /\ Phase(v, "upgrade") # "passed"
    BY <1>3, <1>8 DEF PrepareUpgrade, Phase
  <2> HIDE DEF k
  <2>3. /\ Phase(v, "upgrade")' = "prepared"
        /\ \A m \in Phases \ {"upgrade"} : Phase(v, m)' = Phase(v, m)
        /\ record'.cps[v].touched = record.cps[v].touched
        /\ ctl'[c].pc = "upgrading" /\ ctl'[c].step = i
    BY <1>2, <1>3, <2>1, <2>2, PhaseSaved, PlanFacts DEF PhaseStates
  <2>4. \A j \in DOMAIN Plan : j < i => Did(v, Plan[j])'
    BY <1>1, <1>5, <1>6, <2>3, DidKept, PlanFacts
  <2>5. AsPlanned(c)' /\ Undoes(c)'
    BY <1>1, <1>3, <1>4, <2>3, <2>4, CameWithin DEF InPhase
  <2> QED
    BY <1>1, <1>3, <1>4, <1>5, <1>7, <2>2, <2>3, <2>5, OnePhase, PlanFacts DEF Asked
<1>9. CASE ApplyUpgrade(c)
  <2>1. ctl[c].pc = "upgrading" /\ UNCHANGED <<record, deployed>>
    BY <1>9 DEF ApplyUpgrade
  <2>2. Phase(v, "upgrade") = "prepared" /\ Phase(v, "lock") # "passed"
    BY <1>5, <1>7, <2>1
  <2>3. AsPlanned(c)' /\ Undoes(c)'
    <3>1. CASE Goes(c, "upgraded")
      <4>1. ctl'[c].pc = "upgraded" /\ ctl'[c].step = i
        BY <1>2, <1>4, <3>1 DEF Goes, Controls
      <4>2. \A j \in DOMAIN Plan : j < i => Did(v, Plan[j])'
        BY <1>1, <1>5, <2>1 DEF Did, Asked, Phase
      <4>3. Phase(v, "upgrade")' = "prepared"
        BY <2>1, <2>2 DEF Phase
      <4> QED
        BY <1>1, <1>3, <1>4, <4>1, <4>2, <4>3, CameWithin DEF InPhase
    <3>2. CASE Goes(c, "failing")
      <4>1. ctl'[c].pc = "failing"
        BY <1>2, <3>2 DEF Goes, Controls
      <4>2. ~Unsettled(v)
        BY <1>3, <1>4, <1>5, <2>2, FailsSettled, PlanFacts DEF Did, Asked
      <4>3. ~Unsettled(v)'
        BY <2>1, <4>2 DEF Unsettled, Phase
      <4>4. Phase(v, "lock")' # "passed"
        BY <2>1, <2>2 DEF Phase
      <4> QED
        BY <1>1, <1>3, <4>1, <4>3, <4>4, CameToFail
    <3> QED
      BY <1>9, <3>1, <3>2 DEF ApplyUpgrade
  <2> QED
    BY <1>1, <1>3, <2>1, <2>2, <2>3, NoPhase DEF Phase
<1>10. CASE ctl[c].pc = "upgraded" /\ SaveUpgrade(c)
  <2> DEFINE k == At(c, "lock_kept")
             cp == [record.cps[v] EXCEPT !.lock = "candidate"]
  <2>1. k \in Controls /\ k.pc = "lock_kept" /\ k.step = i
    <3>1. "lock_kept" \in Resting \cup Upgrading \cup {"next", "pausing"}
      BY DEF Upgrading
    <3> QED
      BY <1>2, <1>4, <3>1, AtFacts
  <2>2. /\ cp \in Checkpoints /\ cp.touched = record.cps[v].touched
        /\ cp.phase = record.cps[v].phase
    BY <1>3 DEF Checkpoints
  <2>3. SavesCp(c, cp, k) /\ UNCHANGED files
    BY <1>3, <1>10 DEF SaveUpgrade, world, outside
  <2> HIDE DEF k, cp
  <2>4. record'.cps[v] = cp /\ ctl'[c].pc = "lock_kept" /\ ctl'[c].step = i
    BY <1>2, <1>3, <2>1, <2>2, <2>3, CpSaved
  <2>5. \A m \in Phases : Phase(v, m)' = Phase(v, m)
    BY <2>2, <2>4 DEF Phase
  <2>6. \A j \in DOMAIN Plan : j < i => Did(v, Plan[j])'
    BY <1>1, <1>5, <1>6, <2>2, <2>4, <2>5, DidKept, PlanFacts
  <2>7. Phase(v, "upgrade")' = "prepared"
    BY <1>5, <1>10, <2>5, PlanFacts
  <2>8. AsPlanned(c)' /\ Undoes(c)'
    BY <1>1, <1>3, <1>4, <2>4, <2>6, <2>7, CameWithin DEF InPhase
  <2> QED
    BY <1>1, <1>3, <2>2, <2>3, <2>4, <2>5, <2>8, NoPhase
<1>11. CASE ctl[c].pc = "lock_kept" /\ SaveUpgrade(c)
  <2> DEFINE k == After(c)
  <2>1. k \in Controls /\ k.pc = "step" /\ k.step = i + 1
    BY <1>2, <1>4, AfterFacts
  <2>2. SavesPhase(c, "upgrade", "passed", k) /\ UNCHANGED files
    BY <1>11 DEF SaveUpgrade, world, outside
  <2> HIDE DEF k
  <2>3. /\ Phase(v, "upgrade")' = "passed"
        /\ \A m \in Phases \ {"upgrade"} : Phase(v, m)' = Phase(v, m)
        /\ record'.cps[v].touched = record.cps[v].touched
        /\ ctl'[c].pc = "step" /\ ctl'[c].step = i + 1
    BY <1>2, <1>3, <2>1, <2>2, PhaseSaved, PlanFacts DEF PhaseStates
  <2>4. "upgrade" \in Phases /\ "upgrade" \notin Hooks /\ Asked(v, "upgrade")
    BY PlanFacts DEF Asked
  <2> QED
    BY <1>1, <1>3, <1>4, <1>5, <2>2, <2>3, <2>4, PhaseDone
<1> QED
  BY <1>8, <1>9, <1>10, <1>11 DEF SaveUpgrade

(* The gate for a merge, and production read back.                          *)
LEMMA GateTold ==
  ASSUME TruthInv, FleetInv', NEW c \in Controllers, MergeGate(c) \/ ProductionReadBack(c)
  PROVE  TruthInv'
<1>1. OnlyAt(c) /\ ctl[c].pc \in Upgrading /\ V(c)' = V(c) /\ UNCHANGED policy
  BY OwnOnly DEF OwnAction, OnlyAt
<1>2. /\ FleetInv /\ Typed /\ ctl \in [Controllers -> Controls] /\ Works(c)
      /\ ctl[c].at \in DOMAIN Order /\ AsPlanned(c)
      /\ files \in [Ventures -> {"old", "candidate", "new"}]
  BY <1>1, Standing
<1>3. PICK v \in Ventures : /\ v = V(c) /\ Cp(c) = record.cps[v] /\ record.cps[v] \in Checkpoints
  BY <1>1, Standing
<1>4. PICK i \in DOMAIN Plan :
        /\ i = ctl[c].step /\ OnPlan(c)
        /\ MergeGate(c) => Plan[i] = "merge_gate"
        /\ ProductionReadBack(c) => /\ Plan[i] = "production_readback"
                                    /\ Asked(v, "production_readback")
  <2>1. ctl[c].step \in DOMAIN Plan
    BY <1>2, OnPhaseFacts DEF MergeGate, ProductionReadBack
  <2> QED
    BY <1>3, <2>1 DEF MergeGate, ProductionReadBack, OnPhase, InTurn, OnPlan, Asked
<1> DEFINE k == After(c)
<1>5. k \in Controls /\ k.pc = "step" /\ k.step = i + 1
  BY <1>2, <1>4, AfterFacts
<1> HIDE DEF k
<1>6. CASE MergeGate(c)
  <2>1. UNCHANGED <<record, deployed>>
    BY <1>6 DEF MergeGate
  <2>2. CASE v \in policy.automatic
    <3>1. ctl'[c] = k /\ UNCHANGED files
      BY <1>2, <1>3, <1>6, <2>2 DEF MergeGate, k
    <3>2. Did(v, Plan[i])'
      BY <1>1, <1>4, <1>6, <2>2 DEF Did, Asked
    <3> QED
      BY <1>1, <1>3, <1>4, <1>5, <2>1, <3>1, <3>2, StepDone DEF Phase
  <2>3. CASE v \notin policy.automatic
    <3>1. Writes(c, "old") /\ Ends(c, "waiting")
      BY <1>3, <1>6, <2>3 DEF MergeGate
    <3>2. ctl'[c].pc = "result" /\ ctl'[c].result = "waiting"
      <4>1. ctl'[c] = [ctl[c] EXCEPT !.pc = "result", !.result = "waiting"]
        BY <1>1, <1>2, <3>1, EndsFacts DEF Results
      <4> QED
        BY <1>2, <4>1 DEF Controls
    <3>3. Phase(v, "lock") # "passed"
      BY <1>4, <1>6, <2>3, FilesTakenBack, PlanFacts DEF Did, Asked, Planned
    <3>4. AsPlanned(c)' /\ Undoes(c)'
      BY <3>2 DEF AsPlanned, Undoes, OnPlan, Compensates, InPhase
    <3> QED
      BY <1>1, <1>3, <2>1, <3>3, <3>4, NoPhase DEF Phase
  <2> QED
    BY <2>2, <2>3
<1>7. CASE ProductionReadBack(c)
  <2>1. UNCHANGED files /\ "production_readback" \in Phases /\ "production_readback" \notin Hooks
    BY <1>7, PlanFacts DEF ProductionReadBack, world, outside
  <2>2. CASE deployed[v] = "new" /\ SavesPhase(c, "production_readback", "passed", k)
    <3>1. /\ Phase(v, "production_readback")' = "passed"
          /\ \A m \in Phases \ {"production_readback"} : Phase(v, m)' = Phase(v, m)
          /\ record'.cps[v].touched = record.cps[v].touched
          /\ ctl'[c].pc = "step" /\ ctl'[c].step = i + 1
      BY <1>2, <1>3, <1>5, <2>1, <2>2, PhaseSaved DEF PhaseStates
    <3> QED
      BY <1>1, <1>3, <1>4, <1>7, <2>1, <2>2, <3>1, PhaseDone
  <2>3. CASE SavesPhase(c, "production_readback", "failed", At(c, "failing"))
    <3> DEFINE f == At(c, "failing")
    <3>1. f \in Controls /\ f.pc = "failing"
      BY <1>2, AtFacts DEF Upgrading
    <3>2. SavesPhase(c, "production_readback", "failed", f)
      BY <2>3
    <3> HIDE DEF f
    <3>3. /\ Phase(v, "production_readback")' = "failed"
          /\ \A m \in Phases \ {"production_readback"} : Phase(v, m)' = Phase(v, m)
          /\ record'.cps[v].touched = record.cps[v].touched
          /\ ctl'[c].pc = "failing"
      BY <1>2, <1>3, <2>1, <3>1, <3>2, PhaseSaved DEF PhaseStates
    <3> QED
      BY <1>1, <1>3, <1>4, <1>7, <2>1, <3>3, PhaseFailed
  <2> QED
    BY <1>3, <1>7, <2>2, <2>3 DEF ProductionReadBack, k
<1> QED
  BY <1>6, <1>7

(* The lock is written last, and then recorded.                             *)
LEMMA LockTold ==
  ASSUME TruthInv, FleetInv', NEW c \in Controllers,
         PrepareLock(c) \/ WriteLock(c) \/ SaveLock(c)
  PROVE  TruthInv'
<1>1. OnlyAt(c) /\ ctl[c].pc \in Upgrading /\ V(c)' = V(c) /\ UNCHANGED policy
  BY OwnOnly DEF OwnAction, OnlyAt
<1>2. /\ FleetInv /\ Typed /\ ctl \in [Controllers -> Controls] /\ Placed(ctl[c]) /\ Works(c)
      /\ ctl[c].at \in DOMAIN Order /\ AsPlanned(c)
      /\ files \in [Ventures -> {"old", "candidate", "new"}]
  BY <1>1, Standing
<1>3. PICK v \in Ventures : /\ v = V(c) /\ Cp(c) = record.cps[v] /\ record.cps[v] \in Checkpoints
  BY <1>1, Standing
<1>4. PICK i \in DOMAIN Plan : i = ctl[c].step /\ Plan[i] = "lock"
  <2>1. OnPhase(c, "lock") \/ ctl[c].pc \in {"locking", "locked", "lock_known"}
    BY DEF PrepareLock, WriteLock, SaveLock
  <2>2. ctl[c].step \in DOMAIN Plan
    BY <1>2, <2>1, OnPhaseFacts DEF Placed, InPhase
  <2> QED
    BY <1>2, <2>1, <2>2 DEF OnPhase, InTurn, AsPlanned
<1>5. /\ OnPlan(c) /\ \A j \in DOMAIN Plan : j < i => Did(v, Plan[j])
      /\ ctl[c].pc \in {"locking", "locked", "lock_known"} => Phase(v, "lock") = "prepared"
      /\ ctl[c].pc \in {"locked", "lock_known"} => files[v] = "new"
  <2>1. OnPlan(c)
    BY DEF PrepareLock, WriteLock, SaveLock, OnPhase, InTurn, OnPlan, InPhase
  <2> QED
    BY <1>2, <1>3, <1>4, <2>1 DEF AsPlanned
<1>6. \A j \in DOMAIN Plan : j < i => j # i /\ Plan[j] # "lock"
  BY <1>4, PlanFacts
<1>7. "lock" \in Phases /\ "lock" \notin Hooks /\ Asked(v, "lock")
  BY PlanFacts DEF Asked
<1>8. CASE PrepareLock(c)
  <2> DEFINE k == At(c, "locking")
  <2>1. k \in Controls /\ k.pc = "locking" /\ k.step = i
    <3>1. "locking" \in Resting \cup Upgrading \cup {"next", "pausing"}
      BY DEF Upgrading
    <3> QED
      BY <1>2, <1>4, <3>1, AtFacts
  <2>2. SavesPhase(c, "lock", "prepared", k) /\ Phase(v, "lock") # "passed" /\ UNCHANGED files
    BY <1>3, <1>8 DEF PrepareLock, Phase, world, outside
  <2> HIDE DEF k
  <2>3. /\ Phase(v, "lock")' = "prepared"
        /\ \A m \in Phases \ {"lock"} : Phase(v, m)' = Phase(v, m)
        /\ record'.cps[v].touched = record.cps[v].touched
        /\ ctl'[c].pc = "locking" /\ ctl'[c].step = i
    BY <1>2, <1>3, <1>7, <2>1, <2>2, PhaseSaved DEF PhaseStates
  <2>4. \A j \in DOMAIN Plan : j < i => Did(v, Plan[j])'
    BY <1>1, <1>5, <1>6, <1>7, <2>3, DidKept
  <2>5. AsPlanned(c)' /\ Undoes(c)'
    BY <1>1, <1>3, <1>4, <2>3, <2>4, CameWithin DEF InPhase
  <2> QED
    BY <1>1, <1>3, <1>4, <1>5, <1>7, <2>2, <2>3, <2>5, OnePhase
<1>9. CASE WriteLock(c)
  <2>1. ctl[c].pc = "locking" /\ UNCHANGED record /\ Writes(c, "new") /\ Goes(c, "locked")
    BY <1>9 DEF WriteLock
  <2>2. ctl'[c].pc = "locked" /\ ctl'[c].step = i /\ files'[v] = "new"
    BY <1>2, <1>3, <1>4, <2>1 DEF Goes, Controls, Writes
  <2>3. \A j \in DOMAIN Plan : j < i => Did(v, Plan[j])'
    BY <1>1, <1>5, <2>1 DEF Did, Asked, Phase
  <2>4. Phase(v, "lock")' = "prepared"
    BY <1>5, <2>1 DEF Phase
  <2>5. AsPlanned(c)' /\ Undoes(c)'
    BY <1>1, <1>3, <1>4, <2>2, <2>3, <2>4, CameWithin DEF InPhase
  <2> QED
    BY <1>1, <1>3, <2>1, <2>2, <2>5, NoPhase DEF Phase
<1>10. CASE ctl[c].pc = "locked" /\ SaveLock(c)
  <2> DEFINE k == At(c, "lock_known")
             cp == [record.cps[v] EXCEPT !.lock = "new"]
  <2>1. k \in Controls /\ k.pc = "lock_known" /\ k.step = i
    <3>1. "lock_known" \in Resting \cup Upgrading \cup {"next", "pausing"}
      BY DEF Upgrading
    <3> QED
      BY <1>2, <1>4, <3>1, AtFacts
  <2>2. /\ cp \in Checkpoints /\ cp.touched = record.cps[v].touched
        /\ cp.phase = record.cps[v].phase
    BY <1>3 DEF Checkpoints
  <2>3. SavesCp(c, cp, k) /\ UNCHANGED files
    BY <1>3, <1>10 DEF SaveLock, world, outside
  <2> HIDE DEF k, cp
  <2>4. record'.cps[v] = cp /\ ctl'[c].pc = "lock_known" /\ ctl'[c].step = i
    BY <1>2, <1>3, <2>1, <2>2, <2>3, CpSaved
  <2>5. \A m \in Phases : Phase(v, m)' = Phase(v, m)
    BY <2>2, <2>4 DEF Phase
  <2>6. \A j \in DOMAIN Plan : j < i => Did(v, Plan[j])'
    BY <1>1, <1>5, <1>6, <1>7, <2>2, <2>4, <2>5, DidKept
  <2>7. Phase(v, "lock")' = "prepared" /\ files'[v] = "new"
    BY <1>5, <1>7, <1>10, <2>3, <2>5
  <2>8. AsPlanned(c)' /\ Undoes(c)'
    BY <1>1, <1>3, <1>4, <2>4, <2>6, <2>7, CameWithin DEF InPhase
  <2> QED
    BY <1>1, <1>3, <2>2, <2>3, <2>4, <2>5, <2>8, NoPhase
<1>11. CASE ctl[c].pc = "lock_known" /\ SaveLock(c)
  <2> DEFINE k == After(c)
  <2>1. k \in Controls /\ k.pc = "step" /\ k.step = i + 1
    BY <1>2, <1>4, AfterFacts
  <2>2. SavesPhase(c, "lock", "passed", k) /\ UNCHANGED files
    BY <1>11 DEF SaveLock, world, outside
  <2> HIDE DEF k
  <2>3. /\ Phase(v, "lock")' = "passed"
        /\ \A m \in Phases \ {"lock"} : Phase(v, m)' = Phase(v, m)
        /\ record'.cps[v].touched = record.cps[v].touched
        /\ ctl'[c].pc = "step" /\ ctl'[c].step = i + 1
    BY <1>2, <1>3, <1>7, <2>1, <2>2, PhaseSaved DEF PhaseStates
  <2>4. files[v] = "new"
    BY <1>5, <1>11
  <2> QED
    BY <1>1, <1>3, <1>4, <1>5, <1>7, <2>2, <2>3, <2>4, PhaseDone
<1> QED
  BY <1>8, <1>9, <1>10, <1>11 DEF SaveLock

(* A venture taken back: before production, or when its compensation is     *)
(* seen.                                                                    *)
LEMMA UndoTold ==
  ASSUME TruthInv, FleetInv', NEW c \in Controllers,
         RollBack(c) \/ Compensated(c) \/ RestoreCompensated(c)
  PROVE  TruthInv'
<1>1. /\ OnlyAt(c) /\ ctl[c].pc \in Upgrading /\ V(c)' = V(c)
      /\ UNCHANGED <<policy, deployed>>
  BY OwnOnly DEF OwnAction, OnlyAt
<1>2. /\ FleetInv /\ Typed /\ ctl \in [Controllers -> Controls] /\ Works(c)
      /\ files \in [Ventures -> {"old", "candidate", "new"}]
  BY <1>1, Standing
<1>3. PICK v \in Ventures : /\ v = V(c) /\ Cp(c) = record.cps[v] /\ record.cps[v] \in Checkpoints
                            /\ Past(v) /\ Undoes(c)
  BY <1>1, Standing
<1>4. ~Unsettled(v)
  BY <1>3 DEF Undoes, Compensates, RollBack, Compensated, RestoreCompensated
<1>5. ASSUME NEW result \in {"rolled_back", "forward_fix"}, Ends(c, result)
      PROVE  ctl'[c].pc = "result" /\ ctl'[c].result = result
  <2>1. ctl'[c] = [ctl[c] EXCEPT !.pc = "result", !.result = result]
    BY <1>1, <1>2, <1>5, EndsFacts DEF Results
  <2> QED
    BY <1>2, <2>1 DEF Controls
<1>6. CASE RollBack(c) \/ RestoreCompensated(c)
  <2>1. UNCHANGED record /\ Writes(c, "old") /\ Ends(c, "rolled_back")
    BY <1>6 DEF RollBack, RestoreCompensated
  <2>2. /\ deployed[v] = "old"
        /\ Phase(v, "lock") # "passed" \/ Phase(v, "compensate") # "none"
    <3>1. CASE RollBack(c)
      <4>1. ctl[c].pc = "failing" /\ ~record.cps[v].touched /\ InOrder(v) /\ Bare(v)
        BY <1>3, <3>1 DEF RollBack, Past
      <4>2. Phase(v, "lock") # "passed"
        BY <1>3, <4>1 DEF Undoes
      <4>3. Phase(v, "production") = "none"
        <5>1. CASE v \in policy.deploys
          <6>1. ~Did(v, "touch")
            BY <4>1, <5>1 DEF Did, Asked
          <6> QED
            BY <4>1, <6>1, NotBegunAfter, PlanAssumption
        <5>2. CASE v \notin policy.deploys
          BY <4>1, <5>2, PlanFacts DEF Bare, Asked, Production
        <5> QED
          BY <5>1, <5>2
      <4>4. ~(effect[v]["production"].times > 0)
        BY <1>2, <4>3, PlanFacts DEF FleetInv, Once, Phase
      <4>5. deployed[v] # "new" /\ deployed \in [Ventures -> {"old", "new"}]
        BY <1>2, <1>3, <4>4 DEF Past, Served, Typed
      <4> QED
        BY <4>2, <4>5
    <3>2. CASE RestoreCompensated(c)
      BY <1>3, <3>2 DEF RestoreCompensated, Undoes
    <3> QED
      BY <1>6, <3>1, <3>2
  <2>3. files'[v] = "old"
    BY <1>2, <1>3, <2>1 DEF Writes
  <2>4. RolledBack(v)'
    BY <1>1, <1>4, <2>1, <2>2, <2>3 DEF RolledBack, Unsettled, Phase
  <2>5. AsPlanned(c)' /\ Undoes(c)'
    BY <1>1, <1>3, <1>5, <2>1, <2>4
    DEF AsPlanned, Undoes, OnPlan, Compensates, InPhase
  <2> QED
    BY <1>1, <1>3, <2>1, <2>2, <2>5, NoPhase DEF Phase
<1>7. CASE Compensated(c)
  <2> DEFINE r == At(c, "restoring")
             f == At(c, "result")
             forward == [f EXCEPT !.result = "forward_fix"]
  <2>1. r \in Controls /\ r.pc = "restoring"
    BY <1>2, AtFacts DEF Upgrading
  <2>2. f \in Controls /\ f.pc = "result"
    BY <1>2, AtFacts DEF Upgrading
  <2> HIDE DEF f
  <2>3. forward \in Controls /\ forward.pc = "result" /\ forward.result = "forward_fix"
    BY <2>2 DEF Controls, Results
  <2>4. \/ /\ Persists(c, ctl[c].mem, r) /\ deployed[v] = "old"
           /\ record.cps[v].phase["compensate"] = "passed"
        \/ Persists(c, ctl[c].mem, forward)
        \/ Ends(c, "forward_fix") /\ UNCHANGED record
    BY <1>3, <1>7 DEF Compensated, RollbackSeen, f
  <2> HIDE DEF r, forward
  <2>5. UNCHANGED files
    BY <1>7 DEF Compensated, world, outside
  <2>6. /\ record'.cps[v] = record.cps[v]
        /\ \/ ctl'[c].pc = "restoring" /\ deployed[v] = "old" /\ Phase(v, "compensate") = "passed"
           \/ ctl'[c].pc = "result" /\ ctl'[c].result = "forward_fix"
    <3>1. ASSUME NEW k \in Controls, Persists(c, ctl[c].mem, k)
          PROVE  record'.cps[v] = record.cps[v] /\ ctl'[c].pc = k.pc /\ ctl'[c].result = k.result
      BY <1>2, <1>3, <3>1, CpSaved
    <3> QED
      BY <1>5, <2>1, <2>3, <2>4, <3>1 DEF Phase
  <2>7. \A n \in Phases : Phase(v, n)' = Phase(v, n)
    BY <2>6 DEF Phase
  <2>8. AsPlanned(c)' /\ Undoes(c)'
    <3>1. CASE ctl'[c].pc = "restoring" /\ deployed[v] = "old" /\ Phase(v, "compensate") = "passed"
      <4>1. ~Unsettled(v)' /\ Phase(v, "compensate")' = "passed"
        BY <1>4, <2>7, <3>1, PlanFacts DEF Unsettled
      <4> QED
        BY <1>1, <1>3, <3>1, <4>1 DEF AsPlanned, Undoes, OnPlan, Compensates, InPhase
    <3>2. CASE ctl'[c].pc = "result" /\ ctl'[c].result = "forward_fix"
      BY <3>2 DEF AsPlanned, Undoes, OnPlan, Compensates, InPhase
    <3> QED
      BY <2>6, <3>1, <3>2
  <2> QED
    BY <1>1, <1>3, <2>5, <2>6, <2>7, <2>8, NoPhase
<1> QED
  BY <1>6, <1>7

(* A hook's result is recorded: the plan goes on, or has failed, or a       *)
(* compensation has ended.                                                  *)
LEMMA HookTold ==
  ASSUME TruthInv, FleetInv', NEW c \in Controllers, OnlyAt(c), UNCHANGED files,
         NEW v \in Ventures, v = V(c), NEW n \in Hooks, NEW result \in {"passed", "failed"},
         \/ n = "compensate" /\ Compensates(c)
         \/ n # "compensate" /\ OnPlan(c) /\ ctl[c].step \in DOMAIN Plan /\ Plan[ctl[c].step] = n,
         Phase(v, n) = "prepared", <<v, n>> \notin late,
         SavesPhase(c, n, result, Continues(c, n, result))
  PROVE  TruthInv'
<1>1. ctl[c].pc \in Upgrading /\ UNCHANGED policy /\ V(c)' = v
  BY DEF OnlyAt, WorksOn, V
<1>2. /\ FleetInv /\ Typed /\ Works(c) /\ Undoes(c) /\ Bare(v)
  BY <1>1, Standing DEF Past
<1>3. Asked(v, n) /\ n \in Phases /\ n \notin {"touch", "merge_gate", "production_readback", "lock"}
  BY <1>2, PlanFacts DEF Phases, Bare
<1> DEFINE k == Continues(c, n, result)
<1>4. k \in Controls
  BY <1>1, <1>2, ContinuesFacts DEF PhaseStates
<1>5. SavesPhase(c, n, result, k)
  OBVIOUS
<1> HIDE DEF k
<1>6. /\ Phase(v, n)' = result /\ \A m \in Phases \ {n} : Phase(v, m)' = Phase(v, m)
      /\ record'.cps[v].touched = record.cps[v].touched
      /\ ctl'[c].pc = k.pc /\ ctl'[c].step = k.step
  BY <1>2, <1>3, <1>4, <1>5, PhaseSaved DEF PhaseStates
<1>7. CASE n = "compensate"
  <2>1. k.pc = "compensated"
    BY <1>1, <1>2, <1>7, AtFacts DEF k, Continues, Upgrading
  <2>2. ~Unsettled(v)'
    <3>1. ~Unsettled(v)
      BY <1>2, <1>7, PlanAssumption, PlanFacts DEF Undoes
    <3>2. "production" \in Phases \ {n}
      BY <1>7, PlanFacts
    <3> QED
      BY <1>6, <3>1, <3>2 DEF Unsettled
  <2>3. AsPlanned(c)' /\ Undoes(c)'
    BY <1>1, <1>6, <2>1, <2>2, CameToFail
  <2> QED
    BY <1>3, <1>6, <1>7, <2>3, OnePhase
<1>8. CASE n # "compensate"
  <2>1. PICK i \in DOMAIN Plan : i = ctl[c].step /\ Plan[i] = n /\ OnPlan(c)
    BY <1>8
  <2>2. CASE result = "passed"
    <3>1. k.pc = "step" /\ k.step = i + 1
      <4>1. ctl[c].at \in DOMAIN Order
        BY <1>1, Standing
      <4> QED
        BY <1>2, <1>8, <2>1, <2>2, <4>1, AfterFacts DEF k, Continues
    <3> QED
      BY <1>3, <1>6, <2>1, <2>2, <3>1, PhaseDone
  <2>3. CASE result = "failed"
    <3>1. k.pc = "failing"
      BY <1>1, <1>2, <1>8, <2>3, AtFacts DEF k, Continues, Upgrading
    <3> QED
      BY <1>3, <1>6, <2>1, <2>3, <3>1, PhaseFailed
  <2> QED
    BY <2>2, <2>3
<1> QED
  BY <1>7, <1>8

(* A hook that is reused, read back, invoked, or answered.                  *)
LEMMA HooksTold ==
  ASSUME TruthInv, FleetInv', NEW c \in Controllers, RunHook(c) \/ HookAnswers(c)
  PROVE  TruthInv'
<1>1. FleetInv /\ UNCHANGED <<files, effect, deployed, late, policy>>
  BY DEF TruthInv, RunHook, HookAnswers, world, outside
<1>2. CASE Rejects(c) /\ UNCHANGED record
  BY <1>1, <1>2, StoreTold
<1>3. CASE WorksOn(c) /\ RunHook(c) /\ ~(Rejects(c) /\ UNCHANGED record)
  <2>1. OnlyAt(c) /\ ctl[c].pc \in Upgrading /\ V(c)' = V(c)
    BY <1>1, <1>3 DEF OnlyAt, WorksOn, V
  <2>2. /\ Typed /\ ctl \in [Controllers -> Controls] /\ Works(c)
        /\ ctl[c].at \in DOMAIN Order /\ AsPlanned(c) /\ Undoes(c)
    BY <2>1, Standing
  <2>3. PICK v \in Ventures : v = V(c) /\ Cp(c) = record.cps[v] /\ Past(v) /\ InOrder(v) /\ Bare(v)
    BY <2>1, Standing DEF Past
  <2>4. PICK n \in HookAt(c) :
          LET invoke == [At(c, "invoking") EXCEPT !.hook = n]
          IN \/ /\ Phase(v, n) \in {"passed", "failed"}
                /\ ctl' = [ctl EXCEPT ![c] = Continues(c, n, Phase(v, n))]
                /\ UNCHANGED record
             \/ /\ Phase(v, n) = "prepared" /\ effect[v][n].times > 0
                /\ LET result == Result(effect[v][n].passed)
                   IN SavesPhase(c, n, result, Continues(c, n, result))
             \/ /\ Phase(v, n) \in {"none", "prepared"}
                /\ SavesPhase(c, n, "prepared", invoke)
    BY <1>3, <2>3 DEF RunHook, ReadBackFirst, Phase
  <2>5. n \in Hooks /\ n \in Phases /\ n \notin {"touch", "merge_gate", "production_readback", "lock"}
    BY <2>2, HookTyped, PlanFacts
  <2>6. CASE n = "compensate"
    <3>7. Asked(v, n)
      BY <2>6, PlanFacts DEF Asked
    <3>1. ctl[c].pc = "failing"
      <4>1. ~OnPhase(c, n)
        BY <2>2, <2>6, OnPhaseFacts, PlanFacts DEF InTurn
      <4> QED
        BY <4>1 DEF HookAt
    <3>2. Compensates(c) /\ ~Unsettled(v)
      BY <2>2, <2>3, <3>1 DEF Compensates, Undoes
    <3>3. "production" \in Phases \ {n}
      BY <2>6, PlanFacts
    <3>4. CASE /\ ctl' = [ctl EXCEPT ![c] = Continues(c, n, Phase(v, n))] /\ UNCHANGED record
      <4>1. ctl'[c].pc = "compensated"
        <5>1. ctl'[c] = At(c, "compensated")
          BY <2>2, <2>6, <3>4 DEF Continues
        <5>2. "compensated" \in Resting \cup Upgrading \cup {"next", "pausing"}
          BY DEF Upgrading
        <5>3. At(c, "compensated").pc = "compensated"
          BY <2>2, <5>2, AtFacts
        <5> QED
          BY <5>1, <5>3
      <4>2. ~Unsettled(v)'
        BY <3>2, <3>4 DEF Unsettled, Phase
      <4>3. AsPlanned(c)' /\ Undoes(c)'
        BY <2>1, <2>3, <4>1, <4>2, CameToFail
      <4> QED
        BY <1>1, <2>1, <2>3, <3>4, <4>3, NoPhase DEF Phase
    <3>5. CASE /\ Phase(v, n) = "prepared" /\ effect[v][n].times > 0
               /\ LET result == Result(effect[v][n].passed)
                  IN SavesPhase(c, n, result, Continues(c, n, result))
      <4>1. <<v, n>> \notin late
        BY <1>1, <2>5, <3>5 DEF FleetInv, Once
      <4>2. Result(effect[v][n].passed) \in {"passed", "failed"}
        BY DEF Result
      <4> QED
        BY <1>1, <2>1, <2>3, <2>5, <2>6, <3>2, <3>5, <4>1, <4>2, HookTold
    <3>6. CASE SavesPhase(c, n, "prepared", [At(c, "invoking") EXCEPT !.hook = n])
      <4> DEFINE k == [At(c, "invoking") EXCEPT !.hook = n]
      <4>1. k \in Controls /\ k.pc = "invoking" /\ k.hook = n
        BY <2>2, InvokeFacts
      <4>2. SavesPhase(c, n, "prepared", k)
        BY <3>6
      <4> HIDE DEF k
      <4>3. /\ Phase(v, n)' = "prepared" /\ \A m \in Phases \ {n} : Phase(v, m)' = Phase(v, m)
            /\ record'.cps[v].touched = record.cps[v].touched
            /\ ctl'[c].pc = "invoking" /\ ctl'[c].hook = n
        BY <1>1, <2>2, <2>3, <2>5, <4>1, <4>2, PhaseSaved DEF PhaseStates
      <4>4. ~Unsettled(v)'
        BY <3>2, <3>3, <4>3 DEF Unsettled
      <4>5. AsPlanned(c)' /\ Undoes(c)'
        BY <2>1, <2>3, <2>6, <4>3, <4>4 DEF AsPlanned, Undoes, OnPlan, Compensates, InPhase
      <4> QED
        BY <1>1, <2>1, <2>3, <2>5, <2>6, <3>7, <4>3, <4>5, OnePhase
    <3> QED
      BY <2>4, <3>4, <3>5, <3>6
  <2>7. CASE n # "compensate"
    <3>1. OnPhase(c, n)
      BY <2>7 DEF HookAt
    <3>2. PICK i \in DOMAIN Plan : i = ctl[c].step /\ Plan[i] = n
      BY <2>2, <3>1, OnPhaseFacts DEF InTurn
    <3>7. Asked(v, n)
      BY <2>3, <3>1 DEF OnPhase, Asked
    <3>3. OnPlan(c) /\ \A j \in DOMAIN Plan : j < i => Did(v, Plan[j])
      BY <2>2, <2>3, <3>1, <3>2, OnPhaseFacts DEF AsPlanned, OnPlan
    <3>4. CASE /\ Phase(v, n) \in {"passed", "failed"}
               /\ ctl' = [ctl EXCEPT ![c] = Continues(c, n, Phase(v, n))] /\ UNCHANGED record
      <4>1. \A m \in Phases : Phase(v, m)' = Phase(v, m)
        BY <3>4 DEF Phase
      <4>2. CASE Phase(v, n) = "passed"
        <5>1. ctl'[c] = After(c)
          BY <2>2, <2>7, <3>4, <4>2 DEF Continues
        <5>2. ctl'[c].pc = "step" /\ ctl'[c].step = i + 1
          BY <2>2, <3>2, <5>1, AfterFacts
        <5>3. Did(v, Plan[i])'
          BY <2>5, <3>2, <4>1, <4>2 DEF Did
        <5> QED
          BY <1>1, <2>1, <2>3, <3>2, <3>3, <3>4, <4>1, <5>2, <5>3, StepDone
      <4>3. CASE Phase(v, n) = "failed"
        <5>1. ctl'[c].pc = "failing"
          <6>1. ctl'[c] = At(c, "failing")
            BY <2>2, <2>7, <3>4, <4>3 DEF Continues
          <6>2. "failing" \in Resting \cup Upgrading \cup {"next", "pausing"}
            BY DEF Upgrading
          <6>3. At(c, "failing").pc = "failing"
            BY <2>2, <6>2, AtFacts
          <6> QED
            BY <6>1, <6>3
        <5>5. ~Did(v, Plan[i])
          BY <2>5, <3>2, <3>7, <4>3 DEF Did
        <5>2. ~Unsettled(v)
          <6>1. CASE n = "production"
            BY <4>3, <6>1 DEF Unsettled
          <6>2. CASE n # "production"
            BY <2>3, <3>2, <3>3, <5>5, <6>2, FailsSettled
          <6> QED
            BY <6>1, <6>2
        <5>3. ~Unsettled(v)'
          BY <4>1, <5>2, PlanFacts DEF Unsettled
        <5>6. Phase(v, "lock")' # "passed"
          BY <2>5, <3>2, <4>1, <5>5, FilesTakenBack, PlanFacts DEF Planned
        <5>4. AsPlanned(c)' /\ Undoes(c)'
          BY <2>1, <2>3, <5>1, <5>3, <5>6, CameToFail
        <5> QED
          BY <1>1, <2>1, <2>3, <3>4, <4>1, <5>4, NoPhase
      <4> QED
        BY <3>4, <4>2, <4>3
    <3>5. CASE /\ Phase(v, n) = "prepared" /\ effect[v][n].times > 0
               /\ LET result == Result(effect[v][n].passed)
                  IN SavesPhase(c, n, result, Continues(c, n, result))
      <4>1. <<v, n>> \notin late
        BY <1>1, <2>5, <3>5 DEF FleetInv, Once
      <4>2. Result(effect[v][n].passed) \in {"passed", "failed"}
        BY DEF Result
      <4> QED
        BY <1>1, <2>1, <2>3, <2>5, <2>7, <3>2, <3>3, <3>5, <4>1, <4>2, HookTold
    <3>6. CASE /\ Phase(v, n) \in {"none", "prepared"}
               /\ SavesPhase(c, n, "prepared", [At(c, "invoking") EXCEPT !.hook = n])
      <4> DEFINE k == [At(c, "invoking") EXCEPT !.hook = n]
      <4>1. k \in Controls /\ k.pc = "invoking" /\ k.hook = n /\ k.step = i
        BY <2>2, <3>2, InvokeFacts
      <4>2. SavesPhase(c, n, "prepared", k)
        BY <3>6
      <4> HIDE DEF k
      <4>3. /\ Phase(v, n)' = "prepared" /\ \A m \in Phases \ {n} : Phase(v, m)' = Phase(v, m)
            /\ record'.cps[v].touched = record.cps[v].touched
            /\ ctl'[c].pc = "invoking" /\ ctl'[c].hook = n /\ ctl'[c].step = i
        BY <1>1, <2>2, <2>3, <2>5, <4>1, <4>2, PhaseSaved DEF PhaseStates
      <4>4. \A j \in DOMAIN Plan : j < i => Did(v, Plan[j])'
        <5>1. \A j \in DOMAIN Plan : j < i => Plan[j] # n
          BY <3>2, PlanFacts
        <5> QED
          BY <1>1, <2>5, <3>3, <4>3, <5>1, DidKept
      <4>5. AsPlanned(c)' /\ Undoes(c)'
        BY <2>1, <2>3, <2>7, <3>2, <4>3, <4>4
        DEF AsPlanned, Undoes, OnPlan, Compensates, InPhase
      <4> QED
        BY <1>1, <2>1, <2>3, <2>5, <3>2, <3>3, <3>6, <3>7, <4>3, <4>5, OnePhase
    <3> QED
      BY <2>4, <3>4, <3>5, <3>6
  <2> QED
    BY <2>6, <2>7
<1>4. CASE WorksOn(c) /\ HookAnswers(c)
  <2>1. OnlyAt(c) /\ ctl[c].pc \in Upgrading
    BY <1>1, <1>4 DEF OnlyAt, WorksOn
  <2>2. Typed /\ Placed(ctl[c]) /\ AsPlanned(c)
    BY <2>1, Standing
  <2>3. PICK v \in Ventures : v = V(c)
    BY <2>1, Standing
  <2>4. ctl[c].pc = "invoking" /\ ctl[c].hook \in Hooks
    BY <1>4, <2>2 DEF HookAnswers, Placed
  <2>5. PICK n \in Hooks : n = ctl[c].hook
    BY <2>4
  <2> DEFINE result == Result(effect[v][n].passed)
  <2>6. SavesPhase(c, n, result, Continues(c, n, result)) /\ result \in {"passed", "failed"}
    BY <1>4, <2>3, <2>5 DEF HookAnswers, Result
  <2> HIDE DEF result
  <2>7. Phase(v, n) = "prepared" /\ <<v, n>> \notin late
    BY <1>1, <2>3, <2>4, <2>5 DEF FleetInv, Once, Invokes, Phase
  <2>8. CASE n = "compensate"
    BY <1>1, <2>1, <2>3, <2>4, <2>5, <2>6, <2>7, <2>8, HookTold DEF Compensates
  <2>9. CASE n # "compensate"
    <3>1. OnPlan(c) /\ ctl[c].step \in DOMAIN Plan /\ Plan[ctl[c].step] = n
      BY <2>2, <2>4, <2>5, <2>9 DEF Placed, AsPlanned, OnPlan
    <3> QED
      BY <1>1, <2>1, <2>3, <2>6, <2>7, <2>9, <3>1, HookTold
  <2> QED
    BY <2>8, <2>9
<1> QED
  BY <1>1, <1>2, <1>3, <1>4, HooksWork

(* The invariant is kept by every step that overtakes no controller.        *)
LEMMA TruthStep ==
  ASSUME TruthInv, [Next]_vars, ~overtaken' PROVE TruthInv'
<1>1. FleetInv'
  BY FleetInvStep DEF TruthInv
<1>2. ASSUME NEW c \in Controllers, Step(c) PROVE TruthInv'
  <2>1. CASE Begin(c) \/ Create(c) \/ Lease(c)
    BY <1>1, <2>1, StoreTold
  <2>2. CASE NextVenture(c) \/ SaveResult(c) \/ Pause(c)
    BY <1>1, <2>2, NextTold, SaveResultTold, PauseTold
  <2>3. CASE RunHook(c) \/ HookAnswers(c)
    BY <1>1, <2>3, HooksTold
  <2>4. CASE HookActs(c)
    BY <1>1, <2>4, ActsTold
  <2>5. CASE Reused(c) \/ PrepareUpgrade(c) \/ ApplyUpgrade(c) \/ SaveUpgrade(c) \/ Touch(c) \/ Verify(c)
    BY <1>1, <2>5, OwnRecordTold, UpgradeTold
  <2>6. CASE MergeGate(c) \/ ProductionReadBack(c) \/ PrepareLock(c) \/ WriteLock(c) \/ SaveLock(c)
    BY <1>1, <2>6, GateTold, LockTold
  <2>7. CASE RollBack(c) \/ Compensated(c) \/ RestoreCompensated(c)
    BY <1>1, <2>7, UndoTold
  <2> QED
    BY <1>2, <2>1, <2>2, <2>3, <2>4, <2>5, <2>6, <2>7 DEF Step
<1>3. ASSUME NEW c \in Controllers, HookThrows(c) \/ Crash(c) PROVE TruthInv'
  BY <1>1, <1>3, StoreTold
<1>4. CASE (\E v \in Ventures, n \in Hooks : LateEffect(v, n)) \/ Expire
  BY <1>1, <1>4, ActsTold, ExpireTold
<1>5. CASE UNCHANGED vars
  <2>1. UNCHANGED <<record, ctl, files, effect, deployed, late, policy>>
    BY <1>5 DEF vars
  <2> QED
    BY <1>1, <2>1, AroundStep DEF AtRest
<1> QED
  BY <1>2, <1>3, <1>4, <1>5 DEF Next

TruthUntilOvertaken == Typed /\ (~overtaken => TruthInv)

(* A run that has ended tells the truth, for every plan that marks          *)
(* production before it deploys and writes the lock last: a venture it      *)
(* reports as rolled back serves the old version from the old files, and a  *)
(* verified one that was never compensated has the new files, and serves    *)
(* the new version if its policy deploys, whatever crashed, threw, was lost *)
(* or came late, until a controller is overtaken.                           *)
THEOREM FleetResultIsTrue == Spec => []ResultIsTrue
<1>1. Init => TruthUntilOvertaken
  BY TruthInit, TypedInit DEF TruthUntilOvertaken
<1>2. TruthUntilOvertaken /\ [Next]_vars => TruthUntilOvertaken'
  BY TypedStep, OvertakenStays, TruthStep DEF TruthUntilOvertaken
<1>3. TruthUntilOvertaken => ResultIsTrue
  <2>1. CASE ~overtaken
    BY <2>1, TruthTold DEF TruthUntilOvertaken
  <2>2. CASE overtaken
    BY <2>2 DEF ResultIsTrue
  <2> QED
    BY <2>1, <2>2
<1> QED
  BY <1>1, <1>2, <1>3, PTL DEF Spec
=============================================================================
