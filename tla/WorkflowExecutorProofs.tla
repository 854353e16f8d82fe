--------------------------- MODULE WorkflowExecutorProofs ---------------------------
(***************************************************************************)
(* Proofs about the workflow executor for any graph, retry and polling     *)
(* limits, parallelism, crashes, cancellations and steers.                 *)
(*                                                                         *)
(* A property that counts writes must know, for each effect, how far the   *)
(* world may be ahead of the record: SafeInv says it node by node, for an  *)
(* effect that is verified and for one that is not, as long as no handler  *)
(* outlives its timeout. LateInv and FailInv are about the record alone,   *)
(* and about a run that nobody has cancelled: the one says that a started  *)
(* node has no verified effect, the other that compensation finds every    *)
(* verified node. FanInv says that what a node went ahead on stays settled. *)
(***************************************************************************)
EXTENDS WorkflowExecutor, WellFoundedInduction, TLAPS

-----------------------------------------------------------------------------
(* The sets the variables range over.                                       *)

Records == [state : NodeStates, tries : 0..MaxAttempts, begun : BOOLEAN, rev : 0..MaxSteers,
            phase : Phases, polls : 0..MaxPolls, sure : BOOLEAN]
TaskPcs == {"none", "started", "handling", "validating", "accounting", "retrying", "settling",
            "rechecking", "backoff"}
Tasks == [pc : TaskPcs, rev : 0..MaxSteers, wrote : BOOLEAN]
MainPcs == {"off", "recover", "restarting", "polling", "rechecking", "prepare", "condition",
            "select", "batch", "decide", "compensate", "compensating"}
CtlPcs == {"idle", "interrupted", "reconciling", "rechecking", "compensate", "compensating"}
Statuses == {"created", "queued", "running", "waiting"} \cup Ended
Worlds == {"clean", "partial", "applied", "twice"}
Counts == [crash : 0..MaxCrashes, cancel : 0..MaxCancels, steer : 0..MaxSteers,
           steered : SUBSET Nodes]

\* execute and cancel are at a node of the order.
AtNode == {"restarting", "polling", "rechecking", "condition", "compensating"}
Positions == 1..Len(Order)

MainTyped ==
  /\ main \in [pc : MainPcs, at : 0..(Len(Order) + 1)]
  /\ main.pc \in {"recover", "prepare"} => main.at # 0
  /\ main.pc = "compensate" => main.at <= Len(Order)
  /\ main.pc \in AtNode => main.at \in Positions

CtlTyped ==
  /\ ctl \in [pc : CtlPcs, todo : SUBSET Nodes, at : 0..Len(Order)]
  /\ ctl.pc \in {"reconciling", "rechecking"} => ctl.todo # {}
  /\ ctl.pc = "compensating" => ctl.at \in Positions

RecTyped == rec \in [Nodes -> Records] /\ \A n \in Nodes : rec[n].rev <= used.steer

Typed ==
  /\ RecTyped /\ MainTyped /\ CtlTyped
  /\ status \in Statuses /\ task \in [Nodes -> Tasks] /\ world \in [Nodes -> Worlds]
  /\ verified \subseteq Nodes /\ late \subseteq Nodes /\ tried \subseteq Nodes
  /\ used \in Counts
-----------------------------------------------------------------------------
(* No write is repeated: the inductive invariant, node by node.             *)

Safe(n) == world[n] \in {"clean", "partial"}
Clear == {"none", "not_applied"}

\* execute or cancel works on the node, and is there.
MainAt(pcs, n) == main.pc \in pcs /\ Order[main.at] = n
NextOf(todo) ==
  Order[CHOOSE i \in 1..Len(Order) :
          Order[i] \in todo /\ \A j \in 1..(i - 1) : Order[j] \notin todo]
CtlAt(pcs, n) ==
  \/ ctl.pc = "rechecking" /\ "rechecking" \in pcs /\ NextOf(ctl.todo) = n
  \/ ctl.pc = "compensating" /\ "compensating" \in pcs /\ Order[ctl.at] = n

(* A write about to be made is the first that is complete.                  *)
WritesOnce(n) ==
  /\ world[n] # "twice"
  /\ task[n].pc = "started" => Safe(n)
  /\ task[n].pc = "handling" /\ ~task[n].wrote => Safe(n)

(* What is said of an effect nobody has verified: it is not taken for done, *)
(* and whatever leads to another call finds it absent or partial.           *)
Unverified(n) ==
  /\ rec[n].state \notin {"succeeded", "compensated"} /\ rec[n].phase # "verified"
  /\ task[n].pc \notin {"accounting", "rechecking"}
  /\ ~MainAt({"rechecking", "compensating"}, n) /\ ~CtlAt({"rechecking", "compensating"}, n)

Repeatable(n) ==
  /\ rec[n].state \in {"pending", "ready"} => Safe(n)
  /\ rec[n].state \notin Terminal /\ rec[n].phase \in Clear => Safe(n)
  /\ ~rec[n].begun => Safe(n) /\ task[n].pc = "none"
  /\ task[n].pc = "backoff" => Safe(n)
  /\ MainAt({"condition"}, n) => Safe(n)

(* An open call has a trace in the record, unless the node was cancelled.   *)
Traced(n) ==
  /\ task[n].pc \in {"started", "handling", "validating"} => rec[n].state \notin {"pending", "ready"}
  /\ task[n].pc \in {"handling", "validating"} =>
       \/ rec[n].phase \notin Clear
       \/ rec[n].state \in {"cancelled", "skipped"} /\ n \notin ctl.todo
  /\ task[n].pc \in {"retrying", "settling"} \/ MainAt({"restarting", "polling"}, n) =>
       rec[n].phase # "none"

Holds(n) ==
  IF n \in Effectful
    THEN /\ WritesOnce(n)
         /\ IF n \in verified THEN world[n] = "applied" /\ rec[n].sure
            ELSE Unverified(n) /\ Repeatable(n) /\ Traced(n) /\ ~rec[n].sure
    ELSE /\ world[n] = "clean" /\ rec[n].phase = "none" /\ n \notin verified /\ ~rec[n].sure
         /\ task[n].pc \notin {"retrying", "settling"} /\ ~MainAt({"restarting", "polling"}, n)

TasksInBatch == main.pc # "batch" => \A n \in Nodes : task[n].pc = "none"

SafeInv ==
  /\ Typed /\ TasksInBatch /\ late = {} /\ ctl.todo \subseteq Effectful
  /\ \A n \in Nodes : Holds(n)
-----------------------------------------------------------------------------
(* What the operators make of a record.                                     *)

(* The constants, one by one.                                               *)
LEMMA Bounds ==
  /\ MaxAttempts \in Nat /\ MaxAttempts > 0 /\ MaxPolls \in Nat /\ MaxPolls > 0
  /\ MaxCrashes \in Nat /\ MaxCancels \in Nat /\ MaxSteers \in Nat
  /\ Len(Order) \in Nat /\ \A i \in Positions : Order[i] \in Nodes
  /\ \A n \in Nodes : \E i \in Positions : Order[i] = n
  /\ Effectful \subseteq Nodes /\ Deps \in [Nodes -> SUBSET Nodes]
  BY ExecutorAssumption DEF Positions

(* A record and its fields.                                                 *)
LEMMA FieldsOf ==
  ASSUME NEW r \in Records
  PROVE  /\ r.state \in NodeStates /\ r.tries \in 0..MaxAttempts /\ r.begun \in BOOLEAN
         /\ r.rev \in 0..MaxSteers /\ r.phase \in Phases /\ r.polls \in 0..MaxPolls
         /\ r.sure \in BOOLEAN
  BY DEF Records

(* Two records of the same life of a node.                                  *)
Continues(a, r) == a \in Records /\ a.begun = r.begun /\ a.rev = r.rev

(* A record with another state.                                             *)
LEMMA InState ==
  ASSUME NEW r \in Records, NEW state \in NodeStates
  PROVE  LET a == [r EXCEPT !.state = state] IN
           /\ Continues(a, r) /\ a.state = state /\ a.phase = r.phase /\ a.sure = r.sure
           /\ a.tries = r.tries /\ a.polls = r.polls
  BY DEF Records, Continues

(* A record with another phase.                                             *)
LEMMA InPhase ==
  ASSUME NEW r \in Records, NEW phase \in Phases
  PROVE  LET a == [r EXCEPT !.phase = phase] IN
           /\ Continues(a, r) /\ a.phase = phase /\ a.state = r.state /\ a.sure = r.sure
           /\ a.tries = r.tries /\ a.polls = r.polls
  BY DEF Records, Continues

(* A record with another number of attempts.                                *)
LEMMA InTries ==
  ASSUME NEW r \in Records, NEW tries \in 0..MaxAttempts
  PROVE  LET a == [r EXCEPT !.tries = tries] IN
           /\ Continues(a, r) /\ a.tries = tries /\ a.state = r.state /\ a.phase = r.phase
           /\ a.sure = r.sure /\ a.polls = r.polls
  BY DEF Records, Continues

(* A record with another number of polls.                                   *)
LEMMA InPolls ==
  ASSUME NEW r \in Records, NEW polls \in 0..MaxPolls
  PROVE  LET a == [r EXCEPT !.polls = polls] IN
           /\ Continues(a, r) /\ a.polls = polls /\ a.state = r.state /\ a.phase = r.phase
           /\ a.sure = r.sure /\ a.tries = r.tries
  BY DEF Records, Continues

(* One attempt or poll less.                                                *)
LEMMA LowerFacts ==
  ASSUME NEW max \in Nat, NEW k \in 0..max
  PROVE  Lower(k) \in 0..max
  BY DEF Lower

(* A record that failed.                                                    *)
LEMMA FailedFacts ==
  ASSUME NEW r \in Records
  PROVE  /\ Continues(FailedRecord(r), r) /\ FailedRecord(r).state = "failed_terminal"
         /\ FailedRecord(r).phase = r.phase /\ FailedRecord(r).sure = r.sure
<1>1. "failed_terminal" \in NodeStates
  BY DEF NodeStates
<1> QED
  BY <1>1, InState DEF FailedRecord

(* A record that reuses a verified effect.                                  *)
LEMMA ReusedFacts ==
  ASSUME NEW r \in Records
  PROVE  /\ Continues(ReusedRecord(r), r) /\ ReusedRecord(r).state = "succeeded"
         /\ ReusedRecord(r).sure = TRUE
         /\ ReusedRecord(r).phase = IF r.phase = "none" THEN "none" ELSE "verified"
<1> DEFINE phase == IF r.phase = "none" THEN r.phase ELSE "verified"
           a == [r EXCEPT !.state = "succeeded", !.sure = TRUE, !.phase = phase]
<1>1. phase \in Phases /\ "succeeded" \in NodeStates
  BY FieldsOf DEF Phases, NodeStates
<1>2. ReusedRecord(r) = a
  BY FieldsOf DEF ReusedRecord, Records
<1>3. phase = IF r.phase = "none" THEN "none" ELSE "verified"
  OBVIOUS
<1> HIDE DEF phase
<1>4. Continues(a, r) /\ a.state = "succeeded" /\ a.sure = TRUE /\ a.phase = phase
  BY <1>1 DEF Records, Continues
<1> QED
  BY <1>2, <1>3, <1>4

(* A record that waits.                                                     *)
LEMMA WaitingFacts ==
  ASSUME NEW r \in Records, NEW state \in Waiting
  PROVE  /\ Continues(WaitingRecord(r, state), r) /\ WaitingRecord(r, state).state = state
         /\ WaitingRecord(r, state).sure = r.sure
         /\ WaitingRecord(r, state).phase =
              IF state = "waiting_for_external_action" /\ r.phase # "none"
                THEN "pending_external" ELSE r.phase
<1> DEFINE phase == IF state = "waiting_for_external_action" /\ r.phase # "none"
                      THEN "pending_external" ELSE r.phase
           a == [r EXCEPT !.state = state, !.phase = phase]
<1>1. phase \in Phases /\ state \in NodeStates
  BY FieldsOf DEF Phases, NodeStates, Waiting
<1>2. WaitingRecord(r, state) = a
  BY FieldsOf DEF WaitingRecord, Records
<1>3. phase = IF state = "waiting_for_external_action" /\ r.phase # "none"
                THEN "pending_external" ELSE r.phase
  OBVIOUS
<1> HIDE DEF phase
<1>4. Continues(a, r) /\ a.state = state /\ a.sure = r.sure /\ a.phase = phase
  BY <1>1 DEF Records, Continues
<1> QED
  BY <1>2, <1>3, <1>4

Reasons == {"restart", "poll", "retry", "cancel"}

(* What asking the reconciler, or having none to ask, makes of a record.    *)
LEMMA AskedFacts ==
  ASSUME NEW n \in Nodes, NEW r \in Records, NEW reason \in Reasons
  PROVE  LET a == AskedRecord(n, r, reason) IN
           /\ Continues(a, r)
           /\ Asks(n, r) => a.state = r.state /\ a.phase = r.phase /\ a.sure = r.sure
           /\ ~Asks(n, r) /\ n \in verified => a = ReusedRecord(r)
           /\ n \notin verified /\ r.phase = "none" /\ reason = "cancel" => a = r
           /\ n \notin verified /\ r.phase = "none" /\ reason # "cancel" =>
                a.state = "pending" /\ a.phase = "none" /\ a.sure = r.sure
           /\ n \notin verified /\ r.phase # "none" =>
                /\ a.phase # "none" /\ (a.phase \in Clear => r.phase \in Clear) /\ a.sure = r.sure
                /\ a.phase = "verified" => r.phase = "verified"
                /\ ~Asks(n, r) => \/ a.state = "failed_terminal" /\ a.phase = r.phase
                                  \/ a.state = r.state /\ a.phase = "unknown" /\ reason = "cancel"
                                  \/ /\ a.state = "waiting_for_external_action"
                                     /\ a.phase = "pending_external" /\ reason # "cancel"
<1> DEFINE a == AskedRecord(n, r, reason)
<1>1. CASE Asks(n, r)
  <2>1. a = [r EXCEPT !.polls = @ + 1]
    BY <1>1 DEF AskedRecord, Asks
  <2>2. r.polls + 1 \in 0..MaxPolls
    BY <1>1, FieldsOf, Bounds DEF Asks
  <2>3. /\ Continues(a, r) /\ a.state = r.state /\ a.phase = r.phase /\ a.sure = r.sure
    BY <2>1, <2>2, InPolls
  <2> HIDE DEF a
  <2>4. n \notin verified /\ r.phase # "none"
    BY <1>1 DEF Asks
  <2> QED
    BY <1>1, <2>3, <2>4 DEF a
<1>2. CASE ~Asks(n, r) /\ n \in verified
  <2>1. a = ReusedRecord(r)
    BY <1>2 DEF AskedRecord
  <2> QED
    BY <1>2, <2>1, ReusedFacts
<1>3. CASE ~Asks(n, r) /\ n \notin verified /\ r.phase = "none"
  <2>1. CASE reason = "cancel"
    <3>1. a = r
      BY <1>3, <2>1 DEF AskedRecord
    <3> QED
      BY <1>3, <2>1, <3>1 DEF Continues
  <2>2. CASE reason # "cancel"
    <3> DEFINE tries == Lower(r.tries)
    <3>1. tries \in 0..MaxAttempts /\ "pending" \in NodeStates
      BY FieldsOf, Bounds, LowerFacts DEF NodeStates
    <3>2. a = [r EXCEPT !.state = "pending", !.tries = tries]
      BY <1>3, <2>2 DEF AskedRecord
    <3> HIDE DEF a, tries
    <3>3. Continues(a, r) /\ a.state = "pending" /\ a.phase = r.phase /\ a.sure = r.sure
      BY <3>1, <3>2 DEF Records, Continues
    <3> QED
      BY <1>3, <2>2, <3>3 DEF a
  <2> QED
    BY <2>1, <2>2
<1>4. CASE ~Asks(n, r) /\ n \notin verified /\ r.phase # "none" /\ n \notin Reconcilers
  <2>1. CASE reason = "cancel"
    <3>1. a = [r EXCEPT !.phase = "unknown"] /\ "unknown" \in Phases
      BY <1>4, <2>1 DEF AskedRecord, Phases
    <3>2. /\ Continues(a, r) /\ a.phase = "unknown" /\ a.state = r.state /\ a.sure = r.sure
      BY <3>1, InPhase
    <3> HIDE DEF a
    <3> QED
      BY <1>4, <2>1, <3>2 DEF a, Clear
  <2>2. CASE reason # "cancel"
    <3>1. a = WaitingRecord(r, "waiting_for_external_action")
      BY <1>4, <2>2 DEF AskedRecord
    <3>2. /\ Continues(a, r) /\ a.phase = "pending_external" /\ a.sure = r.sure
          /\ a.state = "waiting_for_external_action"
      BY <1>4, <3>1, WaitingFacts DEF Waiting
    <3> HIDE DEF a
    <3> QED
      BY <1>4, <2>2, <3>2 DEF a, Clear
  <2> QED
    BY <2>1, <2>2
<1>5. CASE ~Asks(n, r) /\ n \notin verified /\ r.phase # "none" /\ n \in Reconcilers
  <2>1. a = FailedRecord(r)
    BY <1>5 DEF AskedRecord
  <2>2. /\ Continues(a, r) /\ a.phase = r.phase /\ a.state = "failed_terminal" /\ a.sure = r.sure
    BY <2>1, FailedFacts
  <2> HIDE DEF a
  <2> QED
    BY <1>5, <2>2 DEF a
<1> QED
  BY <1>1, <1>2, <1>3, <1>4, <1>5

(* What an answer makes of a record.  Only a true "not there" or "partly    *)
(* there" lets the node be tried again, or clears its phase.                *)
Answered(a, r, n, reason, answer) ==
  /\ Continues(a, r)
  /\ answer = "verified" => a.state = "succeeded" /\ a.sure = TRUE /\ a.phase = "verified"
  /\ answer # "verified" =>
       /\ a.sure = r.sure
       /\ a.phase = "verified" => r.phase = "verified"
       /\ a.phase = "none" => r.phase = "none"
       /\ reason = "cancel" =>
            \/ a.state = r.state /\ a.phase = r.phase
            \/ a.state = "cancelled"
            \/ a.state = "failed_terminal" /\ a.phase \in {"unknown", "pending_external"}
       /\ reason # "cancel" =>
            /\ a.state \in {"pending", "waiting_for_external_action", "waiting_for_auth",
                            "failed_terminal"}
            /\ a.state = "pending" => Safe(n)
            /\ a.phase \in Clear /\ r.phase # "none" => Safe(n)

(* An answer of the reconciler does that.                                   *)
LEMMA AnsweredFacts ==
  ASSUME NEW n \in Nodes, world[n] \in Worlds, NEW r \in Records, NEW reason \in Reasons,
         NEW answer \in Answers(n)
  PROVE  Answered(AnsweredRecord(r, reason, answer), r, n, reason, answer)
<1> DEFINE a == AnsweredRecord(r, reason, answer)
           In(phase) == [r EXCEPT !.phase = phase]
           Again(s) == [s EXCEPT !.state = IF reason = "cancel" THEN "cancelled" ELSE "pending"]
<1>1. \A phase \in Phases :
        /\ In(phase) \in Records /\ Continues(In(phase), r) /\ In(phase).phase = phase
        /\ In(phase).state = r.state /\ In(phase).sure = r.sure
        /\ In(phase).tries = r.tries /\ In(phase).polls = r.polls
  BY InPhase DEF Continues
<1>2. \A s \in Records :
        /\ Continues(Again(s), s) /\ Again(s).phase = s.phase /\ Again(s).sure = s.sure
        /\ Again(s).state = IF reason = "cancel" THEN "cancelled" ELSE "pending"
        /\ Again(s).tries = s.tries
  <2> TAKE s \in Records
  <2> DEFINE state == IF reason = "cancel" THEN "cancelled" ELSE "pending"
  <2>1. state \in NodeStates /\ Again(s) = [s EXCEPT !.state = state]
    BY DEF NodeStates
  <2>2. state = IF reason = "cancel" THEN "cancelled" ELSE "pending"
    OBVIOUS
  <2> HIDE DEF state, Again
  <2> QED
    BY <2>1, <2>2, InState
<1>3. {"not_applied", "partially_applied", "unknown", "pending_external"} \subseteq Phases
  BY DEF Phases
<1> HIDE DEF In, Again
<1>4. CASE answer = "verified"
  <2>1. a = [ReusedRecord(r) EXCEPT !.phase = "verified"] /\ "verified" \in Phases
    BY <1>4 DEF AnsweredRecord, Phases
  <2>2. ReusedRecord(r) \in Records
    BY ReusedFacts DEF Continues
  <2> DEFINE u == ReusedRecord(r)
  <2> HIDE DEF u, a
  <2>0. a = [u EXCEPT !.phase = "verified"] /\ u \in Records /\ "verified" \in Phases
    BY <2>1, <2>2 DEF u
  <2>5. Continues(a, u) /\ a.phase = "verified" /\ a.state = u.state /\ a.sure = u.sure
    BY <2>0, InPhase
  <2>3. /\ Continues(a, ReusedRecord(r)) /\ a.phase = "verified" /\ a.state = "succeeded"
        /\ a.sure = TRUE
    BY <2>5, ReusedFacts DEF u
  <2>4. Continues(a, r)
    BY <2>3, ReusedFacts DEF Continues
  <2> QED
    BY <1>4, <2>3, <2>4 DEF Answered, a
<1>5. CASE answer = "not_applied"
  <2> DEFINE s == Again(In("not_applied"))
             tries == IF reason = "restart" THEN Lower(s.tries) ELSE s.tries
  <2>1. /\ Continues(s, r) /\ s.phase = "not_applied" /\ s.sure = r.sure
        /\ s.state = IF reason = "cancel" THEN "cancelled" ELSE "pending"
    BY <1>1, <1>2, <1>3 DEF Continues
  <2>2. s \in Records /\ tries \in 0..MaxAttempts
    BY <2>1, FieldsOf, Bounds, LowerFacts DEF Continues
  <2>3. a = [s EXCEPT !.tries = tries]
    BY <1>5 DEF AnsweredRecord, In, Again
  <2>4. Safe(n)
    BY <1>5 DEF Answers, Safe, Worlds
  <2> HIDE DEF a, s, tries
  <2>5. /\ Continues(a, s) /\ a.state = s.state /\ a.phase = s.phase /\ a.sure = s.sure
    BY <2>2, <2>3, InTries
  <2> QED
    BY <1>5, <2>1, <2>4, <2>5 DEF Answered, Continues, a
<1>6. CASE answer = "partially_applied"
  <2>1. a = Again(In("partially_applied"))
    BY <1>6 DEF AnsweredRecord, In, Again
  <2>2. Safe(n)
    BY <1>6 DEF Answers, Safe, Worlds
  <2>3. /\ Continues(a, r) /\ a.phase = "partially_applied" /\ a.sure = r.sure
        /\ a.state = IF reason = "cancel" THEN "cancelled" ELSE "pending"
    BY <1>1, <1>2, <1>3, <2>1 DEF Continues
  <2> HIDE DEF a
  <2> QED
    BY <1>6, <2>2, <2>3 DEF Answered, a, Clear
<1>7. CASE answer = "no_write"
  <2>1. a = Again(In("not_applied")) \/ (a = FailedRecord(In("not_applied")) /\ reason # "cancel")
    BY <1>7 DEF AnsweredRecord, In, Again
  <2>2. Safe(n)
    BY <1>7 DEF Answers, Safe, Worlds
  <2>3. /\ Continues(a, r) /\ a.phase = "not_applied" /\ a.sure = r.sure
        /\ \/ a.state = IF reason = "cancel" THEN "cancelled" ELSE "pending"
           \/ a.state = "failed_terminal" /\ reason # "cancel"
    BY <1>1, <1>2, <1>3, <2>1, FailedFacts DEF Continues
  <2> HIDE DEF a
  <2> QED
    BY <1>7, <2>2, <2>3 DEF Answered, a, Clear
<1>8. CASE answer = "failed"
  <2>1. \/ a = Again(In("unknown")) /\ reason = "cancel"
        \/ a = FailedRecord(In("unknown"))
    BY <1>8 DEF AnsweredRecord, In, Again
  <2>2. /\ Continues(a, r) /\ a.phase = "unknown" /\ a.sure = r.sure
        /\ \/ a.state = "cancelled" /\ reason = "cancel"
           \/ a.state = "failed_terminal"
    BY <1>1, <1>2, <1>3, <2>1, FailedFacts DEF Continues
  <2> HIDE DEF a
  <2> QED
    BY <1>8, <2>2 DEF Answered, a, Clear
<1>9. CASE answer \in {"rejected", "refused"}
  <2> DEFINE phase == IF answer = "refused" THEN "not_applied" ELSE "unknown"
             f == In(phase)
             polls == Lower(f.polls)
             g == [f EXCEPT !.polls = polls]
  <2>1. f \in Records /\ Continues(f, r) /\ f.phase = phase /\ f.sure = r.sure
    BY <1>1, <1>3
  <2>2. polls \in 0..MaxPolls
    BY <2>1, FieldsOf, Bounds, LowerFacts
  <2>3. IF reason = "cancel" THEN a = Again(f) ELSE a = WaitingRecord(g, "waiting_for_auth")
    BY <1>9 DEF AnsweredRecord, In, Again
  <2>4. phase = "not_applied" => Safe(n)
    BY <1>9 DEF Answers, Safe, Worlds
  <2>5. phase \in {"not_applied", "unknown"}
    OBVIOUS
  <2> HIDE DEF a, f, polls, phase
  <2>6. Continues(g, f) /\ g.phase = f.phase /\ g.sure = f.sure
    BY <2>1, <2>2, InPolls
  <2> HIDE DEF g
  <2>7. CASE reason = "cancel"
    <3>1. Continues(a, f) /\ a.state = "cancelled" /\ a.phase = phase /\ a.sure = f.sure
      BY <1>2, <2>1, <2>3, <2>7
    <3> QED
      BY <1>9, <2>1, <2>5, <2>7, <3>1 DEF Answered, a, Continues
  <2>8. CASE reason # "cancel"
    <3>1. g \in Records /\ "waiting_for_auth" \in Waiting
      BY <2>6 DEF Continues, Waiting
    <3>2. /\ Continues(a, g) /\ a.state = "waiting_for_auth" /\ a.phase = g.phase
          /\ a.sure = g.sure
      BY <2>3, <2>8, <3>1, WaitingFacts
    <3> QED
      BY <1>9, <2>1, <2>4, <2>5, <2>6, <2>8, <3>2 DEF Answered, a, Continues, Clear
  <2> QED
    BY <2>7, <2>8
<1>10. CASE answer = "invalid"
  <2>1. a = FailedRecord(In("unknown"))
    BY <1>10 DEF AnsweredRecord, In, Again
  <2>2. Continues(a, r) /\ a.phase = "unknown" /\ a.sure = r.sure /\ a.state = "failed_terminal"
    BY <1>1, <1>3, <2>1, FailedFacts DEF Continues
  <2> HIDE DEF a
  <2> QED
    BY <1>10, <2>2 DEF Answered, a, Clear
<1>11. CASE answer = "throws"
  <2>1. \/ a = FailedRecord(In("unknown"))
        \/ a = r /\ reason = "cancel"
        \/ a = WaitingRecord(r, "waiting_for_external_action") /\ reason # "cancel"
    BY <1>11 DEF AnsweredRecord, In, Again
  <2>2. CASE a = FailedRecord(In("unknown"))
    <3>1. Continues(a, r) /\ a.phase = "unknown" /\ a.sure = r.sure /\ a.state = "failed_terminal"
      BY <1>1, <1>3, <2>2, FailedFacts DEF Continues
    <3> HIDE DEF a
    <3> QED
      BY <1>11, <3>1 DEF Answered, a, Clear
  <2>3. CASE a = r /\ reason = "cancel"
    <3> HIDE DEF a
    <3> QED
      BY <1>11, <2>3 DEF Answered, a, Continues
  <2>4. CASE a = WaitingRecord(r, "waiting_for_external_action") /\ reason # "cancel"
    <3>1. /\ Continues(a, r) /\ a.sure = r.sure /\ a.state = "waiting_for_external_action"
          /\ a.phase = IF r.phase # "none" THEN "pending_external" ELSE r.phase
      BY <2>4, WaitingFacts DEF Waiting
    <3> HIDE DEF a
    <3> QED
      BY <1>11, <2>4, <3>1 DEF Answered, a, Clear
  <2> QED
    BY <2>1, <2>2, <2>3, <2>4
<1>12. CASE answer \in {"pending", "unknown"}
  <2> DEFINE phase == IF answer = "pending" THEN "pending_external" ELSE "unknown"
             s == In(phase)
  <2>1. s \in Records /\ Continues(s, r) /\ s.phase = phase /\ s.sure = r.sure
    BY <1>1, <1>3
  <2>2. \/ a = FailedRecord(s)
        \/ a = Again(s) /\ reason = "cancel"
        \/ a = WaitingRecord(s, "waiting_for_external_action") /\ reason # "cancel"
    BY <1>12 DEF AnsweredRecord, In, Again
  <2>3. phase \in {"pending_external", "unknown"}
    OBVIOUS
  <2> HIDE DEF a, s, phase
  <2>4. /\ Continues(a, s) /\ a.sure = s.sure /\ a.phase \in {"pending_external", "unknown"}
        /\ \/ a.state = "failed_terminal"
           \/ a.state = "cancelled" /\ reason = "cancel"
           \/ a.state = "waiting_for_external_action" /\ reason # "cancel"
    BY <1>2, <2>1, <2>2, <2>3, FailedFacts, WaitingFacts DEF Waiting
  <2> QED
    BY <1>12, <2>1, <2>4 DEF Answered, a, Continues, Clear
<1> QED
  BY <1>4, <1>5, <1>6, <1>7, <1>8, <1>9, <1>10, <1>11, <1>12 DEF Answers, Worlds
(* A record about to be handled, whose write is acknowledged, whose handler *)
(* completed, or whose error says that nothing was written.                 *)
LEMMA PhaseFacts ==
  ASSUME NEW n \in Nodes, rec[n] \in Records, NEW error
  PROVE  /\ Continues(Completed(n), rec[n]) /\ Completed(n).state = rec[n].state
         /\ Completed(n).sure = rec[n].sure
         /\ Completed(n).phase = IF rec[n].phase = "none" THEN "none" ELSE "handler_completed"
         /\ Continues(CaughtRecord(n, error), rec[n])
         /\ CaughtRecord(n, error).state = rec[n].state
         /\ CaughtRecord(n, error).sure = rec[n].sure
         /\ CaughtRecord(n, error).phase =
              IF error = "no_write" /\ rec[n].phase \notin {"none", "partially_applied"}
                THEN "not_applied" ELSE rec[n].phase
<1> DEFINE done == IF rec[n].phase = "none" THEN rec[n].phase ELSE "handler_completed"
<1>1. done \in Phases /\ "not_applied" \in Phases
  BY FieldsOf DEF Phases
<1>2. Completed(n) = [rec[n] EXCEPT !.phase = done]
  BY FieldsOf DEF Completed, Records
<1>3. done = IF rec[n].phase = "none" THEN "none" ELSE "handler_completed"
  OBVIOUS
<1> HIDE DEF done
<1>4. /\ Continues(Completed(n), rec[n]) /\ Completed(n).state = rec[n].state
      /\ Completed(n).sure = rec[n].sure /\ Completed(n).phase = done
  BY <1>1, <1>2, InPhase
<1>5. CASE error = "no_write" /\ rec[n].phase \notin {"none", "partially_applied"}
  <2>1. CaughtRecord(n, error) = [rec[n] EXCEPT !.phase = "not_applied"]
    BY <1>5 DEF CaughtRecord
  <2>2. /\ Continues(CaughtRecord(n, error), rec[n])
        /\ CaughtRecord(n, error).state = rec[n].state /\ CaughtRecord(n, error).sure = rec[n].sure
        /\ CaughtRecord(n, error).phase = "not_applied"
    BY <1>1, <2>1, InPhase
  <2> QED
    BY <1>3, <1>4, <1>5, <2>2
<1>6. CASE ~(error = "no_write" /\ rec[n].phase \notin {"none", "partially_applied"})
  <2>1. CaughtRecord(n, error) = rec[n]
    BY <1>6 DEF CaughtRecord
  <2>2. Continues(CaughtRecord(n, error), rec[n])
    BY <2>1 DEF Continues
  <2> QED
    BY <1>3, <1>4, <1>6, <2>1, <2>2
<1> QED
  BY <1>5, <1>6

(* A record settled after a final error has failed or keeps its answer.     *)
LEMMA SettledFacts ==
  ASSUME NEW r \in Records
  PROVE  /\ Continues(SettledRecord(r), r) /\ SettledRecord(r).phase = r.phase
         /\ SettledRecord(r).sure = r.sure
         /\ \/ SettledRecord(r).state = r.state
            \/ SettledRecord(r).state = "failed_terminal"
  BY FailedFacts DEF SettledRecord, Continues

(* The handler's call is prepared.                                          *)
Invoked(r) ==
  [r EXCEPT !.polls = 0, !.phase = IF @ = "partially_applied" THEN @ ELSE "prepared"]

(* A prepared record has its effect's trace.                                *)
LEMMA InvokedFacts ==
  ASSUME NEW r \in Records
  PROVE  /\ Continues(Invoked(r), r) /\ Invoked(r).state = r.state /\ Invoked(r).sure = r.sure
         /\ Invoked(r).phase \in {"prepared", "partially_applied"}
<1> DEFINE phase == IF r.phase = "partially_applied" THEN r.phase ELSE "prepared"
           a == [r EXCEPT !.polls = 0, !.phase = phase]
<1>1. phase \in Phases /\ phase \in {"prepared", "partially_applied"} /\ 0 \in 0..MaxPolls
  BY FieldsOf, Bounds DEF Phases
<1>2. Invoked(r) = a
  BY FieldsOf DEF Invoked, Records
<1> HIDE DEF phase
<1>3. Continues(a, r) /\ a.state = r.state /\ a.sure = r.sure /\ a.phase = phase
  BY <1>1 DEF Records, Continues
<1> QED
  BY <1>1, <1>2, <1>3

(* An effect is verified, or was approved with its evidence.                *)
LEMMA VerifiedFacts ==
  ASSUME NEW r \in Records, NEW sure \in BOOLEAN, NEW state \in NodeStates
  PROVE  LET a == [r EXCEPT !.sure = TRUE, !.phase = "verified"]
             b == [[r EXCEPT !.state = state] EXCEPT !.sure = sure]
         IN /\ Continues(a, r) /\ a.state = r.state /\ a.sure = TRUE
            /\ Continues(b, r) /\ b.state = state /\ b.sure = sure /\ b.phase = r.phase
<1>1. "verified" \in Phases
  BY DEF Phases
<1> QED
  BY <1>1 DEF Records, Continues

(* A node is accounted for: its attempts start again.                       *)
LEMMA AccountedFacts ==
  ASSUME NEW r \in Records
  PROVE  LET a == [[r EXCEPT !.state = "succeeded"] EXCEPT !.tries = 0] IN
           Continues(a, r) /\ a.state = "succeeded" /\ a.phase = r.phase /\ a.sure = r.sure
<1>1. "succeeded" \in NodeStates /\ 0 \in 0..MaxAttempts
  BY Bounds DEF NodeStates
<1> QED
  BY <1>1 DEF Records, Continues

(* A node of a batch is started, waits for a person, reuses its effect or   *)
(* has no attempt left.                                                     *)
LEMMA StartedFacts ==
  ASSUME NEW n \in Nodes, rec[n] \in Records
  PROVE  LET a == StartedRecord(n) IN
           /\ a \in Records /\ a.rev = rec[n].rev /\ a.phase = rec[n].phase
           /\ n \in verified => a.state = "succeeded" /\ a.sure = TRUE
           /\ n \notin verified =>
                /\ a.sure = rec[n].sure
                /\ a.state \in {"waiting_for_approval", "failed_terminal", "running"}
                /\ a.state = "running" => a.begun = TRUE
                /\ a.begun = rec[n].begun \/ a.state = "running"
<1>1. {"succeeded", "waiting_for_approval", "running"} \subseteq NodeStates
  BY DEF NodeStates
<1> DEFINE r == rec[n]
           a == StartedRecord(n)
<1>2. CASE n \in verified
  <2>1. a = [[r EXCEPT !.state = "succeeded"] EXCEPT !.sure = TRUE]
    BY <1>2 DEF StartedRecord, Moved
  <2> HIDE DEF a
  <2>2. Continues(a, r) /\ a.state = "succeeded" /\ a.sure = TRUE /\ a.phase = r.phase
    BY ZenonT(60), <1>1, <2>1, VerifiedFacts
  <2> QED
    BY <1>2, <2>2 DEF Continues, a
<1>3. CASE n \notin verified /\ n \in Human
  <2>1. a = [r EXCEPT !.state = "waiting_for_approval"]
    BY <1>3 DEF StartedRecord, Moved
  <2> HIDE DEF a
  <2>2. /\ Continues(a, r) /\ a.state = "waiting_for_approval" /\ a.sure = r.sure
        /\ a.phase = r.phase
    BY <1>1, <2>1, InState
  <2> QED
    BY <1>3, <2>2 DEF Continues, a
<1>4. CASE n \notin verified \cup Human /\ r.tries >= MaxAttempts
  <2>1. a = FailedRecord(r)
    BY <1>4 DEF StartedRecord
  <2>2. Continues(a, r) /\ a.state = "failed_terminal" /\ a.sure = r.sure /\ a.phase = r.phase
    BY <2>1, FailedFacts
  <2> HIDE DEF a
  <2> QED
    BY <1>4, <2>2 DEF Continues, a
<1>5. CASE n \notin verified \cup Human /\ ~(r.tries >= MaxAttempts)
  <2>1. a = [[r EXCEPT !.state = "running"] EXCEPT !.tries = r.tries + 1, !.begun = TRUE]
    BY <1>1, <1>5 DEF StartedRecord, Moved, Records
  <2>2. r.tries + 1 \in 0..MaxAttempts
    BY <1>5, FieldsOf, Bounds
  <2> HIDE DEF a
  <2>3. /\ a \in Records /\ a.rev = r.rev /\ a.state = "running" /\ a.sure = r.sure
        /\ a.phase = r.phase /\ a.begun = TRUE
    BY <1>1, <2>1, <2>2 DEF Records
  <2> QED
    BY <1>5, <2>3 DEF a
<1> QED
  BY <1>2, <1>3, <1>4, <1>5
-----------------------------------------------------------------------------
(* Which steps there are, and what they keep in its type.                   *)

(* One record is replaced.                                                  *)
LEMMA PutFacts ==
  ASSUME rec \in [Nodes -> Records], NEW n \in Nodes, NEW r \in Records, Put(n, r)
  PROVE  /\ rec' \in [Nodes -> Records] /\ rec'[n] = r
         /\ \A m \in Nodes \ {n} : rec'[m] = rec[m]
  BY DEF Put

Less == {p \in Nat \X Nat : p[1] < p[2]}

(* The next interrupted effect is one of those left to do.                  *)
LEMMA NextFacts ==
  ASSUME Typed, ctl.todo # {}
  PROVE  /\ NextInterrupted = NextOf(ctl.todo) /\ NextOf(ctl.todo) \in Nodes
         /\ NextOf(ctl.todo) \in ctl.todo
<1> DEFINE S == {i \in Positions : Order[i] \in ctl.todo}
<1>1. ctl.todo \subseteq Nodes
  BY DEF Typed, CtlTyped
<1>2. S # {} /\ S \subseteq Nat
  BY <1>1, Bounds DEF Positions
<1>3. IsWellFoundedOn(Less, Nat)
  <2>1. IsWellFoundedOn(OpToRel(<, Nat), Nat)
    BY NatLessThanWellFounded, Zenon
  <2>2. OpToRel(<, Nat) = Less
    BY DEF OpToRel, Less
  <2> QED
    BY <2>1, <2>2, Zenon
<1>4. PICK a \in S : \A b \in S : ~ (<<b, a>> \in Less)
  BY <1>2, <1>3, WFMin
<1>5. a \in Nat /\ Order[a] \in ctl.todo /\ \A j \in 1..(a - 1) : Order[j] \notin ctl.todo
  <2>1. ASSUME NEW j \in 1..(a - 1), Order[j] \in ctl.todo PROVE FALSE
    <3>1. j \in S /\ j \in Nat /\ a \in Nat /\ j < a
      BY <1>2, <2>1, Bounds DEF Positions
    <3> QED
      BY <1>4, <3>1 DEF Less
  <2> QED
    BY <2>1, <1>2
<1>6. \E i \in 1..Len(Order) :
        Order[i] \in ctl.todo /\ \A j \in 1..(i - 1) : Order[j] \notin ctl.todo
  BY <1>4, <1>5 DEF Positions
<1>7. NextOf(ctl.todo) \in ctl.todo
  BY <1>6 DEF NextOf
<1> QED
  BY <1>1, <1>7 DEF NextInterrupted, NextOf

(* The node that execute is at.                                             *)
LEMMA MainNode ==
  ASSUME Typed, \/ main.pc \in AtNode
                \/ main.pc \in {"recover", "prepare"} /\ main.at <= Len(Order)
                \/ main.pc = "compensate" /\ main.at > 0
  PROVE  main.at \in Positions /\ Order[main.at] \in Nodes
<1>1. main.at \in 0..(Len(Order) + 1)
  BY DEF Typed, MainTyped
<1>2. main.at \in Positions
  BY <1>1, Bounds DEF Typed, MainTyped, Positions
<1> QED
  BY <1>2, Bounds

(* The steps.                                                               *)
StatusMain ==
  Start \/ Resume \/ Recovered \/ Prepared \/ BatchEnds \/ LeaveLoop \/ CompensateNode \/ Failed
RecordMain ==
  RecoverNode \/ RecoveryAnswered \/ RecoveryRechecked \/ PrepareNode \/ ConditionEvaluated
  \/ NodeCompensated
CtlStep == CtlSync \/ CtlAwait
Caller(n) == Approve(n) \/ RefreshAuthorization(n)

(* Every step is one of these.                                              *)
LEMMA Steps ==
  ASSUME [Next]_vars
  PROVE  \/ StatusMain \/ RecordMain \/ StartBatch \/ Decide \/ CtlStep \/ Cancel \/ Crash
         \/ \E n \in Nodes : Accounted(n) \/ TaskStep(n) \/ Steer(n) \/ Caller(n)
                             \/ HandlerWritesLate(n)
         \/ UNCHANGED vars
  BY DEF Next, Synchronous, Awaited, Called, MainSync, MainAwait, StatusMain, RecordMain, CtlStep,
         Caller

(* What a call of execute does to the records: at most its node's changes.  *)
OneRecord(n) ==
  \/ rec' = rec
  \/ \E a \in Records : a.rev = rec[n].rev /\ Put(n, a)

(* execute's steps at a node change that node's record.                     *)
LEMMA MainRecords ==
  ASSUME Typed, RecordMain
  PROVE  OneRecord(Order[main.at]) /\ Order[main.at] \in Nodes
<1>1. PICK n \in Nodes : n = Order[main.at]
  <2>1. \/ main.pc \in AtNode
        \/ main.pc \in {"recover", "prepare"} /\ main.at <= Len(Order)
    BY DEF RecordMain, RecoverNode, RecoveryAnswered, RecoveryRechecked, PrepareNode,
           ConditionEvaluated, NodeCompensated, AtNode
  <2> QED
    BY <2>1, MainNode
<1>2. rec[n] \in Records /\ world[n] \in Worlds
  BY DEF Typed, RecTyped
<1>3. {"pending", "skipped", "ready", "failed_terminal", "compensated"} \subseteq NodeStates
  BY DEF NodeStates
<1>4. \A state \in NodeStates : Moved(n, state) \in Records /\ Moved(n, state).rev = rec[n].rev
  BY <1>2, InState DEF Moved, Continues
<1>5. ASSUME RecoverNode PROVE OneRecord(n)
  <2>1. \A reason \in Reasons : /\ AskedRecord(n, rec[n], reason) \in Records
                                /\ AskedRecord(n, rec[n], reason).rev = rec[n].rev
    BY <1>2, AskedFacts DEF Continues
  <2>2. ReusedRecord(rec[n]) \in Records /\ ReusedRecord(rec[n]).rev = rec[n].rev
    BY <1>2, ReusedFacts DEF Continues
  <2>3. \/ Put(n, ReusedRecord(rec[n]))
        \/ Put(n, AskedRecord(n, rec[n], "restart"))
        \/ Put(n, AskedRecord(n, rec[n], "poll"))
        \/ Put(n, Moved(n, "pending"))
        \/ rec' = rec
    BY <1>1, <1>5 DEF RecoverNode
  <2> QED
    BY <1>3, <1>4, <2>1, <2>2, <2>3 DEF OneRecord, Reasons
<1>6. ASSUME RecoveryAnswered PROVE OneRecord(n)
  <2>1. PICK answer \in Answers(n), reason \in Reasons :
          Put(n, AnsweredRecord(rec[n], reason, answer))
    BY <1>1, <1>6 DEF RecoveryAnswered, Reconciled, Reasons
  <2>2. Continues(AnsweredRecord(rec[n], reason, answer), rec[n])
    BY ZenonT(60), <1>2, AnsweredFacts DEF Answered
  <2> QED
    BY <2>1, <2>2 DEF OneRecord, Continues
<1>7. ASSUME RecoveryRechecked PROVE OneRecord(n)
  <2>1. FailedRecord(rec[n]) \in Records /\ FailedRecord(rec[n]).rev = rec[n].rev
    BY <1>2, FailedFacts DEF Continues
  <2> QED
    BY <1>1, <1>2, <1>7, <2>1 DEF RecoveryRechecked, Rechecked, OneRecord
<1>8. ASSUME PrepareNode \/ ConditionEvaluated \/ NodeCompensated PROVE OneRecord(n)
  BY <1>1, <1>3, <1>4, <1>8 DEF PrepareNode, ConditionEvaluated, NodeCompensated, OneRecord
<1> QED
  BY <1>1, <1>5, <1>6, <1>7, <1>8 DEF RecordMain
(* The record and the way on of a node whose error was caught: what clears  *)
(* its phase is a definitive no-write, and a retry without a reconciler's   *)
(* answer needs a clear phase.                                              *)
CaughtAs(n, error, a, pc) ==
  LET r == CaughtRecord(n, error) IN
  /\ Put(n, a) /\ (IF pc = "none" THEN TaskEnds(n) ELSE Task(n, pc))
  /\ Continues(a, rec[n]) /\ (rec[n].sure => a.sure)
  /\ n \notin verified =>
       /\ a.sure = rec[n].sure
       /\ \/ a = rec[n] /\ pc = "none" /\ Overtaken(n)
          \/ /\ ~Overtaken(n)
             /\ a.state \in {rec[n].state, "failed_retryable", "failed_terminal",
                             "waiting_for_auth", "waiting_for_external_action"}
             /\ a.phase = "verified" => r.phase = "verified"
             /\ a.phase = "none" <=> r.phase = "none"
             /\ a.phase \in Clear => r.phase \in Clear
             /\ pc = "backoff" => n \notin Effectful \/ r.phase \in Clear \cup {"verified"}
             /\ pc \in {"retrying", "settling"} => n \in Effectful /\ r.phase # "none"

(* The catch block does that.                                               *)
LEMMA CaughtFacts ==
  ASSUME rec \in [Nodes -> Records], NEW n \in Nodes, NEW error \in Errors, Caught(n, error)
  PROVE  \E a \in Records, pc \in {"none", "backoff", "retrying", "settling"} :
           CaughtAs(n, error, a, pc)
<1> DEFINE r == CaughtRecord(n, error)
           f == [r EXCEPT !.state = "failed_retryable"]
<1>1. /\ Continues(r, rec[n]) /\ r.state = rec[n].state /\ r.sure = rec[n].sure /\ r \in Records
  BY PhaseFacts DEF Continues
<1>2. /\ Continues(f, r) /\ f.state = "failed_retryable" /\ f.phase = r.phase
      /\ f.sure = r.sure /\ f \in Records
  BY <1>1, InState DEF NodeStates, Continues
<1>3. rec[n] \in Records /\ Put(n, rec[n]) <=> rec' = rec
  BY DEF Put
<1> HIDE DEF r, f
<1>4. CASE Overtaken(n)
  <2>1. rec' = rec /\ TaskEnds(n)
    BY <1>4 DEF Caught
  <2>2. CaughtAs(n, error, rec[n], "none")
    BY <1>3, <1>4, <2>1 DEF CaughtAs, Continues
  <2> QED
    BY <1>3, <2>2
<1>5. CASE ~Overtaken(n) /\ error \in {"auth", "external"}
  <2>1. PICK state \in {"waiting_for_auth", "waiting_for_external_action"} :
          Put(n, WaitingRecord(r, state)) /\ TaskEnds(n)
    BY <1>5 DEF Caught, r
  <2> DEFINE a == WaitingRecord(r, state)
  <2>2. /\ Continues(a, r) /\ a.state = state /\ a.sure = r.sure
        /\ a.phase = IF state = "waiting_for_external_action" /\ r.phase # "none"
                       THEN "pending_external" ELSE r.phase
    BY <1>1, WaitingFacts DEF Waiting
  <2> HIDE DEF a
  <2>3. CaughtAs(n, error, a, "none")
    BY <1>1, <1>5, <2>1, <2>2 DEF CaughtAs, Continues, Clear, r, a
  <2> QED
    BY <2>2, <2>3 DEF Continues
<1>6. CASE /\ ~Overtaken(n) /\ error \in {"no_write", "retryable"} /\ r.tries < MaxAttempts
           /\ CaughtForRetry(n, r)
  <2>1. CASE ~RequiresOutcome(n, r)
    <3>1. Put(n, f) /\ Task(n, "backoff")
      BY <1>6, <2>1 DEF CaughtForRetry, f
    <3>2. n \notin Effectful \/ r.phase \in Clear \cup {"verified"}
      BY <2>1 DEF RequiresOutcome, Clear
    <3>3. CaughtAs(n, error, f, "backoff")
      BY <1>1, <1>2, <1>6, <3>1, <3>2 DEF CaughtAs, Continues, r
    <3> QED
      BY <1>2, <3>3
  <2>2. CASE RequiresOutcome(n, r)
    <3> DEFINE a == AskedRecord(n, f, "retry")
    <3>1. /\ Put(n, a)
          /\ IF Asks(n, f) THEN Task(n, "retrying")
             ELSE IF a.state = "pending" THEN Task(n, "backoff") ELSE TaskEnds(n)
      BY <1>6, <2>2 DEF CaughtForRetry, f
    <3>2. n \in Effectful /\ r.phase \notin Clear \cup {"verified"}
      BY <2>2 DEF RequiresOutcome, Clear
    <3>3. Continues(a, rec[n]) /\ a \in Records
      BY <1>1, <1>2, AskedFacts DEF Reasons, Continues
    <3>4. n \in verified => ~Asks(n, f) /\ a.sure = TRUE /\ a.state = "succeeded"
      BY ZenonT(60), <1>2, AskedFacts, ReusedFacts DEF Reasons, Asks
    <3>5. n \notin verified =>
            /\ a.sure = rec[n].sure /\ a.phase \notin Clear \cup {"verified"}
            /\ a.state \in {"failed_retryable", "failed_terminal", "waiting_for_external_action"}
      BY <1>1, <1>2, <3>2, AskedFacts DEF Reasons, Clear
    <3> HIDE DEF a
    <3>6. CASE n \in verified
      <4>1. CaughtAs(n, error, a, "none")
        BY <3>1, <3>3, <3>4, <3>6 DEF CaughtAs
      <4> QED
        BY <3>3, <4>1
    <3>7. CASE n \notin verified /\ Asks(n, f)
      <4>1. CaughtAs(n, error, a, "retrying")
        BY <1>6, <3>1, <3>2, <3>3, <3>5, <3>7 DEF CaughtAs, Clear, r
      <4> QED
        BY <3>3, <4>1
    <3>8. CASE n \notin verified /\ ~Asks(n, f)
      <4>1. CaughtAs(n, error, a, "none")
        BY <1>6, <3>1, <3>2, <3>3, <3>5, <3>8 DEF CaughtAs, Clear, r
      <4> QED
        BY <3>3, <4>1
    <3> QED
      BY <3>6, <3>7, <3>8
  <2> QED
    BY <2>1, <2>2
<1>7. CASE ~Overtaken(n) /\ CaughtForGood(n, r)
  <2>1. CASE ~RequiresOutcome(n, r)
    <3>1. Put(n, FailedRecord(r)) /\ TaskEnds(n)
      BY <1>7, <2>1 DEF CaughtForGood
    <3> DEFINE a == FailedRecord(r)
    <3>2. /\ Continues(a, r) /\ a.state = "failed_terminal" /\ a.phase = r.phase
          /\ a.sure = r.sure
      BY <1>1, FailedFacts
    <3> HIDE DEF a
    <3>3. CaughtAs(n, error, a, "none")
      BY <1>1, <1>7, <3>1, <3>2 DEF CaughtAs, Continues, r, a
    <3> QED
      BY <3>2, <3>3 DEF Continues
  <2>2. CASE RequiresOutcome(n, r)
    <3> DEFINE a == AskedRecord(n, r, "retry")
               s == SettledRecord(a)
    <3>1. IF Asks(n, r) THEN Put(n, a) /\ Task(n, "settling") ELSE Put(n, s) /\ TaskEnds(n)
      BY <1>7, <2>2 DEF CaughtForGood
    <3>2. n \in Effectful /\ r.phase \notin Clear \cup {"verified"}
      BY <2>2 DEF RequiresOutcome, Clear
    <3>3. Continues(a, rec[n]) /\ a \in Records
      BY <1>1, AskedFacts DEF Reasons, Continues
    <3>4. ASSUME n \in verified PROVE ~Asks(n, r) /\ a.sure = TRUE
      <4>1. ~Asks(n, r)
        BY <3>4 DEF Asks
      <4>2. a = ReusedRecord(r)
        BY <1>1, <3>4, <4>1, AskedFacts DEF Reasons
      <4> QED
        BY <1>1, <4>1, <4>2, ReusedFacts
    <3>5. n \notin verified =>
            /\ a.sure = rec[n].sure /\ a.phase \notin Clear \cup {"verified"}
            /\ a.state \in {rec[n].state, "failed_terminal", "waiting_for_external_action"}
      BY <1>1, <3>2, AskedFacts DEF Reasons, Clear
    <3> HIDE DEF a
    <3>6. /\ Continues(s, a) /\ s.phase = a.phase /\ s.sure = a.sure
          /\ s.state = a.state \/ s.state = "failed_terminal"
      BY <3>3, SettledFacts
    <3> HIDE DEF s
    <3>7. Continues(s, rec[n]) /\ s \in Records
      BY <3>3, <3>6 DEF Continues
    <3>8. CASE Asks(n, r)
      <4>1. CaughtAs(n, error, a, "settling")
        BY <1>7, <3>1, <3>2, <3>3, <3>4, <3>5, <3>8 DEF CaughtAs, Clear, r
      <4> QED
        BY <3>3, <4>1
    <3>9. CASE ~Asks(n, r) /\ n \in verified
      <4>1. CaughtAs(n, error, s, "none")
        BY <3>1, <3>4, <3>6, <3>7, <3>9 DEF CaughtAs
      <4> QED
        BY <3>7, <4>1
    <3>10. CASE ~Asks(n, r) /\ n \notin verified
      <4>1. CaughtAs(n, error, s, "none")
        BY <1>7, <3>1, <3>2, <3>5, <3>6, <3>7, <3>10 DEF CaughtAs, Clear, r
      <4> QED
        BY <3>7, <4>1
    <3> QED
      BY <3>8, <3>9, <3>10
  <2> QED
    BY <2>1, <2>2
<1>8. \/ Overtaken(n)
      \/ ~Overtaken(n) /\ error \in {"auth", "external"}
      \/ /\ ~Overtaken(n) /\ error \in {"no_write", "retryable"} /\ r.tries < MaxAttempts
         /\ CaughtForRetry(n, r)
      \/ ~Overtaken(n) /\ CaughtForGood(n, r)
  BY DEF Caught, r, Errors
<1> QED
  BY <1>4, <1>5, <1>6, <1>7, <1>8
(* A task's step changes the record of its node.                            *)
LEMMA TaskRecords ==
  ASSUME Typed, NEW n \in Nodes, Accounted(n) \/ TaskStep(n) \/ Caller(n)
  PROVE  OneRecord(n)
<1>1. rec \in [Nodes -> Records] /\ rec[n] \in Records /\ world[n] \in Worlds
  BY DEF Typed, RecTyped
<1>2. Waiting \cup {"pending", "ready", "failed_terminal", "failed_retryable", "succeeded"}
        \subseteq NodeStates
  BY DEF NodeStates, Waiting
<1>3. \A state \in NodeStates : Moved(n, state) \in Records /\ Moved(n, state).rev = rec[n].rev
  BY <1>1, InState DEF Moved, Continues
<1>4. ASSUME Accounted(n) PROVE OneRecord(n)
  <2>1. /\ [Moved(n, "succeeded") EXCEPT !.tries = 0] \in Records
        /\ [Moved(n, "succeeded") EXCEPT !.tries = 0].rev = rec[n].rev
    BY <1>1, AccountedFacts DEF Moved, Continues
  <2>2. FailedRecord(rec[n]) \in Records /\ FailedRecord(rec[n]).rev = rec[n].rev
    BY <1>1, FailedFacts DEF Continues
  <2> QED
    BY <1>4, <2>1, <2>2 DEF Accounted, OneRecord
<1>5. ASSUME InvokeHandler(n) PROVE OneRecord(n)
  <2>1. Put(n, IF n \notin Effectful THEN rec[n] ELSE Invoked(rec[n]))
    BY <1>5 DEF InvokeHandler, Invoked
  <2> QED
    BY <1>1, <2>1, InvokedFacts DEF OneRecord, Continues
<1>6. ASSUME HandlerAcknowledges(n) PROVE OneRecord(n)
  <2> DEFINE phase == IF rec[n].phase = "none" THEN rec[n].phase ELSE "external_write_acknowledged"
  <2>1. phase \in Phases
    BY <1>1, FieldsOf DEF Phases
  <2>2. Put(n, [rec[n] EXCEPT !.phase = phase])
    BY <1>1, <1>6 DEF HandlerAcknowledges, Records
  <2> HIDE DEF phase
  <2> QED
    BY <1>1, <2>1, <2>2, InPhase DEF OneRecord, Continues
<1>7. ASSUME HandlerReturns(n) PROVE OneRecord(n)
  <2>1. Completed(n) \in Records /\ Completed(n).rev = rec[n].rev
    BY <1>1, PhaseFacts DEF Continues
  <2>2. \A state \in Waiting : /\ WaitingRecord(Completed(n), state) \in Records
                               /\ WaitingRecord(Completed(n), state).rev = rec[n].rev
    BY <2>1, WaitingFacts DEF Continues
  <2> QED
    BY <1>7, <2>1, <2>2 DEF HandlerReturns, OneRecord
<1>8. ASSUME ResultAccepted(n) PROVE OneRecord(n)
  <2> DEFINE a == [rec[n] EXCEPT !.sure = TRUE, !.phase = "verified"]
  <2>1. a \in Records /\ a.rev = rec[n].rev
    BY <1>1, <1>2, VerifiedFacts DEF Continues
  <2> QED
    BY <1>1, <1>8, <2>1 DEF ResultAccepted, OneRecord
<1>9. ASSUME ValidatorThrows(n) \/ HandlerThrows(n) \/ HandlerTimesOut(n) PROVE OneRecord(n)
  <2>1. PICK error \in Errors : Caught(n, error)
    BY <1>9 DEF ValidatorThrows, HandlerThrows, HandlerTimesOut, Errors
  <2> QED
    BY <1>1, <2>1, CaughtFacts DEF CaughtAs, OneRecord, Continues
<1>10. ASSUME RetryAnswered(n) PROVE OneRecord(n)
  <2>1. PICK answer \in Answers(n) : Put(n, AnsweredRecord(rec[n], "retry", answer))
    BY <1>10 DEF RetryAnswered, Reconciled
  <2>2. Continues(AnsweredRecord(rec[n], "retry", answer), rec[n])
    BY <1>1, AnsweredFacts DEF Answered, Reasons
  <2> QED
    BY <2>1, <2>2 DEF OneRecord, Continues
<1>11. ASSUME SettlementAnswered(n) PROVE OneRecord(n)
  <2>1. PICK answer \in Answers(n) : Put(n, SettledRecord(AnsweredRecord(rec[n], "retry", answer)))
    BY <1>11 DEF SettlementAnswered
  <2> DEFINE a == AnsweredRecord(rec[n], "retry", answer)
  <2>2. Continues(a, rec[n])
    BY <1>1, AnsweredFacts DEF Answered, Reasons
  <2> HIDE DEF a
  <2>3. Continues(SettledRecord(a), a)
    BY <2>2, SettledFacts DEF Continues
  <2> QED
    BY <2>1, <2>2, <2>3 DEF OneRecord, Continues, a
<1>12. ASSUME AnswerRechecked(n) PROVE OneRecord(n)
  <2>1. FailedRecord(rec[n]) \in Records /\ FailedRecord(rec[n]).rev = rec[n].rev
    BY <1>1, FailedFacts DEF Continues
  <2> QED
    BY <1>1, <1>12, <2>1 DEF AnswerRechecked, Rechecked, OneRecord
<1>13. ASSUME BackoffEnds(n) \/ RefreshAuthorization(n) PROVE OneRecord(n)
  BY <1>2, <1>3, <1>13 DEF BackoffEnds, RefreshAuthorization, OneRecord
<1>14. ASSUME Approve(n) PROVE OneRecord(n)
  <2> DEFINE sure == n \in Effectful
             a == [Moved(n, "succeeded") EXCEPT !.sure = sure]
  <2>1. sure \in BOOLEAN
    OBVIOUS
  <2>2. Put(n, a)
    BY <1>14 DEF Approve
  <2> HIDE DEF sure
  <2>3. a = [[rec[n] EXCEPT !.state = "succeeded"] EXCEPT !.sure = sure]
    BY DEF Moved
  <2> HIDE DEF a
  <2>4. Continues(a, rec[n])
    BY <1>1, <1>2, <2>1, <2>3, VerifiedFacts
  <2> QED
    BY <2>2, <2>4 DEF OneRecord, Continues
<1>15. ASSUME HandlerWrites(n) PROVE OneRecord(n)
  BY <1>15 DEF HandlerWrites, OneRecord
<1> QED
  BY <1>4, <1>5, <1>6, <1>7, <1>8, <1>9, <1>10, <1>11, <1>12, <1>13, <1>14, <1>15
     DEF TaskStep, Caller

(* A cancellation's step changes the record of the effect it reconciles or  *)
(* of the node it compensates.                                              *)
LEMMA CtlRecords ==
  ASSUME Typed, CtlStep
  PROVE  rec' = rec \/ \E n \in Nodes : OneRecord(n)
<1>1. rec \in [Nodes -> Records] /\ \A n \in Nodes : rec[n] \in Records /\ world[n] \in Worlds
  BY DEF Typed, RecTyped
<1>2. ASSUME CancelCompensates PROVE rec' = rec
  BY <1>2 DEF CancelCompensates
<1>3. ASSUME ReconcileInterrupted \/ CancelAnswered \/ CancelRechecked
      PROVE  \E n \in Nodes : OneRecord(n)
  <2>1. ctl.todo # {}
    BY <1>3 DEF ReconcileInterrupted, CancelAnswered, CancelRechecked, Typed, CtlTyped
  <2>2. PICK n \in Nodes : n = NextInterrupted
    BY <2>1, NextFacts
  <2>3. CASE ReconcileInterrupted
    <3>1. Put(n, AskedRecord(n, rec[n], "cancel"))
      BY <2>2, <2>3 DEF ReconcileInterrupted
    <3>2. Continues(AskedRecord(n, rec[n], "cancel"), rec[n])
      BY <1>1, AskedFacts DEF Reasons
    <3> QED
      BY <3>1, <3>2 DEF OneRecord, Continues
  <2>4. CASE CancelAnswered
    <3>1. PICK answer \in Answers(n) : Put(n, AnsweredRecord(rec[n], "cancel", answer))
      BY <2>2, <2>4 DEF CancelAnswered, Reconciled
    <3>2. Continues(AnsweredRecord(rec[n], "cancel", answer), rec[n])
      BY ZenonT(60), <1>1, AnsweredFacts DEF Answered, Reasons
    <3> QED
      BY <3>1, <3>2 DEF OneRecord, Continues
  <2>5. CASE CancelRechecked
    <3>1. FailedRecord(rec[n]) \in Records /\ FailedRecord(rec[n]).rev = rec[n].rev
      BY <1>1, FailedFacts DEF Continues
    <3>2. Put(n, rec[n]) \/ Put(n, FailedRecord(rec[n]))
      BY <2>2, <2>5 DEF CancelRechecked, Rechecked
    <3> QED
      BY <1>1, <3>1, <3>2 DEF OneRecord
  <2> QED
    BY <1>3, <2>3, <2>4, <2>5
<1>4. ASSUME CancelCompensated PROVE \E n \in Nodes : OneRecord(n)
  <2>1. PICK n \in Nodes : n = Order[ctl.at]
    BY <1>4, Bounds DEF CancelCompensated, Typed, CtlTyped
  <2>2. Moved(n, "compensated") \in Records /\ Moved(n, "compensated").rev = rec[n].rev
    BY <1>1, InState DEF Moved, Continues, NodeStates
  <2>3. Put(n, Moved(n, "compensated")) \/ Put(n, rec[n])
    BY <1>4, <2>1 DEF CancelCompensated
  <2> QED
    BY <1>1, <2>2, <2>3 DEF OneRecord
<1> QED
  BY <1>2, <1>3, <1>4 DEF CtlStep, CtlSync, CtlAwait

(* The records keep their type.                                             *)
LEMMA RecordsStep == ASSUME Typed, [Next]_vars PROVE RecTyped'
<1>1. /\ rec \in [Nodes -> Records] /\ \A n \in Nodes : rec[n].rev <= used.steer
      /\ used \in Counts /\ \A n \in Nodes : rec[n] \in Records
  BY DEF Typed, RecTyped
<1>2. ASSUME rec' = rec, used' \in Counts, used'.steer = used.steer PROVE RecTyped'
  BY <1>1, <1>2 DEF RecTyped
<1>3. ASSUME NEW n \in Nodes, OneRecord(n), used' = used PROVE RecTyped'
  <2>1. CASE rec' = rec
    BY <1>1, <1>2, <1>3, <2>1
  <2>2. CASE \E a \in Records : a.rev = rec[n].rev /\ Put(n, a)
    <3>1. PICK a \in Records : a.rev = rec[n].rev /\ Put(n, a)
      BY <2>2
    <3>2. rec' \in [Nodes -> Records] /\ rec'[n] = a /\ \A m \in Nodes \ {n} : rec'[m] = rec[m]
      BY <1>1, <3>1, PutFacts
    <3> QED
      BY <1>1, <1>3, <3>1, <3>2 DEF RecTyped
  <2> QED
    BY <1>3, <2>1, <2>2 DEF OneRecord
<1>4. ASSUME rec' \in [Nodes -> Records], \A n \in Nodes : rec'[n].rev = rec[n].rev,
             used'.steer = used.steer
      PROVE  RecTyped'
  BY <1>1, <1>4 DEF RecTyped
<1>5. \A n \in Nodes, state \in NodeStates :
        Moved(n, state) \in Records /\ Moved(n, state).rev = rec[n].rev
  BY <1>1, InState DEF Moved, Continues
<1>6. CASE StatusMain
  <2>1. rec' = rec /\ used' = used
    BY <1>6 DEF StatusMain, Start, Resume, Recovered, Prepared, BatchEnds, LeaveLoop,
                CompensateNode, Failed
  <2> QED
    BY <1>1, <1>2, <2>1
<1>7. CASE RecordMain
  <2>1. used' = used
    BY <1>7 DEF RecordMain, RecoverNode, RecoveryAnswered, RecoveryRechecked, PrepareNode,
                ConditionEvaluated, NodeCompensated
  <2> QED
    BY <1>3, <1>7, <2>1, MainRecords
<1>8. CASE StartBatch
  <2>1. /\ rec' = [n \in Nodes |-> IF n \in Batch THEN StartedRecord(n) ELSE rec[n]]
        /\ used' = used
    BY <1>8 DEF StartBatch
  <2>2. \A n \in Nodes : StartedRecord(n) \in Records /\ StartedRecord(n).rev = rec[n].rev
    BY <1>1, StartedFacts
  <2> QED
    BY <1>1, <1>4, <2>1, <2>2
<1>9. CASE Decide
  <2>1. used' = used /\ (rec' = rec \/ Finished("skipped") \/ Finished("failed_terminal"))
    BY <1>9 DEF Decide
  <2>2. {"skipped", "failed_terminal"} \subseteq NodeStates
    BY DEF NodeStates
  <2>3. ASSUME NEW state \in NodeStates, Finished(state) PROVE RecTyped'
    BY <1>1, <1>4, <1>5, <2>1, <2>3 DEF Finished
  <2> QED
    BY <1>1, <1>2, <2>1, <2>2, <2>3
<1>10. CASE CtlStep
  <2>1. used' = used
    BY <1>10 DEF CtlStep, CtlSync, CtlAwait, ReconcileInterrupted, CancelCompensates,
                 CancelAnswered, CancelRechecked, CancelCompensated
  <2> QED
    BY <1>1, <1>2, <1>3, <1>10, <2>1, CtlRecords
<1>11. CASE Cancel
  <2>1. rec' = [n \in Nodes |->
          CASE rec[n].state \in Terminal -> rec[n]
            [] rec[n].state = "running" -> Moved(n, "cancelled")
            [] OTHER -> Moved(n, "skipped")]
    BY <1>11 DEF Cancel
  <2>2. used'.steer = used.steer
    BY <1>1, <1>11 DEF Cancel, Counts
  <2>3. {"cancelled", "skipped"} \subseteq NodeStates
    BY DEF NodeStates
  <2>4. \A n \in Nodes : rec'[n] \in Records /\ rec'[n].rev = rec[n].rev
    BY <1>1, <1>5, <2>1, <2>3
  <2>5. rec' \in [Nodes -> Records]
    BY <2>1, <2>4
  <2> QED
    BY <1>4, <2>2, <2>4, <2>5
<1>12. CASE Crash
  <2>1. rec' = rec /\ used' = [used EXCEPT !.crash = @ + 1] /\ used.crash < MaxCrashes
    BY <1>12 DEF Crash
  <2>2. used.crash + 1 \in 0..MaxCrashes
    BY <1>1, <2>1, Bounds DEF Counts
  <2>3. used' \in Counts /\ used'.steer = used.steer
    BY <1>1, <2>1, <2>2 DEF Counts
  <2> QED
    BY <1>2, <2>1, <2>3
<1>13. ASSUME NEW n \in Nodes, Accounted(n) \/ TaskStep(n) \/ Caller(n) PROVE RecTyped'
  <2>1. used' = used
    BY <1>13 DEF Accounted, TaskStep, Caller, InvokeHandler, HandlerWrites, HandlerAcknowledges,
                 HandlerReturns, ResultAccepted, ValidatorThrows, HandlerThrows, HandlerTimesOut,
                 RetryAnswered, SettlementAnswered, AnswerRechecked, BackoffEnds, Approve,
                 RefreshAuthorization
  <2> QED
    BY <1>3, <1>13, <2>1, TaskRecords
<1>14. ASSUME NEW n \in Nodes, Steer(n) PROVE RecTyped'
  <2>1. rec' = [m \in Nodes |->
          IF m \in Affected(n)
            THEN [Fresh EXCEPT !.rev = rec[m].rev + 1, !.tries = rec[m].tries]
          ELSE rec[m]]
    BY <1>14 DEF Steer
  <2>2. used.steer < MaxSteers /\ used.steer \in Nat /\ MaxSteers \in Nat
    <3>1. used.steer < MaxSteers
      BY <1>14, Zenon DEF Steer
    <3> QED
      BY <1>1, <3>1, Bounds DEF Counts
  <2>3. used'.steer = used.steer + 1
    <3>1. PICK steered : used' = [used EXCEPT !.steer = used.steer + 1, !.steered = steered]
      BY <1>14, Zenon DEF Steer
    <3> QED
      BY <1>1, <3>1 DEF Counts
  <2>4. ASSUME NEW m \in Nodes PROVE rec'[m] \in Records /\ rec'[m].rev <= used.steer + 1
    <3>1. CASE m \in Affected(n)
      <4> DEFINE rev == rec[m].rev + 1
                 tries == rec[m].tries
      <4>0. rec[m].rev \in Nat /\ rec[m].rev <= used.steer /\ tries \in 0..MaxAttempts
        BY <1>1, FieldsOf, Bounds
      <4>1. rev \in 0..MaxSteers /\ rev <= used.steer + 1 /\ tries \in 0..MaxAttempts
        BY <2>2, <4>0
      <4>2. rec'[m] = [Fresh EXCEPT !.rev = rev, !.tries = tries]
        BY <2>1, <3>1
      <4>3. 0 \in 0..MaxAttempts /\ 0 \in 0..MaxPolls
        BY Bounds
      <4> HIDE DEF rev, tries
      <4> QED
        BY <4>1, <4>2, <4>3 DEF Fresh, Records, NodeStates, Phases
    <3>2. CASE m \notin Affected(n)
      <4>1. rec[m].rev \in Nat /\ rec[m].rev <= used.steer
        BY <1>1, FieldsOf, Bounds
      <4>2. rec'[m] = rec[m]
        BY <2>1, <3>2
      <4> QED
        BY <1>1, <2>2, <4>1, <4>2
    <3> QED
      BY <3>1, <3>2
  <2>5. rec' \in [Nodes -> Records]
    BY <2>1, <2>4
  <2> QED
    BY <2>3, <2>4, <2>5 DEF RecTyped
<1>15. ASSUME NEW n \in Nodes, HandlerWritesLate(n) PROVE RecTyped'
  BY <1>1, <1>2, <1>15 DEF HandlerWritesLate
<1>16. CASE UNCHANGED vars
  BY <1>1, <1>2, <1>16 DEF vars
<1> QED
  BY <1>6, <1>7, <1>8, <1>9, <1>10, <1>11, <1>12, <1>13, <1>14, <1>15, <1>16, Steps
(* execute stays at a place of its own.                                     *)
LEMMA MainStep == ASSUME Typed, [Next]_vars PROVE MainTyped'
<1>1. /\ main.pc \in MainPcs /\ main.at \in 0..(Len(Order) + 1) /\ MainTyped
  BY DEF Typed, MainTyped
<1>2. ASSUME main' = main PROVE MainTyped'
  BY <1>1, <1>2 DEF MainTyped
<1>3. ASSUME NEW pc \in MainPcs, NEW at \in 0..(Len(Order) + 1), Main(pc, at),
             pc \in {"recover", "prepare"} => at # 0, pc = "compensate" => at <= Len(Order),
             pc \in AtNode => at \in Positions
      PROVE  MainTyped'
  BY <1>3 DEF MainTyped, Main
<1>4. ASSUME main' = NoMain PROVE MainTyped'
  <2>1. Main("off", 0) /\ "off" \in MainPcs /\ 0 \in 0..(Len(Order) + 1)
    BY <1>4, Bounds DEF Main, NoMain, MainPcs
  <2> QED
    BY <1>3, <2>1 DEF AtNode
<1>5. CASE StatusMain
  <2>1. \/ Main("prepare", 1) \/ Main("recover", 1) \/ Main("select", 0) \/ Main("decide", 0)
        \/ main' = NoMain \/ Main("compensate", Len(Order))
        \/ main.pc = "compensate" /\ main.at > 0 /\ Main("compensating", main.at)
        \/ main.pc = "compensate" /\ main.at > 0 /\ Main("compensate", main.at - 1)
    BY <1>5 DEF StatusMain, Start, Resume, Recovered, Prepared, BatchEnds, LeaveLoop,
                CompensateNode, Failed
  <2>2. CASE Main("prepare", 1) \/ Main("recover", 1) \/ Main("select", 0) \/ Main("decide", 0)
    BY <1>3, <2>2, Bounds DEF MainPcs, AtNode
  <2>3. CASE Main("compensate", Len(Order))
    BY <1>3, <2>3, Bounds DEF MainPcs, AtNode
  <2>4. CASE main.pc = "compensate" /\ main.at > 0 /\ Main("compensating", main.at)
    BY <1>1, <1>3, <2>4, MainNode DEF MainPcs
  <2>5. CASE main.pc = "compensate" /\ main.at > 0 /\ Main("compensate", main.at - 1)
    <3>1. main.at \in Positions
      BY <2>5, MainNode
    <3>2. main.at - 1 \in 0..(Len(Order) + 1) /\ main.at - 1 <= Len(Order)
      BY <3>1, Bounds DEF Positions
    <3> QED
      BY <1>3, <2>5, <3>2 DEF MainPcs, AtNode
  <2> QED
    BY <1>4, <2>1, <2>2, <2>3, <2>4, <2>5
<1>6. CASE RecordMain
  <2>1. \/ main.pc \in AtNode
        \/ main.pc \in {"recover", "prepare"} /\ main.at <= Len(Order)
    BY <1>6 DEF RecordMain, RecoverNode, RecoveryAnswered, RecoveryRechecked, PrepareNode,
                ConditionEvaluated, NodeCompensated, AtNode
  <2>2. main.at \in Positions
    BY <2>1, MainNode
  <2>3. /\ main.at \in 0..(Len(Order) + 1) /\ main.at + 1 \in 0..(Len(Order) + 1)
        /\ main.at - 1 \in 0..(Len(Order) + 1) /\ main.at - 1 <= Len(Order) /\ main.at + 1 # 0
    BY <2>2, Bounds DEF Positions
  <2>4. \/ \E pc \in {"restarting", "polling", "rechecking", "condition"} : Main(pc, main.at)
        \/ \E pc \in {"recover", "prepare"} : Main(pc, main.at + 1)
        \/ Main("compensate", main.at - 1)
    BY <1>6 DEF RecordMain, RecoverNode, RecoveryAnswered, RecoveryRechecked, PrepareNode,
                ConditionEvaluated, NodeCompensated
  <2>5. CASE \E pc \in {"restarting", "polling", "rechecking", "condition"} : Main(pc, main.at)
    BY <1>3, <2>2, <2>3, <2>5 DEF MainPcs
  <2>6. CASE \E pc \in {"recover", "prepare"} : Main(pc, main.at + 1)
    BY <1>3, <2>3, <2>6 DEF MainPcs, AtNode
  <2>7. CASE Main("compensate", main.at - 1)
    BY <1>3, <2>3, <2>7 DEF MainPcs, AtNode
  <2> QED
    BY <2>4, <2>5, <2>6, <2>7
<1>7. CASE StartBatch \/ Decide
  <2>1. Main("batch", 0) \/ Main("prepare", 1) \/ Main("decide", 0) \/ main' = NoMain
    BY <1>7 DEF StartBatch, Decide
  <2> QED
    BY <1>3, <1>4, <2>1, Bounds DEF MainPcs, AtNode
<1>8. CASE CtlStep \/ Cancel
  BY <1>2, <1>8 DEF CtlStep, CtlSync, CtlAwait, ReconcileInterrupted, CancelCompensates,
                    CancelAnswered, CancelRechecked, CancelCompensated, Cancel
<1>9. CASE Crash
  BY <1>4, <1>9 DEF Crash
<1>10. ASSUME NEW n \in Nodes, \/ Accounted(n) \/ TaskStep(n) \/ Steer(n) \/ Caller(n)
                               \/ HandlerWritesLate(n)
       PROVE  MainTyped'
  BY <1>2, <1>10 DEF Accounted, TaskStep, Caller, InvokeHandler, HandlerWrites,
       HandlerAcknowledges, HandlerReturns, ResultAccepted, ValidatorThrows, HandlerThrows,
       HandlerTimesOut, RetryAnswered, SettlementAnswered, AnswerRechecked, BackoffEnds, Approve,
       RefreshAuthorization, Steer, HandlerWritesLate
<1>11. CASE UNCHANGED vars
  BY <1>2, <1>11 DEF vars
<1> QED
  BY <1>5, <1>6, <1>7, <1>8, <1>9, <1>10, <1>11, Steps

(* A cancellation moves among its places, and never has more left to do.    *)
CtlMoves(pc, todo, at) ==
  /\ ctl' = [pc |-> pc, todo |-> todo, at |-> at]
  /\ pc \in CtlPcs /\ todo \in SUBSET Nodes /\ at \in 0..Len(Order)
  /\ pc \in {"reconciling", "rechecking"} => todo # {}
  /\ pc = "compensating" => at \in Positions

(* A cancellation's own step, move by move.                                 *)
LEMMA CtlGoes ==
  ASSUME Typed, CtlStep
  PROVE  \E pc \in CtlPcs, todo \in SUBSET Nodes, at \in 0..Len(Order) :
           CtlMoves(pc, todo, at) /\ todo \subseteq ctl.todo
<1>0. ctl \in [pc : CtlPcs, todo : SUBSET Nodes, at : 0..Len(Order)]
  BY DEF Typed, CtlTyped
<1>1. /\ ctl.pc \in CtlPcs /\ ctl.todo \in SUBSET Nodes /\ ctl.at \in 0..Len(Order)
      /\ ctl = [pc |-> ctl.pc, todo |-> ctl.todo, at |-> ctl.at] /\ CtlTyped
  BY DEF Typed, CtlTyped
<1>2. \A pc \in CtlPcs : [ctl EXCEPT !.pc = pc] = [pc |-> pc, todo |-> ctl.todo, at |-> ctl.at]
  BY <1>0
<1>3. \A todo \in SUBSET Nodes :
        [ctl EXCEPT !.todo = todo] = [pc |-> ctl.pc, todo |-> todo, at |-> ctl.at]
  BY <1>0
<1>4. \A pc \in CtlPcs, todo \in SUBSET Nodes :
        [ctl EXCEPT !.pc = pc, !.todo = todo] = [pc |-> pc, todo |-> todo, at |-> ctl.at]
  <2> TAKE pc \in CtlPcs, todo \in SUBSET Nodes
  <2> DEFINE c == [ctl EXCEPT !.pc = pc]
  <2>1. c = [pc |-> pc, todo |-> ctl.todo, at |-> ctl.at]
    BY <1>2
  <2> HIDE DEF c
  <2>2. [c EXCEPT !.todo = todo] = [pc |-> pc, todo |-> todo, at |-> ctl.at]
    BY <2>1
  <2> QED
    BY <2>2 DEF c
<1>5. \A pc \in CtlPcs : [ctl EXCEPT !.pc = pc, !.at = ctl.at - 1]
                           = [pc |-> pc, todo |-> ctl.todo, at |-> ctl.at - 1]
  <2> TAKE pc \in CtlPcs
  <2> DEFINE c == [ctl EXCEPT !.pc = pc]
             at == ctl.at - 1
  <2>1. c = [pc |-> pc, todo |-> ctl.todo, at |-> ctl.at]
    BY <1>2
  <2> HIDE DEF c, at
  <2>2. [c EXCEPT !.at = at] = [pc |-> pc, todo |-> ctl.todo, at |-> at]
    BY <2>1
  <2> QED
    BY <2>2 DEF c, at
<1>6. {"idle", "interrupted", "reconciling", "rechecking", "compensate", "compensating"}
        \subseteq CtlPcs
  BY DEF CtlPcs
<1>7. CASE ReconcileInterrupted
  <2> DEFINE left == ctl.todo \ {NextInterrupted}
  <2>1. left \in SUBSET Nodes /\ left \subseteq ctl.todo
    BY <1>1
  <2>2. \/ ctl' = [ctl EXCEPT !.pc = "reconciling"] \/ ctl' = [ctl EXCEPT !.todo = left]
    BY <1>7 DEF ReconcileInterrupted
  <2>3. ctl.todo # {} /\ ctl.pc = "interrupted"
    BY <1>7 DEF ReconcileInterrupted
  <2> HIDE DEF left
  <2>4. CtlMoves("reconciling", ctl.todo, ctl.at) \/ CtlMoves("interrupted", left, ctl.at)
    BY <1>1, <1>2, <1>3, <1>6, <2>1, <2>2, <2>3 DEF CtlMoves
  <2> QED
    BY <1>1, <1>6, <2>1, <2>4
<1>8. CASE CancelAnswered \/ CancelRechecked
  <2> DEFINE left == ctl.todo \ {NextInterrupted}
  <2>1. left \in SUBSET Nodes /\ left \subseteq ctl.todo
    BY <1>1
  <2>2. \/ ctl' = [ctl EXCEPT !.pc = "rechecking"]
        \/ ctl' = [ctl EXCEPT !.pc = "interrupted", !.todo = left]
    BY <1>8 DEF CancelAnswered, CancelRechecked
  <2>3. ctl.todo # {}
    BY <1>1, <1>8 DEF CancelAnswered, CancelRechecked, CtlTyped
  <2> HIDE DEF left
  <2>4. CtlMoves("rechecking", ctl.todo, ctl.at) \/ CtlMoves("interrupted", left, ctl.at)
    BY <1>1, <1>2, <1>4, <1>6, <2>1, <2>2, <2>3 DEF CtlMoves
  <2> QED
    BY <1>1, <1>6, <2>1, <2>4
<1>9. CASE CancelCompensates \/ CancelCompensated
  <2>1. \/ ctl' = NoCtl
        \/ ctl.at > 0 /\ ctl' = [ctl EXCEPT !.pc = "compensating"]
        \/ ctl.at > 0 /\ ctl' = [ctl EXCEPT !.pc = "compensate", !.at = ctl.at - 1]
    BY <1>1, <1>9, Bounds DEF CancelCompensates, CancelCompensated, CtlTyped, Positions
  <2>2. ctl.at > 0 => ctl.at \in Positions /\ ctl.at - 1 \in 0..Len(Order)
    BY <1>1, Bounds DEF Positions
  <2>3. CASE ctl' = NoCtl
    <3>1. CtlMoves("idle", {}, 0)
      BY <1>6, <2>3, Bounds DEF CtlMoves, NoCtl
    <3> QED
      BY <1>6, <3>1, Bounds
  <2>4. CASE ctl.at > 0 /\ ctl' = [ctl EXCEPT !.pc = "compensating"]
    <3>1. CtlMoves("compensating", ctl.todo, ctl.at)
      BY <1>1, <1>2, <1>6, <2>2, <2>4 DEF CtlMoves
    <3> QED
      BY <1>1, <1>6, <3>1
  <2>5. CASE ctl.at > 0 /\ ctl' = [ctl EXCEPT !.pc = "compensate", !.at = ctl.at - 1]
    <3>1. CtlMoves("compensate", ctl.todo, ctl.at - 1)
      BY <1>1, <1>5, <1>6, <2>2, <2>5 DEF CtlMoves
    <3> QED
      BY <1>1, <1>6, <2>2, <2>5, <3>1
  <2> QED
    BY <2>1, <2>3, <2>4, <2>5
<1> QED
  BY <1>7, <1>8, <1>9 DEF CtlStep, CtlSync, CtlAwait

(* A cancellation stays at a place of its own.                              *)
LEMMA CtlStays == ASSUME Typed, [Next]_vars PROVE CtlTyped'
<1>1. CtlTyped /\ ctl.at \in 0..Len(Order)
  BY DEF Typed, CtlTyped
<1>2. ASSUME ctl' = ctl PROVE CtlTyped'
  BY <1>1, <1>2 DEF CtlTyped
<1>3. ASSUME NEW pc, NEW todo, NEW at, CtlMoves(pc, todo, at) PROVE CtlTyped'
  BY <1>3 DEF CtlMoves, CtlTyped
<1>4. CASE CtlStep
  BY <1>3, <1>4, CtlGoes
<1>5. CASE Cancel
  <2> DEFINE todo == {n \in Effectful : rec[n].state = "running"}
  <2>1. todo \in SUBSET Nodes
    BY Bounds
  <2>2. \E at \in {0, Len(Order)} : ctl' = [pc |-> "interrupted", at |-> at, todo |-> todo]
    BY <1>5 DEF Cancel
  <2> HIDE DEF todo
  <2>3. PICK at \in {0, Len(Order)} : ctl' = [pc |-> "interrupted", at |-> at, todo |-> todo]
    BY <2>2
  <2>4. CtlMoves("interrupted", todo, at)
    BY <2>1, <2>3, Bounds DEF CtlMoves, CtlPcs
  <2> QED
    BY <1>3, <2>4
<1>6. CASE Crash
  <2>1. CtlMoves("idle", {}, 0)
    BY <1>6, Bounds DEF Crash, CtlMoves, NoCtl, CtlPcs
  <2> QED
    BY <1>3, <2>1
<1>7. CASE StatusMain \/ RecordMain \/ StartBatch \/ Decide
  BY <1>2, <1>7 DEF StatusMain, RecordMain, Start, Resume, Recovered, Prepared, BatchEnds,
       LeaveLoop, CompensateNode, Failed, RecoverNode, RecoveryAnswered, RecoveryRechecked,
       PrepareNode, ConditionEvaluated, NodeCompensated, StartBatch, Decide
<1>8. ASSUME NEW n \in Nodes, \/ Accounted(n) \/ TaskStep(n) \/ Steer(n) \/ Caller(n)
                              \/ HandlerWritesLate(n)
      PROVE  CtlTyped'
  BY <1>2, <1>8 DEF Accounted, TaskStep, Caller, InvokeHandler, HandlerWrites,
       HandlerAcknowledges, HandlerReturns, ResultAccepted, ValidatorThrows, HandlerThrows,
       HandlerTimesOut, RetryAnswered, SettlementAnswered, AnswerRechecked, BackoffEnds, Approve,
       RefreshAuthorization, Steer, HandlerWritesLate
<1>9. CASE UNCHANGED vars
  BY <1>2, <1>9 DEF vars
<1> QED
  BY <1>4, <1>5, <1>6, <1>7, <1>8, <1>9, Steps
(* What the kinds of steps leave alone.                                     *)
LEMMA Frames ==
  /\ StatusMain => UNCHANGED <<rec, verified, task, ctl, world, late, tried, used>>
  /\ RecordMain => UNCHANGED <<status, task, ctl, world, late, used>>
  /\ CtlStep => UNCHANGED <<status, main, task, world, late, tried, used>>
  /\ \A n \in Nodes : /\ Accounted(n) \/ TaskStep(n) => UNCHANGED <<status, main, ctl, tried, used>>
                      /\ Caller(n) => UNCHANGED <<main, task, ctl, world, late, tried, used>>
<1>1. StatusMain => UNCHANGED <<rec, verified, task, ctl, world, late, tried, used>>
  BY DEF StatusMain, Start, Resume, Recovered, Prepared, BatchEnds, LeaveLoop, CompensateNode,
         Failed
<1>2. RecordMain => UNCHANGED <<status, task, ctl, world, late, used>>
  BY DEF RecordMain, RecoverNode, RecoveryAnswered, RecoveryRechecked, PrepareNode,
         ConditionEvaluated, NodeCompensated
<1>3. CtlStep => UNCHANGED <<status, main, task, world, late, tried, used>>
  BY DEF CtlStep, CtlSync, CtlAwait, ReconcileInterrupted, CancelCompensates, CancelAnswered,
         CancelRechecked, CancelCompensated
<1>4. ASSUME NEW n \in Nodes, Accounted(n) \/ TaskStep(n)
      PROVE  UNCHANGED <<status, main, ctl, tried, used>>
  BY <1>4 DEF Accounted, TaskStep, InvokeHandler, HandlerWrites, HandlerAcknowledges,
       HandlerReturns, ResultAccepted, ValidatorThrows, HandlerThrows, HandlerTimesOut,
       RetryAnswered, SettlementAnswered, AnswerRechecked, BackoffEnds
<1>5. ASSUME NEW n \in Nodes, Caller(n)
      PROVE  UNCHANGED <<main, task, ctl, world, late, tried, used>>
  BY <1>5 DEF Caller, Approve, RefreshAuthorization
<1> QED
  BY <1>1, <1>2, <1>3, <1>4, <1>5

(* A task's own step: where it goes on, or that it wrote.                   *)
TaskGoes(n, pc) ==
  \/ task' = task
  \/ task' = [task EXCEPT ![n].pc = pc]
  \/ task' = [task EXCEPT ![n].wrote = TRUE]
  \/ task' = [task EXCEPT ![n] = NoTask]

(* What that makes of the tasks.                                            *)
LEMMA TaskFacts ==
  ASSUME task \in [Nodes -> Tasks], NEW n \in Nodes, NEW pc \in TaskPcs
  PROVE  /\ TaskGoes(n, pc) => /\ task' \in [Nodes -> Tasks]
                               /\ \A m \in Nodes \ {n} : task'[m] = task[m]
         /\ Task(n, pc) => task'[n].pc = pc /\ task'[n].wrote = task[n].wrote
         /\ TaskEnds(n) => task'[n].pc = "none"
         /\ task' = [task EXCEPT ![n].wrote = TRUE] =>
              task'[n].pc = task[n].pc /\ task'[n].wrote = TRUE
         /\ Task(n, pc) \/ TaskEnds(n) => TaskGoes(n, pc)
<1>1. NoTask \in Tasks
  BY Bounds DEF NoTask, Tasks, TaskPcs
<1>2. [task[n] EXCEPT !.pc = pc] \in Tasks /\ [task[n] EXCEPT !.wrote = TRUE] \in Tasks
  BY DEF Tasks
<1>3. task' = [task EXCEPT ![n].pc = pc] =>
        task' \in [Nodes -> Tasks] /\ \A m \in Nodes \ {n} : task'[m] = task[m]
  BY <1>2
<1>4. task' = [task EXCEPT ![n].wrote = TRUE] =>
        /\ task' \in [Nodes -> Tasks] /\ \A m \in Nodes \ {n} : task'[m] = task[m]
        /\ task'[n].pc = task[n].pc /\ task'[n].wrote = TRUE
  BY <1>2 DEF Tasks
<1>5. task' = [task EXCEPT ![n] = NoTask] =>
        task' \in [Nodes -> Tasks] /\ \A m \in Nodes \ {n} : task'[m] = task[m]
  BY <1>1
<1>6. Task(n, pc) => task'[n].pc = pc /\ task'[n].wrote = task[n].wrote
  BY DEF Task, Tasks
<1>7. TaskEnds(n) => task'[n].pc = "none"
  BY DEF TaskEnds, NoTask
<1> QED
  BY <1>3, <1>4, <1>5, <1>6, <1>7 DEF TaskGoes, Task, TaskEnds

(* A task's step is one of the node's own.                                  *)
LEMMA TaskGoesOn ==
  ASSUME Typed, NEW n \in Nodes, Accounted(n) \/ TaskStep(n)
  PROVE  \E pc \in TaskPcs : TaskGoes(n, pc)
<1>1. ASSUME NEW error \in Errors, Caught(n, error) PROVE \E pc \in TaskPcs : TaskGoes(n, pc)
  <2>1. PICK pc \in {"none", "backoff", "retrying", "settling"} : Task(n, pc) \/ TaskEnds(n)
    BY <1>1, CaughtFacts DEF CaughtAs, Typed, RecTyped
  <2> QED
    BY <2>1 DEF TaskGoes, Task, TaskEnds, TaskPcs
<1>2. CASE ValidatorThrows(n) \/ HandlerThrows(n) \/ HandlerTimesOut(n)
  BY <1>1, <1>2 DEF ValidatorThrows, HandlerThrows, HandlerTimesOut, Errors
<1>3. CASE RetryAnswered(n)
  <2>1. Task(n, "rechecking") \/ Task(n, "backoff") \/ TaskEnds(n)
    BY <1>3 DEF RetryAnswered
  <2> QED
    BY <2>1 DEF TaskGoes, Task, TaskEnds, TaskPcs
<1>4. CASE ~(\/ ValidatorThrows(n) \/ HandlerThrows(n) \/ HandlerTimesOut(n)
             \/ RetryAnswered(n))
  <2>1. \/ Task(n, "handling") \/ Task(n, "validating") \/ Task(n, "accounting")
        \/ Task(n, "rechecking") \/ TaskEnds(n) \/ task' = task
        \/ task' = [task EXCEPT ![n].wrote = TRUE]
    BY <1>4 DEF Accounted, TaskStep, InvokeHandler, HandlerWrites, HandlerAcknowledges,
         HandlerReturns, ResultAccepted, SettlementAnswered, AnswerRechecked, BackoffEnds
  <2> QED
    BY <2>1 DEF TaskGoes, Task, TaskEnds, TaskPcs
<1> QED
  BY <1>2, <1>3, <1>4

(* The tasks keep their type.                                               *)
LEMMA TasksStep == ASSUME Typed, [Next]_vars PROVE task' \in [Nodes -> Tasks]
<1>1. task \in [Nodes -> Tasks] /\ NoTask \in Tasks
  BY Bounds DEF Typed, NoTask, Tasks, TaskPcs
<1>2. CASE StartBatch
  <2>1. task' = [n \in Nodes |->
          IF n \in Batch /\ StartedRecord(n).state = "running"
            THEN [pc |-> "started", rev |-> rec[n].rev, wrote |-> FALSE] ELSE task[n]]
    BY <1>2 DEF StartBatch
  <2>2. \A n \in Nodes : [pc |-> "started", rev |-> rec[n].rev, wrote |-> FALSE] \in Tasks
    <3> TAKE n \in Nodes
    <3>1. rec[n].rev \in 0..MaxSteers
      BY FieldsOf DEF Typed, RecTyped
    <3> QED
      BY <3>1 DEF Tasks, TaskPcs
  <2> QED
    BY <1>1, <2>1, <2>2
<1>3. CASE Crash
  BY <1>1, <1>3 DEF Crash
<1>4. CASE StatusMain \/ RecordMain \/ CtlStep
  BY <1>1, <1>4, Frames
<1>5. CASE Decide \/ Cancel \/ UNCHANGED vars
  BY <1>1, <1>5 DEF Decide, Cancel, vars
<1>6. ASSUME NEW n \in Nodes, Accounted(n) \/ TaskStep(n) PROVE task' \in [Nodes -> Tasks]
  BY <1>1, <1>6, TaskGoesOn, TaskFacts
<1>7. ASSUME NEW n \in Nodes, Steer(n) \/ Caller(n) \/ HandlerWritesLate(n)
      PROVE  task' \in [Nodes -> Tasks]
  BY <1>1, <1>7, Frames DEF Steer, HandlerWritesLate
<1> QED
  BY <1>2, <1>3, <1>4, <1>5, <1>6, <1>7, Steps

(* The world keeps its type.                                                *)
LEMMA WorldStep == ASSUME Typed, [Next]_vars PROVE world' \in [Nodes -> Worlds]
<1>1. world \in [Nodes -> Worlds]
  BY DEF Typed
<1>2. ASSUME NEW n \in Nodes, NEW w \in Touched(world[n]), world' = [world EXCEPT ![n] = w]
      PROVE  world' \in [Nodes -> Worlds]
  <2>1. w \in Worlds
    BY DEF Touched, Worlds
  <2> QED
    BY <1>1, <1>2, <2>1
<1>3. CASE StatusMain \/ RecordMain \/ CtlStep
  BY <1>1, <1>3, Frames
<1>4. CASE StartBatch \/ Decide \/ Cancel \/ Crash \/ UNCHANGED vars
  BY <1>1, <1>4 DEF StartBatch, Decide, Cancel, Crash, vars
<1>5. ASSUME NEW n \in Nodes, HandlerWrites(n) \/ HandlerWritesLate(n)
      PROVE  world' \in [Nodes -> Worlds]
  BY <1>2, <1>5 DEF HandlerWrites, HandlerWritesLate
<1>6. ASSUME NEW n \in Nodes, Accounted(n) \/ TaskStep(n) PROVE world' \in [Nodes -> Worlds]
  BY <1>1, <1>5, <1>6 DEF Accounted, TaskStep, InvokeHandler, HandlerAcknowledges, HandlerReturns,
       ResultAccepted, ValidatorThrows, HandlerThrows, HandlerTimesOut, RetryAnswered,
       SettlementAnswered, AnswerRechecked, BackoffEnds
<1>7. ASSUME NEW n \in Nodes, Steer(n) \/ Caller(n) PROVE world' \in [Nodes -> Worlds]
  BY <1>1, <1>7, Frames DEF Steer
<1> QED
  BY <1>3, <1>4, <1>5, <1>6, <1>7, Steps

(* The status, the sets of nodes and the counts keep their types.           *)
Rest ==
  /\ status \in Statuses /\ verified \subseteq Nodes /\ late \subseteq Nodes
  /\ tried \subseteq Nodes /\ used \in Counts

(* They do.                                                                 *)
LEMMA RestStep == ASSUME Typed, [Next]_vars PROVE Rest'
<1>1. Rest
  BY DEF Typed, Rest
<1>2. CASE StatusMain
  <2>1. status' \in {status, "running", "failed"}
    BY <1>2 DEF StatusMain, Start, Resume, Recovered, Prepared, BatchEnds, LeaveLoop,
                CompensateNode, Failed
  <2> QED
    BY <1>1, <1>2, <2>1, Frames DEF Rest, Statuses, Ended
<1>3. CASE RecordMain
  <2>1. /\ verified' = verified \/ verified' = verified \cup {Order[main.at]}
        /\ tried' = tried \/ tried' = tried \cup {Order[main.at]}
    BY <1>3 DEF RecordMain, RecoverNode, RecoveryAnswered, Reconciled, RecoveryRechecked,
                PrepareNode, ConditionEvaluated, NodeCompensated
  <2>2. Order[main.at] \in Nodes
    BY <1>3, MainRecords
  <2> QED
    BY <1>1, <1>3, <2>1, <2>2, Frames DEF Rest
<1>4. CASE CtlStep
  <2>1. verified' = verified
        \/ (CancelAnswered /\ verified' = verified \cup {NextInterrupted})
    BY <1>4 DEF CtlStep, CtlSync, CtlAwait, ReconcileInterrupted, CancelCompensates,
                CancelAnswered, Reconciled, CancelRechecked, CancelCompensated
  <2>2. CancelAnswered => NextInterrupted \in Nodes
    BY NextFacts DEF CancelAnswered, Typed, CtlTyped
  <2> QED
    BY <1>1, <1>4, <2>1, <2>2, Frames DEF Rest
<1>5. CASE StartBatch \/ Decide \/ UNCHANGED vars
  BY <1>1, <1>5 DEF StartBatch, Decide, vars, Rest, Statuses, Ended
<1>6. CASE Cancel
  <2>1. status' \in Stopped /\ UNCHANGED <<verified, late, tried>>
    BY <1>6 DEF Cancel
  <2>2. used.cancel < MaxCancels /\ used' = [used EXCEPT !.cancel = used.cancel + 1]
    BY <1>6 DEF Cancel
  <2>3. used' \in Counts
    BY <1>1, <2>2, Bounds DEF Rest, Counts
  <2> QED
    BY <1>1, <2>1, <2>3 DEF Rest, Statuses, Stopped, Ended
<1>7. CASE Crash
  <2>1. UNCHANGED <<status, verified, tried>>
    BY <1>7 DEF Crash
  <2>2. used.crash < MaxCrashes /\ used' = [used EXCEPT !.crash = used.crash + 1]
    BY <1>7 DEF Crash
  <2>3. used' \in Counts
    BY <1>1, <2>2, Bounds DEF Rest, Counts
  <2>4. late' \subseteq Nodes
    BY <1>1, <1>7, Bounds DEF Crash, Rest
  <2> QED
    BY <1>1, <2>1, <2>3, <2>4 DEF Rest
<1>8. ASSUME NEW n \in Nodes, Accounted(n) \/ TaskStep(n) PROVE Rest'
  <2>1. /\ verified' = verified \/ verified' = verified \cup {n}
        /\ late' = late \/ late' = late \cup {n}
    BY <1>8 DEF Accounted, TaskStep, InvokeHandler, HandlerWrites, HandlerAcknowledges,
         HandlerReturns, ResultAccepted, ValidatorThrows, HandlerThrows, HandlerTimesOut,
         RetryAnswered, SettlementAnswered, AnswerRechecked, BackoffEnds, Reconciled
  <2> QED
    BY <1>1, <1>8, <2>1, Frames DEF Rest
<1>9. ASSUME NEW n \in Nodes, Caller(n) PROVE Rest'
  <2>1. status' = "created" /\ (verified' = verified \/ verified' = verified \cup {n})
    BY <1>9 DEF Caller, Approve, RefreshAuthorization
  <2> QED
    BY <1>1, <1>9, <2>1, Frames DEF Rest, Statuses
<1>10. ASSUME NEW n \in Nodes, Steer(n) PROVE Rest'
  <2>1. status' \in {status, "created"} /\ UNCHANGED <<verified, late, tried>>
    BY <1>10 DEF Steer
  <2>2. PICK more \in SUBSET Nodes :
          /\ used.steer < MaxSteers
          /\ used' = [used EXCEPT !.steer = used.steer + 1, !.steered = used.steered \cup more]
    <3>1. {m \in Affected(n) : AtWork(m)} \in SUBSET Nodes
      BY DEF Affected
    <3> QED
      BY <1>10, <3>1, Zenon DEF Steer
  <2>3. used \in Counts /\ used.steer + 1 \in 0..MaxSteers
    BY <1>1, <2>2, Bounds DEF Rest, Counts
  <2>4. used.steered \cup more \in SUBSET Nodes
    BY <2>3 DEF Counts
  <2>5. used' \in Counts
    BY <2>2, <2>3, <2>4 DEF Counts
  <2> QED
    BY <1>1, <2>1, <2>5 DEF Rest, Statuses
<1>11. ASSUME NEW n \in Nodes, HandlerWritesLate(n) PROVE Rest'
  BY <1>1, <1>11 DEF HandlerWritesLate, Rest
<1> QED
  BY <1>2, <1>3, <1>4, <1>5, <1>6, <1>7, <1>8, <1>9, <1>10, <1>11, Steps

(* So every step keeps every type.                                          *)
LEMMA TypedStep == ASSUME Typed, [Next]_vars PROVE Typed'
  BY RecordsStep, MainStep, CtlStays, TasksStep, WorldStep, RestStep DEF Typed, Rest

(* And they hold at first.                                                  *)
LEMMA TypedInit == ASSUME Init PROVE Typed
<1>1. /\ Fresh \in Records /\ Fresh.rev = 0 /\ NoTask \in Tasks
      /\ used \in Counts /\ used.steer = 0
  BY Bounds DEF Init, Fresh, Records, NodeStates, Phases, NoTask, Tasks, TaskPcs, Counts
<1>2. RecTyped /\ task \in [Nodes -> Tasks] /\ world \in [Nodes -> Worlds]
  BY <1>1 DEF Init, RecTyped, Worlds
<1>3. MainTyped /\ CtlTyped
  BY Bounds DEF Init, MainTyped, CtlTyped, NoMain, NoCtl, MainPcs, CtlPcs, AtNode
<1> QED
  BY <1>1, <1>2, <1>3 DEF Init, Typed, Statuses

(* The run, its nodes, its tasks and what the world has seen of them keep   *)
(* their types, whatever fails, dies, is cancelled or steered.              *)
THEOREM ExecutorTypeCorrect == Spec => []TypeOK
<1>1. Typed => TypeOK
  BY Bounds DEF Typed, RecTyped, MainTyped, CtlTyped, TypeOK, Records, Tasks, TaskPcs, MainPcs,
       CtlPcs, Statuses, Worlds, Counts
<1>2. Init => Typed
  BY TypedInit
<1>3. Typed /\ [Next]_vars => Typed'
  BY TypedStep
<1> QED
  BY <1>1, <1>2, <1>3, PTL DEF Spec
-----------------------------------------------------------------------------
(* No write is repeated: each kind of step keeps the invariant.             *)

(* A step leaves a node alone: its record, task and effect, and execute and *)
(* cancel do not come to it.                                                *)
Untouched(n) ==
  /\ rec'[n] = rec[n] /\ task'[n] = task[n] /\ world'[n] = world[n]
  /\ n \in verified' <=> n \in verified
MainAway(n) == main' = main \/ main'.pc \notin AtNode \/ Order[main'.at] # n
CtlQuiet(n) ==
  \/ ctl'.pc = ctl.pc /\ ctl'.todo = ctl.todo /\ ctl'.at = ctl.at
  \/ /\ ctl'.pc = "rechecking" => NextOf(ctl'.todo) # n
     /\ ctl'.pc = "compensating" => Order[ctl'.at] # n
CtlAway(n) == (n \in ctl'.todo => n \in ctl.todo) /\ CtlQuiet(n)

(* What is said of a node that is left alone stays true.                    *)
LEMMA Frame ==
  ASSUME NEW n \in Nodes, Holds(n), Untouched(n), MainAway(n), CtlAway(n)
  PROVE  Holds(n)'
<1>1. CASE n \notin Effectful
  BY <1>1 DEF Holds, Untouched, MainAway, MainAt, AtNode
<1>2. CASE n \in Effectful
  <2>1. WritesOnce(n)'
    BY <1>2 DEF Holds, Untouched, WritesOnce, Safe
  <2>2. CASE n \in verified
    BY <1>2, <2>1, <2>2 DEF Holds, Untouched
  <2>3. CASE n \notin verified
    <3>1. /\ Unverified(n) /\ Repeatable(n) /\ Traced(n) /\ ~rec[n].sure
          /\ n \notin verified' /\ ~rec'[n].sure
      BY <1>2, <2>3 DEF Holds, Untouched
    <3>2. Unverified(n)'
      BY <3>1 DEF Untouched, Unverified, MainAway, CtlAway, CtlQuiet, MainAt, CtlAt, AtNode
    <3>3. Repeatable(n)'
      BY <3>1 DEF Untouched, Repeatable, MainAway, MainAt, AtNode, Safe
    <3>4. Traced(n)'
      BY <3>1 DEF Untouched, Traced, MainAway, CtlAway, MainAt, AtNode
    <3> QED
      BY <1>2, <2>1, <3>1, <3>2, <3>3, <3>4 DEF Holds
  <2> QED
    BY <2>2, <2>3
<1> QED
  BY <1>1, <1>2

(* A step of execute that changes no record.                                *)
LEMMA StatusMainHolds == ASSUME SafeInv, StatusMain PROVE \A n \in Nodes : Holds(n)'
<1>1. /\ UNCHANGED <<rec, verified, task, ctl, world>> /\ \A n \in Nodes : Holds(n)
      /\ \A n \in Nodes : Untouched(n) /\ CtlAway(n)
  BY Frames DEF SafeInv, Untouched, CtlAway, CtlQuiet
<1>2. CASE ~CompensateNode
  <2>1. main'.pc \notin AtNode
    BY <1>2 DEF StatusMain, Start, Resume, Recovered, Prepared, BatchEnds, LeaveLoop, Failed,
                Main, NoMain, AtNode
  <2> QED
    BY <1>1, <2>1, Frame DEF MainAway
<1>3. CASE CompensateNode
  <2>1. PICK o \in Nodes : o = Order[main.at]
    BY <1>3, MainNode DEF SafeInv, CompensateNode
  <2>2. \/ main' = [pc |-> "compensating", at |-> main.at] /\ Compensable(rec[o])
        \/ main' = [pc |-> "compensate", at |-> main.at - 1]
    BY <1>3, <2>1 DEF CompensateNode, Main
  <2>3. CASE main' = [pc |-> "compensate", at |-> main.at - 1]
    BY <1>1, <2>3, Frame DEF MainAway, AtNode
  <2>4. CASE main' = [pc |-> "compensating", at |-> main.at] /\ Compensable(rec[o])
    <3>1. ASSUME NEW n \in Nodes, n # o PROVE Holds(n)'
      BY <1>1, <2>1, <2>4, <3>1, Frame DEF MainAway
    <3>2. Holds(o)'
      <4>1. Holds(o)
        BY <1>1
      <4>2. CASE o \notin Effectful
        BY <1>1, <2>4, <4>1, <4>2 DEF Holds, MainAt
      <4>3. CASE o \in Effectful
        <5>1. o \in verified
          BY <2>4, <4>1, <4>3 DEF Holds, Unverified, Compensable
        <5> QED
          BY <1>1, <4>1, <4>3, <5>1 DEF Holds, WritesOnce, Safe
      <4> QED
        BY <4>2, <4>3
    <3> QED
      BY <3>1, <3>2
  <2> QED
    BY <2>2, <2>3, <2>4
<1> QED
  BY <1>2, <1>3

(* What an effect's record may become, when its task, its write and its     *)
(* verification stay as they are.                                           *)
Becomes(n, a) ==
  /\ rec'[n] = a /\ a.begun = rec[n].begun
  /\ task'[n] = task[n] /\ world'[n] = world[n]
  /\ n \in verified' <=> n \in verified
  /\ n \in verified => a.sure
  /\ n \notin verified =>
       /\ a.sure = rec[n].sure /\ a.state \notin {"succeeded", "compensated"}
       /\ a.phase # "verified"
       /\ a.state \in {"pending", "ready"} =>
            Safe(n) /\ task[n].pc \notin {"started", "handling", "validating"}
       /\ a.state \notin Terminal /\ a.phase \in Clear => Safe(n)
       /\ a.phase = "none" => rec[n].phase = "none"
       /\ task[n].pc \in {"handling", "validating"} /\ a.phase \in Clear =>
            a.state \in {"cancelled", "skipped"} /\ n \notin ctl'.todo

(* execute does not come to the node, or may.                               *)
MainFits(n, a) ==
  \/ MainAway(n)
  \/ main'.pc \in {"restarting", "polling"} /\ a.phase # "none"
  \/ main'.pc = "condition" /\ Safe(n)

(* Such a record keeps the invariant.                                       *)
LEMMA ChangesHold ==
  ASSUME NEW n \in Effectful, Holds(n), NEW a, Becomes(n, a), MainFits(n, a), CtlQuiet(n)
  PROVE  Holds(n)'
<1>1. WritesOnce(n)'
  BY DEF Holds, Becomes, WritesOnce, Safe
<1>2. CASE n \in verified
  BY <1>1, <1>2 DEF Holds, Becomes
<1>3. CASE n \notin verified
  <2>1. /\ Unverified(n) /\ Repeatable(n) /\ Traced(n) /\ ~rec[n].sure
        /\ n \notin verified' /\ ~rec'[n].sure
    BY <1>3 DEF Holds, Becomes
  <2>2. Unverified(n)'
    BY <1>3, <2>1 DEF Becomes, Unverified, MainFits, MainAway, CtlQuiet, MainAt, CtlAt, AtNode
  <2>3. Repeatable(n)'
    BY <1>3, <2>1 DEF Becomes, Repeatable, MainFits, MainAway, MainAt, AtNode, Safe
  <2>4. Traced(n)'
    BY <1>3, <2>1 DEF Becomes, Traced, MainFits, MainAway, MainAt, AtNode, Clear
  <2> QED
    BY <1>1, <2>1, <2>2, <2>3, <2>4 DEF Holds
<1> QED
  BY <1>2, <1>3

(* So it does when a cancellation has no more left to do.                   *)
LEMMA BecomesHolds ==
  ASSUME NEW n \in Effectful, Holds(n), NEW a, Becomes(n, a), MainFits(n, a), CtlAway(n)
  PROVE  Holds(n)'
  BY ChangesHold DEF CtlAway

(* A node without an effect stays clean.                                    *)
LEMMA PlainHolds ==
  ASSUME NEW n \in Nodes \ Effectful, Holds(n), rec'[n].phase = "none", ~rec'[n].sure,
         world'[n] = world[n], n \notin verified', task'[n].pc \notin {"retrying", "settling"},
         main'.pc \in {"restarting", "polling"} => main' = main \/ Order[main'.at] # n
  PROVE  Holds(n)'
  BY DEF Holds, MainAt

(* A true answer that the effect is there verifies it.                      *)
LEMMA VerifiedHolds ==
  ASSUME NEW n \in Effectful, Holds(n), world'[n] = world[n], n \in verified', rec'[n].sure,
         world[n] \in {"applied", "twice"},
         task'[n] = task[n] \/ task'[n].pc \notin {"started", "handling"}
  PROVE  Holds(n)'
<1>1. world[n] = "applied"
  BY DEF Holds, WritesOnce
<1> QED
  BY <1>1 DEF Holds, WritesOnce, Safe

(* execute's own nodes, while no task is under way.                         *)
LEMMA RecordMainHolds == ASSUME SafeInv, RecordMain PROVE \A n \in Nodes : Holds(n)'
<1>1. /\ UNCHANGED <<status, task, ctl, world>> /\ \A n \in Nodes : Holds(n)
      /\ \A n \in Nodes : CtlAway(n)
  BY Frames DEF SafeInv, CtlAway, CtlQuiet
<1>2. PICK o \in Nodes : o = Order[main.at]
  BY MainRecords DEF SafeInv
<1>3. /\ rec \in [Nodes -> Records] /\ rec[o] \in Records /\ world[o] \in Worlds /\ Holds(o)
      /\ task[o].pc = "none" /\ main.pc \in {"recover", "restarting", "polling", "rechecking",
                                            "prepare", "condition", "compensating"}
      /\ CtlAway(o) /\ world'[o] = world[o] /\ task'[o] = task[o]
  BY <1>1 DEF SafeInv, Typed, RecTyped, TasksInBatch, RecordMain, RecoverNode, RecoveryAnswered,
              RecoveryRechecked, PrepareNode, ConditionEvaluated, NodeCompensated
<1>4. \A n \in Nodes \ {o} : Untouched(n) /\ MainAway(n)
  <2>1. /\ rec' = rec \/ \E a \in Records : Put(o, a)
        /\ verified' = verified \/ verified' = verified \cup {o}
    BY <1>2, MainRecords
       DEF SafeInv, OneRecord, RecordMain, RecoverNode, RecoveryAnswered, Reconciled,
           RecoveryRechecked, PrepareNode, ConditionEvaluated, NodeCompensated
  <2>2. \A n \in Nodes \ {o} : rec'[n] = rec[n]
    BY <1>3, <2>1, PutFacts
  <2>3. main'.pc \in AtNode => main'.at = main.at
    BY DEF RecordMain, RecoverNode, RecoveryAnswered, Reconciled, RecoveryRechecked, PrepareNode,
           ConditionEvaluated, NodeCompensated, Main, AtNode
  <2> QED
    BY <1>1, <1>2, <2>1, <2>2, <2>3 DEF Untouched, MainAway
<1>5. ASSUME Holds(o)' PROVE \A n \in Nodes : Holds(n)'
  BY <1>1, <1>4, <1>5, Frame
<1>6. ASSUME NEW pc, NEW at, Main(pc, at), pc \notin AtNode PROVE MainAway(o)
  BY <1>6 DEF Main, MainAway
<1>7. CASE rec' = rec /\ verified' = verified /\ MainAway(o)
  <2>1. Untouched(o)
    BY <1>3, <1>7 DEF Untouched
  <2> QED
    BY <1>3, <1>5, <1>7, <2>1, Frame
<1>8. ASSUME NEW a \in Records, Put(o, a), verified' = verified, o \in Effectful,
             a.begun = rec[o].begun, MainFits(o, a), o \in verified => a.sure,
             o \notin verified =>
               /\ a.sure = rec[o].sure /\ a.state \notin {"succeeded", "compensated"}
               /\ a.phase # "verified" /\ (a.phase = "none" => rec[o].phase = "none")
               /\ a.state \in {"pending", "ready"} => Safe(o)
               /\ a.state \notin Terminal /\ a.phase \in Clear => Safe(o)
      PROVE  \A n \in Nodes : Holds(n)'
  <2>1. rec'[o] = a
    BY <1>3, <1>8, PutFacts
  <2>2. Becomes(o, a)
    BY <1>3, <1>8, <2>1 DEF Becomes
  <2> QED
    BY <1>3, <1>5, <1>8, <2>2, BecomesHolds
<1>9. ASSUME NEW a \in Records, Put(o, a), verified' = verified, o \notin Effectful,
             a.phase = "none", ~a.sure, main'.pc \notin {"restarting", "polling"}
      PROVE  \A n \in Nodes : Holds(n)'
  <2>1. rec'[o] = a
    BY <1>3, <1>9, PutFacts
  <2>2. o \notin verified
    BY <1>3, <1>9 DEF Holds
  <2> QED
    BY <1>3, <1>5, <1>9, <2>1, <2>2, PlainHolds
<1>10. /\ o \in Effectful /\ o \in verified => rec[o].sure /\ world[o] = "applied"
       /\ o \in Effectful /\ o \notin verified =>
            /\ ~rec[o].sure /\ Unverified(o) /\ Repeatable(o) /\ Traced(o)
       /\ o \notin Effectful => /\ rec[o].phase = "none" /\ ~rec[o].sure /\ o \notin verified
                               /\ main.pc \notin {"restarting", "polling"}
  BY <1>2, <1>3 DEF Holds, MainAt
<1>11. \A state \in NodeStates :
         /\ Moved(o, state) \in Records /\ Moved(o, state).state = state
         /\ Moved(o, state).phase = rec[o].phase /\ Moved(o, state).begun = rec[o].begun
         /\ Moved(o, state).sure = rec[o].sure
  BY <1>3, InState DEF Moved, Continues
<1>12. CASE RecoverNode
  <2>0. verified' = verified /\ main.pc = "recover"
    BY <1>12 DEF RecoverNode
  <2>1. CASE Interrupted(o) /\ o \in verified /\ Put(o, ReusedRecord(rec[o]))
             /\ Main("recover", main.at + 1)
    <3> DEFINE a == ReusedRecord(rec[o])
    <3>1. a \in Records /\ a.sure /\ a.begun = rec[o].begun
      BY <1>3, ReusedFacts DEF Continues
    <3>2. Put(o, a)
      BY <2>1
    <3> HIDE DEF a
    <3>3. MainFits(o, a) /\ o \in Effectful
      BY <1>6, <1>10, <2>1 DEF MainFits, AtNode
    <3> QED
      BY <1>8, <2>0, <2>1, <3>1, <3>2, <3>3
  <2>2. ASSUME NEW reason \in {"restart", "poll"}, NEW pc \in {"restarting", "polling"},
               Put(o, AskedRecord(o, rec[o], reason)),
               IF Asks(o, rec[o]) THEN Main(pc, main.at) ELSE Main("recover", main.at + 1),
               rec[o].phase = "none" => rec[o].state \notin Terminal
        PROVE  \A n \in Nodes : Holds(n)'
    <3> DEFINE a == AskedRecord(o, rec[o], reason)
    <3>1. a \in Records /\ a.begun = rec[o].begun /\ Put(o, a)
      BY <1>3, <2>2, AskedFacts DEF Continues, Reasons
    <3>2. CASE o \in verified
      <4>1. ~Asks(o, rec[o])
        BY <3>2 DEF Asks
      <4>2. a = ReusedRecord(rec[o])
        BY <1>3, <3>2, <4>1, AskedFacts DEF Reasons
      <4>3. a.sure
        BY <1>3, <4>2, ReusedFacts
      <4> HIDE DEF a
      <4>4. MainFits(o, a) /\ o \in Effectful
        BY <1>6, <1>10, <2>2, <3>2, <4>1 DEF MainFits, AtNode
      <4> QED
        BY <1>8, <2>0, <3>1, <3>2, <4>3, <4>4
    <3>3. CASE o \notin verified /\ rec[o].phase = "none"
      <4>1. ~Asks(o, rec[o])
        BY <3>3 DEF Asks
      <4>2. a.state = "pending" /\ a.phase = "none" /\ a.sure = rec[o].sure
        BY <1>3, <2>2, <3>3, AskedFacts DEF Reasons
      <4> HIDE DEF a
      <4>3. MainAway(o) /\ main'.pc = "recover"
        BY <1>6, <2>2, <4>1 DEF Main, AtNode
      <4>4. CASE o \in Effectful
        <5>1. Safe(o)
          BY <1>10, <2>2, <3>3, <4>4 DEF Repeatable, Clear
        <5> QED
          BY <1>8, <2>0, <3>1, <3>3, <4>2, <4>3, <4>4, <5>1 DEF MainFits
      <4>5. CASE o \notin Effectful
        BY <1>9, <1>10, <2>0, <3>1, <4>2, <4>3, <4>5
      <4> QED
        BY <4>4, <4>5
    <3>4. CASE o \notin verified /\ rec[o].phase # "none"
      <4>1. o \in Effectful
        BY <1>10, <3>4
      <4>2. /\ a.phase # "none" /\ a.sure = rec[o].sure
            /\ a.phase = "verified" => rec[o].phase = "verified"
            /\ Asks(o, rec[o]) => a.state = rec[o].state /\ a.phase = rec[o].phase
            /\ ~Asks(o, rec[o]) =>
                 \/ a.state = "failed_terminal"
                 \/ a.state = "waiting_for_external_action" /\ a.phase = "pending_external"
        BY <1>3, <2>2, <3>4, AskedFacts DEF Reasons
      <4> HIDE DEF a
      <4>3. MainFits(o, a)
        BY <1>6, <2>2, <4>2 DEF MainFits, Main, AtNode
      <4>4. /\ a.state \notin {"succeeded", "compensated"} /\ a.phase # "verified"
            /\ a.state \in {"pending", "ready"} => Safe(o)
            /\ a.state \notin Terminal /\ a.phase \in Clear => Safe(o)
        BY <1>10, <3>4, <4>1, <4>2 DEF Unverified, Repeatable, Terminal, Clear
      <4> QED
        BY <1>8, <2>0, <3>1, <3>4, <4>1, <4>2, <4>3, <4>4
    <3> QED
      BY <3>2, <3>3, <3>4
  <2>3. CASE Interrupted(o) /\ o \notin verified /\ ~RequiresOutcome(o, rec[o])
             /\ Put(o, Moved(o, "pending")) /\ Main("recover", main.at + 1)
    <3> DEFINE a == Moved(o, "pending")
    <3>1. /\ a \in Records /\ a.state = "pending" /\ a.phase = rec[o].phase
          /\ a.begun = rec[o].begun /\ a.sure = rec[o].sure /\ Put(o, a)
      BY <1>11, <2>3 DEF NodeStates
    <3> HIDE DEF a
    <3>2. MainAway(o) /\ main'.pc = "recover"
      BY <1>6, <2>3 DEF Main, AtNode
    <3>3. CASE o \in Effectful
      <4>1. Safe(o) /\ rec[o].phase # "verified"
        BY <1>10, <2>3, <3>3
           DEF Repeatable, Unverified, RequiresOutcome, Interrupted, Terminal, Clear
      <4> QED
        BY <1>8, <2>0, <2>3, <3>1, <3>2, <3>3, <4>1 DEF MainFits
    <3>4. CASE o \notin Effectful
      BY <1>9, <1>10, <2>0, <3>1, <3>2, <3>4
    <3> QED
      BY <3>3, <3>4
  <2>4. CASE rec' = rec /\ Main("recover", main.at + 1)
    BY <1>6, <1>7, <2>0, <2>4 DEF AtNode
  <2>5. \/ /\ Interrupted(o) /\ o \in verified /\ Put(o, ReusedRecord(rec[o]))
           /\ Main("recover", main.at + 1)
        \/ /\ RequiresOutcome(o, rec[o]) /\ Put(o, AskedRecord(o, rec[o], "restart"))
           /\ IF Asks(o, rec[o]) THEN Main("restarting", main.at)
              ELSE Main("recover", main.at + 1)
        \/ /\ Interrupted(o) /\ o \notin verified /\ ~RequiresOutcome(o, rec[o])
           /\ Put(o, Moved(o, "pending")) /\ Main("recover", main.at + 1)
        \/ /\ rec[o].state = "waiting_for_external_action"
           /\ Put(o, AskedRecord(o, rec[o], "poll"))
           /\ IF Asks(o, rec[o]) THEN Main("polling", main.at) ELSE Main("recover", main.at + 1)
        \/ rec' = rec /\ Main("recover", main.at + 1)
    BY <1>2, <1>12 DEF RecoverNode
  <2>6. RequiresOutcome(o, rec[o]) => rec[o].phase # "none"
    BY DEF RequiresOutcome
  <2> QED
    BY <2>1, <2>2, <2>3, <2>4, <2>5, <2>6 DEF Terminal
<1>13. CASE RecoveryAnswered
  <2>1. PICK reason \in {"restart", "poll"}, answer \in Answers(o) :
          /\ Put(o, AnsweredRecord(rec[o], reason, answer))
          /\ verified' = IF answer = "verified" THEN verified \cup {o} ELSE verified
          /\ IF answer = "verified" THEN Main("rechecking", main.at)
             ELSE Main("recover", main.at + 1)
    BY <1>2, <1>13 DEF RecoveryAnswered, Reconciled
  <2> DEFINE a == AnsweredRecord(rec[o], reason, answer)
  <2>2. Answered(a, rec[o], o, reason, answer) /\ Put(o, a)
    BY <1>3, <2>1, AnsweredFacts DEF Reasons
  <2> HIDE DEF a
  <2>3. a \in Records /\ a.begun = rec[o].begun
    BY <2>2 DEF Answered, Continues
  <2>4. o \in Effectful /\ (o \notin verified => rec[o].phase # "none")
    BY <1>2, <1>10, <1>13 DEF RecoveryAnswered, Traced, MainAt
  <2>5. CASE answer = "verified"
    <3>1. rec'[o] = a /\ a.sure = TRUE
      BY <1>3, <2>2, <2>3, <2>5, PutFacts DEF Answered
    <3>2. world[o] \in {"applied", "twice"}
      BY <1>3, <2>1, <2>5 DEF Answers, Worlds
    <3>3. Holds(o)'
      BY <1>3, <2>1, <2>4, <2>5, <3>1, <3>2, VerifiedHolds
    <3> QED
      BY <1>5, <3>3
  <2>6. CASE answer # "verified"
    <3>1. MainFits(o, a) /\ verified' = verified
      BY <1>6, <2>1, <2>6 DEF MainFits, AtNode
    <3>2. /\ a.sure = rec[o].sure /\ a.state \notin {"succeeded", "compensated"}
          /\ a.phase = "verified" => rec[o].phase = "verified"
          /\ a.phase = "none" => rec[o].phase = "none"
          /\ a.state \in {"pending", "ready"} => Safe(o)
          /\ a.phase \in Clear /\ rec[o].phase # "none" => Safe(o)
      BY <2>1, <2>2, <2>6 DEF Answered
    <3>3. o \notin verified => rec[o].phase # "verified"
      BY <1>10, <2>4 DEF Unverified
    <3> QED
      BY <1>8, <1>10, <2>2, <2>3, <2>4, <3>1, <3>2, <3>3
  <2> QED
    BY <2>5, <2>6
<1>14. CASE RecoveryRechecked \/ NodeCompensated
  <2>1. /\ verified' = verified /\ MainAway(o) /\ main'.pc \notin {"restarting", "polling"}
        /\ main.pc \in {"rechecking", "compensating"}
    BY <1>14, <1>6 DEF RecoveryRechecked, NodeCompensated, Main, AtNode
  <2>2. rec' = rec \/ Put(o, FailedRecord(rec[o])) \/ Put(o, Moved(o, "compensated"))
        \/ Put(o, rec[o])
    BY <1>2, <1>14 DEF RecoveryRechecked, Rechecked, NodeCompensated
  <2>3. rec' = rec \/ \E a \in Records : /\ Put(o, a) /\ a.begun = rec[o].begun
                                        /\ a.phase = rec[o].phase /\ a.sure = rec[o].sure
    BY <1>3, <1>11, <2>2, FailedFacts DEF Continues, NodeStates
  <2>4. o \in Effectful => o \in verified
    BY <1>2, <1>10, <2>1 DEF Unverified, MainAt
  <2>5. ASSUME NEW a \in Records, Put(o, a), a.begun = rec[o].begun,
               a.phase = rec[o].phase, a.sure = rec[o].sure
        PROVE  \A n \in Nodes : Holds(n)'
    <3>1. CASE o \in Effectful
      BY <1>8, <1>10, <2>1, <2>4, <2>5, <3>1 DEF MainFits
    <3>2. CASE o \notin Effectful
      BY <1>9, <1>10, <2>1, <2>5, <3>2
    <3> QED
      BY <3>1, <3>2
  <2> QED
    BY <1>7, <2>1, <2>3, <2>5
<1>15. CASE PrepareNode
  <2>1. /\ verified' = verified
        /\ \/ rec' = rec /\ Main("prepare", main.at + 1)
           \/ Put(o, Moved(o, "skipped")) /\ Main("prepare", main.at + 1)
           \/ rec' = rec /\ rec[o].state = "pending" /\ Main("condition", main.at)
    BY <1>2, <1>15 DEF PrepareNode
  <2>2. CASE rec' = rec /\ Main("prepare", main.at + 1)
    BY <1>6, <1>7, <2>1, <2>2 DEF AtNode
  <2>3. CASE Put(o, Moved(o, "skipped")) /\ Main("prepare", main.at + 1)
    <3> DEFINE a == Moved(o, "skipped")
    <3>1. /\ a \in Records /\ a.state = "skipped" /\ a.phase = rec[o].phase
          /\ a.begun = rec[o].begun /\ a.sure = rec[o].sure /\ Put(o, a)
      BY <1>11, <2>3 DEF NodeStates
    <3> HIDE DEF a
    <3>2. MainAway(o) /\ main'.pc = "prepare"
      BY <1>6, <2>3 DEF Main, AtNode
    <3>3. CASE o \in Effectful
      BY <1>8, <1>10, <2>1, <3>1, <3>2, <3>3 DEF MainFits, Unverified, Terminal
    <3>4. CASE o \notin Effectful
      BY <1>9, <1>10, <2>1, <3>1, <3>2, <3>4
    <3> QED
      BY <3>3, <3>4
  <2>4. CASE rec' = rec /\ rec[o].state = "pending" /\ Main("condition", main.at)
    <3>0. rec[o] \in Records /\ Put(o, rec[o]) /\ main'.pc = "condition"
      BY <1>3, <2>4 DEF Put, Main
    <3>1. CASE o \in Effectful /\ o \notin verified
      <4>1. Safe(o) /\ MainFits(o, rec[o])
        BY <1>10, <2>4, <3>0, <3>1 DEF Repeatable, MainFits
      <4> QED
        BY <1>8, <1>10, <2>1, <3>0, <3>1, <4>1 DEF Unverified
    <3>2. CASE o \in Effectful /\ o \in verified
      <4>1. Holds(o)'
        BY <1>3, <2>1, <2>4, <3>2 DEF Holds, WritesOnce, Safe
      <4> QED
        BY <1>5, <4>1
    <3>3. CASE o \notin Effectful
      BY <1>9, <1>10, <2>1, <3>0, <3>3
    <3> QED
      BY <3>1, <3>2, <3>3
  <2> QED
    BY <2>1, <2>2, <2>3, <2>4
<1>16. CASE ConditionEvaluated
  <2>1. PICK state \in {"ready", "skipped", "failed_terminal"} : Put(o, Moved(o, state))
    BY <1>2, <1>16 DEF ConditionEvaluated
  <2>2. verified' = verified /\ main'.pc = "prepare" /\ MainAway(o) /\ main.pc = "condition"
    BY <1>6, <1>16 DEF ConditionEvaluated, Main, AtNode
  <2> DEFINE a == Moved(o, state)
  <2>3. /\ a \in Records /\ a.state = state /\ a.phase = rec[o].phase
        /\ a.begun = rec[o].begun /\ a.sure = rec[o].sure /\ Put(o, a)
    BY <1>11, <2>1 DEF NodeStates
  <2> HIDE DEF a
  <2>4. CASE o \in Effectful
    <3>1. o \notin verified => Safe(o) /\ Unverified(o)
      BY <1>2, <1>10, <2>2, <2>4 DEF Repeatable, MainAt
    <3> QED
      BY <1>8, <1>10, <2>1, <2>2, <2>3, <2>4, <3>1 DEF MainFits, Unverified
  <2>5. CASE o \notin Effectful
    BY <1>9, <1>10, <2>2, <2>3, <2>5
  <2> QED
    BY <2>4, <2>5
<1> QED
  BY <1>12, <1>13, <1>14, <1>15, <1>16 DEF RecordMain
(* A task's step: what its node's record may become, and where it goes on.  *)
TaskBecomes(n, a) ==
  /\ rec'[n] = a /\ a.begun = rec[n].begun
  /\ world'[n] = world[n] /\ main' = main /\ ctl' = ctl
  /\ n \in verified' <=> n \in verified
  /\ task'[n].pc \notin {"started", "accounting", "rechecking"}
  /\ task'[n].pc = "handling" => Safe(n) \/ task'[n].wrote
  /\ n \in verified => a.sure
  /\ n \notin verified =>
       /\ a.sure = rec[n].sure /\ a.state \notin {"succeeded", "compensated"}
       /\ a.phase # "verified"
       /\ a.state \in {"pending", "ready"} => Safe(n) /\ task'[n].pc \in {"none", "backoff"}
       /\ a.state \notin Terminal /\ a.phase \in Clear => Safe(n)
       /\ task'[n].pc = "backoff" => Safe(n)
       /\ task'[n].pc \in {"handling", "validating"} =>
            a.phase \notin Clear \/ (a.state \in {"cancelled", "skipped"} /\ n \notin ctl.todo)
       /\ task'[n].pc \in {"retrying", "settling"} => a.phase # "none"

(* Such a step keeps the invariant: execute waits for its batch.            *)
LEMMA TaskHolds ==
  ASSUME NEW n \in Effectful, Holds(n), main.pc = "batch", task[n].pc # "none",
         NEW a, TaskBecomes(n, a)
  PROVE  Holds(n)'
<1>1. WritesOnce(n)'
  BY DEF Holds, TaskBecomes, WritesOnce, Safe
<1>2. CASE n \in verified
  BY <1>1, <1>2 DEF Holds, TaskBecomes
<1>3. CASE n \notin verified
  <2>1. /\ Unverified(n) /\ Repeatable(n) /\ ~rec[n].sure
        /\ n \notin verified' /\ ~rec'[n].sure
    BY <1>3 DEF Holds, TaskBecomes
  <2>2. Unverified(n)'
    BY <1>3, <2>1 DEF TaskBecomes, Unverified, MainAt, CtlAt
  <2>3. Repeatable(n)'
    BY <1>3, <2>1 DEF TaskBecomes, Repeatable, MainAt, Safe
  <2>4. Traced(n)'
    BY <1>3, <2>1 DEF TaskBecomes, Traced, MainAt
  <2> QED
    BY <1>1, <2>1, <2>2, <2>3, <2>4 DEF Holds
<1> QED
  BY <1>2, <1>3

(* A task's step keeps the invariant, for its node and for the others.      *)
LEMMA TaskStepHolds ==
  ASSUME SafeInv, ~LateWrites, NEW o \in Nodes, Accounted(o) \/ TaskStep(o)
  PROVE  \A n \in Nodes : Holds(n)'
<1>1. /\ UNCHANGED <<status, main, ctl>> /\ \A n \in Nodes : Holds(n)
      /\ \A n \in Nodes : CtlAway(n) /\ MainAway(n)
  BY Frames DEF SafeInv, CtlAway, CtlQuiet, MainAway
<1>2. /\ rec \in [Nodes -> Records] /\ rec[o] \in Records /\ world[o] \in Worlds /\ Holds(o)
      /\ task \in [Nodes -> Tasks] /\ world \in [Nodes -> Worlds] /\ task[o].pc # "none"
      /\ main.pc = "batch" /\ (TaskEnds(o) => task'[o].pc = "none")
  <2>1. task[o].pc # "none"
    BY DEF Accounted, TaskStep, InvokeHandler, HandlerWrites, HandlerAcknowledges, HandlerReturns,
           ResultAccepted, ValidatorThrows, HandlerThrows, HandlerTimesOut, RetryAnswered,
           SettlementAnswered, AnswerRechecked, BackoffEnds
  <2>2. TaskEnds(o) => task'[o].pc = "none"
    BY TaskFacts DEF SafeInv, Typed, TaskPcs
  <2> QED
    BY <1>1, <2>1, <2>2 DEF SafeInv, Typed, RecTyped, TasksInBatch
<1>3. \A n \in Nodes \ {o} : Untouched(n)
  <2>1. \A n \in Nodes \ {o} : rec'[n] = rec[n]
    <3>1. rec' = rec \/ \E a \in Records : Put(o, a)
      BY TaskRecords DEF SafeInv, OneRecord
    <3> QED
      BY <1>2, <3>1, PutFacts
  <2>2. \A n \in Nodes \ {o} : task'[n] = task[n]
    BY <1>2, TaskGoesOn, TaskFacts DEF SafeInv
  <2>3. /\ verified' = verified \/ verified' = verified \cup {o}
        /\ world' = world \/ \E w : world' = [world EXCEPT ![o] = w]
    BY DEF Accounted, TaskStep, InvokeHandler, HandlerWrites, HandlerAcknowledges, HandlerReturns,
           ResultAccepted, ValidatorThrows, HandlerThrows, HandlerTimesOut, RetryAnswered,
           SettlementAnswered, AnswerRechecked, BackoffEnds, Reconciled
  <2>4. \A n \in Nodes \ {o} : world'[n] = world[n]
    BY <1>2, <2>3
  <2> QED
    BY <2>1, <2>2, <2>3, <2>4 DEF Untouched
<1>4. ASSUME Holds(o)' PROVE \A n \in Nodes : Holds(n)'
  BY <1>1, <1>3, <1>4, Frame
<1>5. /\ o \in Effectful /\ o \in verified =>
           rec[o].sure /\ world[o] = "applied" /\ task[o].pc # "started" /\ WritesOnce(o)
      /\ o \in Effectful /\ o \notin verified =>
           ~rec[o].sure /\ WritesOnce(o) /\ Unverified(o) /\ Repeatable(o) /\ Traced(o)
      /\ o \notin Effectful => /\ rec[o].phase = "none" /\ ~rec[o].sure /\ o \notin verified
                              /\ task[o].pc \notin {"retrying", "settling"}
  BY <1>2 DEF Holds, WritesOnce, Safe
<1>6. ASSUME o \notin Effectful, rec'[o].phase = "none", ~rec'[o].sure, world'[o] = world[o],
             verified' = verified, task'[o].pc \notin {"retrying", "settling"}
      PROVE  \A n \in Nodes : Holds(n)'
  BY <1>1, <1>2, <1>4, <1>5, <1>6, PlainHolds
<1>7. \A state \in NodeStates :
        /\ Moved(o, state) \in Records /\ Moved(o, state).state = state
        /\ Moved(o, state).phase = rec[o].phase /\ Moved(o, state).begun = rec[o].begun
        /\ Moved(o, state).sure = rec[o].sure
  BY <1>2, InState DEF Moved, Continues
<1>8. CASE InvokeHandler(o)
  <2>1. /\ Put(o, IF o \notin Effectful THEN rec[o] ELSE Invoked(rec[o]))
        /\ Task(o, "handling") /\ world' = world /\ verified' = verified /\ task[o].pc = "started"
    BY <1>8 DEF InvokeHandler, Invoked
  <2>2. task'[o].pc = "handling"
    BY <1>2, <2>1, TaskFacts DEF TaskPcs
  <2>3. CASE o \notin Effectful
    <3>1. rec'[o] = rec[o]
      BY <1>2, <2>1, <2>3, PutFacts
    <3> QED
      BY <1>5, <1>6, <2>1, <2>2, <2>3, <3>1
  <2>4. CASE o \in Effectful
    <3> DEFINE a == Invoked(rec[o])
    <3>1. /\ Continues(a, rec[o]) /\ a.state = rec[o].state /\ a.sure = rec[o].sure
          /\ a.phase \in {"prepared", "partially_applied"} /\ Put(o, a)
      BY <1>2, <2>1, <2>4, InvokedFacts
    <3> HIDE DEF a
    <3>2. rec'[o] = a /\ a.begun = rec[o].begun
      BY <1>2, <3>1, PutFacts DEF Continues
    <3>3. Safe(o)
      BY <1>5, <2>1, <2>4 DEF WritesOnce
    <3>4. TaskBecomes(o, a)
      BY <1>1, <1>5, <2>1, <2>2, <2>4, <3>1, <3>2, <3>3 DEF TaskBecomes, Unverified, Traced, Clear
    <3> QED
      BY <1>2, <1>4, <2>4, <3>4, TaskHolds
  <2> QED
    BY <2>3, <2>4
<1>9. CASE HandlerWrites(o)
  <2>1. /\ task[o].pc = "handling" /\ o \in Effectful /\ ~task[o].wrote
        /\ task' = [task EXCEPT ![o].wrote = TRUE] /\ rec' = rec /\ verified' = verified
        /\ \E w \in Touched(world[o]) : world' = [world EXCEPT ![o] = w]
    BY <1>9 DEF HandlerWrites
  <2>2. Safe(o) /\ o \notin verified
    BY <1>5, <2>1 DEF WritesOnce, Safe
  <2>3. world'[o] \in {"partial", "applied"}
    BY <1>2, <2>1, <2>2 DEF Safe, Touched
  <2>4. task'[o].pc = "handling" /\ task'[o].wrote = TRUE
    BY <1>2, <2>1, TaskFacts
  <2>5. WritesOnce(o)'
    BY <2>3, <2>4 DEF WritesOnce
  <2>6. Unverified(o)'
    BY <1>1, <1>5, <2>1, <2>2, <2>4 DEF Unverified, MainAt, CtlAt
  <2>7. Repeatable(o)'
    BY <1>1, <1>2, <1>5, <2>1, <2>2, <2>4 DEF Repeatable, Traced, MainAt, Terminal
  <2>8. Traced(o)'
    BY <1>1, <1>5, <2>1, <2>2, <2>4 DEF Traced, MainAt
  <2>9. Holds(o)'
    BY <1>5, <2>1, <2>2, <2>5, <2>6, <2>7, <2>8 DEF Holds
  <2> QED
    BY <1>4, <2>9
<1>10. CASE HandlerAcknowledges(o)
  <2> DEFINE phase == IF rec[o].phase = "none" THEN rec[o].phase ELSE "external_write_acknowledged"
             a == [rec[o] EXCEPT !.phase = phase]
  <2>1. phase \in Phases
    BY <1>2, FieldsOf DEF Phases
  <2>2. /\ Put(o, a) /\ task' = task /\ world' = world /\ verified' = verified
        /\ task[o].pc = "handling" /\ task[o].wrote
    BY <1>2, <1>10 DEF HandlerAcknowledges, Records
  <2>3. phase = IF rec[o].phase = "none" THEN "none" ELSE "external_write_acknowledged"
    OBVIOUS
  <2> HIDE DEF phase
  <2>4. Continues(a, rec[o]) /\ a.state = rec[o].state /\ a.phase = phase /\ a.sure = rec[o].sure
    BY <1>2, <2>1, InPhase
  <2> HIDE DEF a
  <2>5. rec'[o] = a /\ a.begun = rec[o].begun
    BY <1>2, <2>2, <2>4, PutFacts DEF Continues
  <2>6. CASE o \notin Effectful
    BY <1>5, <1>6, <2>2, <2>3, <2>4, <2>5, <2>6
  <2>7. CASE o \in Effectful
    <3>1. TaskBecomes(o, a)
      BY <1>1, <1>5, <2>2, <2>3, <2>4, <2>5, <2>7
         DEF TaskBecomes, Unverified, Repeatable, Traced, Clear
    <3> QED
      BY <1>2, <1>4, <2>7, <3>1, TaskHolds
  <2> QED
    BY <2>6, <2>7
<1>11. CASE HandlerReturns(o)
  <2>1. /\ world' = world /\ verified' = verified /\ task[o].pc = "handling"
        /\ \/ rec' = rec /\ TaskEnds(o)
           \/ /\ ~Overtaken(o) /\ rec[o].state = "running"
              /\ Put(o, Completed(o)) /\ Task(o, "validating")
           \/ /\ ~Overtaken(o) /\ rec[o].state = "running" /\ TaskEnds(o)
              /\ \E state \in Waiting : Put(o, WaitingRecord(Completed(o), state))
    BY <1>11 DEF HandlerReturns
  <2> DEFINE c == Completed(o)
  <2>2. /\ Continues(c, rec[o]) /\ c.state = rec[o].state /\ c.sure = rec[o].sure
        /\ c.phase = IF rec[o].phase = "none" THEN "none" ELSE "handler_completed"
        /\ c \in Records
    BY <1>2, PhaseFacts DEF Continues
  <2> HIDE DEF c
  <2>3. o \in Effectful /\ o \notin verified /\ rec[o].state = "running" => rec[o].phase \notin Clear
    BY <1>5, <2>1 DEF Traced
  <2>4. CASE rec' = rec /\ TaskEnds(o)
    <3>1. task'[o].pc = "none"
      BY <1>2, <2>4, TaskFacts
    <3>2. CASE o \notin Effectful
      BY <1>5, <1>6, <2>1, <2>4, <3>1, <3>2
    <3>3. CASE o \in Effectful
      <4>1. TaskBecomes(o, rec[o])
        BY <1>1, <1>5, <2>1, <2>4, <3>1, <3>3 DEF TaskBecomes, Unverified, Repeatable
      <4> QED
        BY <1>2, <1>4, <3>3, <4>1, TaskHolds
    <3> QED
      BY <3>2, <3>3
  <2>5. CASE rec[o].state = "running" /\ Put(o, c) /\ Task(o, "validating")
    <3>1. task'[o].pc = "validating" /\ rec'[o] = c
      BY <1>2, <2>2, <2>5, TaskFacts, PutFacts DEF TaskPcs
    <3>2. CASE o \notin Effectful
      BY <1>5, <1>6, <2>1, <2>2, <3>1, <3>2
    <3>3. CASE o \in Effectful
      <4>1. TaskBecomes(o, c)
        BY <1>1, <1>5, <2>1, <2>2, <2>3, <2>5, <3>1, <3>3
           DEF TaskBecomes, Unverified, Repeatable, Clear, Continues
      <4> QED
        BY <1>2, <1>4, <3>3, <4>1, TaskHolds
    <3> QED
      BY <3>2, <3>3
  <2>6. ASSUME NEW state \in Waiting, rec[o].state = "running", Put(o, WaitingRecord(c, state)),
               TaskEnds(o)
        PROVE  \A n \in Nodes : Holds(n)'
    <3> DEFINE a == WaitingRecord(c, state)
    <3>1. /\ Continues(a, c) /\ a.state = state /\ a.sure = c.sure /\ Put(o, a)
          /\ a.phase = IF state = "waiting_for_external_action" /\ c.phase # "none"
                         THEN "pending_external" ELSE c.phase
      BY <2>2, <2>6, WaitingFacts
    <3> HIDE DEF a
    <3>2. task'[o].pc = "none" /\ rec'[o] = a
      BY <1>2, <2>6, <3>1, TaskFacts, PutFacts DEF Continues
    <3>3. CASE o \notin Effectful
      BY <1>5, <1>6, <2>1, <2>2, <3>1, <3>2, <3>3
    <3>4. CASE o \in Effectful
      <4>1. TaskBecomes(o, a)
        BY <1>1, <1>5, <2>1, <2>2, <2>3, <2>6, <3>1, <3>2, <3>4
           DEF TaskBecomes, Unverified, Repeatable, Clear, Continues, Waiting
      <4> QED
        BY <1>2, <1>4, <3>4, <4>1, TaskHolds
    <3> QED
      BY <3>3, <3>4
  <2> QED
    BY <2>1, <2>4, <2>5, <2>6 DEF c
<1>12. CASE ResultAccepted(o)
  <2> DEFINE a == [rec[o] EXCEPT !.sure = TRUE, !.phase = "verified"]
  <2>1. /\ Put(o, IF o \in Effectful THEN a ELSE rec[o]) /\ Task(o, "accounting")
        /\ verified' = IF o \in Effectful THEN verified \cup {o} ELSE verified
        /\ world' = world /\ ReadBack(o)
    BY <1>12 DEF ResultAccepted
  <2>2. Continues(a, rec[o]) /\ a.sure = TRUE
    BY <1>2, VerifiedFacts DEF NodeStates
  <2> HIDE DEF a
  <2>3. task'[o].pc = "accounting"
    BY <1>2, <2>1, TaskFacts DEF TaskPcs
  <2>4. CASE o \notin Effectful
    <3>1. rec'[o] = rec[o]
      BY <1>2, <2>1, <2>4, PutFacts
    <3> QED
      BY <1>5, <1>6, <2>1, <2>3, <2>4, <3>1
  <2>5. CASE o \in Effectful
    <3>1. rec'[o] = a
      BY <1>2, <2>1, <2>2, <2>5, PutFacts DEF Continues
    <3>2. world[o] \in {"applied", "twice"}
      BY <2>1, <2>5 DEF ReadBack
    <3>3. Holds(o)'
      BY <1>2, <2>1, <2>2, <2>3, <2>5, <3>1, <3>2, VerifiedHolds
    <3> QED
      BY <1>4, <3>3
  <2> QED
    BY <2>4, <2>5
<1>13. CASE Accounted(o) \/ AnswerRechecked(o)
  <2>1. /\ task[o].pc \in {"accounting", "rechecking"} /\ TaskEnds(o)
        /\ world' = world /\ verified' = verified
        /\ \/ rec' = rec \/ Put(o, rec[o]) \/ Put(o, FailedRecord(rec[o]))
           \/ Put(o, [Moved(o, "succeeded") EXCEPT !.tries = 0])
    BY <1>13 DEF Accounted, AnswerRechecked, Rechecked
  <2>2. \E a \in Records : /\ Put(o, a) /\ a.begun = rec[o].begun /\ a.phase = rec[o].phase
                           /\ a.sure = rec[o].sure
    <3>1. Put(o, rec[o]) <=> rec' = rec
      BY <1>2 DEF Put
    <3> DEFINE a == [Moved(o, "succeeded") EXCEPT !.tries = 0]
               f == FailedRecord(rec[o])
    <3>2. a \in Records /\ a.begun = rec[o].begun /\ a.phase = rec[o].phase /\ a.sure = rec[o].sure
      BY <1>2, AccountedFacts DEF Moved, Continues
    <3>3. f \in Records /\ f.begun = rec[o].begun /\ f.phase = rec[o].phase /\ f.sure = rec[o].sure
      BY <1>2, FailedFacts DEF Continues
    <3>4. rec' = rec \/ Put(o, rec[o]) \/ Put(o, f) \/ Put(o, a)
      BY <2>1
    <3> HIDE DEF a, f
    <3> QED
      BY <1>2, <3>1, <3>2, <3>3, <3>4
  <2>3. PICK a \in Records : /\ Put(o, a) /\ a.begun = rec[o].begun /\ a.phase = rec[o].phase
                             /\ a.sure = rec[o].sure
    BY <2>2
  <2>4. rec'[o] = a /\ task'[o].pc = "none"
    BY <1>2, <2>1, <2>3, PutFacts, TaskFacts
  <2>5. CASE o \notin Effectful
    BY <1>5, <1>6, <2>1, <2>3, <2>4, <2>5
  <2>6. CASE o \in Effectful
    <3>1. o \in verified
      BY <1>5, <2>1, <2>6 DEF Unverified
    <3>2. TaskBecomes(o, a)
      BY <1>1, <1>5, <2>1, <2>3, <2>4, <2>6, <3>1 DEF TaskBecomes
    <3> QED
      BY <1>2, <1>4, <2>6, <3>2, TaskHolds
  <2> QED
    BY <2>5, <2>6
<1>14. CASE RetryAnswered(o) \/ SettlementAnswered(o)
  <2>1. task[o].pc \in {"retrying", "settling"} /\ world' = world
    BY <1>14 DEF RetryAnswered, SettlementAnswered
  <2>2. PICK answer \in Answers(o) :
          LET r == AnsweredRecord(rec[o], "retry", answer) IN
          /\ verified' = IF answer = "verified" THEN verified \cup {o} ELSE verified
          /\ Put(o, r) \/ Put(o, SettledRecord(r))
          /\ answer = "verified" => Task(o, "rechecking")
          /\ answer # "verified" =>
               TaskEnds(o) \/ (Task(o, "backoff") /\ rec'[o].state = "pending")
    <3>1. CASE RetryAnswered(o)
      <4>1. PICK answer \in Answers(o) :
              /\ Put(o, AnsweredRecord(rec[o], "retry", answer))
              /\ verified' = IF answer = "verified" THEN verified \cup {o} ELSE verified
              /\ CASE answer = "verified" -> Task(o, "rechecking")
                   [] rec'[o].state = "pending" -> Task(o, "backoff")
                   [] OTHER -> TaskEnds(o)
        BY <3>1 DEF RetryAnswered, Reconciled
      <4>2. CASE answer = "verified"
        <5> DEFINE a == AnsweredRecord(rec[o], "retry", answer)
        <5>1. Answered(a, rec[o], o, "retry", answer) /\ Put(o, a)
          BY <1>2, <4>1, AnsweredFacts DEF Reasons
        <5> HIDE DEF a
        <5>2. rec'[o].state = "succeeded"
          BY <1>2, <4>2, <5>1, PutFacts DEF Answered, Continues
        <5>3. Task(o, "rechecking")
          BY <4>1, <4>2, <5>2
        <5> QED
          BY <4>1, <4>2, <5>3
      <4>3. CASE answer # "verified"
        BY <4>1, <4>3
      <4> QED
        BY <4>1, <4>2, <4>3
    <3>2. CASE SettlementAnswered(o)
      BY <3>2 DEF SettlementAnswered
    <3> QED
      BY <1>14, <3>1, <3>2
  <2> DEFINE r == AnsweredRecord(rec[o], "retry", answer)
  <2>3. Answered(r, rec[o], o, "retry", answer) /\ (Put(o, r) \/ Put(o, SettledRecord(r)))
    BY <1>2, <2>2, AnsweredFacts DEF Reasons
  <2> HIDE DEF r
  <2>4. r \in Records
    BY <2>3 DEF Answered, Continues
  <2>5. PICK a \in Records : /\ Put(o, a) /\ Continues(a, r) /\ a.phase = r.phase
                             /\ a.sure = r.sure
                             /\ a.state = r.state \/ a.state = "failed_terminal"
    BY <2>3, <2>4, SettledFacts DEF Continues
  <2>6. o \in Effectful /\ rec'[o] = a /\ a.begun = rec[o].begun
        /\ (o \notin verified => rec[o].phase # "none")
    <3>1. rec'[o] = a /\ a.begun = rec[o].begun
      BY <1>2, <2>3, <2>5, PutFacts DEF Answered, Continues
    <3> QED
      BY <1>5, <2>1, <3>1 DEF Traced
  <2>7. CASE answer = "verified"
    <3>1. a.sure
      BY <2>3, <2>5, <2>7 DEF Answered
    <3>2. world[o] \in {"applied", "twice"}
      BY <1>2, <2>2, <2>7 DEF Answers, Worlds
    <3>3. task'[o].pc = "rechecking"
      BY <1>2, <2>2, <2>7, TaskFacts DEF TaskPcs
    <3>4. Holds(o)'
      BY <1>2, <2>1, <2>2, <2>6, <2>7, <3>1, <3>2, <3>3, VerifiedHolds
    <3> QED
      BY <1>4, <3>4
  <2>8. CASE answer # "verified"
    <3>1. /\ a.sure = rec[o].sure /\ a.state \notin {"succeeded", "compensated", "ready"}
          /\ a.phase = "verified" => rec[o].phase = "verified"
          /\ a.state = "pending" => Safe(o)
          /\ a.phase \in Clear /\ rec[o].phase # "none" => Safe(o)
      BY <2>3, <2>5, <2>8 DEF Answered
    <3>2. \/ task'[o].pc = "none"
          \/ task'[o].pc = "backoff" /\ a.state = "pending"
      BY <1>2, <2>2, <2>6, <2>8, TaskFacts DEF TaskPcs
    <3>3. verified' = verified
      BY <2>2, <2>8
    <3>4. TaskBecomes(o, a)
      BY <1>1, <1>5, <2>1, <2>6, <3>1, <3>2, <3>3 DEF TaskBecomes, Unverified
    <3> QED
      BY <1>2, <1>4, <2>6, <3>4, TaskHolds
  <2> QED
    BY <2>7, <2>8
<1>15. CASE ValidatorThrows(o) \/ HandlerThrows(o) \/ HandlerTimesOut(o)
  <2>1. /\ world' = world /\ verified' = verified
        /\ task[o].pc \in {"started", "handling", "validating"}
    BY <1>15 DEF ValidatorThrows, HandlerThrows, HandlerTimesOut
  <2>2. PICK error \in Errors :
          /\ Caught(o, error)
          /\ error = "no_write" => task[o].pc = "handling" /\ ~task[o].wrote
          /\ task[o].pc = "started" => error = "terminal"
    BY <1>15 DEF ValidatorThrows, HandlerThrows, HandlerTimesOut, Errors
  <2>3. PICK a \in Records, pc \in {"none", "backoff", "retrying", "settling"} :
          CaughtAs(o, error, a, pc)
    BY <1>2, <2>2, CaughtFacts
  <2>4. /\ rec'[o] = a /\ a.begun = rec[o].begun /\ (rec[o].sure => a.sure)
        /\ task'[o].pc = pc
    BY <1>2, <2>3, PutFacts, TaskFacts DEF CaughtAs, Continues, TaskPcs
  <2> DEFINE r == CaughtRecord(o, error)
  <2>5. r.phase = IF error = "no_write" /\ rec[o].phase \notin {"none", "partially_applied"}
                    THEN "not_applied" ELSE rec[o].phase
    BY <1>2, PhaseFacts
  <2>6. o \notin verified =>
          /\ a.sure = rec[o].sure
          /\ \/ a = rec[o] /\ pc = "none" /\ Overtaken(o)
             \/ /\ ~Overtaken(o)
                /\ a.state \in {rec[o].state, "failed_retryable", "failed_terminal",
                                "waiting_for_auth", "waiting_for_external_action"}
                /\ a.phase = "verified" => r.phase = "verified"
                /\ a.phase = "none" <=> r.phase = "none"
                /\ a.phase \in Clear => r.phase \in Clear
                /\ pc = "backoff" => o \notin Effectful \/ r.phase \in Clear \cup {"verified"}
                /\ pc \in {"retrying", "settling"} => o \in Effectful /\ r.phase # "none"
    BY <2>3 DEF CaughtAs
  <2> HIDE DEF r
  <2>7. CASE o \notin Effectful
    <3>1. r.phase = "none" /\ o \notin verified
      BY <1>5, <2>5, <2>7
    <3>2. a.phase = "none" /\ ~a.sure /\ pc \notin {"retrying", "settling"}
      BY <1>5, <2>6, <2>7, <3>1
    <3> QED
      BY <1>6, <2>1, <2>4, <2>7, <3>2
  <2>8. CASE o \in Effectful /\ o \in verified
    <3>1. TaskBecomes(o, a)
      BY <1>1, <1>5, <2>1, <2>3, <2>4, <2>8 DEF TaskBecomes
    <3> QED
      BY <1>2, <1>4, <2>8, <3>1, TaskHolds
  <2>9. CASE o \in Effectful /\ o \notin verified
    <3>1. rec[o].state \notin {"pending", "ready", "succeeded", "compensated"}
          /\ rec[o].phase # "verified" /\ r.phase # "verified"
      BY <1>5, <2>1, <2>5, <2>9 DEF Unverified, Traced
    <3>2. CASE a = rec[o] /\ pc = "none"
      <4>1. TaskBecomes(o, a)
        BY <1>1, <1>5, <2>1, <2>4, <2>9, <3>1, <3>2 DEF TaskBecomes, Repeatable
      <4> QED
        BY <1>2, <1>4, <2>9, <4>1, TaskHolds
    <3>3. CASE ~Overtaken(o)
      <4>1. r.phase \in Clear => Safe(o)
        <5>1. CASE error = "no_write" \/ task[o].pc = "started"
          BY <1>5, <2>2, <2>9, <5>1 DEF WritesOnce
        <5>2. CASE error # "no_write" /\ task[o].pc # "started"
          BY <1>5, <2>1, <2>5, <2>9, <3>3, <5>2 DEF Traced, Overtaken
        <5> QED
          BY <5>1, <5>2
      <4>2. CASE a = rec[o] /\ pc = "none"
        BY <3>2, <4>2
      <4>3. CASE ~(a = rec[o] /\ pc = "none")
        <5>1. TaskBecomes(o, a)
          BY <1>1, <1>5, <2>1, <2>4, <2>6, <2>9, <3>1, <4>1, <4>3 DEF TaskBecomes, Terminal
        <5> QED
          BY <1>2, <1>4, <2>9, <5>1, TaskHolds
      <4> QED
        BY <4>2, <4>3
    <3> QED
      BY <2>6, <2>9, <3>2, <3>3
  <2> QED
    BY <2>7, <2>8, <2>9
<1>16. CASE BackoffEnds(o)
  <2>1. /\ task[o].pc = "backoff" /\ TaskEnds(o) /\ world' = world /\ verified' = verified
        /\ Put(o, Moved(o, "ready")) \/ rec' = rec
    BY <1>16 DEF BackoffEnds
  <2>2. task'[o].pc = "none"
    BY <1>2, <2>1, TaskFacts
  <2>3. PICK a \in Records : /\ rec'[o] = a /\ a.begun = rec[o].begun /\ a.phase = rec[o].phase
                             /\ a.sure = rec[o].sure /\ a.state \in {"ready", rec[o].state}
    BY <1>2, <1>7, <2>1, PutFacts DEF NodeStates
  <2>4. CASE o \notin Effectful
    BY <1>5, <1>6, <2>1, <2>2, <2>3, <2>4
  <2>5. CASE o \in Effectful
    <3>1. o \notin verified => Safe(o)
      BY <1>5, <2>1, <2>5 DEF Repeatable
    <3>2. TaskBecomes(o, a)
      BY <1>1, <1>5, <2>1, <2>2, <2>3, <2>5, <3>1 DEF TaskBecomes, Unverified
    <3> QED
      BY <1>2, <1>4, <2>5, <3>2, TaskHolds
  <2> QED
    BY <2>4, <2>5
<1> QED
  BY <1>8, <1>9, <1>10, <1>11, <1>12, <1>13, <1>14, <1>15, <1>16 DEF TaskStep
(* A cancellation's step keeps the invariant.                               *)
LEMMA CtlHolds == ASSUME SafeInv, CtlStep PROVE \A n \in Nodes : Holds(n)'
<1>1. /\ UNCHANGED <<status, main, task, world>> /\ \A n \in Nodes : Holds(n)
      /\ \A n \in Nodes : MainAway(n) /\ task'[n] = task[n] /\ world'[n] = world[n]
      /\ rec \in [Nodes -> Records] /\ world \in [Nodes -> Worlds] /\ ctl'.todo \subseteq ctl.todo
      /\ \A n \in Nodes : rec[n] \in Records
  BY Frames, CtlGoes DEF SafeInv, Typed, RecTyped, MainAway, CtlMoves
<1>2. ASSUME NEW o \in Nodes, NEW a \in Records, rec' = rec \/ Put(o, a),
             verified' = verified \/ verified' = verified \cup {o}, Holds(o)',
             ctl'.pc = "rechecking" => NextOf(ctl'.todo) = o,
             ctl'.pc = "compensating" => Order[ctl'.at] = o
      PROVE  \A n \in Nodes : Holds(n)'
  <2>1. \A n \in Nodes \ {o} : rec'[n] = rec[n]
    BY <1>1, <1>2, PutFacts
  <2>2. \A n \in Nodes \ {o} : Untouched(n) /\ CtlAway(n)
    BY <1>1, <1>2, <2>1 DEF Untouched, CtlAway, CtlQuiet
  <2> QED
    BY <1>1, <1>2, <2>2, Frame
<1>3. CASE CancelCompensates
  <2>0. /\ ctl.pc \in {"interrupted", "compensate"} /\ ctl.at \in 0..Len(Order)
        /\ \/ ctl'.pc \in {"idle", "compensate"}
           \/ /\ ctl.at > 0 /\ Compensable(rec[Order[ctl.at]]) /\ ctl'.pc = "compensating"
              /\ ctl'.at = ctl.at
    <3>1. ctl \in [pc : CtlPcs, todo : SUBSET Nodes, at : 0..Len(Order)]
      BY DEF SafeInv, Typed, CtlTyped
    <3> DEFINE A == [ctl EXCEPT !.pc = "compensating"]
               at == ctl.at - 1
               B == [ctl EXCEPT !.pc = "compensate", !.at = at]
    <3>2. \/ ctl' = NoCtl
          \/ /\ ctl.at > 0
             /\ ctl' = IF Order[ctl.at] \in OnCancel /\ Compensable(rec[Order[ctl.at]])
                         THEN A ELSE B
      BY <1>3 DEF CancelCompensates
    <3>3. A.pc = "compensating" /\ A.at = ctl.at
      BY <3>1
    <3> HIDE DEF at
    <3>4. B.pc = "compensate"
      BY <3>1
    <3>5. ctl.pc \in {"interrupted", "compensate"} /\ ctl.at \in 0..Len(Order)
      BY <1>3, <3>1 DEF CancelCompensates
    <3> HIDE DEF A, B
    <3> QED
      BY <3>2, <3>3, <3>4, <3>5 DEF NoCtl
  <2>1. rec' = rec /\ verified' = verified
    BY <1>3 DEF CancelCompensates
  <2>2. CASE ctl'.pc # "compensating"
    <3>1. ctl'.pc # "rechecking"
      BY <2>0, <2>2
    <3>2. \A n \in Nodes : Untouched(n) /\ CtlAway(n)
      BY <1>1, <2>1, <2>2, <3>1 DEF Untouched, CtlAway, CtlQuiet
    <3> QED
      BY <1>1, <3>2, Frame
  <2>3. CASE ctl'.pc = "compensating"
    <3>1. /\ ctl.at > 0 /\ Compensable(rec[Order[ctl.at]]) /\ ctl'.at = ctl.at
          /\ ctl.at \in 0..Len(Order)
      BY <2>0, <2>3
    <3>2. PICK o \in Nodes : o = Order[ctl.at]
      BY <3>1, Bounds DEF Positions
    <3>3. CASE o \in Effectful
      <4>1. o \in verified
        BY <1>1, <3>1, <3>2, <3>3 DEF Holds, Unverified, Compensable
      <4>2. Holds(o)'
        BY <1>1, <2>1, <3>3, <4>1 DEF Holds, WritesOnce, Safe
      <4> QED
        BY <1>1, <1>2, <2>1, <2>3, <3>1, <3>2, <4>2
    <3>4. CASE o \notin Effectful
      <4>1. Holds(o)'
        BY <1>1, <2>1, <3>4 DEF Holds, MainAt
      <4> QED
        BY <1>1, <1>2, <2>1, <2>3, <3>1, <3>2, <4>1
    <3> QED
      BY <3>3, <3>4
  <2> QED
    BY <2>2, <2>3
<1>4. CASE CancelCompensated
  <2>1. PICK o \in Nodes : o = Order[ctl.at]
    BY <1>4, Bounds DEF CancelCompensated, SafeInv, Typed, CtlTyped
  <2>2. /\ verified' = verified /\ ctl.pc = "compensating" /\ ctl'.pc = "compensate"
        /\ Put(o, Moved(o, "compensated")) \/ Put(o, rec[o])
    BY <1>4, <2>1 DEF CancelCompensated, SafeInv, Typed, CtlTyped
  <2>3. PICK a \in Records : /\ Put(o, a) /\ a.begun = rec[o].begun /\ a.phase = rec[o].phase
                             /\ a.sure = rec[o].sure
    <3> DEFINE m == Moved(o, "compensated")
    <3>1. m \in Records /\ m.begun = rec[o].begun /\ m.phase = rec[o].phase /\ m.sure = rec[o].sure
      BY <1>1, InState DEF Moved, Continues, NodeStates
    <3>2. Put(o, m) \/ Put(o, rec[o])
      BY <2>2
    <3> HIDE DEF m
    <3> QED
      BY <1>1, <3>1, <3>2
  <2>4. rec'[o] = a /\ CtlAway(o)
    BY <1>1, <2>2, <2>3, PutFacts DEF CtlAway, CtlQuiet
  <2>5. CASE o \in Effectful
    <3>1. o \in verified
      BY <1>1, <2>1, <2>2, <2>5 DEF Holds, Unverified, CtlAt
    <3>2. Becomes(o, a) /\ MainFits(o, a)
      BY <1>1, <2>2, <2>3, <2>4, <2>5, <3>1 DEF Becomes, Holds, MainFits
    <3>3. Holds(o)'
      BY <1>1, <2>4, <2>5, <3>2, BecomesHolds
    <3> QED
      BY <1>2, <2>2, <2>3, <3>3
  <2>6. CASE o \notin Effectful
    <3>1. Holds(o)'
      BY <1>1, <2>2, <2>3, <2>4, <2>6 DEF Holds, MainAt
    <3> QED
      BY <1>2, <2>2, <2>3, <3>1
  <2> QED
    BY <2>5, <2>6
<1>5. CASE ReconcileInterrupted \/ CancelAnswered \/ CancelRechecked
  <2>0. ctl.todo # {} /\ ctl.todo \subseteq Effectful
    BY <1>5 DEF ReconcileInterrupted, CancelAnswered, CancelRechecked, SafeInv, Typed, CtlTyped
  <2>1. PICK o \in Nodes : o = NextInterrupted /\ o = NextOf(ctl.todo) /\ o \in ctl.todo
    BY <2>0, NextFacts DEF SafeInv
  <2>2. /\ o \in Effectful /\ Holds(o) /\ MainAway(o) /\ rec[o] \in Records /\ world[o] \in Worlds
        /\ task'[o] = task[o] /\ world'[o] = world[o]
    BY <1>1, <2>0, <2>1
  <2>3. o \notin verified =>
          /\ ~rec[o].sure /\ Unverified(o) /\ Repeatable(o) /\ Traced(o)
          /\ task[o].pc \in {"handling", "validating"} => rec[o].phase \notin Clear
    BY <2>1, <2>2 DEF Holds, Traced
  <2>4. ASSUME NEW a \in Records, Put(o, a), verified' = verified, a.begun = rec[o].begun,
               ctl'.pc \in {"interrupted", "reconciling"}, o \in verified => a.sure,
               o \notin verified =>
                 /\ a.sure = rec[o].sure
                 /\ a.state \in {rec[o].state, "cancelled", "failed_terminal"}
                 /\ a.phase # "verified" /\ (a.phase = "none" => rec[o].phase = "none")
                 /\ \/ a.phase \in Clear => rec[o].phase \in Clear
                    \/ a.state = "cancelled" /\ o \notin ctl'.todo
        PROVE  \A n \in Nodes : Holds(n)'
    <3>1. rec'[o] = a /\ CtlAway(o)
      BY <1>1, <2>4, PutFacts DEF CtlAway, CtlQuiet
    <3>2. Becomes(o, a) /\ MainFits(o, a)
      BY <2>2, <2>3, <2>4, <3>1
         DEF Becomes, MainFits, Unverified, Repeatable, Traced, Terminal
    <3>3. Holds(o)'
      BY <2>2, <3>1, <3>2, BecomesHolds
    <3> QED
      BY <1>2, <2>4, <3>3
  <2>5. ctl \in [pc : CtlPcs, todo : SUBSET Nodes, at : 0..Len(Order)]
    BY DEF SafeInv, Typed, CtlTyped
  <2>6. CASE ReconcileInterrupted
    <3> DEFINE a == AskedRecord(o, rec[o], "cancel")
    <3>1. Put(o, a) /\ verified' = verified /\ ctl'.pc \in {"interrupted", "reconciling"}
      BY <2>1, <2>5, <2>6 DEF ReconcileInterrupted
    <3>2. a \in Records /\ a.begun = rec[o].begun
      BY <2>2, AskedFacts DEF Reasons, Continues
    <3>3. CASE o \in verified
      <4>1. ~Asks(o, rec[o])
        BY <3>3 DEF Asks
      <4>2. a = ReusedRecord(rec[o])
        BY <2>2, <3>3, <4>1, AskedFacts DEF Reasons
      <4>3. a.sure
        BY <2>2, <4>2, ReusedFacts
      <4> HIDE DEF a
      <4> QED
        BY <2>4, <3>1, <3>2, <3>3, <4>3
    <3>4. CASE o \notin verified
      <4>1. rec[o].phase = "none" => a = rec[o]
        BY <2>2, <3>4, AskedFacts DEF Reasons
      <4>2. rec[o].phase # "none" =>
              /\ a.phase # "none" /\ (a.phase \in Clear => rec[o].phase \in Clear)
              /\ a.sure = rec[o].sure /\ (a.phase = "verified" => rec[o].phase = "verified")
              /\ a.state \in {rec[o].state, "failed_terminal"}
        BY <2>2, <3>4, AskedFacts DEF Reasons
      <4> HIDE DEF a
      <4> QED
        BY <2>3, <2>4, <3>1, <3>2, <3>4, <4>1, <4>2 DEF Unverified
    <3> QED
      BY <3>3, <3>4
  <2>7. CASE CancelAnswered
    <3>1. PICK answer \in Answers(o) :
            /\ Put(o, AnsweredRecord(rec[o], "cancel", answer))
            /\ verified' = IF answer = "verified" THEN verified \cup {o} ELSE verified
            /\ ctl' = IF answer = "verified" THEN [ctl EXCEPT !.pc = "rechecking"]
                      ELSE [ctl EXCEPT !.pc = "interrupted", !.todo = ctl.todo \ {o}]
      BY <2>1, <2>7 DEF CancelAnswered, Reconciled
    <3> DEFINE a == AnsweredRecord(rec[o], "cancel", answer)
    <3>2. Answered(a, rec[o], o, "cancel", answer) /\ Put(o, a)
      BY <2>2, <3>1, AnsweredFacts DEF Reasons
    <3> HIDE DEF a
    <3>3. a \in Records /\ a.begun = rec[o].begun
      BY <3>2 DEF Answered, Continues
    <3>4. CASE answer = "verified"
      <4>1. rec'[o] = a /\ a.sure /\ o \in verified'
        BY <1>1, <3>1, <3>2, <3>3, <3>4, PutFacts DEF Answered
      <4>2. world[o] \in {"applied", "twice"}
        BY <2>2, <3>1, <3>4 DEF Answers, Worlds
      <4>3. Holds(o)'
        BY <2>2, <4>1, <4>2, VerifiedHolds
      <4>4. ctl'.pc = "rechecking" /\ ctl'.todo = ctl.todo
        BY <2>5, <3>1, <3>4
      <4> QED
        BY <1>2, <2>1, <3>1, <3>2, <3>3, <3>4, <4>3, <4>4
    <3>5. CASE answer # "verified"
      <4>1. ctl'.pc = "interrupted" /\ o \notin ctl'.todo
        <5> DEFINE c == [ctl EXCEPT !.pc = "interrupted"]
                   todo == ctl.todo \ {o}
        <5>1. c \in [pc : CtlPcs, todo : SUBSET Nodes, at : 0..Len(Order)] /\ c.pc = "interrupted"
          BY <2>5 DEF CtlPcs
        <5>2. ctl' = [c EXCEPT !.todo = todo] /\ o \notin todo
          BY <3>1, <3>5
        <5> HIDE DEF c, todo
        <5> QED
          BY <5>1, <5>2
      <4>2. /\ a.sure = rec[o].sure /\ (a.phase = "verified" => rec[o].phase = "verified")
            /\ a.phase = "none" => rec[o].phase = "none"
            /\ \/ a.state = rec[o].state /\ a.phase = rec[o].phase
               \/ a.state = "cancelled"
               \/ a.state = "failed_terminal" /\ a.phase \in {"unknown", "pending_external"}
        BY <3>2, <3>5 DEF Answered
      <4>3. verified' = verified /\ (o \in verified => rec[o].sure)
        BY <2>2, <3>1, <3>5 DEF Holds
      <4> QED
        BY <2>3, <2>4, <3>2, <3>3, <4>1, <4>2, <4>3 DEF Unverified, Clear
    <3> QED
      BY <3>4, <3>5
  <2>8. CASE CancelRechecked
    <3>1. /\ verified' = verified /\ ctl.pc = "rechecking"
          /\ ctl' = [ctl EXCEPT !.pc = "interrupted", !.todo = ctl.todo \ {o}]
          /\ Put(o, rec[o]) \/ Put(o, FailedRecord(rec[o]))
      BY <2>1, <2>8 DEF CancelRechecked, Rechecked
    <3>2. o \in verified /\ rec[o].sure
      BY <2>1, <2>2, <3>1 DEF Holds, Unverified, CtlAt
    <3>3. PICK a \in Records : Put(o, a) /\ a.begun = rec[o].begun /\ a.sure = rec[o].sure
      BY <2>2, <3>1, FailedFacts DEF Continues
    <3>4. ctl'.pc = "interrupted"
      <4> DEFINE c == [ctl EXCEPT !.pc = "interrupted"]
      <4>1. c \in [pc : CtlPcs, todo : SUBSET Nodes, at : 0..Len(Order)] /\ c.pc = "interrupted"
        BY <2>5 DEF CtlPcs
      <4>2. ctl' = [c EXCEPT !.todo = ctl.todo \ {o}]
        BY <3>1
      <4> HIDE DEF c
      <4> QED
        BY <4>1, <4>2
    <3> QED
      BY <2>4, <3>1, <3>2, <3>3, <3>4
  <2> QED
    BY <1>5, <2>6, <2>7, <2>8
<1> QED
  BY <1>3, <1>4, <1>5 DEF CtlStep, CtlSync, CtlAwait
(* A batch is started: an unverified effect that was ready is absent.       *)
LEMMA StartBatchHolds == ASSUME SafeInv, StartBatch PROVE \A n \in Nodes : Holds(n)'
<1> TAKE n \in Nodes
<1>1. /\ rec' = [m \in Nodes |-> IF m \in Batch THEN StartedRecord(m) ELSE rec[m]]
      /\ task' = [m \in Nodes |->
           IF m \in Batch /\ StartedRecord(m).state = "running"
             THEN [pc |-> "started", rev |-> rec[m].rev, wrote |-> FALSE] ELSE task[m]]
      /\ main'.pc = "batch" /\ UNCHANGED <<verified, ctl, world>>
  BY DEF StartBatch, Main
<1>2. /\ Holds(n) /\ rec[n] \in Records /\ task[n].pc = "none" /\ CtlAway(n) /\ MainAway(n)
  BY <1>1 DEF SafeInv, Typed, RecTyped, TasksInBatch, StartBatch, CtlAway, CtlQuiet, MainAway,
              AtNode
<1>3. CASE n \notin Batch
  <2>1. Untouched(n)
    BY <1>1, <1>3 DEF Untouched
  <2> QED
    BY <1>2, <2>1, Frame
<1>4. CASE n \in Batch
  <2>1. rec[n].state = "ready"
    BY <1>4 DEF Batch
  <2> DEFINE a == StartedRecord(n)
  <2>2. /\ rec'[n] = a
        /\ IF a.state = "running" THEN task'[n].pc = "started" ELSE task'[n].pc = "none"
    BY <1>1, <1>2, <1>4
  <2>3. /\ a \in Records /\ a.phase = rec[n].phase
        /\ n \in verified => a.state = "succeeded" /\ a.sure = TRUE
        /\ n \notin verified =>
             /\ a.sure = rec[n].sure
             /\ a.state \in {"waiting_for_approval", "failed_terminal", "running"}
             /\ a.state = "running" => a.begun = TRUE
             /\ a.begun = rec[n].begun \/ a.state = "running"
    BY <1>2, StartedFacts
  <2> HIDE DEF a
  <2>4. CASE n \notin Effectful
    BY <1>1, <1>2, <2>2, <2>3, <2>4, PlainHolds DEF Holds
  <2>5. CASE n \in Effectful /\ n \in verified
    BY <1>1, <1>2, <2>2, <2>3, <2>5 DEF Holds, WritesOnce
  <2>6. CASE n \in Effectful /\ n \notin verified
    <3>1. Safe(n) /\ ~rec[n].sure /\ Unverified(n)
      BY <1>2, <2>1, <2>6 DEF Holds, Repeatable
    <3>2. WritesOnce(n)' /\ Safe(n)'
      BY <1>1, <2>2, <3>1 DEF WritesOnce, Safe
    <3>3. Unverified(n)'
      BY <1>1, <2>2, <2>3, <2>6, <3>1 DEF Unverified, MainAt, CtlAt
    <3>4. Repeatable(n)'
      BY <1>1, <2>2, <2>3, <2>6, <3>2 DEF Repeatable, MainAt
    <3>5. Traced(n)'
      BY <1>1, <2>2, <2>3, <2>6 DEF Traced, MainAt
    <3> QED
      BY <1>1, <2>2, <2>3, <2>6, <3>1, <3>2, <3>3, <3>4, <3>5 DEF Holds
  <2> QED
    BY <2>4, <2>5, <2>6
<1> QED
  BY <1>3, <1>4

(* The run decides: what it leaves unfinished ends.                         *)
LEMMA DecideHolds == ASSUME SafeInv, Decide PROVE \A n \in Nodes : Holds(n)'
<1> TAKE n \in Nodes
<1>1. /\ UNCHANGED <<verified, task, ctl, world>> /\ main'.pc \notin AtNode
      /\ rec' = rec \/ Finished("skipped") \/ Finished("failed_terminal")
  BY DEF Decide, Main, NoMain, AtNode
<1>2. /\ Holds(n) /\ rec[n] \in Records /\ CtlAway(n) /\ MainAway(n) /\ task[n].pc = "none"
  BY <1>1 DEF SafeInv, Typed, RecTyped, TasksInBatch, Decide, CtlAway, CtlQuiet, MainAway
<1>3. CASE rec'[n] = rec[n]
  <2>1. Untouched(n)
    BY <1>1, <1>3 DEF Untouched
  <2> QED
    BY <1>2, <2>1, Frame
<1>4. ASSUME NEW state \in {"skipped", "failed_terminal"}, rec'[n] = Moved(n, state)
      PROVE  Holds(n)'
  <2> DEFINE a == Moved(n, state)
  <2>1. a.begun = rec[n].begun /\ a.state = state /\ a.phase = rec[n].phase /\ a.sure = rec[n].sure
    BY <1>2, InState DEF Moved, Continues, NodeStates
  <2>2. rec'[n] = a
    BY <1>4
  <2> HIDE DEF a
  <2>3. CASE n \notin Effectful
    BY <1>1, <1>2, <2>1, <2>2, <2>3, PlainHolds DEF Holds, AtNode
  <2>4. CASE n \in Effectful
    <3>1. Becomes(n, a) /\ MainFits(n, a)
      BY <1>1, <1>2, <2>1, <2>2, <2>4
         DEF Becomes, MainFits, Holds, Unverified, Repeatable, Terminal
    <3> QED
      BY <1>2, <2>4, <3>1, BecomesHolds
  <2> QED
    BY <2>3, <2>4
<1> QED
  BY <1>1, <1>3, <1>4 DEF Finished

(* A cancellation begins: an open call of a cancelled node has its trace.   *)
LEMMA CancelHolds == ASSUME SafeInv, Cancel PROVE \A n \in Nodes : Holds(n)'
<1> TAKE n \in Nodes
<1>1. /\ UNCHANGED <<verified, main, task, world>> /\ ctl'.pc = "interrupted"
      /\ ctl'.todo = {m \in Effectful : rec[m].state = "running"}
      /\ rec' = [m \in Nodes |->
           CASE rec[m].state \in Terminal -> rec[m]
             [] rec[m].state = "running" -> Moved(m, "cancelled")
             [] OTHER -> Moved(m, "skipped")]
  BY DEF Cancel
<1>2. Holds(n) /\ rec[n] \in Records /\ CtlQuiet(n) /\ MainAway(n)
  BY <1>1 DEF SafeInv, Typed, RecTyped, CtlQuiet, MainAway
<1>3. PICK a \in Records :
        /\ rec'[n] = a /\ a.begun = rec[n].begun /\ a.phase = rec[n].phase /\ a.sure = rec[n].sure
        /\ \/ rec[n].state \in Terminal /\ a.state = rec[n].state
           \/ rec[n].state = "running" /\ a.state = "cancelled"
           \/ rec[n].state # "running" /\ a.state = "skipped"
  <2> DEFINE b == Moved(n, "cancelled")
             c == Moved(n, "skipped")
  <2>1. /\ b \in Records /\ b.begun = rec[n].begun /\ b.phase = rec[n].phase
        /\ b.sure = rec[n].sure /\ b.state = "cancelled"
        /\ c \in Records /\ c.begun = rec[n].begun /\ c.phase = rec[n].phase
        /\ c.sure = rec[n].sure /\ c.state = "skipped"
    BY <1>2, InState DEF Moved, Continues, NodeStates
  <2>2. \/ rec[n].state \in Terminal /\ rec'[n] = rec[n]
        \/ rec[n].state = "running" /\ rec'[n] = b
        \/ rec[n].state # "running" /\ rec'[n] = c
    BY <1>1 DEF Terminal
  <2> HIDE DEF b, c
  <2> QED
    BY <1>2, <2>1, <2>2
<1>4. CASE n \notin Effectful
  BY <1>1, <1>2, <1>3, <1>4, PlainHolds DEF Holds
<1>5. CASE n \in Effectful /\ n \in verified
  <2>1. Becomes(n, a) /\ MainFits(n, a)
    BY <1>1, <1>2, <1>3, <1>5 DEF Becomes, MainFits, Holds
  <2> QED
    BY <1>2, <1>5, <2>1, ChangesHold
<1>6. CASE n \in Effectful /\ n \notin verified
  <2>1. Unverified(n) /\ Repeatable(n) /\ Traced(n)
    BY <1>2, <1>6 DEF Holds
  <2>2. task[n].pc \in {"handling", "validating"} /\ a.phase \in Clear =>
          a.state \in {"cancelled", "skipped"} /\ n \notin ctl'.todo
    BY <1>1, <1>3, <2>1 DEF Traced, Terminal
  <2>3. /\ a.state \notin {"succeeded", "compensated"} /\ a.phase # "verified"
        /\ a.state \notin {"pending", "ready"} /\ a.state \in Terminal
    BY <1>3, <2>1 DEF Unverified, Terminal
  <2>4. Becomes(n, a) /\ MainFits(n, a)
    BY <1>1, <1>2, <1>3, <1>6, <2>2, <2>3 DEF Becomes, MainFits
  <2> QED
    BY <1>2, <1>6, <2>4, ChangesHold
<1> QED
  BY <1>4, <1>5, <1>6

(* A steer starts over only effects that have not begun.                    *)
LEMMA SteerHolds == ASSUME SafeInv, NEW o \in Nodes, Steer(o) PROVE \A n \in Nodes : Holds(n)'
<1> TAKE n \in Nodes
<1>1. UNCHANGED <<verified, main, task, ctl, world>>
  BY DEF Steer
<1>2. rec' = [m \in Nodes |->
        IF m \in Affected(o) THEN [Fresh EXCEPT !.rev = rec[m].rev + 1, !.tries = rec[m].tries]
        ELSE rec[m]]
  BY DEF Steer
<1>3. \A m \in Affected(o) \cap Effectful : EffectNotBegun(m)
  BY DEF Steer
<1>4. Holds(n) /\ rec[n] \in Records /\ CtlAway(n) /\ MainAway(n)
  BY <1>1 DEF SafeInv, Typed, RecTyped, CtlAway, CtlQuiet, MainAway
<1>5. CASE n \notin Affected(o)
  <2>1. Untouched(n)
    BY <1>1, <1>2, <1>5 DEF Untouched
  <2> QED
    BY <1>4, <2>1, Frame
<1>6. CASE n \in Affected(o)
  <2> DEFINE rev == rec[n].rev + 1
             tries == rec[n].tries
             a == [Fresh EXCEPT !.rev = rev, !.tries = tries]
  <2>1. rec'[n] = a
    BY <1>2, <1>6
  <2> HIDE DEF rev, tries
  <2>2. a.begun = FALSE /\ a.state = "pending" /\ a.phase = "none" /\ a.sure = FALSE
    BY DEF Fresh
  <2> HIDE DEF a
  <2>3. CASE n \notin Effectful
    BY <1>1, <1>4, <2>1, <2>2, <2>3, PlainHolds DEF Holds
  <2>4. CASE n \in Effectful
    <3>1. n \notin verified /\ ~rec[n].begun /\ rec[n].phase = "none" /\ ~rec[n].sure
      BY <1>3, <1>6, <2>4 DEF EffectNotBegun
    <3>2. rec[n].begun = FALSE /\ rec[n].sure = FALSE
      BY <1>4, <3>1, FieldsOf
    <3>3. Safe(n) /\ task[n].pc = "none"
      BY <1>4, <2>4, <3>1 DEF Holds, Repeatable
    <3>4. Becomes(n, a) /\ MainFits(n, a)
      BY <1>1, <1>4, <2>1, <2>2, <3>1, <3>2, <3>3 DEF Becomes, MainFits
    <3> QED
      BY <1>4, <2>4, <3>4, BecomesHolds
  <2> QED
    BY <2>3, <2>4
<1> QED
  BY <1>5, <1>6

(* A person approves or renews an authorization, between two executions.    *)
LEMMA CallerHolds == ASSUME SafeInv, NEW o \in Nodes, Caller(o) PROVE \A n \in Nodes : Holds(n)'
<1>1. /\ UNCHANGED <<main, task, ctl, world>> /\ \A n \in Nodes : Holds(n)
      /\ \A n \in Nodes : CtlAway(n) /\ MainAway(n)
      /\ rec \in [Nodes -> Records] /\ rec[o] \in Records /\ task[o].pc = "none" /\ Holds(o)
      /\ task'[o] = task[o] /\ world'[o] = world[o] /\ main.pc = "off"
  BY Frames DEF SafeInv, CtlAway, CtlQuiet, MainAway, Typed, RecTyped, TasksInBatch, Caller,
                Approve, RefreshAuthorization
<1>2. ASSUME Holds(o)' PROVE \A n \in Nodes : Holds(n)'
  <2>1. \A n \in Nodes \ {o} : rec'[n] = rec[n]
    <3>1. rec' = rec \/ \E a \in Records : Put(o, a)
      BY TaskRecords DEF SafeInv, OneRecord
    <3> QED
      BY <1>1, <3>1, PutFacts
  <2>2. verified' = verified \/ verified' = verified \cup {o}
    BY DEF Caller, Approve, RefreshAuthorization
  <2>3. \A n \in Nodes \ {o} : Untouched(n)
    BY <1>1, <2>1, <2>2 DEF Untouched
  <2> QED
    BY <1>1, <1>2, <2>3, Frame
<1>3. CASE Approve(o)
  <2> DEFINE sure == o \in Effectful
             a == [Moved(o, "succeeded") EXCEPT !.sure = sure]
  <2>1. /\ Put(o, a) /\ verified' = IF o \in Effectful THEN verified \cup {o} ELSE verified
        /\ o \in Effectful => world[o] \in {"applied", "twice"}
    BY <1>3 DEF Approve
  <2>2. sure \in BOOLEAN
    OBVIOUS
  <2>4. sure <=> o \in Effectful
    OBVIOUS
  <2> HIDE DEF sure
  <2>3. a = [[rec[o] EXCEPT !.state = "succeeded"] EXCEPT !.sure = sure]
    BY DEF Moved
  <2> HIDE DEF a
  <2>5. Continues(a, rec[o]) /\ a.sure = sure /\ a.phase = rec[o].phase
    <3>1. rec[o] \in Records /\ "succeeded" \in NodeStates
      BY <1>1 DEF NodeStates
    <3>2. Continues(a, rec[o])
      BY <2>2, <2>3, <3>1, VerifiedFacts
    <3>3. a.sure = sure /\ a.phase = rec[o].phase
      BY <2>2, <2>3, <3>1 DEF Records
    <3> QED
      BY <3>2, <3>3
  <2>6. rec'[o] = a
    BY <1>1, <2>1, <2>5, PutFacts DEF Continues
  <2>7. CASE o \in Effectful
    <3>1. Holds(o)'
      BY <1>1, <2>1, <2>4, <2>5, <2>6, <2>7, VerifiedHolds
    <3> QED
      BY <1>2, <3>1
  <2>8. CASE o \notin Effectful
    <3>1. Holds(o)'
      BY <1>1, <2>1, <2>4, <2>5, <2>6, <2>8, PlainHolds DEF Holds
    <3> QED
      BY <1>2, <3>1
  <2> QED
    BY <2>7, <2>8
<1>4. CASE RefreshAuthorization(o)
  <2> DEFINE state == IF rec[o].phase = "none" THEN "pending" ELSE "failed_retryable"
             a == Moved(o, state)
  <2>1. Put(o, a) /\ verified' = verified /\ rec[o].state = "waiting_for_auth"
    BY <1>4 DEF RefreshAuthorization
  <2>2. state \in {"pending", "failed_retryable"} /\ (state = "pending" => rec[o].phase = "none")
    OBVIOUS
  <2> HIDE DEF state
  <2>3. Continues(a, rec[o]) /\ a.state = state /\ a.phase = rec[o].phase /\ a.sure = rec[o].sure
    <3>1. rec[o] \in Records /\ state \in NodeStates
      BY <1>1, <2>2 DEF NodeStates
    <3>2. a = [rec[o] EXCEPT !.state = state]
      BY DEF Moved
    <3> HIDE DEF a
    <3> QED
      BY <3>1, <3>2, InState
  <2> HIDE DEF a
  <2>4. rec'[o] = a /\ a.begun = rec[o].begun
    BY <1>1, <2>1, <2>3, PutFacts DEF Continues
  <2>5. CASE o \in Effectful
    <3>1. rec[o].phase \in Clear /\ o \notin verified => Safe(o)
      BY <1>1, <2>1, <2>5 DEF Holds, Repeatable, Terminal
    <3>2. Becomes(o, a) /\ MainFits(o, a)
      BY <1>1, <2>1, <2>2, <2>3, <2>4, <2>5, <3>1
         DEF Becomes, MainFits, Holds, Unverified, Clear
    <3>3. Holds(o)'
      BY <1>1, <2>5, <3>2, BecomesHolds
    <3> QED
      BY <1>2, <3>3
  <2>6. CASE o \notin Effectful
    <3>1. Holds(o)'
      BY <1>1, <2>1, <2>3, <2>4, <2>6, PlainHolds DEF Holds
    <3> QED
      BY <1>2, <3>1
  <2> QED
    BY <2>5, <2>6
<1> QED
  BY <1>3, <1>4 DEF Caller

(* The process dies: records and verified effects survive it.               *)
LEMMA CrashHolds == ASSUME SafeInv, Crash PROVE \A n \in Nodes : Holds(n)'
<1> TAKE n \in Nodes
<1>1. /\ UNCHANGED <<rec, verified, world>> /\ task'[n].pc = "none" /\ main'.pc = "off"
      /\ ctl'.pc = "idle" /\ Holds(n)
  BY DEF SafeInv, Crash, NoTask, NoMain, NoCtl
<1>2. CASE n \notin Effectful
  BY <1>1, <1>2 DEF Holds, MainAt
<1>3. CASE n \in Effectful
  BY <1>1, <1>3
     DEF Holds, WritesOnce, Unverified, Repeatable, Traced, MainAt, CtlAt, Safe
<1> QED
  BY <1>2, <1>3

(* Tasks run within a batch only.                                           *)
LEMMA TasksInBatchStep == ASSUME Typed, TasksInBatch, [Next]_vars PROVE TasksInBatch'
<1>1. TasksInBatch /\ Typed
  OBVIOUS
<1>2. CASE StatusMain
  <2>1. task' = task /\ (main.pc = "batch" => \A n \in Nodes : task[n].pc = "none")
    BY <1>2, Frames DEF StatusMain, Start, Resume, Recovered, Prepared, BatchEnds, LeaveLoop,
                        CompensateNode, Failed
  <2> QED
    BY <1>1, <2>1 DEF TasksInBatch
<1>3. CASE RecordMain
  <2>1. task' = task /\ main.pc # "batch"
    BY <1>3, Frames DEF RecordMain, RecoverNode, RecoveryAnswered, RecoveryRechecked, PrepareNode,
                        ConditionEvaluated, NodeCompensated
  <2> QED
    BY <1>1, <2>1 DEF TasksInBatch
<1>4. CASE StartBatch
  BY <1>4 DEF StartBatch, Main, TasksInBatch
<1>5. CASE Decide
  BY <1>1, <1>5 DEF Decide, TasksInBatch
<1>6. CASE CtlStep \/ Cancel \/ UNCHANGED vars
  BY <1>1, <1>6, Frames DEF TasksInBatch, Cancel, vars
<1>7. CASE Crash
  BY <1>7 DEF Crash, NoTask, TasksInBatch
<1>8. ASSUME NEW n \in Nodes, Accounted(n) \/ TaskStep(n) PROVE TasksInBatch'
  <2>1. task[n].pc # "none" /\ main' = main
    BY <1>8, Frames DEF Accounted, TaskStep, InvokeHandler, HandlerWrites, HandlerAcknowledges,
         HandlerReturns, ResultAccepted, ValidatorThrows, HandlerThrows, HandlerTimesOut,
         RetryAnswered, SettlementAnswered, AnswerRechecked, BackoffEnds
  <2> QED
    BY <1>1, <2>1 DEF TasksInBatch
<1>9. ASSUME NEW n \in Nodes, Steer(n) \/ Caller(n) \/ HandlerWritesLate(n) PROVE TasksInBatch'
  BY <1>1, <1>9, Frames DEF Steer, HandlerWritesLate, TasksInBatch
<1> QED
  BY <1>2, <1>3, <1>4, <1>5, <1>6, <1>7, <1>8, <1>9, Steps

(* Without handlers that act late, no call outlives its task; and only      *)
(* effects are left to reconcile.                                           *)
LEMMA NoneLateStep ==
  ASSUME SafeInv, ~LateWrites, [Next]_vars
  PROVE  late' = {} /\ ctl'.todo \subseteq Effectful
<1>1. late = {} /\ ctl.todo \subseteq Effectful /\ Typed
  BY DEF SafeInv
<1>2. CASE StatusMain \/ RecordMain
  BY <1>1, <1>2, Frames
<1>3. CASE CtlStep
  BY <1>1, <1>3, Frames, CtlGoes DEF CtlMoves
<1>4. CASE StartBatch \/ Decide \/ UNCHANGED vars
  BY <1>1, <1>4 DEF StartBatch, Decide, vars
<1>5. CASE Cancel
  BY <1>1, <1>5 DEF Cancel
<1>6. CASE Crash
  BY <1>1, <1>6 DEF Crash, NoCtl
<1>7. ASSUME NEW n \in Nodes, \/ Accounted(n) \/ TaskStep(n) \/ Steer(n) \/ Caller(n)
                              \/ HandlerWritesLate(n)
      PROVE  late' = {} /\ ctl'.todo \subseteq Effectful
  BY <1>1, <1>7 DEF Accounted, TaskStep, Caller, InvokeHandler, HandlerWrites,
       HandlerAcknowledges, HandlerReturns, ResultAccepted, ValidatorThrows, HandlerThrows,
       HandlerTimesOut, RetryAnswered, SettlementAnswered, AnswerRechecked, BackoffEnds, Approve,
       RefreshAuthorization, Steer, HandlerWritesLate
<1> QED
  BY <1>2, <1>3, <1>4, <1>5, <1>6, <1>7, Steps

(* Every step keeps the invariant.                                          *)
LEMMA SafeStep == ASSUME SafeInv, ~LateWrites, [Next]_vars PROVE SafeInv'
<1>1. \A n \in Nodes : Holds(n)'
  <2>1. CASE UNCHANGED vars
    <3>1. \A n \in Nodes : Holds(n) /\ Untouched(n) /\ MainAway(n) /\ CtlAway(n)
      BY <2>1 DEF vars, SafeInv, Untouched, MainAway, CtlAway, CtlQuiet
    <3> QED
      BY <3>1, Frame
  <2>2. ASSUME NEW n \in Nodes PROVE ~HandlerWritesLate(n)
    BY DEF SafeInv, HandlerWritesLate
  <2> QED
    BY <2>1, <2>2, Steps, StatusMainHolds, RecordMainHolds, StartBatchHolds, DecideHolds, CtlHolds,
       CancelHolds, CrashHolds, TaskStepHolds, SteerHolds, CallerHolds
<1> QED
  BY <1>1, TypedStep, TasksInBatchStep, NoneLateStep DEF SafeInv

(* It holds at first.                                                       *)
LEMMA SafeInit == ASSUME Init PROVE SafeInv
  BY TypedInit DEF Init, SafeInv, Fresh, NoTask, NoMain, NoCtl, TasksInBatch, Holds, WritesOnce,
     Unverified, Repeatable, Traced, MainAt, CtlAt, Safe

(* As long as no handler acts after its timeout or its process, no effect   *)
(* is applied twice, whatever fails, waits, is retried, cancelled, steered  *)
(* or dies.                                                                 *)
THEOREM ExecutorNoBlindReplay == ASSUME ~LateWrites PROVE Spec => []NoBlindReplay
<1>1. Init => SafeInv
  BY SafeInit
<1>2. SafeInv /\ [Next]_vars => SafeInv'
  BY SafeStep
<1>3. SafeInv => NoBlindReplay
  BY DEF SafeInv, Holds, WritesOnce, NoBlindReplay
<1> QED
  BY <1>1, <1>2, <1>3, PTL DEF Spec

(* And an effect is taken for done only when a read-back saw it.            *)
THEOREM ExecutorSuccessIsVerified == ASSUME ~LateWrites PROVE Spec => []SuccessIsVerified
<1>1. Init => SafeInv
  BY SafeInit
<1>2. SafeInv /\ [Next]_vars => SafeInv'
  BY SafeStep
<1>3. SafeInv => SuccessIsVerified
  BY Bounds DEF SafeInv, Holds, Unverified, SuccessIsVerified
<1> QED
  BY <1>1, <1>2, <1>3, PTL DEF Spec
-----------------------------------------------------------------------------
(* A verified effect is not called again, even when handlers act late: what *)
(* the executor holds for sure is in its ledger of verified effects.        *)

SureIsVerified == \A n \in Nodes : rec[n].sure => n \in verified
StartsUnverified == \A n \in Nodes : task[n].pc = "started" => n \notin verified

(* A record that is held for sure was before, or the effect is verified; and *)
(* an effect that is or becomes so stays so.                                *)
SureRecord(n) ==
  \/ rec' = rec /\ verified' = verified
  \/ \E a \in Records :
       /\ Put(n, a) /\ a.begun = rec[n].begun
       /\ a.sure => rec[n].sure \/ n \in verified'
       /\ n \in Effectful /\ (rec[n].sure \/ n \in verified' \ verified) => a.sure

(* execute's steps at a node, with or without an answer, keep to that.      *)
LEMMA MainSure == ASSUME Typed, RecordMain PROVE SureRecord(Order[main.at])
<1>1. PICK n \in Nodes : n = Order[main.at]
  BY MainRecords
<1>2. rec[n] \in Records /\ world[n] \in Worlds
  BY DEF Typed, RecTyped
<1>3. {"pending", "skipped", "ready", "failed_terminal", "compensated"} \subseteq NodeStates
  BY DEF NodeStates
<1>4. \A state \in NodeStates : /\ Continues(Moved(n, state), rec[n])
                               /\ Moved(n, state).sure = rec[n].sure
  BY <1>2, InState DEF Moved, Continues
<1>5. CASE RecoverNode
  <2>1. verified' = verified
    BY <1>5 DEF RecoverNode
  <2>2. ASSUME NEW reason \in Reasons
        PROVE  /\ Continues(AskedRecord(n, rec[n], reason), rec[n])
               /\ AskedRecord(n, rec[n], reason).sure => rec[n].sure \/ n \in verified
               /\ rec[n].sure => AskedRecord(n, rec[n], reason).sure
    <3>1. PICK r \in Records : r = rec[n]
      BY <1>2
    <3>2. PICK a : a = AskedRecord(n, r, reason)
      OBVIOUS
    <3>3. Continues(a, r)
      BY <3>2, AskedFacts
    <3>4. CASE Asks(n, r)
      <4>1. a.sure = r.sure
        BY <3>2, <3>4, AskedFacts
      <4> QED
        BY <3>1, <3>2, <3>3, <4>1
    <3>5. CASE ~Asks(n, r) /\ n \in verified
      <4>1. a = ReusedRecord(r)
        BY <3>2, <3>5, AskedFacts
      <4>2. a.sure = TRUE
        BY <4>1, ReusedFacts
      <4> QED
        BY <3>1, <3>2, <3>3, <3>5, <4>2
    <3>6. CASE ~Asks(n, r) /\ n \notin verified
      <4>1. r.phase \in Phases
        BY FieldsOf
      <4>2. a.sure = r.sure
        BY <3>2, <3>6, AskedFacts
      <4> QED
        BY <3>1, <3>2, <3>3, <4>2
    <3> QED
      BY <3>4, <3>5, <3>6
  <2>3. Continues(ReusedRecord(rec[n]), rec[n]) /\ ReusedRecord(rec[n]).sure = TRUE
    BY <1>2, ReusedFacts
  <2>4. \/ Put(n, ReusedRecord(rec[n])) /\ n \in verified
        \/ Put(n, AskedRecord(n, rec[n], "restart"))
        \/ Put(n, AskedRecord(n, rec[n], "poll"))
        \/ Put(n, Moved(n, "pending"))
        \/ rec' = rec
    BY <1>1, <1>5 DEF RecoverNode
  <2>5. \A reason \in {"restart", "poll"} : Put(n, AskedRecord(n, rec[n], reason)) => SureRecord(n)
    BY <2>1, <2>2 DEF SureRecord, Continues, Reasons
  <2>6. Put(n, ReusedRecord(rec[n])) /\ n \in verified => SureRecord(n)
    BY <2>1, <2>3 DEF SureRecord, Continues
  <2>7. Put(n, Moved(n, "pending")) => SureRecord(n)
    BY <1>3, <1>4, <2>1 DEF SureRecord, Continues
  <2> QED
    BY <1>1, <2>1, <2>4, <2>5, <2>6, <2>7 DEF SureRecord
<1>6. CASE RecoveryAnswered
  <2>1. PICK answer \in Answers(n), reason \in Reasons : Reconciled(n, reason, answer)
    BY <1>1, <1>6 DEF RecoveryAnswered, Reasons
  <2> DEFINE a == AnsweredRecord(rec[n], reason, answer)
  <2>2. /\ Put(n, a) /\ (answer = "verified" => n \in verified')
        /\ answer # "verified" => verified' = verified
    BY <2>1 DEF Reconciled
  <2>3. Answered(a, rec[n], n, reason, answer)
    BY <1>2, <2>1, AnsweredFacts
  <2> HIDE DEF a
  <2>4. SureRecord(n)
    BY <2>2, <2>3 DEF Answered, SureRecord, Continues
  <2> QED
    BY <1>1, <2>4
<1>7. CASE RecoveryRechecked
  <2>1. FailedRecord(rec[n]).sure = rec[n].sure /\ Continues(FailedRecord(rec[n]), rec[n])
    BY <1>2, FailedFacts
  <2>2. verified' = verified /\ (Put(n, rec[n]) \/ Put(n, FailedRecord(rec[n])))
    BY <1>1, <1>7 DEF RecoveryRechecked, Rechecked
  <2> QED
    BY <1>1, <1>2, <2>1, <2>2 DEF SureRecord, Continues
<1>8. CASE PrepareNode \/ ConditionEvaluated \/ NodeCompensated
  <2>1. /\ verified' = verified
        /\ \/ rec' = rec
           \/ \E state \in {"skipped", "ready", "failed_terminal", "compensated"} :
                Put(n, Moved(n, state))
    BY <1>1, <1>8 DEF PrepareNode, ConditionEvaluated, NodeCompensated
  <2> QED
    BY <1>1, <1>3, <1>4, <2>1 DEF SureRecord, Continues
<1> QED
  BY <1>5, <1>6, <1>7, <1>8 DEF RecordMain

(* So do a task's steps and a caller's.                                     *)
LEMMA TaskSure ==
  ASSUME Typed, NEW n \in Nodes, Accounted(n) \/ TaskStep(n) \/ Caller(n)
  PROVE  SureRecord(n)
<1>1. rec \in [Nodes -> Records] /\ rec[n] \in Records /\ world[n] \in Worlds
  BY DEF Typed, RecTyped
<1>2. Waiting \cup {"pending", "ready", "failed_terminal", "failed_retryable", "succeeded"}
        \subseteq NodeStates
  BY DEF NodeStates, Waiting
<1>3. \A state \in NodeStates : /\ Continues(Moved(n, state), rec[n])
                               /\ Moved(n, state).sure = rec[n].sure
  BY <1>1, InState DEF Moved, Continues
\* A record that is as sure as the one before.
<1>0. ASSUME NEW a, Continues(a, rec[n]), a.sure = rec[n].sure, Put(n, a), verified' = verified
      PROVE  SureRecord(n)
  BY <1>0 DEF SureRecord, Continues
<1>4. CASE Accounted(n)
  <2> DEFINE a == [Moved(n, "succeeded") EXCEPT !.tries = 0]
  <2>1. Continues(a, rec[n]) /\ a.sure = rec[n].sure
    BY <1>1, AccountedFacts DEF Moved
  <2>2. Continues(FailedRecord(rec[n]), rec[n]) /\ FailedRecord(rec[n]).sure = rec[n].sure
    BY <1>1, FailedFacts
  <2>3. verified' = verified /\ (Put(n, a) \/ rec' = rec \/ Put(n, FailedRecord(rec[n])))
    BY <1>4 DEF Accounted
  <2> HIDE DEF a
  <2>4. CASE Put(n, a)
    BY <1>0, <2>1, <2>3, <2>4
  <2>5. CASE Put(n, FailedRecord(rec[n]))
    BY <1>0, <2>2, <2>3, <2>5
  <2> QED
    BY <2>3, <2>4, <2>5 DEF SureRecord
<1>5. CASE InvokeHandler(n)
  <2>1. Put(n, IF n \notin Effectful THEN rec[n] ELSE Invoked(rec[n]))
    BY <1>5 DEF InvokeHandler, Invoked
  <2> DEFINE a == Invoked(rec[n])
  <2>2. (Put(n, a) \/ rec' = rec) /\ verified' = verified
    BY <1>1, <1>5, <2>1 DEF Put, InvokeHandler
  <2>3. Continues(a, rec[n]) /\ a.sure = rec[n].sure
    BY <1>1, InvokedFacts
  <2> HIDE DEF a
  <2>4. CASE Put(n, a)
    BY <1>0, <2>2, <2>3, <2>4
  <2> QED
    BY <2>2, <2>4 DEF SureRecord
<1>6. CASE HandlerAcknowledges(n)
  <2> DEFINE phase == IF rec[n].phase = "none" THEN rec[n].phase ELSE "external_write_acknowledged"
  <2>1. phase \in Phases
    BY <1>1, FieldsOf DEF Phases
  <2>2. Put(n, [rec[n] EXCEPT !.phase = phase])
    BY <1>1, <1>6 DEF HandlerAcknowledges, Records
  <2> HIDE DEF phase
  <2> DEFINE a == [rec[n] EXCEPT !.phase = phase]
  <2>3. Continues(a, rec[n]) /\ a.sure = rec[n].sure
    BY <1>1, <2>1, InPhase DEF Continues
  <2>4. Put(n, a) /\ verified' = verified
    BY <1>6, <2>2 DEF HandlerAcknowledges
  <2> HIDE DEF a
  <2> QED
    BY <1>0, <2>3, <2>4
<1>7. CASE HandlerReturns(n)
  <2>1. Continues(Completed(n), rec[n]) /\ Completed(n).sure = rec[n].sure
    BY <1>1, PhaseFacts
  <2>2. \A state \in Waiting : /\ Continues(WaitingRecord(Completed(n), state), rec[n])
                               /\ WaitingRecord(Completed(n), state).sure = rec[n].sure
    BY <2>1, WaitingFacts DEF Continues
  <2>3. /\ verified' = verified
        /\ \/ rec' = rec \/ Put(n, Completed(n))
           \/ \E state \in Waiting : Put(n, WaitingRecord(Completed(n), state))
    BY <1>7 DEF HandlerReturns
  <2>4. CASE Put(n, Completed(n))
    BY <1>0, <2>1, <2>3, <2>4
  <2>5. ASSUME NEW state \in Waiting, Put(n, WaitingRecord(Completed(n), state))
        PROVE  SureRecord(n)
    BY <1>0, <2>2, <2>3, <2>5
  <2> QED
    BY <2>3, <2>4, <2>5 DEF SureRecord
<1>8. CASE ResultAccepted(n)
  <2> DEFINE a == [rec[n] EXCEPT !.sure = TRUE, !.phase = "verified"]
  <2>1. Continues(a, rec[n]) /\ a.sure = TRUE
    BY <1>1, <1>2, VerifiedFacts
  <2>2. (Put(n, a) /\ n \in verified') \/ (rec' = rec /\ verified' = verified)
    BY <1>1, <1>8 DEF ResultAccepted, Put
  <2> HIDE DEF a
  <2> QED
    BY <2>1, <2>2 DEF SureRecord, Continues
<1>9. CASE ValidatorThrows(n) \/ HandlerThrows(n) \/ HandlerTimesOut(n)
  <2>1. PICK error \in Errors : Caught(n, error)
    BY <1>9 DEF ValidatorThrows, HandlerThrows, HandlerTimesOut, Errors
  <2>2. verified' = verified
    BY <1>9 DEF ValidatorThrows, HandlerThrows, HandlerTimesOut
  <2>3. PICK a \in Records, pc \in {"none", "backoff", "retrying", "settling"} :
          CaughtAs(n, error, a, pc)
    BY <1>1, <2>1, CaughtFacts
  <2>4. /\ Put(n, a) /\ a.begun = rec[n].begun /\ (rec[n].sure => a.sure)
        /\ n \notin verified => a.sure = rec[n].sure
    BY <2>3 DEF CaughtAs, Continues
  <2> QED
    BY <2>2, <2>4 DEF SureRecord
<1>10. CASE RetryAnswered(n)
  <2>1. PICK answer \in Answers(n) : Reconciled(n, "retry", answer)
    BY <1>10 DEF RetryAnswered
  <2> DEFINE a == AnsweredRecord(rec[n], "retry", answer)
  <2>2. /\ Put(n, a) /\ (answer = "verified" => n \in verified') /\ "retry" \in Reasons
        /\ answer # "verified" => verified' = verified
    BY <2>1 DEF Reconciled, Reasons
  <2>3. Answered(a, rec[n], n, "retry", answer)
    BY <1>1, <2>1, <2>2, AnsweredFacts
  <2> HIDE DEF a
  <2> QED
    BY <2>2, <2>3 DEF Answered, SureRecord, Continues
<1>11. CASE SettlementAnswered(n)
  <2>1. PICK answer \in Answers(n) :
          /\ Put(n, SettledRecord(AnsweredRecord(rec[n], "retry", answer)))
          /\ answer = "verified" => n \in verified'
          /\ answer # "verified" => verified' = verified
    BY <1>11 DEF SettlementAnswered
  <2> DEFINE a == AnsweredRecord(rec[n], "retry", answer)
  <2>2. /\ Continues(a, rec[n])
        /\ IF answer = "verified" THEN a.sure = TRUE ELSE a.sure = rec[n].sure
    <3>1. "retry" \in Reasons
      BY DEF Reasons
    <3>2. Answered(a, rec[n], n, "retry", answer)
      BY <1>1, <3>1, AnsweredFacts
    <3> HIDE DEF a
    <3> QED
      BY <3>2 DEF Answered
  <2> HIDE DEF a
  <2> DEFINE b == SettledRecord(a)
  <2>3. Continues(b, rec[n]) /\ b.sure = a.sure
    BY <2>2, SettledFacts DEF Continues
  <2>4. Put(n, b)
    BY <2>1 DEF a
  <2> HIDE DEF b
  <2> QED
    BY <2>1, <2>2, <2>3, <2>4 DEF SureRecord, Continues
<1>12. CASE AnswerRechecked(n)
  <2>1. Continues(FailedRecord(rec[n]), rec[n]) /\ FailedRecord(rec[n]).sure = rec[n].sure
    BY <1>1, FailedFacts
  <2>2. verified' = verified /\ (Put(n, rec[n]) \/ Put(n, FailedRecord(rec[n])))
    BY <1>12 DEF AnswerRechecked, Rechecked
  <2>3. Continues(rec[n], rec[n])
    BY <1>1 DEF Continues
  <2> QED
    BY <1>0, <2>1, <2>2, <2>3
<1>13. CASE BackoffEnds(n) \/ RefreshAuthorization(n)
  <2>1. /\ verified' = verified
        /\ \/ rec' = rec
           \/ \E state \in {"ready", "pending", "failed_retryable"} : Put(n, Moved(n, state))
    BY <1>13 DEF BackoffEnds, RefreshAuthorization
  <2> QED
    BY <1>0, <1>2, <1>3, <2>1 DEF SureRecord
<1>14. CASE Approve(n)
  <2> DEFINE sure == n \in Effectful
             a == [Moved(n, "succeeded") EXCEPT !.sure = sure]
  <2>1. Put(n, a) /\ (sure => n \in verified') /\ (n \in Effectful => sure)
    BY <1>14 DEF Approve
  <2>2. sure \in BOOLEAN
    OBVIOUS
  <2> HIDE DEF sure
  <2>3. a = [[rec[n] EXCEPT !.state = "succeeded"] EXCEPT !.sure = sure]
    BY DEF Moved
  <2> HIDE DEF a
  <2>4. Continues(a, rec[n])
    BY <1>1, <1>2, <2>2, <2>3, VerifiedFacts
  <2>5. a.sure = sure
    BY <1>1, <2>2, <2>3 DEF Records
  <2> QED
    BY <2>1, <2>4, <2>5 DEF SureRecord, Continues
<1>15. CASE HandlerWrites(n)
  BY <1>15 DEF HandlerWrites, SureRecord
<1> QED
  BY <1>4, <1>5, <1>6, <1>7, <1>8, <1>9, <1>10, <1>11, <1>12, <1>13, <1>14, <1>15
     DEF TaskStep, Caller

(* Cancellations are counted: one that is not there was not before.         *)
LEMMA Uncancelled ==
  ASSUME Typed, used'.cancel = 0, [Next]_vars
  PROVE  used.cancel = 0 /\ ~Cancel
<1>1. used \in Counts
  BY DEF Typed
<1>2. ASSUME Cancel PROVE FALSE
  <2>1. used' = [used EXCEPT !.cancel = used.cancel + 1]
    BY <1>2 DEF Cancel
  <2> QED
    BY <1>1, <2>1, Bounds DEF Counts
<1>3. CASE StatusMain \/ RecordMain \/ CtlStep
  BY <1>2, <1>3, Frames
<1>4. CASE StartBatch \/ Decide \/ UNCHANGED vars
  BY <1>2, <1>4 DEF StartBatch, Decide, vars
<1>5. CASE Crash
  <2>1. used' = [used EXCEPT !.crash = used.crash + 1]
    BY <1>5 DEF Crash
  <2> QED
    BY <1>1, <1>2, <2>1 DEF Counts
<1>6. ASSUME NEW n \in Nodes, Accounted(n) \/ TaskStep(n) \/ Caller(n) \/ HandlerWritesLate(n)
      PROVE  used' = used
  BY <1>6, Frames DEF HandlerWritesLate
<1>7. ASSUME NEW n \in Nodes, Steer(n) PROVE used.cancel = 0
  <2>1. PICK steered : used' = [used EXCEPT !.steer = used.steer + 1, !.steered = steered]
    BY <1>7, Zenon DEF Steer
  <2> QED
    BY <1>1, <2>1 DEF Counts
<1> QED
  BY <1>2, <1>3, <1>4, <1>5, <1>6, <1>7, Steps

(* And a run nobody has cancelled has no cancellation under way.            *)
LEMMA Undisturbed ==
  ASSUME Typed, ctl = NoCtl, used'.cancel = 0, [Next]_vars
  PROVE  ctl' = NoCtl /\ ~CtlStep /\ ~Cancel
<1>1. ~Cancel
  BY Uncancelled
<1>2. ~CtlStep
  BY DEF NoCtl, CtlStep, CtlSync, CtlAwait, ReconcileInterrupted, CancelCompensates,
         CancelAnswered, CancelRechecked, CancelCompensated
<1>3. CASE StatusMain \/ RecordMain \/ StartBatch \/ Decide \/ Crash \/ UNCHANGED vars
  BY <1>1, <1>2, <1>3, Frames DEF StartBatch, Decide, Crash, vars
<1>4. ASSUME NEW n \in Nodes, \/ Accounted(n) \/ TaskStep(n) \/ Steer(n) \/ Caller(n)
                              \/ HandlerWritesLate(n)
      PROVE  ctl' = NoCtl
  BY <1>4, Frames DEF Steer, HandlerWritesLate
<1> QED
  BY <1>1, <1>2, <1>3, <1>4, Steps

(* So what is held for sure stays verified.                                 *)
LEMMA SureStep ==
  ASSUME Typed, SureIsVerified, ctl = NoCtl, used'.cancel = 0, [Next]_vars
  PROVE  SureIsVerified' /\ ctl' = NoCtl
<1>1. /\ rec \in [Nodes -> Records] /\ \A n \in Nodes : rec[n] \in Records
  BY DEF Typed, RecTyped
<1>2. ASSUME NEW o \in Nodes, SureRecord(o), verified \subseteq verified' PROVE SureIsVerified'
  <2>1. CASE rec' = rec
    BY <1>2, <2>1 DEF SureIsVerified
  <2>2. CASE rec' # rec
    <3>1. PICK a \in Records : Put(o, a) /\ (a.sure => rec[o].sure \/ o \in verified')
      BY <1>2, <2>2 DEF SureRecord
    <3>2. rec'[o] = a /\ \A m \in Nodes \ {o} : rec'[m] = rec[m]
      BY <1>1, <3>1, PutFacts
    <3> QED
      BY <1>2, <3>1, <3>2 DEF SureIsVerified
  <2> QED
    BY <1>2, <2>1, <2>2 DEF SureRecord
<1>3. ASSUME \A n \in Nodes : rec'[n].sure => rec[n].sure, verified' = verified
      PROVE  SureIsVerified'
  BY <1>3 DEF SureIsVerified
<1>4. CASE StatusMain
  BY <1>3, <1>4, Frames
<1>5. CASE RecordMain
  <2>1. verified \subseteq verified'
    BY <1>5 DEF RecordMain, RecoverNode, RecoveryAnswered, Reconciled, RecoveryRechecked,
                PrepareNode, ConditionEvaluated, NodeCompensated
  <2> QED
    BY <1>2, <1>5, <2>1, MainRecords, MainSure, Frames
<1>6. CASE StartBatch
  <2>1. /\ rec' = [n \in Nodes |-> IF n \in Batch THEN StartedRecord(n) ELSE rec[n]]
        /\ verified' = verified /\ ctl' = ctl
    BY <1>6 DEF StartBatch
  <2>2. \A n \in Nodes : n \notin verified => StartedRecord(n).sure = rec[n].sure
    BY <1>1, StartedFacts
  <2> QED
    BY <2>1, <2>2 DEF SureIsVerified
<1>7. CASE Decide
  <2>1. /\ verified' = verified /\ ctl' = ctl
        /\ rec' = rec \/ Finished("skipped") \/ Finished("failed_terminal")
    BY <1>7 DEF Decide
  <2>2. {"skipped", "failed_terminal"} \subseteq NodeStates
    BY DEF NodeStates
  <2>3. ASSUME NEW state \in NodeStates, Finished(state) PROVE SureIsVerified'
    <3>1. \A n \in Nodes : Moved(n, state).sure = rec[n].sure
      BY <1>1, InState DEF Moved
    <3> QED
      BY <1>3, <2>1, <2>3, <3>1 DEF Finished
  <2> QED
    BY <1>3, <2>1, <2>2, <2>3
<1>8. ~CtlStep /\ ~Cancel /\ ctl' = NoCtl
  BY Undisturbed
<1>9. CASE Crash \/ UNCHANGED vars
  BY <1>3, <1>9 DEF Crash, vars
<1>10. ASSUME NEW n \in Nodes, Accounted(n) \/ TaskStep(n) \/ Caller(n)
       PROVE  SureIsVerified' /\ ctl' = NoCtl
  <2>1. verified \subseteq verified'
    BY <1>10 DEF Accounted, TaskStep, Caller, InvokeHandler, HandlerWrites, HandlerAcknowledges,
         HandlerReturns, ResultAccepted, ValidatorThrows, HandlerThrows, HandlerTimesOut,
         RetryAnswered, SettlementAnswered, AnswerRechecked, BackoffEnds, Reconciled, Approve,
         RefreshAuthorization
  <2> QED
    BY <1>2, <1>10, <2>1, TaskSure, Frames
<1>11. ASSUME NEW n \in Nodes, Steer(n) PROVE SureIsVerified' /\ ctl' = NoCtl
  <2>1. /\ rec' = [m \in Nodes |->
             IF m \in Affected(n)
               THEN [Fresh EXCEPT !.rev = rec[m].rev + 1, !.tries = rec[m].tries]
             ELSE rec[m]]
        /\ verified' = verified /\ ctl' = ctl
    BY <1>11 DEF Steer
  <2>2. \A m \in Nodes : rec'[m].sure => rec[m].sure
    BY <2>1 DEF Fresh
  <2> QED
    BY <1>3, <2>1, <2>2
<1>12. ASSUME NEW n \in Nodes, HandlerWritesLate(n) PROVE SureIsVerified' /\ ctl' = NoCtl
  BY <1>3, <1>12 DEF HandlerWritesLate
<1> QED
  BY <1>4, <1>5, <1>6, <1>7, <1>8, <1>9, <1>10, <1>11, <1>12, Steps

(* A node's task is started by its batch only.                              *)
LEMMA TaskNotStarted ==
  ASSUME Typed, NEW n \in Nodes, Accounted(n) \/ TaskStep(n)
  PROVE  /\ task'[n].pc # "started" /\ \A m \in Nodes \ {n} : task'[m] = task[m]
         /\ verified' = verified \/ verified' = verified \cup {n}
<1>1. task \in [Nodes -> Tasks] /\ rec \in [Nodes -> Records]
  BY DEF Typed, RecTyped
<1>2. verified' = verified \/ verified' = verified \cup {n}
  BY DEF Accounted, TaskStep, InvokeHandler, HandlerWrites, HandlerAcknowledges, HandlerReturns,
         ResultAccepted, ValidatorThrows, HandlerThrows, HandlerTimesOut, RetryAnswered,
         SettlementAnswered, AnswerRechecked, BackoffEnds, Reconciled
<1>3. \A m \in Nodes \ {n} : task'[m] = task[m]
  BY <1>1, TaskGoesOn, TaskFacts
<1>4. ASSUME NEW pc \in TaskPcs \ {"started"}, Task(n, pc) \/ TaskEnds(n)
      PROVE  task'[n].pc # "started"
  BY <1>1, <1>4, TaskFacts
<1>5. ASSUME NEW error \in Errors, Caught(n, error) PROVE task'[n].pc # "started"
  <2>1. PICK pc \in {"none", "backoff", "retrying", "settling"} : Task(n, pc) \/ TaskEnds(n)
    BY <1>1, <1>5, CaughtFacts DEF CaughtAs
  <2> QED
    BY <1>4, <2>1 DEF TaskPcs
<1>6. ASSUME ValidatorThrows(n) \/ HandlerThrows(n) \/ HandlerTimesOut(n)
      PROVE  task'[n].pc # "started"
  BY <1>5, <1>6 DEF ValidatorThrows, HandlerThrows, HandlerTimesOut, Errors
<1>7. ASSUME HandlerWrites(n) \/ HandlerAcknowledges(n) PROVE task'[n].pc # "started"
  <2>1. /\ task[n].pc = "handling"
        /\ task' = task \/ task' = [task EXCEPT ![n].wrote = TRUE]
    BY <1>7 DEF HandlerWrites, HandlerAcknowledges
  <2>2. task'[n].pc = "handling"
    BY <1>1, <2>1, TaskFacts DEF TaskPcs
  <2> QED
    BY <2>2
<1>8. ASSUME RetryAnswered(n) PROVE task'[n].pc # "started"
  <2>1. Task(n, "rechecking") \/ Task(n, "backoff") \/ TaskEnds(n)
    BY <1>8 DEF RetryAnswered
  <2> QED
    BY <1>4, <2>1 DEF TaskPcs
<1>9. ASSUME \/ Accounted(n) \/ InvokeHandler(n) \/ HandlerReturns(n) \/ ResultAccepted(n)
             \/ SettlementAnswered(n) \/ AnswerRechecked(n) \/ BackoffEnds(n)
      PROVE  task'[n].pc # "started"
  <2>1. \/ Task(n, "handling") \/ Task(n, "validating") \/ Task(n, "accounting")
        \/ Task(n, "rechecking") \/ TaskEnds(n)
    BY <1>9 DEF Accounted, InvokeHandler, HandlerReturns, ResultAccepted, SettlementAnswered,
                AnswerRechecked, BackoffEnds
  <2> QED
    BY <1>4, <2>1 DEF TaskPcs
<1>10. task'[n].pc # "started"
  BY <1>6, <1>7, <1>8, <1>9 DEF TaskStep
<1> QED
  BY <1>2, <1>3, <1>10

LateInv == Typed /\ TasksInBatch /\ ctl = NoCtl /\ SureIsVerified /\ StartsUnverified

(* And a node whose task is started has no verified effect.                 *)
LEMMA LateStep == ASSUME LateInv, used'.cancel = 0, [Next]_vars PROVE LateInv'
<1>1. /\ Typed /\ TasksInBatch /\ ctl = NoCtl /\ SureIsVerified /\ StartsUnverified
      /\ \A n \in Nodes : rec[n] \in Records
  BY DEF LateInv, Typed, RecTyped
<1>2. ASSUME task' = task, verified' = verified PROVE StartsUnverified'
  BY <1>1, <1>2 DEF StartsUnverified
<1>3. ASSUME task' = task, main.pc # "batch" PROVE StartsUnverified'
  BY <1>1, <1>3 DEF TasksInBatch, StartsUnverified
<1>4. ASSUME StatusMain \/ Decide \/ UNCHANGED vars PROVE StartsUnverified'
  BY <1>2, <1>4, Frames DEF Decide, vars
<1>5. ASSUME RecordMain PROVE StartsUnverified'
  <2>1. main.pc # "batch" /\ task' = task
    BY <1>5, Frames DEF RecordMain, RecoverNode, RecoveryAnswered, RecoveryRechecked, PrepareNode,
                        ConditionEvaluated, NodeCompensated
  <2> QED
    BY <1>3, <2>1
<1>6. ASSUME StartBatch PROVE StartsUnverified'
  <2>1. /\ verified' = verified
        /\ \A n \in Nodes : task'[n] = task[n] \/ StartedRecord(n).state = "running"
    BY <1>6 DEF StartBatch
  <2>2. \A n \in Nodes : n \in verified => StartedRecord(n).state # "running"
    BY <1>1, StartedFacts
  <2> QED
    BY <1>1, <2>1, <2>2 DEF StartsUnverified
<1>7. ASSUME Crash PROVE StartsUnverified'
  BY <1>7 DEF Crash, NoTask, StartsUnverified
<1>8. ~CtlStep /\ ~Cancel
  BY <1>1, Undisturbed
<1>9. ASSUME NEW n \in Nodes, Accounted(n) \/ TaskStep(n) PROVE StartsUnverified'
  BY <1>1, <1>9, TaskNotStarted DEF StartsUnverified
<1>10. ASSUME NEW n \in Nodes, Caller(n) PROVE StartsUnverified'
  BY <1>3, <1>10 DEF Caller, Approve, RefreshAuthorization
<1>11. ASSUME NEW n \in Nodes, Steer(n) \/ HandlerWritesLate(n) PROVE StartsUnverified'
  BY <1>2, <1>11 DEF Steer, HandlerWritesLate
<1>12. StartsUnverified'
  BY <1>4, <1>5, <1>6, <1>7, <1>8, <1>9, <1>10, <1>11, Steps
<1> QED
  BY <1>1, <1>12, TypedStep, TasksInBatchStep, SureStep DEF LateInv

(* A handler is called only for an effect that is not verified.  Handlers   *)
(* may act after their timeout or their process as long as nobody cancels;  *)
(* and anything may happen as long as they do not.                          *)
THEOREM ExecutorVerifiedNotRepeated == Spec => VerifiedNotRepeated
<1>1. CASE LateWrites
  <2> DEFINE I == Typed /\ (used.cancel = 0 => LateInv)
  <2>1. Init => I
    BY TypedInit DEF Init, LateInv, TasksInBatch, SureIsVerified, StartsUnverified, Fresh, NoTask
  <2>2. I /\ [Next]_vars => I'
    BY TypedStep, Uncancelled, LateStep
  <2>3. I => \A n \in Nodes : InvokeHandler(n) /\ (LateWrites => used.cancel = 0)
                              => n \notin verified /\ ~rec[n].sure
    BY <1>1 DEF LateInv, StartsUnverified, SureIsVerified, InvokeHandler
  <2> QED
    BY <2>1, <2>2, <2>3, PTL DEF Spec, VerifiedNotRepeated
<1>2. CASE ~LateWrites
  <2>1. Init => SafeInv
    BY SafeInit
  <2>2. SafeInv /\ [Next]_vars => SafeInv'
    BY <1>2, SafeStep
  <2>3. SafeInv => \A n \in Nodes : InvokeHandler(n) /\ (LateWrites => used.cancel = 0)
                                    => n \notin verified /\ ~rec[n].sure
    BY DEF SafeInv, Holds, WritesOnce, Safe, InvokeHandler
  <2> QED
    BY <2>1, <2>2, <2>3, PTL DEF Spec, VerifiedNotRepeated
<1> QED
  BY <1>1, <1>2
-----------------------------------------------------------------------------
(* Fan-in: a dependency that has succeeded, with no task of its own and     *)
(* nothing of the recovery or a cancellation at it, stays so; and a node is *)
(* made ready, started, taken up again or asked for its condition only when *)
(* all its dependencies have, unless a steer has met it there.              *)

Succeeded(n) == rec[n].state \in {"succeeded", "compensated"}
Settled(n) ==
  /\ Succeeded(n) /\ task[n].pc = "none" /\ n \notin ctl.todo
  /\ ~MainAt({"restarting", "polling", "rechecking", "condition"}, n)

Begun == {"ready", "running", "failed_retryable"} \cup Waiting
GoesAhead(n) ==
  \/ rec[n].state \in Begun \/ task[n].pc # "none"
  \/ MainAt({"restarting", "polling", "condition"}, n)
Based(n) ==
  n \notin used.steered =>
    /\ GoesAhead(n) => \A d \in Deps[n] : Settled(d)
    /\ rec[n].state = "pending" => Deps[n] \cap ctl.todo = {}

NothingLeft == ctl.pc = "idle" => ctl.todo = {}

FanInv == Typed /\ TasksInBatch /\ NothingLeft /\ \A n \in Nodes : Based(n)

(* A task's step is that of a node with a task.                             *)
LEMMA TaskOfNode ==
  ASSUME Typed, NEW n \in Nodes, Accounted(n) \/ TaskStep(n)
  PROVE  /\ task[n].pc # "none" /\ main' = main
         /\ \A m \in Nodes \ {n} : task'[m] = task[m] /\ rec'[m] = rec[m]
<1>1. rec \in [Nodes -> Records]
  BY DEF Typed, RecTyped
<1>2. task[n].pc # "none"
  BY DEF Accounted, TaskStep, InvokeHandler, HandlerWrites, HandlerAcknowledges, HandlerReturns,
         ResultAccepted, ValidatorThrows, HandlerThrows, HandlerTimesOut, RetryAnswered,
         SettlementAnswered, AnswerRechecked, BackoffEnds
<1>3. \A m \in Nodes \ {n} : rec'[m] = rec[m]
  BY <1>1, TaskRecords, PutFacts DEF OneRecord
<1> QED
  BY <1>2, <1>3, TaskNotStarted, Frames

(* An idle cancellation has nothing left to reconcile.                      *)
LEMMA NothingLeftStays == ASSUME Typed, NothingLeft, [Next]_vars PROVE NothingLeft'
<1>0. ctl \in [pc : CtlPcs, todo : SUBSET Nodes, at : 0..Len(Order)]
  BY DEF Typed, CtlTyped
<1>1. CASE StatusMain \/ RecordMain \/ StartBatch \/ Decide \/ UNCHANGED vars
  BY <1>1, Frames DEF StartBatch, Decide, vars, NothingLeft
<1>2. CASE Crash
  BY <1>2 DEF Crash, NoCtl, NothingLeft
<1>3. CASE Cancel
  <2>1. ctl'.pc = "interrupted"
    BY <1>3 DEF Cancel
  <2> QED
    BY <2>1 DEF NothingLeft
<1>4. CASE CtlStep
  <2>1. CASE ctl' = NoCtl
    BY <2>1 DEF NoCtl, NothingLeft
  <2>2. CASE ctl' # NoCtl
    <3>1. CASE ReconcileInterrupted
      BY <3>1 DEF ReconcileInterrupted, NothingLeft
    <3>2. CASE CancelAnswered \/ CancelRechecked
      <4>1. ctl'.pc \in {"rechecking", "interrupted"}
        BY <1>0, <3>2 DEF CancelAnswered, CancelRechecked
      <4> QED
        BY <4>1 DEF NothingLeft
    <3>3. CASE CancelCompensates
      <4>1. ctl'.pc \in {"compensating", "compensate"}
        BY <1>0, <2>2, <3>3 DEF CancelCompensates
      <4> QED
        BY <4>1 DEF NothingLeft
    <3>4. CASE CancelCompensated
      BY <3>4 DEF CancelCompensated, NothingLeft
    <3> QED
      BY <1>4, <3>1, <3>2, <3>3, <3>4 DEF CtlStep, CtlSync, CtlAwait
  <2> QED
    BY <2>1, <2>2
<1>5. ASSUME NEW n \in Nodes, \/ Accounted(n) \/ TaskStep(n) \/ Steer(n) \/ Caller(n)
                              \/ HandlerWritesLate(n)
      PROVE  NothingLeft'
  BY <1>5, Frames DEF Steer, HandlerWritesLate, NothingLeft
<1> QED
  BY <1>1, <1>2, <1>3, <1>4, <1>5, Steps

(* A cancellation's step cancels or settles an effect it has left to do, or *)
(* compensates a node.                                                      *)
LEMMA CtlStates ==
  ASSUME Typed, CtlStep, NEW n \in Nodes
  PROVE  \/ rec'[n].state = rec[n].state \/ rec'[n].state = "compensated"
         \/ n \in ctl.todo /\ rec'[n].state \in {"succeeded", "failed_terminal", "cancelled"}
<1>1. rec \in [Nodes -> Records] /\ \A m \in Nodes : rec[m] \in Records /\ world[m] \in Worlds
  BY DEF Typed, RecTyped
<1>2. ASSUME NEW o \in ctl.todo \cap Nodes, NEW a \in Records, Put(o, a),
             \/ a.state = rec[o].state
             \/ a.state \in {"succeeded", "failed_terminal", "cancelled"}
      PROVE  \/ rec'[n].state = rec[n].state
             \/ n \in ctl.todo /\ rec'[n].state \in {"succeeded", "failed_terminal", "cancelled"}
  <2>1. rec'[o] = a /\ \A m \in Nodes \ {o} : rec'[m] = rec[m]
    BY <1>1, <1>2, PutFacts
  <2> QED
    BY <1>2, <2>1
<1>3. CASE CancelCompensates
  BY <1>3 DEF CancelCompensates
<1>4. CASE ReconcileInterrupted \/ CancelAnswered \/ CancelRechecked
  <2>1. ctl.todo # {}
    BY <1>4 DEF ReconcileInterrupted, CancelAnswered, CancelRechecked, Typed, CtlTyped
  <2>2. PICK o \in ctl.todo \cap Nodes : o = NextInterrupted
    BY <2>1, NextFacts
  <2>3. CASE ReconcileInterrupted
    <3> DEFINE a == AskedRecord(o, rec[o], "cancel")
    <3>1. Put(o, a)
      BY <2>2, <2>3 DEF ReconcileInterrupted
    <3>2. a \in Records
      BY <1>1, AskedFacts DEF Reasons, Continues
    <3>3. a.state = rec[o].state \/ a.state \in {"succeeded", "failed_terminal"}
      <4>1. CASE Asks(o, rec[o])
        BY <1>1, <4>1, AskedFacts DEF Reasons
      <4>2. CASE ~Asks(o, rec[o]) /\ o \in verified
        <5>1. a = ReusedRecord(rec[o])
          BY <1>1, <4>2, AskedFacts DEF Reasons
        <5> QED
          BY <1>1, <5>1, ReusedFacts
      <4>3. CASE ~Asks(o, rec[o]) /\ o \notin verified
        BY <1>1, <4>3, AskedFacts DEF Reasons
      <4> QED
        BY <4>1, <4>2, <4>3
    <3> HIDE DEF a
    <3> QED
      BY <1>2, <3>1, <3>2, <3>3
  <2>4. CASE CancelAnswered
    <3>1. PICK answer \in Answers(o) : Put(o, AnsweredRecord(rec[o], "cancel", answer))
      BY <2>2, <2>4 DEF CancelAnswered, Reconciled
    <3> DEFINE a == AnsweredRecord(rec[o], "cancel", answer)
    <3>2. Answered(a, rec[o], o, "cancel", answer)
      BY <1>1, AnsweredFacts DEF Reasons
    <3>3. Put(o, a)
      BY <3>1
    <3> HIDE DEF a
    <3>4. a \in Records /\ \/ a.state = rec[o].state
                           \/ a.state \in {"succeeded", "failed_terminal", "cancelled"}
      BY <3>2 DEF Answered, Continues
    <3> QED
      BY <1>2, <3>3, <3>4
  <2>5. CASE CancelRechecked
    <3>1. FailedRecord(rec[o]) \in Records /\ FailedRecord(rec[o]).state = "failed_terminal"
      BY <1>1, FailedFacts DEF Continues
    <3>2. Put(o, rec[o]) \/ Put(o, FailedRecord(rec[o]))
      BY <2>2, <2>5 DEF CancelRechecked, Rechecked
    <3> QED
      BY <1>1, <1>2, <3>1, <3>2
  <2> QED
    BY <1>4, <2>3, <2>4, <2>5
<1>5. CASE CancelCompensated
  <2>1. PICK o \in Nodes : o = Order[ctl.at]
    BY <1>5, Bounds DEF CancelCompensated, Typed, CtlTyped
  <2>2. Moved(o, "compensated") \in Records /\ Moved(o, "compensated").state = "compensated"
    BY <1>1, InState DEF Moved, Continues, NodeStates
  <2>3. Put(o, Moved(o, "compensated")) \/ Put(o, rec[o])
    BY <1>5, <2>1 DEF CancelCompensated
  <2>4. rec'[n] = rec[n] \/ rec'[n] = Moved(o, "compensated")
    BY <1>1, <2>2, <2>3, PutFacts
  <2> QED
    BY <2>2, <2>4
<1> QED
  BY <1>3, <1>4, <1>5 DEF CtlStep, CtlSync, CtlAwait

(* execute leaves a node that has succeeded alone, or compensates it.       *)
LEMMA MainSettled ==
  ASSUME Typed, RecordMain, NEW d \in Nodes, Settled(d)
  PROVE  Settled(d)'
<1>1. PICK o \in Nodes : o = Order[main.at]
  BY MainRecords
<1>2. rec \in [Nodes -> Records] /\ rec[d] \in Records /\ task' = task /\ ctl' = ctl
  BY Frames DEF Typed, RecTyped
<1>3. main'.pc \in {"restarting", "polling", "rechecking", "condition"} => main'.at = main.at
  BY DEF RecordMain, RecoverNode, RecoveryAnswered, RecoveryRechecked, PrepareNode,
         ConditionEvaluated, NodeCompensated, Main
<1>4. CASE o # d
  <2>1. rec'[d] = rec[d]
    BY <1>1, <1>2, <1>4, MainRecords, PutFacts DEF OneRecord
  <2> QED
    BY <1>1, <1>2, <1>3, <1>4, <2>1 DEF Settled, Succeeded, MainAt
<1>5. CASE o = d
  <2>1. CASE RecoverNode
    <3>1. ~Interrupted(o) /\ rec[o].state # "waiting_for_external_action"
      BY <1>5 DEF Settled, Succeeded, Interrupted
    <3>2. rec' = rec /\ Main("recover", main.at + 1)
      BY <1>1, <2>1, <3>1 DEF RecoverNode
    <3> QED
      BY <1>2, <3>2 DEF Main, Settled, Succeeded, MainAt
  <2>2. CASE PrepareNode
    <3>1. rec[o].state # "pending"
      BY <1>5 DEF Settled, Succeeded
    <3>2. rec' = rec /\ Main("prepare", main.at + 1)
      BY <1>1, <2>2, <3>1 DEF PrepareNode
    <3> QED
      BY <1>2, <3>2 DEF Main, Settled, Succeeded, MainAt
  <2>3. CASE NodeCompensated
    <3>1. Moved(d, "compensated").state = "compensated" /\ Moved(d, "compensated") \in Records
      BY <1>2, InState DEF Moved, NodeStates, Continues
    <3>2. rec' = rec \/ Put(d, Moved(d, "compensated"))
      BY <1>1, <1>5, <2>3 DEF NodeCompensated
    <3>3. rec'[d] = rec[d] \/ rec'[d].state = "compensated"
      BY <1>2, <3>1, <3>2, PutFacts
    <3>4. main'.pc = "compensate"
      BY <2>3 DEF NodeCompensated, Main
    <3> QED
      BY <1>2, <3>3, <3>4 DEF Settled, Succeeded, MainAt
  <2>4. ~RecoveryAnswered /\ ~RecoveryRechecked /\ ~ConditionEvaluated
    BY <1>1, <1>5 DEF Settled, MainAt, RecoveryAnswered, RecoveryRechecked, ConditionEvaluated
  <2> QED
    BY <2>1, <2>2, <2>3, <2>4 DEF RecordMain
<1> QED
  BY <1>4, <1>5

(* What has succeeded stays so, until a steer starts it afresh.             *)
LEMMA SettledStays ==
  ASSUME Typed, [Next]_vars, \A o \in Nodes : ~Steer(o), NEW d \in Nodes, Settled(d)
  PROVE  Settled(d)'
<1>1. /\ rec \in [Nodes -> Records] /\ task[d].pc = "none" /\ d \notin ctl.todo
      /\ rec[d].state \in {"succeeded", "compensated"}
  BY DEF Typed, RecTyped, Settled, Succeeded
<1>2. ASSUME rec'[d].state \in {"succeeded", "compensated"},
             task'[d] = task[d] \/ task'[d].pc = "none", d \notin ctl'.todo,
             \/ main' = main
             \/ main'.pc \notin {"restarting", "polling", "rechecking", "condition"}
      PROVE  Settled(d)'
  BY <1>2 DEF Settled, Succeeded, MainAt
<1>3. CASE StatusMain
  <2>1. main'.pc \notin {"restarting", "polling", "rechecking", "condition"}
    BY <1>3 DEF StatusMain, Start, Resume, Recovered, Prepared, BatchEnds, LeaveLoop,
                CompensateNode, Failed, Main, NoMain
  <2>2. rec' = rec /\ task' = task /\ ctl' = ctl
    BY <1>3, Frames
  <2> QED
    BY <1>1, <1>2, <2>1, <2>2
<1>4. CASE RecordMain
  BY <1>4, MainSettled
<1>5. CASE StartBatch
  <2>1. d \notin Batch
    BY <1>1 DEF Batch
  <2>2. rec'[d] = rec[d] /\ task'[d] = task[d] /\ main'.pc = "batch" /\ ctl' = ctl
    BY <1>5, <2>1 DEF StartBatch, Main
  <2> QED
    BY <1>1, <1>2, <2>2
<1>6. CASE Decide
  <2>1. /\ task' = task /\ ctl' = ctl /\ main'.pc \in {"prepare", "decide", "off"}
        /\ rec' = rec \/ Finished("skipped") \/ Finished("failed_terminal")
    BY <1>6 DEF Decide, Main, NoMain
  <2>2. rec'[d] = rec[d]
    BY <1>1, <2>1 DEF Finished, Terminal
  <2> QED
    BY <1>1, <1>2, <2>1, <2>2
<1>7. CASE CtlStep
  <2>1. rec'[d].state \in {"succeeded", "compensated"}
    BY <1>1, <1>7, CtlStates
  <2>2. d \notin ctl'.todo
    BY <1>1, <1>7, CtlGoes DEF CtlMoves
  <2> QED
    BY <1>2, <1>7, <2>1, <2>2, Frames
<1>8. CASE Cancel
  <2>1. rec'[d] = rec[d] /\ task' = task /\ main' = main
    BY <1>1, <1>8 DEF Cancel, Terminal
  <2>2. ctl'.todo = {n \in Effectful : rec[n].state = "running"}
    BY <1>8 DEF Cancel
  <2> QED
    BY <1>1, <1>2, <2>1, <2>2
<1>9. CASE Crash
  <2>1. rec' = rec /\ task'[d].pc = "none" /\ ctl'.todo = {} /\ main'.pc = "off"
    BY <1>9 DEF Crash, NoTask, NoCtl, NoMain
  <2> QED
    BY <1>1, <1>2, <2>1
<1>10. ASSUME NEW n \in Nodes, Accounted(n) \/ TaskStep(n) PROVE Settled(d)'
  <2>1. n # d
    BY <1>1, <1>10, TaskOfNode
  <2>2. rec'[d] = rec[d] /\ task'[d] = task[d] /\ main' = main /\ ctl' = ctl
    BY <1>10, <2>1, TaskOfNode, Frames
  <2> QED
    BY <1>1, <1>2, <2>2
<1>11. ASSUME NEW n \in Nodes, Caller(n) PROVE Settled(d)'
  <2>1. rec[n].state \in Waiting /\ task' = task /\ main' = main /\ ctl' = ctl
    BY <1>11 DEF Caller, Approve, RefreshAuthorization, Waiting
  <2>2. rec'[d] = rec[d]
    BY <1>1, <1>11, <2>1, TaskRecords, PutFacts DEF OneRecord, Waiting
  <2> QED
    BY <1>1, <1>2, <2>1, <2>2
<1>12. ASSUME NEW n \in Nodes, HandlerWritesLate(n) PROVE Settled(d)'
  BY <1>1, <1>2, <1>12 DEF HandlerWritesLate
<1>13. CASE UNCHANGED vars
  BY <1>1, <1>2, <1>13 DEF vars
<1> QED
  BY <1>3, <1>4, <1>5, <1>6, <1>7, <1>8, <1>9, <1>10, <1>11, <1>12, <1>13, Steps

\* A step keeps to the fan-in at a node.
Justified(n) ==
  n \notin used'.steered =>
    /\ GoesAhead(n)' => \A d \in Deps[n] : Settled(d)
    /\ rec'[n].state = "pending" => Deps[n] \cap ctl'.todo = {}

\* Nor does it send the node anywhere it was not going.
Follows(n) ==
  /\ GoesAhead(n)' => GoesAhead(n)
  /\ rec'[n].state = "pending" => rec[n].state = "pending" \/ GoesAhead(n)
  /\ used'.steered = used.steered /\ ctl'.todo \subseteq ctl.todo

(* A node that stays where it is is as justified as before.                 *)
LEMMA FollowsJustified == ASSUME NEW n \in Nodes, Based(n), Follows(n) PROVE Justified(n)
<1> SUFFICES ASSUME n \notin used'.steered
             PROVE  /\ GoesAhead(n)' => \A d \in Deps[n] : Settled(d)
                    /\ rec'[n].state = "pending" => Deps[n] \cap ctl'.todo = {}
  BY DEF Justified
<1>1. /\ GoesAhead(n) => \A d \in Deps[n] : Settled(d)
      /\ rec[n].state = "pending" => Deps[n] \cap ctl.todo = {}
  BY DEF Based, Follows
<1>2. GoesAhead(n) => Deps[n] \cap ctl.todo = {}
  BY <1>1 DEF Settled
<1> QED
  BY <1>1, <1>2 DEF Follows

(* execute makes a node ready only after its dependencies have succeeded.   *)
LEMMA MainJustified == ASSUME FanInv, RecordMain PROVE \A n \in Nodes : Justified(n)
<1>1. PICK o \in Nodes : o = Order[main.at]
  BY MainRecords DEF FanInv
<1>2. /\ Typed /\ rec \in [Nodes -> Records] /\ rec[o] \in Records /\ task' = task
      /\ ctl' = ctl /\ used' = used /\ main.pc # "batch"
      /\ \A n \in Nodes : task[n].pc = "none" /\ Based(n)
  BY Frames DEF FanInv, Typed, RecTyped, TasksInBatch, RecordMain, RecoverNode, RecoveryAnswered,
                RecoveryRechecked, PrepareNode, ConditionEvaluated, NodeCompensated
<1>3. main'.pc \in {"restarting", "polling", "condition"} => main'.at = main.at
  BY DEF RecordMain, RecoverNode, RecoveryAnswered, RecoveryRechecked, PrepareNode,
         ConditionEvaluated, NodeCompensated, Main
<1>4. ASSUME NEW n \in Nodes, n # o PROVE Justified(n)
  <2>1. rec'[n] = rec[n]
    BY <1>1, <1>2, <1>4, MainRecords, PutFacts DEF OneRecord
  <2>2. ~MainAt({"restarting", "polling", "condition"}, n)'
    BY <1>1, <1>3, <1>4 DEF MainAt
  <2>3. Follows(n)
    BY <1>2, <2>1, <2>2 DEF Follows, GoesAhead
  <2> QED
    BY <1>2, <2>3, FollowsJustified
<1>5. ASSUME GoesAhead(o) PROVE Justified(o)
  BY <1>2, <1>5, FollowsJustified DEF Follows
<1>6. ASSUME rec'[o].state = rec[o].state \/ rec'[o].state \in Terminal,
             main'.pc \notin {"restarting", "polling", "condition"}
      PROVE  Justified(o)
  <2>1. Follows(o)
    BY <1>2, <1>6 DEF Follows, GoesAhead, MainAt, Begun, Waiting, Terminal
  <2> QED
    BY <1>2, <2>1, FollowsJustified
<1>7. ASSUME NEW state \in Terminal, rec' = rec \/ Put(o, rec[o]) \/ Put(o, Moved(o, state)),
             main'.pc \notin {"restarting", "polling", "condition"}
      PROVE  Justified(o)
  <2>0. state \in NodeStates
    BY DEF NodeStates, Terminal
  <2>1. Moved(o, state).state = state /\ Moved(o, state) \in Records
    BY <1>2, <2>0, InState DEF Moved, Continues
  <2>2. rec'[o] = rec[o] \/ rec'[o] = Moved(o, state)
    BY <1>2, <1>7, <2>1, PutFacts
  <2>3. rec'[o].state = rec[o].state \/ rec'[o].state \in Terminal
    BY <2>1, <2>2
  <2> QED
    BY <1>6, <1>7, <2>3
<1>8. ASSUME PrepareNode PROVE Justified(o)
  <2>1. main.pc = "prepare"
    BY <1>8 DEF PrepareNode
  <2>2. CASE rec[o].state = "pending" /\ ~DependencyLost(o) /\ DependenciesSucceeded(o)
    <3>1. rec' = rec /\ \A d \in Deps[o] : Succeeded(d) /\ d \in Nodes
      BY <1>1, <1>8, <2>2, Bounds DEF PrepareNode, DependenciesSucceeded, Succeeded
    <3>2. o \notin used.steered => Deps[o] \cap ctl.todo = {}
      BY <1>2, <2>2 DEF Based
    <3>3. o \notin used.steered => \A d \in Deps[o] : Settled(d)
      BY <1>2, <2>1, <3>1, <3>2 DEF Settled, MainAt
    <3> QED
      BY <1>2, <3>2, <3>3 DEF Justified
  <2>3. CASE ~(rec[o].state = "pending" /\ ~DependencyLost(o) /\ DependenciesSucceeded(o))
    <3>1. main'.pc = "prepare" /\ (rec' = rec \/ Put(o, Moved(o, "skipped")))
      BY <1>1, <1>8, <2>3 DEF PrepareNode, Main
    <3> QED
      BY <1>7, <3>1 DEF Terminal
  <2> QED
    BY <2>2, <2>3
<1>9. ASSUME ConditionEvaluated \/ RecoveryAnswered PROVE Justified(o)
  <2>1. GoesAhead(o)
    BY <1>1, <1>9 DEF ConditionEvaluated, RecoveryAnswered, GoesAhead, MainAt
  <2> QED
    BY <1>5, <2>1
<1>10. ASSUME RecoverNode PROVE Justified(o)
  <2>1. CASE Interrupted(o) \/ rec[o].state = "waiting_for_external_action"
    BY <1>5, <2>1 DEF Interrupted, GoesAhead, Begun, Waiting
  <2>2. CASE ~Interrupted(o) /\ rec[o].state # "waiting_for_external_action"
    <3>1. rec' = rec /\ main'.pc = "recover"
      BY <1>1, <1>10, <2>2 DEF RecoverNode, Main
    <3> QED
      BY <1>6, <3>1
  <2> QED
    BY <2>1, <2>2
<1>11. ASSUME RecoveryRechecked PROVE Justified(o)
  <2>1. Put(o, rec[o]) \/ Put(o, Moved(o, "failed_terminal"))
    BY <1>1, <1>11 DEF RecoveryRechecked, Rechecked, FailedRecord, Moved
  <2>2. main'.pc = "recover"
    BY <1>11 DEF RecoveryRechecked, Main
  <2> QED
    BY <1>7, <2>1, <2>2 DEF Terminal
<1>12. ASSUME NodeCompensated PROVE Justified(o)
  <2>1. Put(o, Moved(o, "compensated")) \/ rec' = rec
    BY <1>1, <1>12 DEF NodeCompensated
  <2>2. main'.pc = "compensate"
    BY <1>12 DEF NodeCompensated, Main
  <2> QED
    BY <1>7, <2>1, <2>2 DEF Terminal
<1> QED
  BY <1>4, <1>8, <1>9, <1>10, <1>11, <1>12 DEF RecordMain

(* Nor does any other step send a node ahead of its dependencies.           *)
LEMMA StepJustified ==
  ASSUME FanInv, [Next]_vars, \A o \in Nodes : ~Steer(o)
  PROVE  \A n \in Nodes : Justified(n)
<1>1. /\ Typed /\ rec \in [Nodes -> Records] /\ \A n \in Nodes : rec[n] \in Records
      /\ used \in Counts /\ \A n \in Nodes : Based(n)
  BY DEF FanInv, Typed, RecTyped
<1>2. ASSUME NEW n \in Nodes, Follows(n) PROVE Justified(n)
  BY <1>1, <1>2, FollowsJustified
<1>3. CASE StatusMain
  <2> TAKE n \in Nodes
  <2>1. main'.pc \notin {"restarting", "polling", "condition"}
    BY <1>3 DEF StatusMain, Start, Resume, Recovered, Prepared, BatchEnds, LeaveLoop,
                CompensateNode, Failed, Main, NoMain
  <2>2. UNCHANGED <<rec, task, ctl, used>>
    BY <1>3, Frames
  <2>3. Follows(n)
    BY <2>1, <2>2 DEF Follows, GoesAhead, MainAt
  <2> QED
    BY <1>2, <2>3
<1>4. CASE RecordMain
  BY <1>4, MainJustified
<1>5. CASE StartBatch
  <2> TAKE n \in Nodes
  <2>1. n \in Batch => rec[n].state = "ready"
    BY DEF Batch
  <2>2. /\ n \notin Batch => rec'[n] = rec[n] /\ task'[n] = task[n]
        /\ main'.pc = "batch" /\ ctl' = ctl /\ used' = used
    BY <1>5 DEF StartBatch, Main
  <2>3. Follows(n)
    BY <2>1, <2>2 DEF Follows, GoesAhead, MainAt, Begun
  <2> QED
    BY <1>2, <2>3
<1>6. CASE Decide
  <2> TAKE n \in Nodes
  <2>1. /\ task' = task /\ ctl' = ctl /\ used' = used /\ main'.pc \in {"prepare", "decide", "off"}
        /\ rec' = rec \/ Finished("skipped") \/ Finished("failed_terminal")
    BY <1>6 DEF Decide, Main, NoMain
  <2>2. ASSUME NEW state \in {"skipped", "failed_terminal"}, Finished(state)
        PROVE  rec'[n].state = rec[n].state \/ rec'[n].state = state
    <3>1. Moved(n, state).state = state
      BY <1>1, InState DEF Moved, NodeStates
    <3> QED
      BY <2>2, <3>1 DEF Finished
  <2>3. rec'[n].state = rec[n].state \/ rec'[n].state \in {"skipped", "failed_terminal"}
    BY <2>1, <2>2
  <2>4. Follows(n)
    BY <2>1, <2>3 DEF Follows, GoesAhead, MainAt, Begun, Waiting
  <2> QED
    BY <1>2, <2>4
<1>7. CASE CtlStep
  <2> TAKE n \in Nodes
  <2>1. \/ rec'[n].state = rec[n].state
        \/ rec'[n].state \in {"compensated", "succeeded", "failed_terminal", "cancelled"}
    BY <1>1, <1>7, CtlStates
  <2>2. ctl'.todo \subseteq ctl.todo
    BY <1>1, <1>7, CtlGoes DEF CtlMoves
  <2>3. UNCHANGED <<task, main, used>>
    BY <1>7, Frames
  <2>4. Follows(n)
    BY <2>1, <2>2, <2>3 DEF Follows, GoesAhead, MainAt, Begun, Waiting
  <2> QED
    BY <1>2, <2>4
<1>8. CASE Cancel
  <2> TAKE n \in Nodes
  <2>1. /\ rec'[n] = CASE rec[n].state \in Terminal -> rec[n]
                       [] rec[n].state = "running" -> Moved(n, "cancelled")
                       [] OTHER -> Moved(n, "skipped")
        /\ task' = task /\ main' = main /\ used' = [used EXCEPT !.cancel = used.cancel + 1]
    BY <1>8 DEF Cancel
  <2>2. Moved(n, "cancelled").state = "cancelled" /\ Moved(n, "skipped").state = "skipped"
    BY <1>1, InState DEF Moved, NodeStates
  <2>3. rec'[n].state \in Terminal
    BY <2>1, <2>2 DEF Terminal
  <2>4. rec'[n].state \notin Begun \cup {"pending"}
    BY <2>3 DEF Terminal, Begun, Waiting
  <2>5. GoesAhead(n)' => GoesAhead(n)
    BY <2>1, <2>4 DEF GoesAhead, MainAt
  <2>6. used'.steered = used.steered
    BY <1>1, <2>1 DEF Counts
  <2> QED
    BY <1>1, <2>4, <2>5, <2>6 DEF Justified, Based
<1>9. CASE Crash
  <2> TAKE n \in Nodes
  <2>1. /\ rec' = rec /\ task'[n].pc = "none" /\ main'.pc = "off" /\ ctl'.todo = {}
        /\ used' = [used EXCEPT !.crash = used.crash + 1]
    BY <1>9 DEF Crash, NoTask, NoMain, NoCtl
  <2>2. used'.steered = used.steered
    BY <1>1, <2>1 DEF Counts
  <2>3. Follows(n)
    BY <2>1, <2>2 DEF Follows, GoesAhead, MainAt
  <2> QED
    BY <1>2, <2>3
<1>10. ASSUME NEW o \in Nodes, Accounted(o) \/ TaskStep(o), NEW n \in Nodes PROVE Justified(n)
  <2>1. /\ task[o].pc # "none" /\ UNCHANGED <<main, ctl, used>>
        /\ \A m \in Nodes \ {o} : task'[m] = task[m] /\ rec'[m] = rec[m]
    BY <1>1, <1>10, TaskOfNode, Frames
  <2>2. Follows(n)
    BY <2>1 DEF Follows, GoesAhead, MainAt
  <2> QED
    BY <1>2, <2>2
<1>11. ASSUME NEW o \in Nodes, Caller(o), NEW n \in Nodes PROVE Justified(n)
  <2>1. UNCHANGED <<task, main, ctl, used>> /\ rec[o].state \in Waiting
    BY <1>11, Frames DEF Caller, Approve, RefreshAuthorization, Waiting
  <2>2. n # o => rec'[n] = rec[n]
    BY <1>1, <1>11, TaskRecords, PutFacts DEF OneRecord
  <2>3. Follows(n)
    BY <2>1, <2>2 DEF Follows, GoesAhead, MainAt, Begun
  <2> QED
    BY <1>2, <2>3
<1>12. ASSUME NEW o \in Nodes, HandlerWritesLate(o) \/ UNCHANGED vars, NEW n \in Nodes
       PROVE  Justified(n)
  <2>1. UNCHANGED <<rec, task, main, ctl, used>>
    BY <1>12 DEF HandlerWritesLate, vars
  <2>2. Follows(n)
    BY <2>1 DEF Follows, GoesAhead, MainAt
  <2> QED
    BY <1>2, <2>2
<1> QED
  BY <1>3, <1>4, <1>5, <1>6, <1>7, <1>8, <1>9, <1>10, <1>11, <1>12, Steps

(* A steer reaches what depends on a node it reaches.                       *)
LEMMA AffectedCloses ==
  ASSUME NEW o \in Nodes, NEW n \in Nodes, NEW d \in Deps[n], d \in Affected(o)
  PROVE  n \in Affected(o)
  BY DEF Affected

(* It starts afresh only what is not under way, or remembers that it was.   *)
LEMMA SteerBased ==
  ASSUME FanInv, NEW o \in Nodes, Steer(o), NEW n \in Nodes
  PROVE  Based(n)'
<1>1. /\ UNCHANGED <<task, main, ctl>> /\ used \in Counts /\ Based(n)
      /\ used' = [used EXCEPT !.steer = used.steer + 1,
                    !.steered = used.steered \cup {m \in Affected(o) : AtWork(m)}]
      /\ \A m \in Nodes : rec'[m] = IF m \in Affected(o)
           THEN [Fresh EXCEPT !.rev = rec[m].rev + 1, !.tries = rec[m].tries] ELSE rec[m]
  BY DEF Steer, FanInv, Typed
<1>2. used'.steered = used.steered \cup {m \in Affected(o) : AtWork(m)}
  BY <1>1 DEF Counts
<1>3. CASE n \in Affected(o) /\ AtWork(n)
  BY <1>2, <1>3 DEF Based
<1>4. CASE n \in Affected(o) /\ ~AtWork(n)
  <2>1. rec'[n].state = "pending"
    BY <1>1, <1>4 DEF Fresh
  <2>2. /\ task'[n].pc = "none" /\ ctl'.todo = {}
        /\ ~MainAt({"restarting", "polling", "condition"}, n)'
    BY <1>1, <1>4 DEF AtWork, FanInv, NothingLeft, MainAt
  <2> QED
    BY <2>1, <2>2 DEF Based, GoesAhead, Begun, Waiting
<1>5. CASE n \notin Affected(o)
  <2>1. \A d \in Deps[n] : d \in Nodes /\ d \notin Affected(o)
    BY <1>5, AffectedCloses, Bounds
  <2>2. rec'[n] = rec[n] /\ \A d \in Deps[n] : rec'[d] = rec[d]
    BY <1>1, <1>5, <2>1
  <2>3. \A d \in Deps[n] : Settled(d) => Settled(d)'
    BY <1>1, <2>2 DEF Settled, Succeeded, MainAt
  <2>4. GoesAhead(n)' => GoesAhead(n)
    BY <1>1, <2>2 DEF GoesAhead, MainAt
  <2> QED
    BY <1>1, <1>2, <2>2, <2>3, <2>4 DEF Based
<1> QED
  BY <1>3, <1>4, <1>5

(* So the fan-in stays.                                                     *)
LEMMA FanStep == ASSUME FanInv, [Next]_vars PROVE FanInv'
<1>1. ASSUME NEW n \in Nodes, \A o \in Nodes : ~Steer(o) PROVE Based(n)'
  <2>1. Justified(n) /\ \A d \in Deps[n] : d \in Nodes
    BY <1>1, StepJustified, Bounds
  <2>2. \A d \in Deps[n] : Settled(d) => Settled(d)'
    BY <1>1, <2>1, SettledStays DEF FanInv
  <2> QED
    BY <2>1, <2>2 DEF Justified, Based
<1> QED
  BY <1>1, TypedStep, TasksInBatchStep, NothingLeftStays, SteerBased DEF FanInv

(* A handler is called only when every dependency has succeeded, in every   *)
(* order in which tasks finish, fail and retry, after every crash, and      *)
(* whatever is cancelled or steered, but for a node that a steer has met at *)
(* work.                                                                    *)
THEOREM ExecutorFanIn == Spec => FanIn
<1>1. Init => FanInv
  <2> SUFFICES ASSUME Init PROVE FanInv
    OBVIOUS
  <2> QED
    BY TypedInit DEF Init, FanInv, TasksInBatch, NothingLeft, Based, GoesAhead, Begun, Waiting,
                     MainAt, Fresh, NoTask, NoMain, NoCtl
<1>2. FanInv /\ [Next]_vars => FanInv'
  BY FanStep
<1>3. FanInv => \A n \in Nodes \ used.steered : InvokeHandler(n) =>
                  \A d \in Deps[n] : rec[d].state \in {"succeeded", "compensated"}
  BY DEF FanInv, Based, GoesAhead, Settled, Succeeded, InvokeHandler
<1> QED
  BY <1>1, <1>2, <1>3, PTL DEF Spec, FanIn
-----------------------------------------------------------------------------
(* A failed run has compensated what it verified: a verified node is done,  *)
(* failed or still running, and none is running past the loop.  A run that  *)
(* was asked to stop is not said anything of.                               *)

\* What an effect has verified is in its record, and its task in its attempts.
Effect(n) ==
  /\ n \in verified => n \in Effectful /\ rec[n].sure
  /\ n \in Effectful /\ n \notin verified /\ task[n].pc # "none" => rec[n].begun
  /\ n \notin Effectful => world[n] = "clean" /\ n \notin late

Past == {"decide", "compensate", "compensating"}
Loop == {"prepare", "condition", "select", "batch"}

Verified(n) ==
  /\ rec[n].state \in {"succeeded", "compensated", "failed_terminal", "running"}
  /\ main.pc \in Past => rec[n].state # "running"
  /\ task[n].pc \in {"none", "accounting", "rechecking"}
  /\ ~MainAt({"restarting", "polling"}, n)

Kept(n) ==
  /\ n \in verified => Verified(n)
  /\ n \in Effectful /\ task[n].pc = "validating" => rec[n].state = "running"
  /\ MainAt({"condition"}, n) => rec[n].state = "pending"

\* Compensated, or tried to be.
Handled(n) == n \in OnFailure \cap verified => rec[n].state = "compensated" \/ n \in tried

\* The nodes that compensation has passed.
Passed ==
  CASE main.pc \in {"compensate", "compensating"} -> {Order[i] : i \in {j \in Positions : j > main.at}}
    [] main.pc = "off" /\ status = "failed" -> Nodes
    [] OTHER -> {}

FailInv ==
  /\ Typed /\ TasksInBatch /\ ctl = NoCtl
  /\ \A n \in Nodes : Effect(n)
  /\ main.pc \in Loop \cup Past => status = "running"
  /\ main.pc # "off" => status # "failed"
  /\ \A n \in Nodes : Kept(n)
  /\ \A n \in Passed : Handled(n)

(* What FailInv says of a verified effect.                                  *)
LEMMA VerifiedEffects ==
  ASSUME FailInv
  PROVE  /\ Typed /\ TasksInBatch /\ rec \in [Nodes -> Records] /\ verified \subseteq Nodes
         /\ \A n \in Nodes : rec[n] \in Records /\ world[n] \in Worlds
         /\ \A n \in verified : n \in Effectful /\ rec[n].sure
         /\ \A n \in Effectful : n \notin verified /\ task[n].pc # "none" => rec[n].begun
  BY Bounds DEF FailInv, Effect, Typed, RecTyped

(* Only a node with an effect is ever verified, or writes.                  *)
LEMMA OnlyEffects ==
  ASSUME Typed, NEW o \in Nodes, Effect(o), Accounted(o) \/ TaskStep(o) \/ Caller(o)
  PROVE  /\ verified' = verified \/ (o \in Effectful /\ verified' = verified \cup {o})
         /\ \A n \in Nodes \ Effectful : world'[n] = world[n] /\ (n \in late' => n \in late)
<1>1. world \in [Nodes -> Worlds] /\ ("verified" \in Answers(o) => o \in Effectful)
  BY DEF Typed, Effect, Answers
<1>2. \/ verified' = verified
      \/ o \in Effectful /\ verified' = verified \cup {o}
  <2>1. ASSUME RetryAnswered(o) \/ SettlementAnswered(o)
        PROVE  verified' = verified \/ (o \in Effectful /\ verified' = verified \cup {o})
    <3>1. PICK answer \in Answers(o) :
            verified' = IF answer = "verified" THEN verified \cup {o} ELSE verified
      BY <2>1 DEF RetryAnswered, SettlementAnswered, Reconciled
    <3> QED
      BY <1>1, <3>1
  <2>2. ASSUME ~RetryAnswered(o), ~SettlementAnswered(o)
        PROVE  verified' = verified \/ (o \in Effectful /\ verified' = verified \cup {o})
    BY <2>2 DEF Accounted, TaskStep, InvokeHandler, HandlerWrites, HandlerAcknowledges,
         HandlerReturns, ResultAccepted, ValidatorThrows, HandlerThrows, HandlerTimesOut,
         AnswerRechecked, BackoffEnds, Caller, Approve, RefreshAuthorization
  <2> QED
    BY <2>1, <2>2
<1>3. CASE HandlerWrites(o)
  BY <1>1, <1>2, <1>3 DEF HandlerWrites
<1>4. CASE HandlerTimesOut(o)
  BY <1>2, <1>4 DEF HandlerTimesOut
<1>5. CASE ~HandlerWrites(o) /\ ~HandlerTimesOut(o)
  <2>1. world' = world /\ late' = late
    BY <1>5 DEF Accounted, TaskStep, InvokeHandler, HandlerAcknowledges, HandlerReturns,
         ResultAccepted, ValidatorThrows, HandlerThrows, RetryAnswered, SettlementAnswered,
         AnswerRechecked, BackoffEnds, Caller, Approve, RefreshAuthorization
  <2> QED
    BY <1>2, <2>1
<1> QED
  BY <1>3, <1>4, <1>5

(* That stays so in a run nobody cancels, even when handlers act late.      *)
LEMMA EffectStep ==
  ASSUME FailInv, used'.cancel = 0, [Next]_vars
  PROVE  \A n \in Nodes : Effect(n)'
<1>1. /\ Typed /\ ctl = NoCtl /\ rec \in [Nodes -> Records] /\ \A n \in Nodes : rec[n] \in Records
      /\ world \in [Nodes -> Worlds] /\ \A n \in Nodes : Effect(n)
  BY DEF FailInv, Typed, RecTyped
<1>2. ~CtlStep /\ ~Cancel
  BY <1>1, Undisturbed
\* One record changes, as sure as before unless its effect is verified.
<1>3. ASSUME NEW o \in Nodes, SureRecord(o),
             verified' = verified \/ (o \in Effectful /\ verified' = verified \cup {o}),
             \A n \in Nodes : task'[n].pc # "none" => task[n].pc # "none",
             \A n \in Nodes \ Effectful : world'[n] = world[n] /\ (n \in late' => n \in late),
             NEW n \in Nodes
      PROVE  Effect(n)'
  <2>1. CASE rec' = rec /\ verified' = verified
    BY <1>1, <1>3, <2>1 DEF Effect
  <2>2. CASE ~(rec' = rec /\ verified' = verified)
    <3>1. PICK a \in Records :
            /\ Put(o, a) /\ a.begun = rec[o].begun
            /\ o \in Effectful /\ (rec[o].sure \/ o \in verified' \ verified) => a.sure
      BY <1>3, <2>2 DEF SureRecord
    <3>2. rec'[o] = a /\ \A m \in Nodes \ {o} : rec'[m] = rec[m]
      BY <1>1, <3>1, PutFacts
    <3>3. CASE n = o
      <4>1. n \in verified' => n \in Effectful /\ a.sure
        BY <1>1, <1>3, <3>1, <3>3 DEF Effect
      <4>2. n \in Effectful /\ n \notin verified' /\ task'[n].pc # "none" => a.begun
        BY <1>1, <1>3, <3>1, <3>3 DEF Effect
      <4> QED
        BY <1>1, <1>3, <3>2, <3>3, <4>1, <4>2 DEF Effect
    <3>4. CASE n # o
      BY <1>1, <1>3, <3>2, <3>4 DEF Effect
    <3> QED
      BY <3>3, <3>4
  <2> QED
    BY <2>1, <2>2
\* Records change, but not what they say of their effects.
<1>4. ASSUME \A n \in Nodes : rec'[n].sure = rec[n].sure /\ rec'[n].begun = rec[n].begun,
             verified' = verified, world' = world, late' \subseteq late \cup Effectful,
             \A n \in Nodes : task'[n].pc # "none" => task[n].pc # "none"
      PROVE  \A n \in Nodes : Effect(n)'
  BY <1>1, <1>4 DEF Effect
<1>5. CASE StatusMain \/ UNCHANGED vars
  BY <1>4, <1>5, Frames DEF vars
<1>6. CASE RecordMain
  <2>1. PICK o \in Nodes : o = Order[main.at]
    BY <1>1, <1>6, MainRecords
  <2>2. SureRecord(o) /\ UNCHANGED <<task, world, late>>
    BY <1>1, <1>6, <2>1, MainSure, Frames
  <2>3. verified' = verified \/ (o \in Effectful /\ verified' = verified \cup {o})
    <3>1. CASE RecoveryAnswered
      <4>1. PICK answer \in Answers(o) :
              verified' = IF answer = "verified" THEN verified \cup {o} ELSE verified
        BY <2>1, <3>1 DEF RecoveryAnswered, Reconciled
      <4>2. "verified" \in Answers(o) => o \in Effectful
        BY <1>1 DEF Effect, Answers
      <4> QED
        BY <4>1, <4>2
    <3>2. CASE ~RecoveryAnswered
      BY <1>6, <3>2 DEF RecordMain, RecoverNode, RecoveryRechecked, PrepareNode,
           ConditionEvaluated, NodeCompensated
    <3> QED
      BY <3>1, <3>2
  <2> QED
    BY <1>3, <2>2, <2>3
<1>7. CASE StartBatch
  <2> TAKE n \in Nodes
  <2>1. /\ rec'[n] = IF n \in Batch THEN StartedRecord(n) ELSE rec[n]
        /\ task'[n] = task[n] \/ (n \in Batch /\ StartedRecord(n).state = "running")
        /\ UNCHANGED <<verified, world, late>>
    BY <1>7 DEF StartBatch
  <2>2. /\ n \in verified => StartedRecord(n).sure = TRUE
        /\ n \notin verified =>
             \/ StartedRecord(n).begun = TRUE
             \/ /\ StartedRecord(n).begun = rec[n].begun
                /\ StartedRecord(n).state # "running"
    BY <1>1, StartedFacts
  <2> QED
    BY <1>1, <2>1, <2>2 DEF Effect
<1>8. CASE Decide
  <2>1. /\ UNCHANGED <<verified, task, world, late>>
        /\ rec' = rec \/ Finished("skipped") \/ Finished("failed_terminal")
    BY <1>8 DEF Decide
  <2>2. {"skipped", "failed_terminal"} \subseteq NodeStates
    BY DEF NodeStates
  <2>3. ASSUME NEW state \in NodeStates, Finished(state)
        PROVE  \A n \in Nodes : rec'[n].sure = rec[n].sure /\ rec'[n].begun = rec[n].begun
    <3>1. \A n \in Nodes : /\ Moved(n, state).sure = rec[n].sure
                           /\ Moved(n, state).begun = rec[n].begun
      BY <1>1, InState DEF Moved, Continues
    <3> QED
      BY <2>3, <3>1 DEF Finished
  <2> QED
    BY <1>4, <2>1, <2>2, <2>3
<1>9. CASE Crash
  <2>1. UNCHANGED <<rec, verified, world>> /\ \A n \in Nodes : task'[n].pc = "none"
    BY <1>9 DEF Crash, NoTask
  <2>2. late' \subseteq late \cup Effectful
    BY <1>9 DEF Crash
  <2> QED
    BY <1>4, <2>1, <2>2
<1>10. ASSUME NEW o \in Nodes, Accounted(o) \/ TaskStep(o) \/ Caller(o), NEW n \in Nodes
       PROVE  Effect(n)'
  <2>1. \A m \in Nodes : task'[m].pc # "none" => task[m].pc # "none"
    BY <1>1, <1>10, TaskOfNode, Frames
  <2>2. SureRecord(o)
    BY <1>1, <1>10, TaskSure
  <2> QED
    BY <1>1, <1>3, <1>10, <2>1, <2>2, OnlyEffects
<1>11. ASSUME NEW o \in Nodes, Steer(o), NEW n \in Nodes PROVE Effect(n)'
  <2>1. /\ rec'[n] = IF n \in Affected(o)
              THEN [Fresh EXCEPT !.rev = rec[n].rev + 1, !.tries = rec[n].tries] ELSE rec[n]
        /\ \A m \in Affected(o) \cap Effectful : EffectNotBegun(m)
        /\ UNCHANGED <<verified, task, world, late>>
    BY <1>11 DEF Steer
  <2>2. n \in Affected(o) /\ n \in Effectful => n \notin verified /\ task[n].pc = "none"
    BY <1>1, <2>1 DEF EffectNotBegun, Effect
  <2> QED
    BY <1>1, <2>1, <2>2 DEF Effect
<1>12. ASSUME NEW o \in Nodes, HandlerWritesLate(o), NEW n \in Nodes PROVE Effect(n)'
  <2>1. o \in Effectful
    BY <1>1, <1>12 DEF HandlerWritesLate, Effect
  <2>2. /\ UNCHANGED <<rec, verified, task>> /\ late' \subseteq late
        /\ n \notin Effectful => world'[n] = world[n]
    BY <1>1, <1>12, <2>1 DEF HandlerWritesLate
  <2> QED
    BY <1>1, <2>2 DEF Effect
<1> QED
  BY <1>2, <1>5, <1>6, <1>7, <1>8, <1>9, <1>10, <1>11, <1>12, Steps

(* Where the run's status comes from.                                       *)
LEMMA StatusStep ==
  ASSUME FailInv, used'.cancel = 0, [Next]_vars
  PROVE  /\ main'.pc \in Loop \cup Past => status' = "running"
         /\ main'.pc # "off" => status' # "failed"
<1>1. /\ Typed /\ TasksInBatch /\ ctl = NoCtl
      /\ main.pc \in Loop \cup Past => status = "running"
      /\ main.pc # "off" => status # "failed"
  BY DEF FailInv
<1>2. CASE StatusMain
  BY <1>1, <1>2 DEF StatusMain, Start, Resume, Recovered, Prepared, BatchEnds, LeaveLoop,
       CompensateNode, Failed, Main, NoMain, Loop, Past, Ended
<1>3. CASE RecordMain
  BY <1>1, <1>3 DEF RecordMain, RecoverNode, RecoveryAnswered, RecoveryRechecked, PrepareNode,
       ConditionEvaluated, NodeCompensated, Main, Loop, Past
<1>4. CASE StartBatch \/ Decide \/ Crash \/ UNCHANGED vars
  BY <1>1, <1>4 DEF StartBatch, Decide, Crash, vars, Main, NoMain, Loop, Past
<1>5. ASSUME NEW n \in Nodes, Accounted(n) \/ TaskStep(n)
      PROVE  UNCHANGED <<status, main>>
  BY <1>5, Frames
<1>6. ASSUME NEW n \in Nodes, Steer(n) \/ Caller(n) \/ HandlerWritesLate(n)
      PROVE  main' = main /\ (main.pc = "off" \/ status' = status)
  BY <1>6 DEF Steer, Caller, Approve, RefreshAuthorization, HandlerWritesLate
<1>7. "off" \notin Loop \cup Past
  BY DEF Loop, Past
<1> QED
  BY <1>1, <1>2, <1>3, <1>4, <1>5, <1>6, <1>7, Undisturbed, Steps

(* Where execute goes past the loop.                                        *)
LEMMA PastStep ==
  ASSUME FailInv, used'.cancel = 0, [Next]_vars, main'.pc \in Past
  PROVE  main.pc \in Past \/ (Decide /\ ~Some({"running"}))
<1>1. /\ Typed /\ ctl = NoCtl /\ (main.pc \in Loop => status = "running")
  BY DEF FailInv
<1>2. CASE StatusMain
  BY <1>1, <1>2 DEF StatusMain, Start, Resume, Recovered, Prepared, BatchEnds, LeaveLoop,
       CompensateNode, Failed, Main, NoMain, Loop, Past
<1>3. CASE RecordMain
  BY <1>3 DEF RecordMain, RecoverNode, RecoveryAnswered, RecoveryRechecked, PrepareNode,
       ConditionEvaluated, NodeCompensated, Main, Past
<1>4. CASE StartBatch \/ Crash
  BY <1>4 DEF StartBatch, Crash, Main, NoMain, Past
<1>5. CASE Decide
  <2>1. main.pc = "select" /\ status = "running"
    BY <1>1, <1>5 DEF Decide, Loop
  <2>2. Some({"running", "failed_terminal"} \cup Waiting) \/ ~Some({"running"})
    BY DEF Some
  <2> QED
    BY <1>5, <2>1, <2>2 DEF Decide, Main, NoMain, Past, Some
<1>6. ASSUME NEW n \in Nodes, \/ Accounted(n) \/ TaskStep(n) \/ Steer(n) \/ Caller(n)
                              \/ HandlerWritesLate(n)
      PROVE  main' = main
  BY <1>6, Frames DEF Steer, HandlerWritesLate
<1>7. CASE UNCHANGED vars
  BY <1>7 DEF vars
<1> QED
  BY <1>1, <1>2, <1>3, <1>4, <1>5, <1>6, <1>7, Undisturbed, Steps

(* A node that a step leaves alone.                                         *)
LEMMA KeptFrame ==
  ASSUME NEW n \in Nodes, Kept(n), rec'[n] = rec[n],
         task'[n] = task[n] \/ task'[n].pc = "none", n \in verified' => n \in verified,
         main'.pc \in Past => rec[n].state # "running" \/ main.pc \in Past,
         \/ main' = main \/ main'.pc \notin {"restarting", "polling", "condition"}
         \/ Order[main'.at] # n
  PROVE  Kept(n)'
  BY DEF Kept, Verified, MainAt

(* execute's steps at a node.                                               *)
LEMMA MainKept ==
  ASSUME FailInv, used'.cancel = 0, [Next]_vars, RecordMain
  PROVE  \A n \in Nodes : Kept(n)'
<1>1. PICK o \in Nodes : o = Order[main.at]
  BY MainRecords DEF FailInv
<1>2. /\ Typed /\ rec \in [Nodes -> Records] /\ rec[o] \in Records /\ world[o] \in Worlds
      /\ \A n \in Nodes : Kept(n)
      /\ \A n \in verified : n \in Effectful /\ rec[n].sure
  BY VerifiedEffects DEF FailInv
<1>3. /\ task' = task /\ main.pc # "batch" /\ \A n \in Nodes : task[n].pc = "none"
      /\ main'.pc \in AtNode => main'.at = main.at
      /\ \/ verified' = verified
         \/ RecoveryAnswered /\ verified' = verified \cup {o} /\ main'.pc = "rechecking"
      /\ main'.pc \in Past => NodeCompensated /\ main.pc \in Past
  <2>1. task' = task /\ main.pc # "batch"
    BY Frames DEF RecordMain, RecoverNode, RecoveryAnswered, RecoveryRechecked, PrepareNode,
         ConditionEvaluated, NodeCompensated
  <2>2. \A n \in Nodes : task[n].pc = "none"
    BY <2>1 DEF FailInv, TasksInBatch
  <2>3. CASE RecoverNode
    <3>1. /\ verified' = verified /\ main'.pc \in {"restarting", "polling", "recover"}
          /\ main'.pc \in {"restarting", "polling"} => main'.at = main.at
      BY <2>3 DEF RecoverNode, Main
    <3> QED
      BY <2>1, <2>2, <3>1 DEF AtNode, Past
  <2>4. CASE RecoveryAnswered
    <3>1. PICK answer \in Answers(o) :
            /\ verified' = IF answer = "verified" THEN verified \cup {o} ELSE verified
            /\ IF answer = "verified" THEN Main("rechecking", main.at)
               ELSE Main("recover", main.at + 1)
      BY <1>1, <2>4 DEF RecoveryAnswered, Reconciled
    <3>2. CASE answer = "verified"
      BY <2>1, <2>2, <2>4, <3>1, <3>2 DEF Main, AtNode, Past
    <3>3. CASE answer # "verified"
      BY <2>1, <2>2, <3>1, <3>3 DEF Main, AtNode, Past
    <3> QED
      BY <3>2, <3>3
  <2>5. CASE RecoveryRechecked
    <3>1. verified' = verified /\ main'.pc = "recover"
      BY <2>5 DEF RecoveryRechecked, Main
    <3> QED
      BY <2>1, <2>2, <3>1 DEF AtNode, Past
  <2>6. CASE PrepareNode
    <3>1. /\ verified' = verified /\ main'.pc \in {"prepare", "condition"}
          /\ main'.pc = "condition" => main'.at = main.at
      BY <2>6 DEF PrepareNode, Main
    <3> QED
      BY <2>1, <2>2, <3>1 DEF AtNode, Past
  <2>7. CASE ConditionEvaluated
    <3>1. verified' = verified /\ main'.pc = "prepare"
      BY <2>7 DEF ConditionEvaluated, Main
    <3> QED
      BY <2>1, <2>2, <3>1 DEF AtNode, Past
  <2>8. CASE NodeCompensated
    <3>1. verified' = verified /\ main.pc = "compensating" /\ main'.pc = "compensate"
      BY <2>8 DEF NodeCompensated, Main
    <3> QED
      BY <2>1, <2>2, <2>8, <3>1 DEF AtNode, Past
  <2> QED
    BY <2>3, <2>4, <2>5, <2>6, <2>7, <2>8 DEF RecordMain
<1>4. ASSUME NEW n \in Nodes, n # o PROVE Kept(n)'
  <2>1. rec'[n] = rec[n]
    BY <1>1, <1>2, <1>4, MainRecords, PutFacts DEF OneRecord
  <2>2. main'.pc \in {"restarting", "polling", "condition"} => Order[main'.at] # n
    BY <1>1, <1>3, <1>4 DEF AtNode
  <2> QED
    BY <1>2, <1>3, <1>4, <2>1, <2>2, KeptFrame
\* The node is done or failed, or it is not verified.
<1>5. ASSUME o \in verified' => rec'[o].state \in {"succeeded", "compensated", "failed_terminal"},
             o \in verified' => main'.pc \notin {"restarting", "polling"}, main'.pc # "condition"
      PROVE  \A n \in Nodes : Kept(n)'
  <2>1. Kept(o)'
    BY <1>3, <1>5 DEF Kept, Verified, MainAt
  <2> QED
    BY <1>4, <2>1
<1>6. ASSUME rec'[o] = rec[o], verified' = verified,
             main'.pc \notin {"restarting", "polling", "condition"}
      PROVE  \A n \in Nodes : Kept(n)'
  <2>1. Kept(o)'
    BY <1>2, <1>3, <1>6, KeptFrame
  <2> QED
    BY <1>4, <2>1
<1>7. CASE RecoverNode
  <2>1. verified' = verified /\ main'.pc \in {"recover", "restarting", "polling"}
    BY <1>7 DEF RecoverNode, Main
  <2>2. CASE o \in verified
    <3>1. rec[o].state # "waiting_for_external_action"
      BY <1>2, <2>2 DEF Kept, Verified
    <3>2. \/ Put(o, ReusedRecord(rec[o])) /\ main'.pc = "recover"
          \/ rec' = rec /\ main'.pc = "recover"
      BY <1>1, <1>7, <2>2, <3>1 DEF RecoverNode, Main
    <3>3. ReusedRecord(rec[o]) \in Records /\ ReusedRecord(rec[o]).state = "succeeded"
      BY <1>2, ReusedFacts DEF Continues
    <3>4. CASE rec' = rec /\ main'.pc = "recover"
      BY <1>6, <2>1, <3>4
    <3>5. CASE Put(o, ReusedRecord(rec[o])) /\ main'.pc = "recover"
      <4>1. rec'[o].state = "succeeded"
        BY <1>2, <3>3, <3>5, PutFacts
      <4> QED
        BY <1>5, <3>5, <4>1
    <3> QED
      BY <3>2, <3>4, <3>5
  <2>3. CASE o \notin verified
    BY <1>5, <2>1, <2>3
  <2> QED
    BY <2>2, <2>3
<1>8. CASE RecoveryAnswered
  <2>1. PICK answer \in Answers(o), reason \in Reasons : /\ Reconciled(o, reason, answer)
                                                         /\ main'.pc \in {"rechecking", "recover"}
    BY <1>1, <1>8 DEF RecoveryAnswered, Reasons, Main
  <2>2. o \notin verified
    BY <1>1, <1>2, <1>8 DEF RecoveryAnswered, Kept, Verified, MainAt
  <2> DEFINE a == AnsweredRecord(rec[o], reason, answer)
  <2>3. Put(o, a) /\ (o \in verified' => answer = "verified")
    BY <2>1, <2>2 DEF Reconciled
  <2>4. Answered(a, rec[o], o, reason, answer)
    BY <1>2, <2>1, AnsweredFacts
  <2> HIDE DEF a
  <2>5. rec'[o] = a /\ (answer = "verified" => a.state = "succeeded")
    BY <1>2, <2>3, <2>4, PutFacts DEF Answered, Continues
  <2> QED
    BY <1>5, <2>1, <2>3, <2>5
<1>9. CASE RecoveryRechecked
  <2>1. /\ Put(o, rec[o]) \/ Put(o, FailedRecord(rec[o]))
        /\ main'.pc = "recover" /\ verified' = verified
    BY <1>1, <1>9 DEF RecoveryRechecked, Rechecked, Main
  <2>2. FailedRecord(rec[o]) \in Records /\ FailedRecord(rec[o]).state = "failed_terminal"
    BY <1>2, FailedFacts DEF Continues
  <2>3. rec'[o] = rec[o] \/ rec'[o].state = "failed_terminal"
    BY <1>2, <2>1, <2>2, PutFacts
  <2> QED
    BY <1>5, <1>6, <2>1, <2>3
<1>10. CASE PrepareNode
  <2>1. verified' = verified /\ main'.pc \in {"prepare", "condition"}
    BY <1>10 DEF PrepareNode, Main
  <2>2. CASE main'.pc = "condition"
    <3>1. rec' = rec /\ rec[o].state = "pending"
      BY <1>1, <1>10, <2>2 DEF PrepareNode, Main
    <3>2. Kept(o)'
      BY <1>2, <1>3, <2>1, <2>2, <3>1 DEF Kept, Verified, MainAt, Past
    <3> QED
      BY <1>4, <3>2
  <2>3. CASE main'.pc = "prepare" /\ o \in verified
    <3>1. rec[o].state # "pending"
      BY <1>2, <2>3 DEF Kept, Verified
    <3>2. rec' = rec
      BY <1>1, <1>10, <3>1 DEF PrepareNode
    <3> QED
      BY <1>6, <2>1, <2>3, <3>2
  <2>4. CASE main'.pc = "prepare" /\ o \notin verified
    BY <1>5, <2>1, <2>4
  <2> QED
    BY <2>1, <2>2, <2>3, <2>4
<1>11. CASE ConditionEvaluated
  <2>1. verified' = verified /\ main'.pc = "prepare" /\ MainAt({"condition"}, o)
    BY <1>1, <1>11 DEF ConditionEvaluated, Main, MainAt
  <2>2. o \notin verified
    BY <1>2, <2>1 DEF Kept, Verified
  <2> QED
    BY <1>5, <2>1, <2>2
<1>12. CASE NodeCompensated
  <2>1. /\ Put(o, Moved(o, "compensated")) \/ rec' = rec
        /\ main'.pc = "compensate" /\ verified' = verified
    BY <1>1, <1>12 DEF NodeCompensated, Main
  <2>2. Moved(o, "compensated") \in Records /\ Moved(o, "compensated").state = "compensated"
    BY <1>2, InState DEF Moved, NodeStates, Continues
  <2>3. rec'[o] = rec[o] \/ rec'[o].state = "compensated"
    BY <1>2, <2>1, <2>2, PutFacts
  <2> QED
    BY <1>5, <1>6, <2>1, <2>3
<1> QED
  BY <1>7, <1>8, <1>9, <1>10, <1>11, <1>12 DEF RecordMain

(* A task's steps.                                                          *)
LEMMA TaskKept ==
  ASSUME FailInv, NEW o \in Nodes, Accounted(o) \/ TaskStep(o)
  PROVE  \A n \in Nodes : Kept(n)'
<1>1. /\ Typed /\ rec \in [Nodes -> Records] /\ rec[o] \in Records /\ world[o] \in Worlds
      /\ task \in [Nodes -> Tasks] /\ \A n \in Nodes : Kept(n)
  BY VerifiedEffects DEF FailInv, Typed
<1>2. /\ main' = main /\ main.pc = "batch" /\ task[o].pc # "none"
      /\ \A n \in Nodes \ {o} : rec'[n] = rec[n] /\ task'[n] = task[n]
      /\ verified' = verified \/ verified' = verified \cup {o}
  BY <1>1, TaskOfNode, TaskNotStarted DEF FailInv, TasksInBatch
<1>3. SUFFICES ASSUME TRUE PROVE Kept(o)'
  <2>1. ASSUME NEW n \in Nodes \ {o} PROVE Kept(n)'
    BY <1>1, <1>2, KeptFrame DEF Past
  <2> QED
    BY <2>1
\* What is to show of the node, as execute waits for its batch.
<1>4. ASSUME o \in verified' => rec'[o].state \in {"succeeded", "failed_terminal", "running"},
             o \in verified' => task'[o].pc \in {"none", "accounting", "rechecking"},
             o \in Effectful /\ task'[o].pc = "validating" => rec'[o].state = "running"
      PROVE  Kept(o)'
  BY <1>2, <1>4 DEF Kept, Verified, MainAt, Past
<1>5. ASSUME task[o].pc \notin {"none", "accounting", "rechecking"} PROVE o \notin verified
  BY <1>1, <1>5 DEF Kept, Verified
<1>6. CASE Accounted(o)
  <2>1. /\ verified' = verified /\ TaskEnds(o)
        /\ \/ Put(o, [Moved(o, "succeeded") EXCEPT !.tries = 0]) \/ rec' = rec
           \/ Put(o, FailedRecord(rec[o]))
    BY <1>6 DEF Accounted
  <2> DEFINE a == [Moved(o, "succeeded") EXCEPT !.tries = 0]
  <2>2. a \in Records /\ a.state = "succeeded"
    BY <1>1, AccountedFacts DEF Moved, Continues
  <2> HIDE DEF a
  <2>3. FailedRecord(rec[o]) \in Records /\ FailedRecord(rec[o]).state = "failed_terminal"
    BY <1>1, FailedFacts DEF Continues
  <2>4. rec'[o].state \in {"succeeded", "failed_terminal"} \/ rec'[o] = rec[o]
    <3>1. Put(o, a) \/ rec' = rec \/ Put(o, FailedRecord(rec[o]))
      BY <2>1 DEF a
    <3> QED
      BY <1>1, <2>2, <2>3, <3>1, PutFacts
  <2>5. task'[o].pc = "none"
    BY <1>1, <2>1, TaskFacts DEF TaskPcs
  <2>6. o \in verified => rec[o].state \in {"succeeded", "compensated", "failed_terminal", "running"}
    BY <1>1 DEF Kept, Verified
  <2> QED
    BY <1>2, <2>1, <2>4, <2>5, <2>6 DEF Kept, Verified, MainAt, Past
<1>7. CASE InvokeHandler(o) \/ HandlerWrites(o) \/ HandlerAcknowledges(o)
  <2>1. /\ task[o].pc \in {"started", "handling"} /\ verified' = verified
        /\ \/ task[o].pc = "started" /\ Task(o, "handling")
           \/ task[o].pc = "handling" /\ (task' = task \/ task' = [task EXCEPT ![o].wrote = TRUE])
    BY <1>7 DEF InvokeHandler, HandlerWrites, HandlerAcknowledges
  <2>2. task'[o].pc = "handling"
    BY <1>1, <2>1, TaskFacts DEF TaskPcs
  <2> QED
    BY <1>4, <1>5, <2>1, <2>2
<1>8. CASE HandlerReturns(o)
  <2>1. /\ task[o].pc = "handling" /\ verified' = verified
        /\ TaskEnds(o) \/ (Task(o, "validating") /\ Put(o, Completed(o)) /\ rec[o].state = "running")
    BY <1>8 DEF HandlerReturns
  <2>2. Completed(o) \in Records /\ Completed(o).state = rec[o].state
    BY <1>1, PhaseFacts DEF Continues
  <2>3. task'[o].pc = "none" \/ rec'[o].state = "running"
    BY <1>1, <2>1, <2>2, TaskFacts, PutFacts DEF TaskPcs
  <2> QED
    BY <1>4, <1>5, <2>1, <2>3
<1>9. CASE ResultAccepted(o)
  <2> DEFINE a == [rec[o] EXCEPT !.sure = TRUE, !.phase = "verified"]
  <2>1. a \in Records /\ a.state = rec[o].state
    BY <1>1, VerifiedFacts DEF Continues, NodeStates
  <2> HIDE DEF a
  <2>2. /\ task[o].pc = "validating" /\ Task(o, "accounting")
        /\ o \in Effectful => Put(o, a)
        /\ o \notin Effectful => verified' = verified
    BY <1>9 DEF ResultAccepted, a
  <2>3. o \notin verified /\ (o \in Effectful => rec[o].state = "running")
    BY <1>1, <2>2 DEF Kept, Verified
  <2>4. task'[o].pc = "accounting"
    BY <1>1, <2>2, TaskFacts DEF TaskPcs
  <2>5. o \in Effectful => rec'[o].state = "running"
    BY <1>1, <2>1, <2>2, <2>3, PutFacts
  <2> QED
    BY <1>4, <2>2, <2>3, <2>4, <2>5
<1>10. CASE ValidatorThrows(o) \/ HandlerThrows(o) \/ HandlerTimesOut(o)
  <2>1. PICK error \in Errors : Caught(o, error)
    BY <1>10 DEF ValidatorThrows, HandlerThrows, HandlerTimesOut, Errors
  <2>2. task[o].pc \in {"started", "handling", "validating"} /\ verified' = verified
    BY <1>10 DEF ValidatorThrows, HandlerThrows, HandlerTimesOut
  <2>3. PICK pc \in {"none", "backoff", "retrying", "settling"} : Task(o, pc) \/ TaskEnds(o)
    BY <1>1, <2>1, CaughtFacts DEF CaughtAs
  <2>4. task'[o].pc # "validating"
    BY <1>1, <2>3, TaskFacts DEF TaskPcs
  <2> QED
    BY <1>4, <1>5, <2>2, <2>4
\* An answer that verifies makes the node succeed; no other verifies it.
<1>11. ASSUME NEW answer \in Answers(o), NEW r, task[o].pc \in {"retrying", "settling"},
              r \in {AnsweredRecord(rec[o], "retry", answer),
                     SettledRecord(AnsweredRecord(rec[o], "retry", answer))},
              Put(o, r), answer # "verified" => verified' = verified,
              answer # "verified" => task'[o].pc # "validating",
              answer = "verified" /\ rec'[o].state # "pending" => Task(o, "rechecking")
       PROVE  Kept(o)'
  <2> DEFINE a == AnsweredRecord(rec[o], "retry", answer)
  <2>1. "retry" \in Reasons
    BY DEF Reasons
  <2>2. Answered(a, rec[o], o, "retry", answer)
    BY <1>1, <2>1, AnsweredFacts
  <2>3. r \in {a, SettledRecord(a)}
    BY <1>11
  <2> HIDE DEF a
  <2>4. a \in Records /\ (answer = "verified" => a.state = "succeeded")
    BY <2>2 DEF Answered, Continues
  <2>5. r \in Records /\ (answer = "verified" => r.state \in {"succeeded", "failed_terminal"})
    BY <2>3, <2>4, SettledFacts DEF Continues
  <2>6. rec'[o] = r
    BY <1>1, <1>11, <2>5, PutFacts
  <2>7. CASE answer = "verified"
    <3>1. task'[o].pc = "rechecking"
      BY <1>1, <1>11, <2>5, <2>6, <2>7, TaskFacts DEF TaskPcs
    <3> QED
      BY <1>4, <2>5, <2>6, <2>7, <3>1
  <2>8. CASE answer # "verified"
    BY <1>4, <1>5, <1>11, <2>8
  <2> QED
    BY <2>7, <2>8
<1>14. CASE RetryAnswered(o)
  <2>1. PICK answer \in Answers(o) :
          /\ Put(o, AnsweredRecord(rec[o], "retry", answer))
          /\ answer # "verified" => verified' = verified
          /\ answer # "verified" => Task(o, "backoff") \/ TaskEnds(o)
          /\ answer = "verified" /\ rec'[o].state # "pending" => Task(o, "rechecking")
    BY <1>14 DEF RetryAnswered, Reconciled
  <2>2. answer # "verified" => task'[o].pc # "validating"
    BY <1>1, <2>1, TaskFacts DEF TaskPcs
  <2>3. task[o].pc = "retrying"
    BY <1>14 DEF RetryAnswered
  <2> QED
    BY <1>11, <2>1, <2>2, <2>3
<1>15. CASE SettlementAnswered(o)
  <2>1. PICK answer \in Answers(o) :
          /\ Put(o, SettledRecord(AnsweredRecord(rec[o], "retry", answer)))
          /\ answer # "verified" => verified' = verified /\ TaskEnds(o)
          /\ answer = "verified" => Task(o, "rechecking")
    BY <1>15 DEF SettlementAnswered
  <2>2. answer # "verified" => task'[o].pc # "validating"
    BY <1>1, <2>1, TaskFacts DEF TaskPcs
  <2>3. task[o].pc = "settling"
    BY <1>15 DEF SettlementAnswered
  <2> QED
    BY <1>11, <2>1, <2>2, <2>3
<1>12. CASE AnswerRechecked(o)
  <2>1. /\ Put(o, rec[o]) \/ Put(o, FailedRecord(rec[o]))
        /\ TaskEnds(o) /\ verified' = verified
    BY <1>12 DEF AnswerRechecked, Rechecked
  <2>2. FailedRecord(rec[o]) \in Records /\ FailedRecord(rec[o]).state = "failed_terminal"
    BY <1>1, FailedFacts DEF Continues
  <2>3. rec'[o] = rec[o] \/ rec'[o].state = "failed_terminal"
    BY <1>1, <2>1, <2>2, PutFacts
  <2>4. task'[o].pc = "none"
    BY <1>1, <2>1, TaskFacts DEF TaskPcs
  <2> QED
    BY <1>1, <1>2, <2>1, <2>3, <2>4 DEF Kept, Verified, MainAt, Past
<1>13. CASE BackoffEnds(o)
  <2>1. task[o].pc = "backoff" /\ verified' = verified /\ TaskEnds(o)
    BY <1>13 DEF BackoffEnds
  <2>2. task'[o].pc = "none"
    BY <1>1, <2>1, TaskFacts DEF TaskPcs
  <2> QED
    BY <1>4, <1>5, <2>1, <2>2
<1> QED
  BY <1>6, <1>7, <1>8, <1>9, <1>10, <1>12, <1>13, <1>14, <1>15 DEF TaskStep

(* All the steps.                                                           *)
LEMMA KeptStep ==
  ASSUME FailInv, used'.cancel = 0, [Next]_vars
  PROVE  \A n \in Nodes : Kept(n)'
<1>1. /\ Typed /\ ctl = NoCtl /\ rec \in [Nodes -> Records] /\ \A n \in Nodes : rec[n] \in Records
      /\ \A n \in Nodes : Kept(n)
      /\ \A n \in verified : n \in Nodes /\ n \in Effectful /\ rec[n].sure
      /\ \A n \in Effectful : n \notin verified /\ task[n].pc # "none" => rec[n].begun
      /\ main.pc # "batch" => \A n \in Nodes : task[n].pc = "none"
  BY VerifiedEffects DEF FailInv, TasksInBatch
<1>2. main'.pc \in Past => main.pc \in Past \/ (Decide /\ ~Some({"running"}))
  BY PastStep
<1>3. CASE StatusMain
  <2>1. main'.pc \notin {"restarting", "polling", "condition"} /\ ~Decide
    BY <1>3 DEF StatusMain, Start, Resume, Recovered, Prepared, BatchEnds, LeaveLoop,
                CompensateNode, Failed, Main, NoMain, Decide
  <2> QED
    BY <1>1, <1>2, <1>3, <2>1, KeptFrame, Frames
<1>4. CASE RecordMain
  BY <1>4, MainKept
<1>5. CASE StartBatch
  <2> TAKE n \in Nodes
  <2>1. /\ main.pc = "select" /\ main'.pc = "batch" /\ verified' = verified
        /\ rec' = [m \in Nodes |-> IF m \in Batch THEN StartedRecord(m) ELSE rec[m]]
        /\ task'[n] = task[n] \/ task'[n].pc = "started"
    BY <1>5 DEF StartBatch, Main
  <2>2. n \in verified => n \notin Batch
    BY <1>1 DEF Batch, Kept, Verified
  <2>3. n \in verified => rec'[n] = rec[n] /\ task'[n] = task[n]
    BY <1>5, <2>2 DEF StartBatch
  <2>4. task'[n].pc # "validating"
    BY <1>1, <2>1
  <2> QED
    BY <1>1, <2>1, <2>3, <2>4 DEF Kept, Verified, MainAt, Past
<1>6. CASE Decide
  <2>1. /\ main.pc = "select" /\ task' = task /\ verified' = verified
        /\ main'.pc \in {"prepare", "decide", "off"}
        /\ \/ rec' = rec
           \/ ~Some({"running"}) /\ (Finished("skipped") \/ Finished("failed_terminal"))
    BY <1>6 DEF Decide, Main, NoMain, Some
  <2>2. ASSUME NEW n \in verified, ~Some({"running"}) PROVE rec[n].state \in Terminal
    BY <1>1, <2>2 DEF Some, Kept, Verified, Terminal
  <2>3. ASSUME NEW n \in verified PROVE rec'[n] = rec[n]
    BY <1>1, <2>1, <2>2, <2>3 DEF Finished
  <2>4. ASSUME NEW n \in verified, main'.pc \in Past PROVE rec[n].state # "running"
    BY <1>1, <1>2, <2>1, <2>4 DEF Past, Some
  <2>5. \A n \in Nodes : task'[n].pc = "none"
    BY <1>1, <2>1
  <2> QED
    BY <1>1, <2>1, <2>3, <2>4, <2>5 DEF Kept, Verified, MainAt
<1>7. CASE Crash
  <2>1. main'.pc = "off" /\ rec' = rec /\ verified' = verified /\ \A n \in Nodes : task'[n].pc = "none"
    BY <1>7 DEF Crash, NoMain, NoTask
  <2> QED
    BY <1>1, <2>1, KeptFrame DEF Past
<1>8. ASSUME NEW o \in Nodes, Accounted(o) \/ TaskStep(o) PROVE \A n \in Nodes : Kept(n)'
  BY <1>8, TaskKept
<1>9. ASSUME NEW o \in Nodes, Steer(o), NEW n \in Nodes PROVE Kept(n)'
  <2>1. /\ rec' = [m \in Nodes |->
             IF m \in Affected(o)
               THEN [Fresh EXCEPT !.rev = rec[m].rev + 1, !.tries = rec[m].tries]
             ELSE rec[m]]
        /\ \A m \in Affected(o) \cap Effectful : EffectNotBegun(m)
        /\ UNCHANGED <<main, task, verified>>
    BY <1>9 DEF Steer
  <2>2. n \in Affected(o) /\ n \in Effectful => n \notin verified /\ ~rec[n].begun
    BY <2>1 DEF EffectNotBegun
  <2>3. rec'[n] = rec[n] \/ (n \in Affected(o) /\ rec'[n].state = "pending")
    BY <2>1 DEF Fresh
  <2>4. CASE rec'[n] = rec[n]
    BY <1>1, <2>1, <2>4, KeptFrame
  <2>5. CASE n \in Affected(o) /\ rec'[n].state = "pending"
    <3>1. n \notin verified' /\ (n \in Effectful => task'[n].pc = "none")
      BY <1>1, <2>1, <2>2, <2>5
    <3> QED
      BY <2>5, <3>1 DEF Kept
  <2> QED
    BY <2>3, <2>4, <2>5
<1>10. ASSUME NEW o \in Nodes, Caller(o), NEW n \in Nodes PROVE Kept(n)'
  <2>1. /\ main.pc = "off" /\ main' = main /\ task' = task /\ rec[o].state \in Waiting
        /\ \/ verified' = verified
           \/ Approve(o) /\ verified' = verified \cup {o}
    BY <1>10 DEF Caller, Approve, RefreshAuthorization, Waiting
  <2>2. n # o => rec'[n] = rec[n]
    BY <1>1, <1>10, TaskRecords, PutFacts DEF OneRecord
  <2>3. CASE n # o
    BY <1>1, <2>1, <2>2, <2>3, KeptFrame DEF Past
  <2>4. CASE n = o
    <3>1. o \notin verified
      BY <1>1, <2>1 DEF Kept, Verified, Waiting
    <3>2. task[o].pc = "none"
      BY <1>1, <2>1
    <3>3. Approve(o) => rec'[o].state = "succeeded"
      BY <1>1 DEF Approve, Put, Moved, Records
    <3> QED
      BY <2>1, <2>4, <3>1, <3>2, <3>3 DEF Kept, Verified, MainAt, Past
  <2> QED
    BY <2>3, <2>4
<1>11. ASSUME NEW o \in Nodes, HandlerWritesLate(o) PROVE \A n \in Nodes : Kept(n)'
  BY <1>1, <1>11, KeptFrame DEF HandlerWritesLate
<1>12. CASE UNCHANGED vars
  BY <1>1, <1>12, KeptFrame DEF vars
<1> QED
  BY <1>1, <1>3, <1>4, <1>5, <1>6, <1>7, <1>8, <1>9, <1>10, <1>11, <1>12, Undisturbed, Steps

(* What was compensated, or tried to be, remains so.                        *)
LEMMA HandledStays ==
  ASSUME NEW n, Handled(n), n \in verified' => n \in verified, tried \subseteq tried',
         rec'[n] = rec[n] \/ rec'[n].state = "compensated"
  PROVE  Handled(n)'
  BY DEF Handled

(* Compensation passes no verified effect of a failed run over.             *)
LEMMA HandledStep ==
  ASSUME FailInv, used'.cancel = 0, [Next]_vars
  PROVE  \A n \in Passed' : Handled(n)'
<1>1. /\ Typed /\ ctl = NoCtl /\ rec \in [Nodes -> Records] /\ \A n \in Nodes : rec[n] \in Records
      /\ \A n \in Nodes : Kept(n)
      /\ \A n \in verified : n \in Nodes /\ n \in Effectful /\ rec[n].sure
      /\ \A n \in Passed : Handled(n)
      /\ main.pc # "batch" => \A n \in Nodes : task[n].pc = "none"
      /\ main.pc \in Loop \cup Past => status = "running"
      /\ main.pc # "off" => status # "failed"
  BY VerifiedEffects DEF FailInv, TasksInBatch
<1>2. ASSUME main' = main, status' = status \/ main.pc # "off",
             UNCHANGED <<rec, verified, tried>>
      PROVE  \A n \in Passed' : Handled(n)'
  <2>1. CASE status' = status
    <3>1. Passed' = Passed
      BY <1>2, <2>1 DEF Passed
    <3> QED
      BY <1>1, <1>2, <3>1, HandledStays
  <2>2. CASE main.pc # "off"
    <3>1. Passed' = Passed
      BY <1>2, <2>2 DEF Passed
    <3> QED
      BY <1>1, <1>2, <3>1, HandledStays
  <2> QED
    BY <1>2, <2>1, <2>2
<1>3. ASSUME main'.pc \notin {"compensate", "compensating"}, main'.pc = "off" => status' # "failed"
      PROVE  Passed' = {}
  BY <1>3 DEF Passed
<1>4. CASE StatusMain
  <2>1. UNCHANGED <<rec, verified, tried>>
    BY <1>4, Frames
  <2>2. CASE Start \/ Resume \/ Recovered \/ Prepared \/ BatchEnds
    BY <1>3, <2>2 DEF Start, Resume, Recovered, Prepared, BatchEnds, Main
  <2>3. CASE LeaveLoop
    <3>1. /\ status' = status /\ status = "running"
          /\ main' = [pc |-> "compensate", at |-> Len(Order)]
      BY <1>1, <2>3 DEF LeaveLoop, Main, Past, Stopped
    <3>2. Passed' = {}
      BY <3>1 DEF Passed, Positions
    <3> QED
      BY <3>2
  <2>4. CASE CompensateNode
    <3>1. main.pc = "compensate" /\ main.at > 0
      BY <2>4 DEF CompensateNode
    <3>2. main.at \in Positions /\ Order[main.at] \in Nodes
      BY <1>1, <3>1, MainNode
    <3>3. PICK o \in Nodes : o = Order[main.at]
      BY <3>2
    <3>4. IF o \in OnFailure /\ Compensable(rec[o])
            THEN main' = [pc |-> "compensating", at |-> main.at]
            ELSE main' = [pc |-> "compensate", at |-> main.at - 1]
      BY <2>4, <3>3 DEF CompensateNode, Main
    <3>5. CASE o \in OnFailure /\ Compensable(rec[o])
      <4>1. Passed' = Passed
        BY <3>1, <3>4, <3>5 DEF Passed
      <4> QED
        BY <1>1, <2>1, <4>1, HandledStays
    <3>6. CASE ~(o \in OnFailure /\ Compensable(rec[o]))
      <4>1. Handled(o)
        BY <1>1, <3>1, <3>6 DEF Handled, Compensable, Kept, Verified, Past
      <4>2. \A j \in Positions : j > main.at - 1 => j > main.at \/ j = main.at
        BY <3>2, Bounds DEF Positions
      <4>3. Passed' \subseteq Passed \cup {o}
        BY <3>1, <3>3, <3>4, <3>6, <4>2 DEF Passed
      <4> QED
        BY <1>1, <2>1, <4>1, <4>3, HandledStays
    <3> QED
      BY <3>5, <3>6
  <2>5. CASE Failed
    <3>1. main.pc = "compensate" /\ main.at = 0 /\ main'.pc = "off"
      BY <2>5 DEF Failed, NoMain
    <3>2. \A n \in Nodes : n \in Passed
      BY <3>1, Bounds DEF Passed, Positions
    <3>3. Passed' \subseteq Nodes
      BY <3>1 DEF Passed
    <3> QED
      BY <1>1, <2>1, <3>2, <3>3, HandledStays
  <2> QED
    BY <1>4, <2>2, <2>3, <2>4, <2>5 DEF StatusMain
<1>5. CASE RecordMain
  <2>1. CASE NodeCompensated
    <3>1. main.pc = "compensating" /\ main' = [pc |-> "compensate", at |-> main.at - 1]
      BY <2>1 DEF NodeCompensated, Main
    <3>2. main.at \in Positions
      BY <1>1, <3>1, MainNode DEF AtNode
    <3>3. PICK o \in Nodes : o = Order[main.at]
      BY <1>5, MainRecords, <1>1
    <3>4. /\ \/ Put(o, Moved(o, "compensated")) /\ tried' = tried
             \/ tried' = tried \cup {o} /\ rec' = rec
          /\ verified' = verified
      BY <2>1, <3>3 DEF NodeCompensated
    <3>5. Moved(o, "compensated") \in Records /\ Moved(o, "compensated").state = "compensated"
      BY <1>1, InState DEF Moved, NodeStates, Continues
    <3>6. /\ \A n \in Nodes \ {o} : rec'[n] = rec[n]
          /\ \/ rec'[o].state = "compensated"
             \/ rec' = rec /\ o \in tried'
      BY <1>1, <3>4, <3>5, PutFacts
    <3>7. Handled(o)'
      BY <3>6 DEF Handled
    <3>8. \A j \in Positions : j > main.at - 1 => j > main.at \/ j = main.at
      BY <3>2, Bounds DEF Positions
    <3>9. Passed' \subseteq Passed \cup {o} /\ Passed \subseteq Nodes
      BY <3>1, <3>3, <3>8, Bounds DEF Passed
    <3> QED
      BY <1>1, <3>4, <3>6, <3>7, <3>9, HandledStays
  <2>2. CASE ~NodeCompensated
    <3>1. main'.pc \notin {"compensate", "compensating", "off"}
      BY <1>5, <2>2 DEF RecordMain, RecoverNode, RecoveryAnswered, RecoveryRechecked, PrepareNode,
           ConditionEvaluated, Main
    <3> QED
      BY <1>3, <3>1
  <2> QED
    BY <2>1, <2>2
<1>6. CASE StartBatch \/ Decide
  <2>1. main'.pc \notin {"compensate", "compensating"} /\ (main'.pc = "off" => status' # "failed")
    BY <1>6 DEF StartBatch, Decide, Main, NoMain
  <2> QED
    BY <1>3, <2>1
<1>7. CASE Crash
  <2>1. main.pc # "off" /\ main'.pc = "off" /\ status' = status
    BY <1>1, <1>7 DEF Crash, NoMain, NoCtl
  <2> QED
    BY <1>1, <1>3, <2>1
<1>8. ASSUME NEW o \in Nodes, Accounted(o) \/ TaskStep(o) PROVE \A n \in Passed' : Handled(n)'
  <2>1. main' = main /\ main.pc = "batch"
    BY <1>1, <1>8, TaskOfNode
  <2> QED
    BY <1>3, <2>1
<1>9. ASSUME NEW o \in Nodes, Steer(o) PROVE \A n \in Passed' : Handled(n)'
  <2>1. /\ rec' = [m \in Nodes |->
             IF m \in Affected(o)
               THEN [Fresh EXCEPT !.rev = rec[m].rev + 1, !.tries = rec[m].tries]
             ELSE rec[m]]
        /\ \A m \in Affected(o) \cap Effectful : EffectNotBegun(m)
        /\ UNCHANGED <<main, verified, tried>>
        /\ status' = IF main.pc # "off" \/ status = "queued" THEN status ELSE "created"
    BY <1>9 DEF Steer
  <2>2. ASSUME NEW n \in verified PROVE rec'[n] = rec[n]
    BY <1>1, <2>1, <2>2 DEF EffectNotBegun
  <2>3. CASE main.pc = "off"
    BY <1>3, <2>1, <2>3
  <2>4. CASE main.pc # "off"
    <3>1. Passed' = Passed
      BY <2>1, <2>4 DEF Passed
    <3> QED
      BY <1>1, <2>1, <2>2, <3>1 DEF Handled
  <2> QED
    BY <2>3, <2>4
<1>10. ASSUME NEW o \in Nodes, Caller(o) PROVE \A n \in Passed' : Handled(n)'
  <2>1. main.pc = "off" /\ main' = main /\ status' = "created"
    BY <1>10 DEF Caller, Approve, RefreshAuthorization
  <2> QED
    BY <1>3, <2>1
<1>11. ASSUME NEW o \in Nodes, HandlerWritesLate(o) PROVE \A n \in Passed' : Handled(n)'
  BY <1>2, <1>11 DEF HandlerWritesLate
<1>12. CASE UNCHANGED vars
  BY <1>2, <1>12 DEF vars
<1> QED
  BY <1>1, <1>4, <1>5, <1>6, <1>7, <1>8, <1>9, <1>10, <1>11, <1>12, Undisturbed, Steps

(* The compensation stays on its way.                                       *)
LEMMA FailStep == ASSUME FailInv, used'.cancel = 0, [Next]_vars PROVE FailInv'
<1>1. Typed /\ TasksInBatch /\ ctl = NoCtl
  BY DEF FailInv
<1>2. Typed' /\ TasksInBatch' /\ ctl' = NoCtl
  BY <1>1, TypedStep, TasksInBatchStep, Undisturbed
<1> QED
  BY <1>2, EffectStep, StatusStep, KeptStep, HandledStep DEF FailInv

(* A run that failed, and that nobody asked to stop, has compensated every  *)
(* effect it verified, or tried to, whatever it died of, waited for, was    *)
(* steered to or what handlers did after their timeout.                     *)
THEOREM ExecutorFailedIsCompensated == Spec => []FailedIsCompensated
<1> DEFINE I == Typed /\ (used.cancel = 0 => FailInv)
<1>1. Init => I
  <2> SUFFICES ASSUME Init PROVE I
    OBVIOUS
  <2>1. Typed /\ TasksInBatch
    BY TypedInit DEF Init, TasksInBatch, NoTask
  <2> QED
    BY <2>1 DEF Init, FailInv, Effect, Loop, Past, Kept, MainAt, Passed, Fresh, NoTask, NoMain,
         Ended
<1>2. I /\ [Next]_vars => I'
  BY TypedStep, Uncancelled, FailStep
<1>3. I => FailedIsCompensated
  <2> SUFFICES ASSUME FailInv, status = "failed" PROVE FailedIsCompensated
    BY DEF FailedIsCompensated
  <2>1. main.pc = "off" /\ verified \subseteq Nodes
    BY DEF FailInv, Typed
  <2>2. \A n \in Nodes : Handled(n)
    BY <2>1 DEF FailInv, Passed
  <2> QED
    BY <2>1, <2>2 DEF FailedIsCompensated, Handled
<1> QED
  BY <1>1, <1>2, <1>3, PTL DEF Spec
=============================================================================
