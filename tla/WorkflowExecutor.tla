--------------------------- MODULE WorkflowExecutor ---------------------------
(***************************************************************************)
(* WorkflowExecutor of lib/workflow: one run of a graph of nodes in one    *)
(* process.  execute (main) recovers, prepares, runs batches of executeNode *)
(* (tasks) and compensates; cancel, supersede and steer change the same    *)
(* in-memory state at any await.                                           *)
(*                                                                         *)
(* A step is what runs between two awaits, or up to a checkpoint after     *)
(* which a crash matters: while main, a task or a cancellation is Busy     *)
(* nothing else moves, but the process may die.  The checkpointed state is *)
(* the in-memory one (WorkflowStore says how), so a crash loses the        *)
(* coroutines and keeps status, rec and verified.                          *)
(*                                                                         *)
(* Handlers, reconcilers, validators, conditions and compensators are      *)
(* injected: they answer anything, but a reconciler's or handler's claim   *)
(* about the external world is true when it is made.                       *)
(***************************************************************************)
EXTENDS Integers, Sequences, FiniteSets

CONSTANTS
  Nodes,
  Order,        \* topologicalOrder(definition)
  Deps,         \* node -> its dependencies
  Effectful,    \* nodes with an effect other than none and read
  Human,        \* human_approval nodes
  Reconcilers,  \* nodes whose reconciler is registered
  OnFailure, OnCancel,  \* nodes whose compensation runs then
  MaxParallel,
  MaxAttempts,  \* retry.maxAttempts
  MaxPolls,     \* reconciliation.maxPollAttempts
  LateWrites,   \* may a handler act after its timeout or its process?
  MaxCrashes, MaxCancels, MaxSteers   \* bounds

ASSUME ExecutorAssumption ==
  /\ Order \in Seq(Nodes) /\ \A n \in Nodes : \E i \in 1..Len(Order) : Order[i] = n
  /\ Deps \in [Nodes -> SUBSET Nodes]
  /\ {Effectful, Human, Reconcilers, OnFailure, OnCancel} \subseteq SUBSET Nodes
  /\ {MaxParallel, MaxAttempts, MaxPolls} \subseteq Nat \ {0}
  /\ {MaxCrashes, MaxCancels, MaxSteers} \subseteq Nat /\ LateWrites \in BOOLEAN

VARIABLES
  status,    \* the run's status
  rec,       \* node -> its record
  verified,  \* the nodes in verifiedEffects
  main,      \* execute: [pc, at]
  task,      \* node -> executeNode: [pc, rev, wrote]
  ctl,       \* cancel or supersede: [pc, todo, at]
  world,     \* node -> what its effect has done outside
  late,      \* nodes with a handler nobody awaits any more
  tried,     \* nodes whose failure compensation threw
  used       \* [crash, cancel, steer]: what the bounds count; [steered]: the
             \* nodes a steer met at work, which no step looks at

vars == <<status, rec, verified, main, task, ctl, world, late, tried, used>>

NodeStates == {"pending", "ready", "running", "waiting_for_approval", "waiting_for_auth",
               "waiting_for_external_action", "succeeded", "failed_retryable",
               "failed_terminal", "skipped", "cancelled", "compensated"}
Phases == {"none", "prepared", "external_write_acknowledged", "handler_completed",
           "pending_external", "partially_applied", "not_applied", "unknown", "verified"}
\* isTerminalNode
Terminal == {"succeeded", "failed_terminal", "skipped", "cancelled", "compensated"}
\* An approval stands for a manual action too.
Waiting == {"waiting_for_approval", "waiting_for_auth", "waiting_for_external_action"}
Ended == {"succeeded", "failed", "cancelled", "superseded"}
Stopped == {"cancelled", "superseded"}

\* A node's record: iterationAttempts, attempts > 0, revision, the phase of
\* its operation (none without one), reconcileAttempts, effectVerified.
Fresh == [state |-> "pending", tries |-> 0, begun |-> FALSE, rev |-> 0,
          phase |-> "none", polls |-> 0, sure |-> FALSE]

NoTask == [pc |-> "none", rev |-> 0, wrote |-> FALSE]
NoMain == [pc |-> "off", at |-> 0]
NoCtl == [pc |-> "idle", todo |-> {}, at |-> 0]

Init ==
  /\ status \in {"created", "queued"}
  /\ rec = [n \in Nodes |-> Fresh] /\ verified = {}
  /\ main = NoMain /\ task = [n \in Nodes |-> NoTask] /\ ctl = NoCtl
  /\ world = [n \in Nodes |-> "clean"] /\ late = {} /\ tried = {}
  /\ used = [crash |-> 0, cancel |-> 0, steer |-> 0, steered |-> {}]

Put(n, r) == rec' = [rec EXCEPT ![n] = r]
Moved(n, state) == [rec[n] EXCEPT !.state = state]
Main(pc, at) == main' = [pc |-> pc, at |-> at]
Task(n, pc) == task' = [task EXCEPT ![n].pc = pc]
TaskEnds(n) == task' = [task EXCEPT ![n] = NoTask]

Lower(k) == IF k = 0 THEN 0 ELSE k - 1

\* Synchronous code is running.
Busy ==
  \/ main.pc \in {"recover", "prepare", "decide", "compensate"}
  \/ ctl.pc \in {"interrupted", "compensate"}
  \/ \E n \in Nodes : task[n].pc = "accounting"
-----------------------------------------------------------------------------
(* reconcileNode, for execute's recovery, a task's retry and a cancellation *)

\* Mutant: an effect prepared but not acknowledged counts as not applied.
RequiresAcknowledgement(n, r) ==
  n \in Effectful /\ r.phase \notin {"none", "prepared", "not_applied", "verified"}

\* requiresOutcomeReconciliation
RequiresOutcome(n, r) == n \in Effectful /\ r.phase \notin {"none", "not_applied", "verified"}

ReusedRecord(r) ==
  [r EXCEPT !.state = "succeeded", !.sure = TRUE,
            !.phase = IF @ = "none" THEN @ ELSE "verified"]

\* markWaiting
WaitingRecord(r, state) ==
  [r EXCEPT !.state = state,
            !.phase = IF state = "waiting_for_external_action" /\ @ # "none"
                        THEN "pending_external" ELSE @]

FailedRecord(r) == [r EXCEPT !.state = "failed_terminal"]

\* Must the reconciler be asked, or is the outcome clear without it?
Asks(n, r) ==
  n \notin verified /\ r.phase # "none" /\ n \in Reconcilers /\ r.polls < MaxPolls

\* The record once the reconciler is called, or instead of calling it.
AskedRecord(n, r, reason) ==
  CASE Asks(n, r) -> [r EXCEPT !.polls = @ + 1]
    [] n \in verified -> ReusedRecord(r)
    [] n \notin verified /\ r.phase = "none" ->
         IF reason = "cancel" THEN r ELSE [r EXCEPT !.state = "pending", !.tries = Lower(@)]
    [] n \notin verified /\ r.phase # "none" /\ n \notin Reconcilers ->
         IF reason = "cancel" THEN [r EXCEPT !.phase = "unknown"]
         ELSE WaitingRecord(r, "waiting_for_external_action")
    [] OTHER -> FailedRecord(r)

\* What a reconciler may say of a node, by what the world has seen of it.
\* "rejected" and "refused" are a lapsed authorization, with an outcome unknown
\* or without a write, "no_write" a retryable failure that wrote nothing,
\* "failed" any other failure, "throws" includes its timeout, "invalid" is no
\* answer, or one without the evidence the node requires.
Answers(n) ==
  {"throws", "invalid", "pending", "unknown", "rejected", "failed"} \cup
  (CASE world[n] = "clean" -> {"not_applied", "no_write", "refused"}
     [] world[n] = "partial" -> {"partially_applied"}
     [] OTHER -> {"verified"})

AnsweredRecord(r, reason, answer) ==
  LET cancelling == reason = "cancel"
      exhausted == r.polls >= MaxPolls
      In(phase) == [r EXCEPT !.phase = phase]
      Again(s) == [s EXCEPT !.state = IF cancelling THEN "cancelled" ELSE "pending"]
  IN
  CASE answer = "verified" -> [ReusedRecord(r) EXCEPT !.phase = "verified"]
    [] answer = "not_applied" ->
         [Again(In("not_applied")) EXCEPT !.tries = IF reason = "restart" THEN Lower(@) ELSE @]
    [] answer = "partially_applied" -> Again(In("partially_applied"))
    [] answer = "no_write" ->
         IF cancelling \/ r.tries < MaxAttempts THEN Again(In("not_applied"))
         ELSE FailedRecord(In("not_applied"))
    [] answer = "failed" ->
         IF cancelling THEN Again(In("unknown")) ELSE FailedRecord(In("unknown"))
    [] answer \in {"rejected", "refused"} ->
         LET f == In(IF answer = "refused" THEN "not_applied" ELSE "unknown") IN
         IF cancelling THEN Again(f)
         ELSE WaitingRecord([f EXCEPT !.polls = Lower(@)], "waiting_for_auth")
    [] answer = "invalid" -> FailedRecord(In("unknown"))
    [] answer = "throws" ->
         IF exhausted THEN FailedRecord(In("unknown"))
         ELSE IF cancelling THEN r ELSE WaitingRecord(r, "waiting_for_external_action")
    [] answer \in {"pending", "unknown"} ->
         LET p == In(IF answer = "pending" THEN "pending_external" ELSE "unknown") IN
         IF exhausted THEN FailedRecord(p)
         ELSE IF cancelling THEN Again(p) ELSE WaitingRecord(p, "waiting_for_external_action")

\* The reconciler answers: the record and the ledger of verified effects.
Reconciled(n, reason, answer) ==
  /\ answer \in Answers(n)
  /\ Put(n, AnsweredRecord(rec[n], reason, answer))
  /\ verified' = IF answer = "verified" THEN verified \cup {n} ELSE verified

\* The validators read the answer's output: a verified effect may still fail.
Rechecked(n, ok) == Put(n, IF ok THEN rec[n] ELSE FailedRecord(rec[n]))
-----------------------------------------------------------------------------
(* execute: recoverInterruptedNodes, prepareNodes, selectReadyBatch, the    *)
(* run's end, compensate.                                                   *)

\* startQueued, and start of the run just created.
Start ==
  /\ main.pc = "off" /\ ctl.pc = "idle" /\ status \in {"created", "queued"}
  /\ status' = "running" /\ Main("prepare", 1)
  /\ UNCHANGED <<rec, verified, task, ctl, world, late, tried, used>>

Resume ==
  /\ main.pc = "off" /\ ctl.pc = "idle" /\ status \notin Ended
  /\ Main("recover", 1)
  /\ UNCHANGED <<status, rec, verified, task, ctl, world, late, tried, used>>

\* Mutant: a node that was running when the process died is left alone.
InterruptedRetry(n) == rec[n].state = "failed_retryable"

Interrupted(n) == rec[n].state \in {"running", "failed_retryable"}

RecoverNode ==
  /\ main.pc = "recover" /\ main.at <= Len(Order)
  /\ LET n == Order[main.at]
         r == rec[n]
         Asking(reason, pc) ==
           /\ Put(n, AskedRecord(n, r, reason))
           /\ IF Asks(n, r) THEN Main(pc, main.at) ELSE Main("recover", main.at + 1)
     IN
     \/ /\ Interrupted(n) /\ n \in verified
        /\ Put(n, ReusedRecord(r)) /\ Main("recover", main.at + 1)
     \/ /\ Interrupted(n) /\ n \notin verified /\ RequiresOutcome(n, r)
        /\ Asking("restart", "restarting")
     \/ /\ Interrupted(n) /\ n \notin verified /\ ~RequiresOutcome(n, r)
        /\ Put(n, Moved(n, "pending")) /\ Main("recover", main.at + 1)
     \/ /\ r.state = "waiting_for_external_action"
        /\ Asking("poll", "polling")
     \/ /\ ~Interrupted(n) /\ r.state # "waiting_for_external_action"
        /\ rec' = rec /\ Main("recover", main.at + 1)
  /\ UNCHANGED <<status, verified, task, ctl, world, late, tried, used>>

RecoveryAnswered ==
  /\ main.pc \in {"restarting", "polling"}
  /\ \E answer \in Answers(Order[main.at]) :
       /\ Reconciled(Order[main.at], IF main.pc = "polling" THEN "poll" ELSE "restart", answer)
       /\ IF answer = "verified" THEN Main("rechecking", main.at)
          ELSE Main("recover", main.at + 1)
  /\ UNCHANGED <<status, task, ctl, world, late, tried, used>>

RecoveryRechecked ==
  /\ main.pc = "rechecking"
  /\ \E ok \in BOOLEAN : Rechecked(Order[main.at], ok)
  /\ Main("recover", main.at + 1)
  /\ UNCHANGED <<status, verified, task, ctl, world, late, tried, used>>

Recovered ==
  /\ main.pc = "recover" /\ main.at > Len(Order)
  /\ status' = "running" /\ Main("prepare", 1)
  /\ UNCHANGED <<rec, verified, task, ctl, world, late, tried, used>>

\* Mutant: dependents wait for a dependency's start, not for its success.
DependenciesStarted(n) == \A d \in Deps[n] : rec[d].state \notin {"pending", "ready"}

\* successfulDependency
DependenciesSucceeded(n) == \A d \in Deps[n] : rec[d].state \in {"succeeded", "compensated"}

DependencyLost(n) ==
  \E d \in Deps[n] : rec[d].state \in {"failed_terminal", "skipped", "cancelled"}

PrepareNode ==
  /\ main.pc = "prepare" /\ main.at <= Len(Order)
  /\ LET n == Order[main.at] IN
     \/ /\ rec[n].state = "pending" /\ DependencyLost(n)
        /\ Put(n, Moved(n, "skipped")) /\ Main("prepare", main.at + 1)
     \/ /\ rec[n].state = "pending" /\ ~DependencyLost(n) /\ DependenciesSucceeded(n)
        /\ rec' = rec /\ Main("condition", main.at)
     \/ /\ rec[n].state = "pending" => ~DependencyLost(n) /\ ~DependenciesSucceeded(n)
        /\ rec' = rec /\ Main("prepare", main.at + 1)
  /\ UNCHANGED <<status, verified, task, ctl, world, late, tried, used>>

\* evaluateCondition returns or throws; nothing is looked at again.
ConditionEvaluated ==
  /\ main.pc = "condition"
  /\ \E state \in {"ready", "skipped", "failed_terminal"} :
       Put(Order[main.at], Moved(Order[main.at], state))
  /\ Main("prepare", main.at + 1)
  /\ UNCHANGED <<status, verified, task, ctl, world, late, tried, used>>

Prepared ==
  /\ main.pc = "prepare" /\ main.at > Len(Order)
  /\ Main("select", 0)
  /\ UNCHANGED <<status, rec, verified, task, ctl, world, late, tried, used>>

\* selectReadyBatch: the first MaxParallel ready nodes of the order.
Batch ==
  LET ready == {i \in 1..Len(Order) : rec[Order[i]].state = "ready"} IN
  {Order[i] : i \in {j \in ready : Cardinality({k \in ready : k < j}) < MaxParallel}}

\* Mutant: a restart's attempts are not counted.
StartedUnbounded(n) ==
  CASE n \in verified -> [Moved(n, "succeeded") EXCEPT !.sure = TRUE]
    [] n \notin verified /\ n \in Human -> Moved(n, "waiting_for_approval")
    [] OTHER -> [Moved(n, "running") EXCEPT !.tries = @ + 1, !.begun = TRUE]

\* executeNode up to its first await.
StartedRecord(n) ==
  CASE n \in verified -> [Moved(n, "succeeded") EXCEPT !.sure = TRUE]
    [] n \notin verified /\ n \in Human -> Moved(n, "waiting_for_approval")
    [] n \notin verified \cup Human /\ rec[n].tries >= MaxAttempts -> FailedRecord(rec[n])
    [] OTHER -> [Moved(n, "running") EXCEPT !.tries = @ + 1, !.begun = TRUE]

StartBatch ==
  /\ main.pc = "select" /\ Batch # {}
  /\ rec' = [n \in Nodes |-> IF n \in Batch THEN StartedRecord(n) ELSE rec[n]]
  /\ task' = [n \in Nodes |->
       IF n \in Batch /\ StartedRecord(n).state = "running"
         THEN [pc |-> "started", rev |-> rec[n].rev, wrote |-> FALSE] ELSE task[n]]
  /\ Main("batch", 0)
  /\ UNCHANGED <<status, verified, ctl, world, late, tried, used>>

BatchEnds ==
  /\ main.pc = "batch" /\ \A n \in Nodes : task[n].pc = "none"
  /\ IF status = "running" THEN Main("prepare", 1) ELSE Main("decide", 0)
  /\ UNCHANGED <<status, rec, verified, task, ctl, world, late, tried, used>>

Some(states) == \E n \in Nodes : rec[n].state \in states

\* Nodes that a failed run leaves unfinished.
Finished(state) ==
  rec' = [n \in Nodes |-> IF rec[n].state \in Terminal THEN rec[n] ELSE Moved(n, state)]

\* Nothing is ready: the run waits, succeeds or fails.
Decide ==
  /\ main.pc = "select" /\ Batch = {}
  /\ \/ /\ Some({"running"})
        /\ IF status = "running" THEN Main("prepare", 1) ELSE Main("decide", 0)
        /\ UNCHANGED <<status, rec>>
     \/ /\ ~Some({"running"}) /\ Some({"failed_terminal"})
        /\ Finished("skipped") /\ Main("decide", 0) /\ UNCHANGED status
     \/ /\ ~Some({"running", "failed_terminal"}) /\ Some(Waiting)
        /\ status' = "waiting" /\ main' = NoMain /\ UNCHANGED rec
     \/ /\ \A n \in Nodes : rec[n].state \in Terminal \ {"failed_terminal"}
        /\ status' = "succeeded" /\ main' = NoMain /\ UNCHANGED rec
     \/ /\ ~Some({"running", "failed_terminal"} \cup Waiting) /\ Some(NodeStates \ Terminal)
        /\ Finished("failed_terminal") /\ Main("decide", 0) /\ UNCHANGED status
  /\ UNCHANGED <<verified, task, ctl, world, late, tried, used>>

\* Past the loop: a run that was not stopped is compensated and fails.
LeaveLoop ==
  /\ main.pc = "decide"
  /\ IF status \in Stopped THEN main' = NoMain ELSE Main("compensate", Len(Order))
  /\ UNCHANGED <<status, rec, verified, task, ctl, world, late, tried, used>>

\* Mutant: a verified effect of a failed node is not compensated.
CompensableSuccess(r) == r.state = "succeeded"

Compensable(r) == r.state = "succeeded" \/ (r.state = "failed_terminal" /\ r.sure)

CompensateNode ==
  /\ main.pc = "compensate" /\ main.at > 0
  /\ LET n == Order[main.at] IN
     IF n \in OnFailure /\ Compensable(rec[n]) THEN Main("compensating", main.at)
     ELSE Main("compensate", main.at - 1)
  /\ UNCHANGED <<status, rec, verified, task, ctl, world, late, tried, used>>

NodeCompensated ==
  /\ main.pc = "compensating"
  /\ LET n == Order[main.at] IN
     \/ Put(n, Moved(n, "compensated")) /\ UNCHANGED tried
     \/ tried' = tried \cup {n} /\ UNCHANGED rec
  /\ Main("compensate", main.at - 1)
  /\ UNCHANGED <<status, verified, task, ctl, world, late, used>>

Failed ==
  /\ main.pc = "compensate" /\ main.at = 0
  /\ status' = "failed" /\ main' = NoMain
  /\ UNCHANGED <<rec, verified, task, ctl, world, late, tried, used>>
-----------------------------------------------------------------------------
(* executeNode from its first await on: input validator and workspace, the  *)
(* handler, the output's validators, accounting; or the way out of an error. *)

\* The operation is prepared and the handler called: nothing is rechecked.
InvokeHandler(n) ==
  /\ task[n].pc = "started"
  /\ Put(n, IF n \notin Effectful THEN rec[n]
            ELSE [rec[n] EXCEPT !.polls = 0,
                    !.phase = IF @ = "partially_applied" THEN @ ELSE "prepared"])
  /\ Task(n, "handling")
  /\ UNCHANGED <<status, verified, main, ctl, world, late, tried, used>>

\* What one handler's writing makes of the world.
Touched(w) ==
  CASE w = "clean" -> {"partial", "applied"}
    [] w = "partial" -> {"partial", "applied"}
    [] OTHER -> {"twice"}

HandlerWrites(n) ==
  /\ task[n].pc = "handling" /\ n \in Effectful /\ ~task[n].wrote
  /\ \E w \in Touched(world[n]) : world' = [world EXCEPT ![n] = w]
  /\ task' = [task EXCEPT ![n].wrote = TRUE]
  /\ UNCHANGED <<status, rec, verified, main, ctl, late, tried, used>>

\* checkpointExternalEffect
HandlerAcknowledges(n) ==
  /\ task[n].pc = "handling" /\ task[n].wrote
  /\ rec[n].phase # "external_write_acknowledged"
  /\ Put(n, [rec[n] EXCEPT !.phase = IF @ = "none" THEN @ ELSE "external_write_acknowledged"])
  /\ UNCHANGED <<status, verified, main, task, ctl, world, late, tried, used>>

\* A handler nobody waits for: timed out, or of a process that died.
HandlerWritesLate(n) ==
  /\ n \in late
  /\ \E w \in Touched(world[n]) : world' = [world EXCEPT ![n] = w]
  /\ late' = late \ {n}
  /\ UNCHANGED <<status, rec, verified, main, task, ctl, tried, used>>

\* The run was stopped, or the node stopped or steered, during an await.
Overtaken(n) ==
  \/ status \in Stopped
  \/ rec[n].state \in {"skipped", "cancelled"}
  \/ rec[n].rev # task[n].rev

Completed(n) ==
  [rec[n] EXCEPT !.phase = IF @ = "none" THEN @ ELSE "handler_completed"]

HandlerReturns(n) ==
  /\ task[n].pc = "handling"
  /\ \/ /\ Overtaken(n) \/ rec[n].state # "running"
        /\ TaskEnds(n) /\ rec' = rec
     \/ /\ ~Overtaken(n) /\ rec[n].state = "running"
        /\ Put(n, Completed(n)) /\ Task(n, "validating")
     \/ /\ ~Overtaken(n) /\ rec[n].state = "running"
        /\ \E state \in Waiting : Put(n, WaitingRecord(Completed(n), state))
        /\ TaskEnds(n)
  /\ UNCHANGED <<status, verified, main, ctl, world, late, tried, used>>

\* Mutant: a handler's success is its own evidence.
ReadBackNotNeeded(n) == TRUE

\* effectVerified: an effect's result comes with a read-back that saw it.
ReadBack(n) == n \in Effectful => world[n] \in {"applied", "twice"}

\* Mutant: the node is marked, the run's verifiedEffects are not.
ResultKept(n) ==
  /\ task[n].pc = "validating" /\ ReadBack(n)
  /\ Put(n, IF n \in Effectful THEN [rec[n] EXCEPT !.sure = TRUE, !.phase = "verified"] ELSE rec[n])
  /\ Task(n, "accounting")
  /\ UNCHANGED <<status, verified, main, ctl, world, late, tried, used>>

\* The result passes its validators; an effect comes with read-back.  Nothing
\* is rechecked, and a verified effect is durable before it is accounted for.
ResultAccepted(n) ==
  /\ task[n].pc = "validating" /\ ReadBack(n)
  /\ Put(n, IF n \in Effectful THEN [rec[n] EXCEPT !.sure = TRUE, !.phase = "verified"] ELSE rec[n])
  /\ verified' = IF n \in Effectful THEN verified \cup {n} ELSE verified
  /\ Task(n, "accounting")
  /\ UNCHANGED <<status, main, ctl, world, late, tried, used>>

\* The costs are recorded, or break the budget.
Accounted(n) ==
  /\ task[n].pc = "accounting"
  /\ \/ Put(n, [Moved(n, "succeeded") EXCEPT !.tries = 0])
     \/ /\ Overtaken(n) /\ rec' = rec
     \/ /\ ~Overtaken(n) /\ Put(n, FailedRecord(rec[n]))
  /\ TaskEnds(n)
  /\ UNCHANGED <<status, verified, main, ctl, world, late, tried, used>>

\* The errors the catch block tells apart.  A definitive no-write is true.
Errors == {"no_write", "retryable", "terminal", "auth", "external"}

\* checkpointNoWrite keeps the trace of an earlier partial write.
CaughtRecord(n, error) ==
  IF error = "no_write" /\ rec[n].phase \notin {"none", "partially_applied"}
    THEN [rec[n] EXCEPT !.phase = "not_applied"] ELSE rec[n]

\* After a final error without a reconciler's answer the node has failed.
SettledRecord(r) ==
  IF r.state \in {"succeeded", "waiting_for_external_action", "waiting_for_auth", "pending"}
    THEN r ELSE FailedRecord(r)

\* The retryable path: reconcile what may have happened, then back off.
CaughtForRetry(n, r) ==
  LET f == [r EXCEPT !.state = "failed_retryable"] IN
  IF ~RequiresOutcome(n, r) THEN Put(n, f) /\ Task(n, "backoff")
  ELSE LET asked == AskedRecord(n, f, "retry") IN
       /\ Put(n, asked)
       /\ IF Asks(n, f) THEN Task(n, "retrying")
          ELSE IF asked.state = "pending" THEN Task(n, "backoff") ELSE TaskEnds(n)

CaughtForGood(n, r) ==
  IF ~RequiresOutcome(n, r) THEN Put(n, FailedRecord(r)) /\ TaskEnds(n)
  ELSE LET asked == AskedRecord(n, r, "retry") IN
       IF Asks(n, r) THEN Put(n, asked) /\ Task(n, "settling")
       ELSE Put(n, SettledRecord(asked)) /\ TaskEnds(n)

Caught(n, error) ==
  LET r == CaughtRecord(n, error) IN
  CASE Overtaken(n) -> rec' = rec /\ TaskEnds(n)
    [] ~Overtaken(n) /\ error = "auth" ->
         Put(n, WaitingRecord(r, "waiting_for_auth")) /\ TaskEnds(n)
    [] ~Overtaken(n) /\ error = "external" ->
         Put(n, WaitingRecord(r, "waiting_for_external_action")) /\ TaskEnds(n)
    [] ~Overtaken(n) /\ error \in {"no_write", "retryable"} /\ r.tries < MaxAttempts ->
         CaughtForRetry(n, r)
    [] OTHER -> CaughtForGood(n, r)

\* A validator or the workspace factory refuses, an effect is unverified.
ValidatorThrows(n) ==
  /\ task[n].pc \in {"started", "validating"}
  /\ Caught(n, "terminal")
  /\ UNCHANGED <<status, verified, main, ctl, world, late, tried, used>>

HandlerThrows(n) ==
  /\ task[n].pc = "handling"
  /\ \E error \in Errors : (error = "no_write" => ~task[n].wrote) /\ Caught(n, error)
  /\ UNCHANGED <<status, verified, main, ctl, world, late, tried, used>>

\* TIMEOUT is retryable; the handler is aborted, but may be past stopping.
HandlerTimesOut(n) ==
  /\ task[n].pc = "handling" /\ LateWrites /\ n \in Effectful /\ ~task[n].wrote
  /\ Caught(n, "retryable") /\ late' = late \cup {n}
  /\ UNCHANGED <<status, verified, main, ctl, world, tried, used>>

RetryAnswered(n) ==
  /\ task[n].pc = "retrying"
  /\ \E answer \in Answers(n) :
       /\ Reconciled(n, "retry", answer)
       /\ CASE answer = "verified" -> Task(n, "rechecking")
            [] rec'[n].state = "pending" -> Task(n, "backoff")
            [] OTHER -> TaskEnds(n)
  /\ UNCHANGED <<status, main, ctl, world, late, tried, used>>

SettlementAnswered(n) ==
  /\ task[n].pc = "settling"
  /\ \E answer \in Answers(n) :
       LET r == AnsweredRecord(rec[n], "retry", answer) IN
       /\ Put(n, SettledRecord(r))
       /\ verified' = IF answer = "verified" THEN verified \cup {n} ELSE verified
       /\ IF answer = "verified" THEN Task(n, "rechecking") ELSE TaskEnds(n)
  /\ UNCHANGED <<status, main, ctl, world, late, tried, used>>

AnswerRechecked(n) ==
  /\ task[n].pc = "rechecking"
  /\ \E ok \in BOOLEAN : Rechecked(n, ok)
  /\ TaskEnds(n)
  /\ UNCHANGED <<status, verified, main, ctl, world, late, tried, used>>

\* The backoff is over: only the run's status is looked at.
BackoffEnds(n) ==
  /\ task[n].pc = "backoff"
  /\ IF status = "running" THEN Put(n, Moved(n, "ready")) ELSE rec' = rec
  /\ TaskEnds(n)
  /\ UNCHANGED <<status, verified, main, ctl, world, late, tried, used>>

TaskStep(n) ==
  \/ InvokeHandler(n) \/ HandlerWrites(n) \/ HandlerAcknowledges(n)
  \/ HandlerReturns(n) \/ ResultAccepted(n) \/ ValidatorThrows(n) \/ HandlerThrows(n)
  \/ HandlerTimesOut(n) \/ RetryAnswered(n) \/ SettlementAnswered(n)
  \/ AnswerRechecked(n) \/ BackoffEnds(n)
-----------------------------------------------------------------------------
(* cancel and supersede, steer, the interrupts, the process.                *)

\* cancel (with a definition it compensates) and supersede.  Running nodes are
\* cancelled and their effects reconciled, the other unfinished are skipped.
Cancel ==
  /\ used.cancel < MaxCancels /\ ctl.pc = "idle" /\ status \notin Ended
  /\ used' = [used EXCEPT !.cancel = @ + 1]
  /\ \E s \in Stopped, compensating \in BOOLEAN :
       /\ s = "superseded" => ~compensating
       /\ status' = s
       /\ ctl' = [pc |-> "interrupted", at |-> IF compensating THEN Len(Order) ELSE 0,
                  todo |-> {n \in Effectful : rec[n].state = "running"}]
  /\ rec' = [n \in Nodes |->
       CASE rec[n].state \in Terminal -> rec[n]
         [] rec[n].state = "running" -> Moved(n, "cancelled")
         [] OTHER -> Moved(n, "skipped")]
  /\ UNCHANGED <<verified, main, task, world, late, tried>>

\* The next interrupted effect, in the order of the nodes.
NextInterrupted ==
  Order[CHOOSE i \in 1..Len(Order) :
          Order[i] \in ctl.todo /\ \A j \in 1..(i - 1) : Order[j] \notin ctl.todo]

ReconcileInterrupted ==
  /\ ctl.pc = "interrupted" /\ ctl.todo # {}
  /\ LET n == NextInterrupted IN
     /\ Put(n, AskedRecord(n, rec[n], "cancel"))
     /\ ctl' = IF Asks(n, rec[n]) THEN [ctl EXCEPT !.pc = "reconciling"]
               ELSE [ctl EXCEPT !.todo = @ \ {n}]
  /\ UNCHANGED <<status, verified, main, task, world, late, tried, used>>

CancelAnswered ==
  /\ ctl.pc = "reconciling"
  /\ LET n == NextInterrupted IN
     \E answer \in Answers(n) :
       /\ Reconciled(n, "cancel", answer)
       /\ ctl' = IF answer = "verified" THEN [ctl EXCEPT !.pc = "rechecking"]
                 ELSE [ctl EXCEPT !.pc = "interrupted", !.todo = @ \ {n}]
  /\ UNCHANGED <<status, main, task, world, late, tried, used>>

CancelRechecked ==
  /\ ctl.pc = "rechecking"
  /\ LET n == NextInterrupted IN
     /\ \E ok \in BOOLEAN : Rechecked(n, ok)
     /\ ctl' = [ctl EXCEPT !.pc = "interrupted", !.todo = @ \ {n}]
  /\ UNCHANGED <<status, verified, main, task, world, late, tried, used>>

CancelCompensates ==
  /\ ctl.pc \in {"interrupted", "compensate"} /\ ctl.todo = {}
  /\ \/ ctl.at = 0 /\ ctl' = NoCtl
     \/ /\ ctl.at > 0
        /\ ctl' = IF Order[ctl.at] \in OnCancel /\ Compensable(rec[Order[ctl.at]])
                    THEN [ctl EXCEPT !.pc = "compensating"]
                    ELSE [ctl EXCEPT !.pc = "compensate", !.at = @ - 1]
  /\ UNCHANGED <<status, rec, verified, main, task, world, late, tried, used>>

CancelCompensated ==
  /\ ctl.pc = "compensating"
  /\ \E done \in BOOLEAN :
       Put(Order[ctl.at], IF done THEN Moved(Order[ctl.at], "compensated") ELSE rec[Order[ctl.at]])
  /\ ctl' = [ctl EXCEPT !.pc = "compensate", !.at = @ - 1]
  /\ UNCHANGED <<status, verified, main, task, world, late, tried, used>>

\* affectedDescendants: the nodes whose inputs come, however far, from n.
Affected(n) ==
  {m \in Nodes : \A S \in SUBSET Nodes :
     n \in S /\ (\A k \in Nodes : Deps[k] \cap S # {} => k \in S) => m \in S}

\* The node's effect has not begun, as far as the record tells.
EffectNotBegun(m) ==
  ~rec[m].sure /\ m \notin verified /\ ~rec[m].begun /\ rec[m].phase = "none"

\* Something is under way at the node: its task, an await of execute at it, or
\* a cancellation.
AtWork(m) ==
  \/ task[m].pc # "none" \/ ctl.pc # "idle"
  \/ main.pc \in {"restarting", "polling", "condition"} /\ Order[main.at] = m

\* steer asks only that no affected effect has begun, whatever the status.
Steer(n) ==
  /\ used.steer < MaxSteers /\ (main.pc = "off" => ctl.pc = "idle")
  /\ \A m \in Affected(n) \cap Effectful : EffectNotBegun(m)
  /\ used' = [used EXCEPT !.steer = @ + 1,
                           !.steered = @ \cup {m \in Affected(n) : AtWork(m)}]
  /\ rec' = [m \in Nodes |->
       IF m \in Affected(n) THEN [Fresh EXCEPT !.rev = rec[m].rev + 1, !.tries = rec[m].tries]
       ELSE rec[m]]
  /\ status' = IF main.pc # "off" \/ status = "queued" THEN status ELSE "created"
  /\ UNCHANGED <<verified, main, task, ctl, world, late, tried>>

\* approve and refreshAuthorization, between two executions.  An approved
\* effect has verified evidence.
Approve(n) ==
  /\ main.pc = "off" /\ ctl.pc = "idle" /\ rec[n].state = "waiting_for_approval"
  /\ n \in Effectful => world[n] \in {"applied", "twice"}
  /\ Put(n, [Moved(n, "succeeded") EXCEPT !.sure = n \in Effectful])
  /\ verified' = IF n \in Effectful THEN verified \cup {n} ELSE verified
  /\ status' = "created"
  /\ UNCHANGED <<main, task, ctl, world, late, tried, used>>

RefreshAuthorization(n) ==
  /\ main.pc = "off" /\ ctl.pc = "idle" /\ rec[n].state = "waiting_for_auth"
  /\ Put(n, Moved(n, IF rec[n].phase = "none" THEN "pending" ELSE "failed_retryable"))
  /\ status' = "created"
  /\ UNCHANGED <<verified, main, task, ctl, world, late, tried, used>>

\* The process dies at any point; a request already sent may still arrive.
Crash ==
  /\ used.crash < MaxCrashes /\ (main.pc # "off" \/ ctl.pc # "idle")
  /\ used' = [used EXCEPT !.crash = @ + 1]
  /\ main' = NoMain /\ ctl' = NoCtl /\ task' = [n \in Nodes |-> NoTask]
  /\ late' = late \cup {n \in Effectful :
                 LateWrites /\ task[n].pc = "handling" /\ ~task[n].wrote}
  /\ UNCHANGED <<status, rec, verified, world, tried>>
-----------------------------------------------------------------------------
\* Synchronous code, then what goes on at an await, then what callers do.
MainSync ==
  RecoverNode \/ Recovered \/ PrepareNode \/ Prepared \/ LeaveLoop \/ CompensateNode \/ Failed

MainAwait ==
  \/ RecoveryAnswered \/ RecoveryRechecked \/ ConditionEvaluated
  \/ StartBatch \/ BatchEnds \/ Decide \/ NodeCompensated

CtlSync == ReconcileInterrupted \/ CancelCompensates
CtlAwait == CancelAnswered \/ CancelRechecked \/ CancelCompensated

Synchronous == MainSync \/ CtlSync \/ \E n \in Nodes : Accounted(n)
Awaited == ~Busy /\ (MainAwait \/ CtlAwait \/ \E n \in Nodes : TaskStep(n))
Called ==
  ~Busy /\ (Start \/ Resume \/ Cancel
            \/ \E n \in Nodes : Steer(n) \/ Approve(n) \/ RefreshAuthorization(n))

Next == Synchronous \/ Awaited \/ Called \/ Crash \/ \E n \in Nodes : HandlerWritesLate(n)

\* Every injected function returns or times out, and code runs on.
Fairness ==
  WF_vars(Synchronous \/ Awaited)

Spec == Init /\ [][Next]_vars
FairSpec == Spec /\ Fairness
-----------------------------------------------------------------------------
TypeOK ==
  /\ status \in {"created", "queued", "running", "waiting"} \cup Ended
  /\ rec \in [Nodes -> [state : NodeStates, tries : 0..MaxAttempts, begun : BOOLEAN,
                        rev : 0..MaxSteers, phase : Phases, polls : 0..MaxPolls, sure : BOOLEAN]]
  /\ verified \subseteq Nodes /\ late \subseteq Nodes /\ tried \subseteq Nodes
  /\ main \in [pc : {"off", "recover", "restarting", "polling", "rechecking", "prepare",
                     "condition", "select", "batch", "decide", "compensate", "compensating"},
                at : 0..(Len(Order) + 1)]
  /\ task \in [Nodes -> [pc : {"none", "started", "handling", "validating", "accounting",
                               "retrying", "settling", "rechecking", "backoff"},
                         rev : 0..MaxSteers, wrote : BOOLEAN]]
  /\ ctl \in [pc : {"idle", "interrupted", "reconciling", "rechecking", "compensate",
                    "compensating"}, todo : SUBSET Nodes, at : 0..Len(Order)]
  /\ world \in [Nodes -> {"clean", "partial", "applied", "twice"}]
  /\ used \in [crash : 0..MaxCrashes, cancel : 0..MaxCancels, steer : 0..MaxSteers,
               steered : SUBSET Nodes]

\* An unknown outcome is never permission to repeat the write: whatever fails,
\* times out, waits or crashes, no effect is applied twice.
NoBlindReplay == \A n \in Nodes : world[n] # "twice"

\* A node with an effect is taken for done only on a read-back that saw it.
SuccessIsVerified ==
  \A n \in Effectful :
    (rec[n].state \in {"succeeded", "compensated"} \/ rec[n].sure \/ n \in verified)
      => world[n] = "applied" /\ n \in verified

\* Fan-in: whatever finishes, fails, retries, is cancelled or steered in any
\* order, a handler is called only when every dependency has succeeded; but for
\* a node that a steer has met at work, which goes on with what it has.
FanIn ==
  [][\A n \in Nodes \ used.steered : InvokeHandler(n) =>
        \A d \in Deps[n] : rec[d].state \in {"succeeded", "compensated"}]_vars

\* A verified effect's handler is never called again: not in a run nobody
\* cancels, even when handlers act after their timeout or their process, and in
\* no run as long as they do not.
VerifiedNotRepeated ==
  [][\A n \in Nodes : InvokeHandler(n) /\ (LateWrites => used.cancel = 0)
        => n \notin verified /\ ~rec[n].sure]_vars

\* A run that fails, and was not asked to stop before, has compensated every
\* effect it verified, or tried to.
FailedIsCompensated ==
  status = "failed" /\ used.cancel = 0 =>
    \A n \in OnFailure \cap verified : rec[n].state = "compensated" \/ n \in tried

\* As tested: a run that compensated its effects after a failure has failed.
CompensatedRunFails ==
  status = "succeeded" => \A n \in Nodes : rec[n].state # "compensated"

\* As tested: a run that was cancelled stays cancelled, whatever its execution
\* was waiting for.
CancelledIsFinal == [][status = "cancelled" => status' = "cancelled"]_vars

\* As tested: after a cancellation no node's handler is called any more.
NothingStartsAfterCancel == [][\A n \in Nodes : InvokeHandler(n) => status # "cancelled"]_vars

\* As documented: a steer invalidates what it affects, so a result computed
\* from the inputs before it is dropped.
StaleResultDropped ==
  [][\A n \in Nodes :
       Accounted(n) /\ rec'[n].state = "succeeded" => rec[n].rev = task[n].rev]_vars

\* Every execution ends: in an outcome, a wait, or with its process.
EveryRunEnds == main.pc # "off" ~> main.pc = "off"
=============================================================================
