-------------------------------- MODULE LoopRun --------------------------------
(***************************************************************************)
(* One production run of a venture loop that applies effects               *)
(* (packages/loops/src/index.ts): executeVentureLoopCore over the run      *)
(* store, the journal of effects and the provider's transport.             *)
(*                                                                         *)
(* A call claims the run under a lease, settles what an earlier call left  *)
(* open, repeats what is known to have had no effect, and goes on with the *)
(* iterations.  A loop of the catalog that applies effects has one rule,   *)
(* so an action and its idempotency key are named by their iteration.      *)
(***************************************************************************)
EXTENDS Naturals, Sequences, FiniteSets

CONSTANTS
  Owners,       \* owner tokens; a call takes one that nothing refers to
  Inputs,       \* the observations a run may start from, by iteration:
                \* those of "breached", "matched", "complete" that they satisfy
  MaxActions,   \* definition.maximumActions
  None,
  MaxFailures,   \* calls that die or whose transport throws
  MaxStalls     \* leases that expire under a live call

ASSUME LoopAssumption ==
  /\ Inputs \subseteq Seq(SUBSET {"breached", "matched", "complete"})
  /\ MaxActions \in Nat /\ MaxFailures \in Nat /\ MaxStalls \in Nat
  /\ None \notin Owners

VARIABLES
  input,      \* the inputs stored with the run
  saved,      \* the row of the run store: owner, lease and record
  journal,    \* SqliteLoopEffectExecutor's row for each iteration's effect
  call,       \* the call of each owner
  fresh,      \* is the evidence, fetched when the run began, still fresh?
  authority,  \* is the apply envelope active?
  sent,       \* attempts at the provider that may still take effect
  fenced,     \* attempts that can no longer take effect
  effects,    \* effects carried out, by iteration
  used        \* failures and stalls so far

stores == <<input, saved, journal>>
provider == <<sent, fenced, effects>>
clock == <<fresh, authority>>
vars == <<stores, call, clock, provider, used>>

NoRow == [token |-> None, state |-> "absent"]
NewRun == [status |-> "running", iteration |-> 0, actions |-> <<>>]
NotSaved == [owner |-> None, leased |-> FALSE, run |-> NewRun]
Idle == [pc |-> "idle", run |-> NewRun, envelope |-> "none", at |-> 0, back |-> "close",
         answer |-> "unknown"]

Iterations == 1..Len(input)

Init ==
  /\ input \in Inputs
  /\ saved = NotSaved
  /\ journal = [i \in Iterations |-> NoRow]
  /\ call = [o \in Owners |-> Idle]
  /\ fresh = TRUE
  /\ authority = TRUE
  /\ sent = {} /\ fenced = {}
  /\ effects = [i \in Iterations |-> 0]
  /\ used = [failures |-> 0, stalls |-> 0]

Fails == used.failures < MaxFailures /\ used' = [used EXCEPT !.failures = @ + 1]

Ended(run) == run.status \in {"completed", "insufficient_evidence", "stopped"}

At(o, pc) == call[o].pc = pc
Live(o) == ~At(o, "idle")
Ends(o) == call' = [call EXCEPT ![o] = Idle]

\* The indices of a run's actions in one of `states`; the first of them.
Having(run, states) == {a \in DOMAIN run.actions : run.actions[a].state \in states}
First(S) == CHOOSE a \in S : \A b \in S : a <= b

Open(run) == Having(run, {"prepared", "unknown"})
Retryable(run) == Having(run, {"retryable_no_effect"})

WithStatus(run, status) == [run EXCEPT !.status = status]
WithState(run, a, state) == [run EXCEPT !.actions[a].state = state]

\* Mutant: an owner that lost the run still saves its record.
SavesAlways(o) == TRUE

Saves(o) == saved.owner = o

\* The record is saved and the lease renewed, or save throws and the call with it.
Persist(o, run, pc) ==
  \/ /\ Saves(o)
     /\ saved' = [owner |-> saved.owner, leased |-> TRUE, run |-> run]
     /\ call' = [call EXCEPT ![o] = [Idle EXCEPT !.run = run, !.pc = pc]]
  \/ ~Saves(o) /\ Ends(o) /\ UNCHANGED saved

\* The record is saved for the last time, and the call returns it or throws.
Returns(o, run) ==
  /\ Ends(o)
  /\ saved' = IF Saves(o) THEN [owner |-> saved.owner, leased |-> TRUE, run |-> run] ELSE saved
-----------------------------------------------------------------------------
(* ProductionLoopRuntime.run claims the run.                                *)

\* Tokens some record, journal row, attempt or call still refers to.
InUse ==
  {o \in Owners : Live(o)}
    \cup {saved.run.actions[a].token : a \in Open(saved.run) \cup Retryable(saved.run)}
    \cup {journal[i].token : i \in {j \in Iterations : journal[j].state # "applied"}}
    \cup {attempt[1] : attempt \in sent}
    \cup UNION {{call[o].run.actions[a].token : a \in DOMAIN call[o].run.actions} : o \in Owners}

Unused == {o \in Owners : ~Live(o) /\ o \notin InUse}

\* A call's owner token is new.
Begins(o) == Unused # {} /\ o = CHOOSE token \in Unused : TRUE

\* Mutant: a run that waits for a reconciliation is not taken up again.
ClaimableRunning == saved.run.status = "running" /\ ~saved.leased

\* A run that has ended is answered from the store, one that is leased with an error.
Claimable == ~Ended(saved.run) /\ ~saved.leased

\* The call brings no reconciliation envelope, one for the attempt that is open,
\* or one that is spent, expired or bound to another attempt.
Claim(o, envelope) ==
  /\ Begins(o) /\ Claimable
  /\ saved' = [saved EXCEPT !.owner = o, !.leased = TRUE]
  /\ call' = [call EXCEPT ![o] = [Idle EXCEPT !.pc = "reconcile", !.run = saved.run,
                                              !.envelope = envelope]]
  /\ fenced' = {attempt \in fenced : attempt[1] # o}
  /\ UNCHANGED <<input, journal, clock, sent, effects, used>>
-----------------------------------------------------------------------------
(* SqliteLoopEffectExecutor's #complete.                                    *)

\* The row has its final outcome.
Decided(i) == journal[i].state \in {"applied", "confirmed_no_effect"}

\* The attempt still holds the row, and the row's final outcome is not contradicted.
Completes(i, token, answer) ==
  journal[i].token = token /\ (Decided(i) => answer \in {"unknown", journal[i].state})

\* #complete throws: also when the outcome is the row's but its evidence is not.
CompleteThrows(i, token, answer) ==
  journal[i].token # token \/ (Decided(i) /\ answer # "unknown")

\* The state the row then has, which is also what #complete returns.
Completed(i, answer) == IF Decided(i) THEN journal[i].state ELSE answer
-----------------------------------------------------------------------------
(* reconcilePreparedActions, with SqliteLoopEffectExecutor.reconcile        *)

Reconciling(o) == At(o, "reconcile") /\ Open(call[o].run) # {}
OpenAt(o) == First(Open(call[o].run))
OpenIteration(o) == call[o].run.actions[OpenAt(o)].iteration

NothingOpen(o) ==
  /\ At(o, "reconcile") /\ Open(call[o].run) = {}
  /\ Persist(o, WithStatus(call[o].run, "running"), "recover")
  /\ UNCHANGED <<input, journal, clock, provider, used>>

Waits(o) ==
  Returns(o, WithStatus(call[o].run, "waiting_for_reconciliation"))

\* Without an envelope the journal is not even read.
NoEnvelope(o) ==
  /\ Reconciling(o) /\ call[o].envelope = "none"
  /\ Waits(o)
  /\ UNCHANGED <<input, journal, clock, provider, used>>

\* "loop effect operation is missing from the durable journal"
NotInJournal(o) ==
  /\ Reconciling(o) /\ call[o].envelope # "none"
  /\ journal[OpenIteration(o)].state = "absent"
  /\ Ends(o)
  /\ UNCHANGED <<stores, clock, provider, used>>

\* An action's state after a reconciliation that answered `state`.
Settled(state) ==
  CASE state = "applied" -> "applied"
    [] state = "confirmed_no_effect" -> "retryable_no_effect"
    [] state = "unknown" -> "unknown"

\* A final row answers without the provider, whichever attempt wrote it.
JournalAnswers(o) ==
  /\ Reconciling(o) /\ call[o].envelope # "none"
  /\ journal[OpenIteration(o)].state \in {"applied", "confirmed_no_effect"}
  /\ call' = [call EXCEPT ![o].run =
       WithState(call[o].run, OpenAt(o), Settled(journal[OpenIteration(o)].state))]
  /\ UNCHANGED <<stores, clock, provider, used>>

Undecided(o) == journal[OpenIteration(o)].state \in {"prepared", "unknown"}

EnvelopeRefused(o) ==
  /\ Reconciling(o) /\ call[o].envelope = "spent" /\ Undecided(o)
  /\ Waits(o)
  /\ UNCHANGED <<input, journal, clock, provider, used>>

\* authorizeReconciliation spends the envelope.
ReadBack(o) ==
  /\ Reconciling(o) /\ call[o].envelope = "fresh" /\ Undecided(o)
  /\ call' = [call EXCEPT ![o].pc = "reading", ![o].envelope = "spent", ![o].at = OpenAt(o)]
  /\ UNCHANGED <<stores, clock, provider, used>>

Attempt(o) == <<call[o].run.actions[call[o].at].token, call[o].run.actions[call[o].at].iteration>>

Answers(o, answer) ==
  call' = [call EXCEPT ![o].pc = IF call[o].pc = "reading" THEN "read" ELSE "told",
                       ![o].answer = answer]

\* The provider finds the effect, or fences the attempt it is asked about.
ReadBackSees(o) ==
  /\ At(o, "reading")
  /\ \/ /\ effects[Attempt(o)[2]] > 0
        /\ Answers(o, "applied")
        /\ UNCHANGED <<sent, fenced>>
     \/ /\ effects[Attempt(o)[2]] = 0
        /\ Answers(o, "confirmed_no_effect")
        /\ sent' = sent \ {Attempt(o)}
        /\ fenced' = fenced \cup {Attempt(o)}
  /\ UNCHANGED <<stores, clock, effects, used>>

ReadBackUnsure(o) ==
  /\ At(o, "reading") /\ Fails
  /\ Answers(o, "unknown")
  /\ UNCHANGED <<stores, clock, provider>>

\* The answer goes into the journal; another attempt's row refuses it and reconcile throws.
RecordReadBack(o) ==
  /\ At(o, "read")
  /\ LET i == Attempt(o)[2]
     IN  \/ /\ Completes(i, Attempt(o)[1], call[o].answer)
            /\ journal' = [journal EXCEPT ![i].state = Completed(i, call[o].answer)]
            /\ call' = [call EXCEPT
                 ![o].run = WithState(call[o].run, call[o].at, Settled(journal'[i].state)),
                 ![o].pc = IF journal'[i].state = "unknown" THEN "unsure" ELSE "reconcile"]
         \/ CompleteThrows(i, Attempt(o)[1], call[o].answer) /\ Ends(o) /\ UNCHANGED journal
  /\ UNCHANGED <<input, saved, clock, provider, used>>

StillUnknown(o) ==
  /\ At(o, "unsure")
  /\ Waits(o)
  /\ UNCHANGED <<input, journal, clock, provider, used>>
-----------------------------------------------------------------------------
(* Actions recovered with no effect are repeated under the new owner's token. *)

Recovering(o) == At(o, "recover") /\ Retryable(call[o].run) # {}
RetryAt(o) == First(Retryable(call[o].run))

RetryStale(o) ==
  /\ Recovering(o) /\ ~fresh
  /\ Returns(o, WithStatus(call[o].run, "insufficient_evidence"))
  /\ UNCHANGED <<input, journal, clock, provider, used>>

RetryRefused(o) ==
  /\ Recovering(o) /\ fresh /\ ~authority
  /\ Returns(o, WithStatus([call[o].run EXCEPT !.actions[RetryAt(o)].state = "rejected",
                                               !.actions[RetryAt(o)].token = None], "stopped"))
  /\ UNCHANGED <<input, journal, clock, provider, used>>

\* The record says "prepared" before the effect is asked for.
Prepares(o, run, a, back) ==
  \/ /\ Saves(o)
     /\ saved' = [owner |-> saved.owner, leased |-> TRUE, run |-> run]
     /\ call' = [call EXCEPT ![o] = [Idle EXCEPT !.run = run, !.pc = "apply", !.at = a,
                                                 !.back = back]]
  \/ ~Saves(o) /\ Ends(o) /\ UNCHANGED saved

Retry(o) ==
  /\ Recovering(o) /\ fresh /\ authority
  /\ Prepares(o, [call[o].run EXCEPT !.actions[RetryAt(o)].state = "prepared",
                                     !.actions[RetryAt(o)].token = o], RetryAt(o), "recover")
  /\ UNCHANGED <<input, journal, clock, provider, used>>

\* Mutant: completion does not wait for the effect.
SatisfiedByEvidence(run) == run.iteration > 0 /\ "complete" \in input[run.iteration]

\* The iteration the run is at satisfies the completion predicate, and its matched rule was applied.
Satisfied(run) ==
  /\ run.iteration > 0 /\ "complete" \in input[run.iteration]
  /\ "matched" \in input[run.iteration] => Having(run, {"applied"}) # {}

\* Nothing is left to repeat.
AllRecovered(o) == At(o, "recover") /\ Retryable(call[o].run) = {}

Recovered(o) ==
  /\ AllRecovered(o) /\ Satisfied(call[o].run)
  /\ Returns(o, WithStatus(call[o].run, "completed"))
  /\ UNCHANGED <<input, journal, clock, provider, used>>
-----------------------------------------------------------------------------
(* SqliteLoopEffectExecutor.apply                                           *)

\* Authorization ran out since the record was saved: apply throws.
ApplyRefused(o) ==
  /\ (At(o, "apply") \/ At(o, "send")) /\ ~authority
  /\ Ends(o)
  /\ UNCHANGED <<stores, clock, provider, used>>

\* Mutant: whoever owns the run claims the effect again unless it was applied.
ClaimsUnapplied(i, o) == journal[i].state # "applied"

\* #claim gives the row to a new attempt only when the last one had no effect.
Claims(i, o) ==
  \/ journal[i].state = "absent"
  \/ journal[i].state = "confirmed_no_effect" /\ journal[i].token # o

ClaimEffect(o) ==
  /\ At(o, "apply") /\ authority
  /\ LET i == Attempt(o)[2]
     IN  \/ /\ Claims(i, o)
            /\ journal' = [journal EXCEPT ![i] = [token |-> o, state |-> "prepared"]]
            /\ call' = [call EXCEPT ![o].pc = "send"]
         \/ /\ ~Claims(i, o)
            /\ call' = [call EXCEPT ![o].pc = "tell",
                 ![o].answer = IF journal[i].state \in {"prepared", "unknown"}
                               THEN "unknown" ELSE journal[i].state]
            /\ UNCHANGED journal
  /\ UNCHANGED <<input, saved, clock, provider, used>>

\* Authorization is asked for again, then the transport.
Send(o) ==
  /\ At(o, "send") /\ authority
  /\ sent' = sent \cup ({Attempt(o)} \ fenced)
  /\ call' = [call EXCEPT ![o].pc = "sent"]
  /\ UNCHANGED <<stores, clock, fenced, effects, used>>

TakesEffect(attempt) ==
  /\ attempt \in sent
  /\ sent' = sent \ {attempt}
  /\ effects' = [effects EXCEPT ![attempt[2]] = @ + 1]
  /\ UNCHANGED <<stores, call, clock, fenced, used>>

\* The provider's definite answers are true of this attempt.
TransportAnswers(o) ==
  /\ At(o, "sent")
  /\ \/ /\ Attempt(o) \notin sent \cup fenced
        /\ Answers(o, "applied")
        /\ UNCHANGED <<sent, fenced>>
     \/ /\ Attempt(o) \in sent \cup fenced
        /\ Answers(o, "confirmed_no_effect")
        /\ sent' = sent \ {Attempt(o)}
        /\ fenced' = fenced \cup {Attempt(o)}
  /\ UNCHANGED <<stores, clock, effects, used>>

TransportUnsure(o) ==
  /\ At(o, "sent") /\ Fails
  /\ Answers(o, "unknown")
  /\ UNCHANGED <<stores, clock, provider>>

RecordOutcome(o) ==
  /\ At(o, "told")
  /\ LET i == Attempt(o)[2]
     IN  \/ /\ Completes(i, o, call[o].answer)
            /\ journal' = [journal EXCEPT ![i].state = Completed(i, call[o].answer)]
            /\ call' = [call EXCEPT ![o].pc = "tell", ![o].answer = journal'[i].state]
         \/ CompleteThrows(i, o, call[o].answer) /\ Ends(o) /\ UNCHANGED journal
  /\ UNCHANGED <<input, saved, clock, provider, used>>

\* The action's outcome goes into the record; an unknown one ends the call.
Outcome(o) ==
  /\ At(o, "tell")
  /\ LET run == WithState(call[o].run, call[o].at, call[o].answer)
     IN  \/ /\ call[o].answer = "unknown"
            /\ Returns(o, WithStatus(run, "waiting_for_reconciliation"))
         \/ /\ call[o].answer # "unknown"
            /\ Persist(o, run, call[o].back)
  /\ UNCHANGED <<input, journal, clock, provider, used>>
-----------------------------------------------------------------------------
(* The iterations.                                                          *)

Next1(o) == call[o].run.iteration + 1
AtNext(o) == At(o, "iterate") \/ (AllRecovered(o) /\ ~Satisfied(call[o].run))
Iterating(o) == AtNext(o) /\ Next1(o) \in Iterations
\* Mutant: the iteration is counted only when it is over.
AdvancedLate(o) == call[o].run

Advanced(o) == [call[o].run EXCEPT !.iteration = Next1(o)]
Usable(o) == fresh /\ "breached" \notin input[Next1(o)]

OutOfIterations(o) ==
  /\ AtNext(o) /\ Next1(o) \notin Iterations
  /\ Returns(o, WithStatus(call[o].run, "stopped"))
  /\ UNCHANGED <<input, journal, clock, provider, used>>

\* Evidence that is no longer fresh, a guardrail, or a completion that needs nothing more.
EndsBeforeActing(o) ==
  /\ Iterating(o)
  /\ \/ /\ ~fresh
        /\ Returns(o, WithStatus(Advanced(o), "insufficient_evidence"))
     \/ /\ fresh /\ "breached" \in input[Next1(o)]
        /\ Returns(o, WithStatus(Advanced(o), "stopped"))
     \/ /\ Usable(o) /\ "matched" \in input[Next1(o)] /\ Satisfied(Advanced(o))
        /\ Returns(o, WithStatus(Advanced(o), "completed"))
  /\ UNCHANGED <<input, journal, clock, provider, used>>

NoMatch(o) ==
  /\ Iterating(o) /\ Usable(o) /\ "matched" \notin input[Next1(o)]
  /\ call' = [call EXCEPT ![o].run = Advanced(o), ![o].pc = "close"]
  /\ UNCHANGED <<stores, clock, provider, used>>

Acts(o) ==
  Iterating(o) /\ Usable(o) /\ "matched" \in input[Next1(o)] /\ ~Satisfied(Advanced(o))

\* Actions that were not rejected count against maximumActions.
Spent(run) == Cardinality(DOMAIN run.actions \ Having(run, {"rejected"})) >= MaxActions

MaximumActions(o) ==
  /\ Acts(o) /\ Spent(call[o].run)
  /\ Returns(o, WithStatus(Advanced(o), "stopped"))
  /\ UNCHANGED <<input, journal, clock, provider, used>>

WithAction(o, token, state) ==
  [Advanced(o) EXCEPT
    !.actions = Append(@, [iteration |-> Next1(o), token |-> token, state |-> state])]

\* Saved twice: with the rejected action, then as stopped.
Refused(o) ==
  /\ Acts(o) /\ ~Spent(call[o].run) /\ ~authority
  /\ Persist(o, WithAction(o, None, "rejected"), "refused")
  /\ UNCHANGED <<input, journal, clock, provider, used>>
StopRefused(o) ==
  /\ At(o, "refused")
  /\ Returns(o, WithStatus(call[o].run, "stopped"))
  /\ UNCHANGED <<input, journal, clock, provider, used>>

Act(o) ==
  /\ Acts(o) /\ ~Spent(call[o].run) /\ authority
  /\ Prepares(o, WithAction(o, o, "prepared"), Len(call[o].run.actions) + 1, "close")
  /\ UNCHANGED <<input, journal, clock, provider, used>>

Close(o) ==
  /\ At(o, "close")
  /\ \/ Satisfied(call[o].run) /\ Returns(o, WithStatus(call[o].run, "completed"))
     \/ ~Satisfied(call[o].run) /\ Persist(o, call[o].run, "iterate")
  /\ UNCHANGED <<input, journal, clock, provider, used>>
-----------------------------------------------------------------------------
(* The process and the world around it.                                     *)

\* The process dies, or its transport throws and the error leaves execute.
Crash(o) ==
  /\ Live(o) /\ Fails
  /\ Ends(o)
  /\ UNCHANGED <<stores, clock, provider>>

\* The lease of a call that has gone, or that is slower than its lease.
Expire ==
  /\ saved.leased /\ (saved.owner \in Owners => ~Live(saved.owner))
  /\ saved' = [saved EXCEPT !.leased = FALSE]
  /\ UNCHANGED <<input, journal, call, clock, provider, used>>
Stall ==
  /\ saved.leased /\ saved.owner \in Owners /\ Live(saved.owner) /\ used.stalls < MaxStalls
  /\ saved' = [saved EXCEPT !.leased = FALSE]
  /\ used' = [used EXCEPT !.stalls = @ + 1]
  /\ UNCHANGED <<input, journal, call, clock, provider>>

Age == fresh /\ fresh' = FALSE /\ UNCHANGED <<stores, call, authority, provider, used>>
Revoke == authority /\ authority' = FALSE /\ UNCHANGED <<stores, call, fresh, provider, used>>

Reconciles(o) ==
  \/ NothingOpen(o) \/ NoEnvelope(o) \/ NotInJournal(o) \/ JournalAnswers(o)
  \/ EnvelopeRefused(o) \/ ReadBack(o) \/ ReadBackSees(o) \/ ReadBackUnsure(o)
  \/ RecordReadBack(o) \/ StillUnknown(o)
Recovers(o) == RetryStale(o) \/ RetryRefused(o) \/ Retry(o) \/ Recovered(o)
Applies(o) ==
  \/ ApplyRefused(o) \/ ClaimEffect(o) \/ Send(o) \/ TransportAnswers(o) \/ TransportUnsure(o)
  \/ RecordOutcome(o) \/ Outcome(o)
Iterates(o) ==
  \/ OutOfIterations(o) \/ EndsBeforeActing(o) \/ NoMatch(o) \/ MaximumActions(o)
  \/ Refused(o) \/ StopRefused(o) \/ Act(o) \/ Close(o)
Continues(o) == Reconciles(o) \/ Recovers(o) \/ Applies(o) \/ Iterates(o)

Next ==
  \/ \E o \in Owners :
       \/ \E envelope \in {"none", "spent", "fresh"} : Claim(o, envelope)
       \/ Reconciles(o) \/ Recovers(o) \/ Applies(o) \/ Iterates(o)
       \/ Crash(o)
  \/ \E attempt \in sent : TakesEffect(attempt)
  \/ Expire \/ Stall
  \/ Age \/ Revoke

Spec == Init /\ [][Next]_vars

\* A call goes on until it dies, a lease nobody renews runs out, and somebody calls again, in
\* the end with a fresh envelope.
FairSpec ==
  /\ Spec
  /\ \A o \in Owners : WF_vars(Continues(o))
  /\ WF_vars(Expire)
  /\ SF_vars(\E o \in Owners : Claim(o, "fresh"))
-----------------------------------------------------------------------------
Tokens == Owners \cup {None}
RunStatuses == {"running", "waiting_for_reconciliation", "completed", "insufficient_evidence",
                "stopped"}
ActionStates == {"prepared", "unknown", "applied", "confirmed_no_effect", "retryable_no_effect",
                 "rejected"}

IsRun(run) ==
  /\ run.status \in RunStatuses /\ run.iteration \in 0..Len(input)
  /\ run.actions \in Seq([iteration : Iterations, token : Tokens, state : ActionStates])

\* Type invariant: an effectful action keeps the fencing token of its attempt unless it was
\* rejected (effectRequest throws without one), and no iteration acts twice.
TypeOK ==
  /\ IsRun(saved.run) /\ saved.owner \in Tokens /\ saved.leased \in BOOLEAN
  /\ \A i \in Iterations :
       /\ journal[i].token \in Tokens
       /\ journal[i].state \in
            {"absent", "prepared", "unknown", "applied", "confirmed_no_effect"}
       /\ journal[i].state # "absent" => journal[i].token \in Owners
  /\ \A o \in Owners :
       /\ IsRun(call[o].run) /\ call[o].envelope \in {"none", "spent", "fresh"}
       /\ call[o].at \in 0..Len(input)
       /\ call[o].answer \in {"applied", "confirmed_no_effect", "unknown"}
  /\ \A a, b \in DOMAIN saved.run.actions :
       saved.run.actions[a].iteration = saved.run.actions[b].iteration => a = b
  /\ \A a \in DOMAIN saved.run.actions :
       saved.run.actions[a].token = None <=> saved.run.actions[a].state = "rejected"
  /\ sent \cup fenced \subseteq Owners \X Iterations /\ sent \cap fenced = {}
  /\ effects \in [Iterations -> Nat] /\ fresh \in BOOLEAN /\ authority \in BOOLEAN

\* "Durable operation journal that makes production loop effects apply-once": no interleaving of
\* calls, leases, failures, late effects and repeated attempts carries an effect out twice.
AppliedOnce == \A i \in Iterations : effects[i] <= 1

\* What the stores say was done was done: an applied action or journal row has its effect, a
\* completed run satisfies its completion predicate and the effect of its matched rule.
RecordIsTrue ==
  /\ \A i \in Iterations : journal[i].state = "applied" => effects[i] > 0
  /\ \A a \in Having(saved.run, {"applied"}) : effects[saved.run.actions[a].iteration] > 0
  /\ saved.run.status = "completed" =>
       /\ "complete" \in input[saved.run.iteration]
       /\ "matched" \in input[saved.run.iteration] => \E i \in Iterations : effects[i] > 0

\* A run that has ended keeps its record, whatever an owner that lost it still tries to save.
EndedIsFinal == [][Ended(saved.run) => saved'.run = saved.run]_vars

\* An action the record calls open that no attempt ever brought to the journal, or that the
\* journal keeps open under another attempt: no reconciliation can settle it any more.
Stranded ==
  \E a \in Open(saved.run) :
    LET row == journal[saved.run.actions[a].iteration]
    IN  \/ row.state = "absent"
        \/ row.state \in {"prepared", "unknown"} /\ row.token # saved.run.actions[a].token

\* Every run ends, whatever dies, unless it is stranded for good.
RunEnds == <>Ended(saved.run) \/ <>[]Stranded

\* index.ts:219 on attemptFenced: "The durable executor has fenced the exact prior attempt, so
\* that attempt can no longer complete after this result is returned."  So an effect that the
\* record of an ended run says did not happen has not happened and never will.
AbsenceIsFinal ==
  Ended(saved.run) =>
    \A a \in Having(saved.run, {"retryable_no_effect", "confirmed_no_effect", "rejected"}) :
      effects[saved.run.actions[a].iteration] = 0
=============================================================================
