-------------------------- MODULE CommandBusProofs --------------------------
(***************************************************************************)
(* Proofs about the command bus for any number of callers, keys, inputs    *)
(* and outputs and any bounds.                                             *)
(*                                                                         *)
(* The owner of a pending row is the one call that may settle it (Owners,  *)
(* Sole), so what a call does is done for a row that nobody else changes.  *)
(* DInv extends this to refusals, EInv to the evidence of completions.     *)
(***************************************************************************)
EXTENDS CommandBus, TLAPS

-----------------------------------------------------------------------------
(* Type correctness.                                                        *)

(* A call's local state, its token and its key's row have their types.      *)
LEMMA Local ==
  ASSUME TypeOK, NEW c \in Callers
  PROVE  /\ call[c] \in Calls /\ Token(c) \in Tokens
         /\ call[c].pc # "idle" => /\ call[c].key \in Keys /\ call[c].input \in Inputs
                                   /\ Row(c) \in Rows
  BY DEF TypeOK, Token, Tokens, Calls, Row
-----------------------------------------------------------------------------
(* One step of one call, seen from the ledger.                              *)

OwnerPcs == {"handle", "complete", "release", "markAmbiguous"}
EmitPcs == {"event", "meter", "audit", "mark", "return"}

(* What a step of call c does to the row of its key and to the effects.     *)
Acquires(c) ==
  /\ call[c].pc = "claim" /\ call'[c].pc = "handle"
  /\ Row(c).state = "absent"
  /\ \E t \in Nat : Put(c, [state |-> "pending", input |-> call[c].input, owner |-> Token(c),
                           expires |-> t, output |-> NoOutput, emitted |-> FALSE])
  /\ UNCHANGED effects

Runs(c) ==
  /\ call[c].pc = "handle" /\ UNCHANGED ledger
  /\ call'[c].pc = "complete" => call'[c].output \in Outputs
  /\ \/ call'[c].pc = "complete" /\ call[c].key \notin ReadKeys /\ Affect(c)
     \/ call'[c].pc = "complete" /\ call[c].key \in ReadKeys /\ UNCHANGED effects
     \/ call'[c].pc = "release" /\ UNCHANGED effects
     \/ call'[c].pc = "markAmbiguous" /\ call[c].key \notin ReadKeys /\ (Affect(c) \/ UNCHANGED effects)

FailsToComplete(c) ==
  /\ call[c].pc = "complete" /\ UNCHANGED <<ledger, effects>>
  /\ call'[c].pc = IF call[c].key \in ReadKeys THEN "release" ELSE "markAmbiguous"

Completes(c) ==
  /\ call[c].pc = "complete" /\ call'[c].pc = "event"
  /\ Row(c).state = "pending" /\ SameRequest(c) /\ call'[c].output = call[c].output
  /\ Put(c, [Row(c) EXCEPT !.state = "completed", !.owner = NoToken, !.output = call[c].output])
  /\ UNCHANGED effects

Releases(c) ==
  /\ call[c].pc = "release" /\ call'[c].pc = "fail"
  /\ Row(c).state = "pending" /\ Put(c, Absent) /\ UNCHANGED effects

Doubts(c) ==
  /\ call[c].pc \in {"claim", "markAmbiguous"} /\ call'[c].pc = "fail"
  /\ Row(c).state = "pending" /\ Put(c, Doubt(Row(c))) /\ UNCHANGED effects

Marks(c) ==
  /\ call[c].pc = "mark" /\ call'[c].pc = "return" /\ call'[c].output = call[c].output
  /\ Row(c).state = "completed" /\ Put(c, [Row(c) EXCEPT !.emitted = TRUE]) /\ UNCHANGED effects

Quiet(c) ==
  /\ call'[c].pc \notin OwnerPcs
  /\ call'[c].pc \in EmitPcs =>
       \/ call[c].pc \in EmitPcs /\ call'[c].output = call[c].output
       \/ Row(c).state = "completed" /\ SameRequest(c) /\ call'[c].output = Row(c).output
  /\ UNCHANGED <<ledger, effects>>

(* Everything but call c, its key's row and its own pc is left alone.       *)
LEMMA Summary ==
  ASSUME TypeOK, NEW c \in Callers, Step(c) \/ Crash(c)
  PROVE  /\ call[c].pc # "idle"
         /\ \A d \in Callers : d # c => call'[d] = call[d]
         /\ \A k \in Keys : k # call[c].key => ledger'[k] = ledger[k]
         /\ call'[c].n = call[c].n
         /\ call'[c].pc # "idle" => call'[c].key = call[c].key /\ call'[c].input = call[c].input
         /\ \/ Acquires(c) \/ Runs(c) \/ FailsToComplete(c) \/ Completes(c)
            \/ Releases(c) \/ Doubts(c) \/ Marks(c) \/ Quiet(c)
<1> USE DEF OwnerPcs, EmitPcs
<1> DEFINE Frame ==
      /\ call[c].pc # "idle"
      /\ \A d \in Callers : d # c => call'[d] = call[d]
      /\ \A k \in Keys : k # call[c].key => ledger'[k] = ledger[k]
      /\ call'[c].n = call[c].n
      /\ call'[c].pc # "idle" => call'[c].key = call[c].key /\ call'[c].input = call[c].input
<1>a. call[c] \in Calls
  BY Local
<1> DEFINE Moved(pc) ==
      /\ \A d \in Callers : d # c => call'[d] = call[d]
      /\ call'[c].pc = pc /\ call'[c].n = call[c].n /\ call'[c].output = call[c].output
      /\ call'[c].key = call[c].key /\ call'[c].input = call[c].input
<1>b. ASSUME NEW pc, NEW code, GotoWith(c, pc, code)
      PROVE  Moved(pc)
  <2>1. /\ call'[c] = [call[c] EXCEPT !.pc = pc, !.code = code]
        /\ \A d \in Callers : d # c => call'[d] = call[d]
    BY <1>b DEF GotoWith, Set, TypeOK
  <2> QED
    BY <1>a, <2>1 DEF Calls
<1>d. ASSUME NEW pc, Goto(c, pc)
      PROVE  Moved(pc)
  <2>1. /\ call'[c] = [call[c] EXCEPT !.pc = pc]
        /\ \A d \in Callers : d # c => call'[d] = call[d]
    BY <1>d DEF Goto, Set, TypeOK
  <2> QED
    BY <1>a, <2>1 DEF Calls
<1>c. ASSUME NEW row, Put(c, row)
      PROVE  \A k \in Keys : k # call[c].key => ledger'[k] = ledger[k]
  BY <1>c DEF Put, TypeOK
<1>1. CASE Authorize(c)
  <2>1. CASE Goto(c, "claim")
    BY <1>1, <2>1, <1>d DEF Authorize, Quiet
  <2>2. CASE \E code \in {"authorization_denied", "invalid_input"} : Fail(c, code)
    <3>1. PICK code \in {"authorization_denied", "invalid_input"} : GotoWith(c, "fail", code)
      BY <2>2 DEF Fail
    <3> QED
      BY <1>1, <3>1, <1>b DEF Authorize, Quiet
  <2> QED
    BY <1>1, <2>1, <2>2 DEF Authorize
<1>2. CASE Claim(c)
  <2>0. call[c].pc = "claim" /\ UNCHANGED effects
    BY <1>2 DEF Claim
  <2>1. CASE ClaimFree(c)
    <3>1. call[c].at + PendingTimeout \in Nat
      BY <1>a, BusAssumption DEF Calls
    <3> QED
      BY <2>0, <2>1, <3>1, <1>d, <1>c DEF ClaimFree, Acquires
  <2>2. CASE ClaimConflict(c) \/ ClaimAmbiguous(c) \/ ClaimPending(c)
    BY <2>0, <2>2, <1>b DEF ClaimConflict, ClaimAmbiguous, ClaimPending, Fail, Quiet
  <2>3. CASE ClaimReplay(c)
    BY <2>0, <2>3, <1>a DEF ClaimReplay, ReplayFrom, Set, Quiet, Calls, TypeOK
  <2>4. CASE ClaimExpired(c)
    BY <2>0, <2>4, <1>b, <1>c DEF ClaimExpired, Fail, Doubts
  <2> QED
    BY <1>2, <2>1, <2>2, <2>3, <2>4 DEF Claim
<1>3. CASE ClaimThrows(c) \/ ReleaseThrows(c) \/ MarkAmbiguousThrows(c) \/ EmitThrows(c)
  BY <1>3, <1>b DEF ClaimThrows, ReleaseThrows, MarkAmbiguousThrows, EmitThrows, Fail, Quiet
<1>4. ASSUME NEW out \in Outputs, HandlerReturns(c, out) PROVE Frame /\ Runs(c)
  BY <1>4, <1>a DEF HandlerReturns, Runs, Set, Calls, TypeOK
<1>5. CASE HandlerThrows(c)
  <2>1. PICK own \in {"none", "handler_refused", "invalid_input"} : AfterFailure(c, own)
    BY <1>5 DEF HandlerThrows
  <2>2. \/ call[c].key \in ReadKeys /\ Moved("release")
        \/ call[c].key \notin ReadKeys /\ Moved("markAmbiguous")
    BY <2>1, <1>b DEF AfterFailure
  <2> QED
    BY <1>5, <2>2 DEF HandlerThrows, Runs
<1>6. CASE HandlerProvesNoEffect(c)
  BY <1>6, <1>b DEF HandlerProvesNoEffect, Runs
<1>7. CASE Complete(c)
  <2>1. CASE OwnsClaim(c)
    BY <1>7, <2>1, <1>d, <1>c DEF Complete, OwnsClaim, Completes
  <2>2. CASE ~OwnsClaim(c)
    BY <1>7, <2>2, <1>b DEF Complete, AfterFailure, FailsToComplete
  <2> QED
    BY <2>1, <2>2
<1>8. CASE CompleteThrows(c)
  BY <1>8, <1>b DEF CompleteThrows, AfterFailure, FailsToComplete
<1>9. CASE Release(c)
  <2>1. CASE OwnsClaim(c)
    BY <1>9, <2>1, <1>b, <1>c DEF Release, OwnsClaim, Fail, Releases
  <2>2. CASE ~OwnsClaim(c)
    BY <1>9, <2>2, <1>b DEF Release, Fail, Quiet
  <2> QED
    BY <2>1, <2>2
<1>10. CASE MarkAmbiguous(c)
  <2>1. CASE OwnsClaim(c)
    BY <1>10, <2>1, <1>b, <1>c DEF MarkAmbiguous, OwnsClaim, Fail, Doubts
  <2>2. CASE ~OwnsClaim(c)
    BY <1>10, <2>2, <1>b DEF MarkAmbiguous, Fail, Quiet
  <2> QED
    BY <2>1, <2>2
<1>11. CASE EmitEvent(c) \/ EmitMeter(c) \/ EmitAudit(c)
  <2>1. PICK pc \in {"meter", "audit", "mark"} : Goto(c, pc)
    BY <1>11 DEF EmitEvent, EmitMeter, EmitAudit
  <2> QED
    BY <1>11, <2>1, <1>d DEF EmitEvent, EmitMeter, EmitAudit, Quiet
<1>12. CASE MarkArtifactsEmitted(c)
  <2>1. CASE Row(c).state = "completed" /\ SameRequest(c)
    BY <1>12, <2>1, <1>d, <1>c DEF MarkArtifactsEmitted, Marks
  <2>2. CASE ~(Row(c).state = "completed" /\ SameRequest(c))
    BY <1>12, <2>2, <1>b DEF MarkArtifactsEmitted, Fail, Quiet
  <2> QED
    BY <2>1, <2>2
<1>13. CASE Return(c) \/ FileFailure(c) \/ FileFailureThrows(c) \/ Crash(c)
  BY <1>13, <1>a DEF Return, FileFailure, FileFailureThrows, Crash, Set, Idle, Quiet, Calls, TypeOK
<1> QED
  BY <1>1, <1>2, <1>3, <1>4, <1>5, <1>6, <1>7, <1>8, <1>9, <1>10, <1>11, <1>12, <1>13 DEF Step
-----------------------------------------------------------------------------
(* New local states that are well typed: after Goto and GotoWith, at rest,   *)
(* and with another output.                                                 *)
LEMMA MoveType ==
  ASSUME TypeOK, NEW c \in Callers, call[c].pc # "idle",
         NEW pc \in PCs, NEW code \in Codes, NEW out \in Outputs \cup {NoOutput}
  PROVE  /\ [call[c] EXCEPT !.pc = pc] \in Calls
         /\ [call[c] EXCEPT !.pc = pc, !.code = code] \in Calls
         /\ [call[c] EXCEPT !.pc = pc, !.output = out] \in Calls
         /\ [call[c] EXCEPT !.output = out, !.pc = pc] \in Calls
         /\ Idle(call[c].n) \in Calls
<1>1. call[c] \in Calls /\ call[c].key \in Keys /\ call[c].input \in Inputs
  BY Local
<1>2. Idle(call[c].n) \in Calls
  BY <1>1 DEF Calls, Idle, PCs, Codes
<1>3. [call[c] EXCEPT !.pc = pc] \in Calls
  BY <1>1 DEF Calls
<1>4. [call[c] EXCEPT !.pc = pc, !.code = code] \in Calls
  BY <1>1 DEF Calls
<1>5. [call[c] EXCEPT !.pc = pc, !.output = out] \in Calls
  BY <1>1 DEF Calls
<1>6. [call[c] EXCEPT !.output = out, !.pc = pc] \in Calls
  BY <1>1 DEF Calls
<1> QED
  BY <1>2, <1>3, <1>4, <1>5, <1>6

(* Rows that are well typed.                                                *)
LEMMA RowType ==
  ASSUME NEW row \in Rows, NEW out \in Outputs \cup {NoOutput}
  PROVE  /\ Absent \in Rows /\ Doubt(row) \in Rows
         /\ [row EXCEPT !.emitted = TRUE] \in Rows
         /\ [row EXCEPT !.state = "completed", !.owner = NoToken, !.output = out] \in Rows
  BY DEF Rows, Absent, Doubt

(* Every step keeps the types.                                              *)
LEMMA TypeStep == ASSUME TypeOK, [Next]_vars PROVE TypeOK'
<1> USE DEF TypeOK, evidence, budget
<1>1. CASE UNCHANGED vars
  BY <1>1 DEF vars
<1>2. CASE Tick
  BY <1>2 DEF Tick
<1>3. ASSUME NEW c \in Callers, NEW k \in Keys, NEW in \in Inputs, Start(c, k, in) PROVE TypeOK'
  <2>1. [pc |-> "request", n |-> call[c].n + 1, key |-> k, input |-> in,
         at |-> clock, output |-> NoOutput, code |-> "none"] \in Calls
    BY Local DEF Calls, PCs, Codes
  <2> QED
    BY <1>3, <2>1 DEF Start, Set
<1>4. ASSUME NEW c \in Callers, Step(c) \/ Crash(c) PROVE TypeOK'
  <2>1. /\ call[c] \in Calls /\ Token(c) \in Tokens /\ call[c].pc # "idle"
        /\ call[c].key \in Keys /\ call[c].input \in Inputs /\ Row(c) \in Rows
    BY <1>4, Local, Summary
  <2>2. call[c].output \in Outputs \cup {NoOutput} /\ Row(c).output \in Outputs \cup {NoOutput}
    BY <2>1 DEF Calls, Rows
  <2>3. ledger' \in [Keys -> Rows]
    <3>1. ASSUME NEW t \in Nat
          PROVE  [state |-> "pending", input |-> call[c].input, owner |-> Token(c),
                  expires |-> t, output |-> NoOutput, emitted |-> FALSE] \in Rows
      BY <2>1 DEF Rows
    <3>2. \/ UNCHANGED ledger
          \/ \E row \in Rows : Put(c, row)
      BY <1>4, <2>1, <2>2, <3>1, RowType, Summary
         DEF Acquires, Runs, FailsToComplete, Completes, Releases, Doubts, Marks, Quiet
    <3> QED
      BY <3>2, <2>1 DEF Put
  <2>4. effects' \in [Keys -> SUBSET Tokens]
    <3>1. UNCHANGED effects \/ Affect(c)
      BY <1>4, Summary DEF Acquires, Runs, FailsToComplete, Completes, Releases, Doubts, Marks, Quiet
    <3> QED
      BY <3>1, <2>1 DEF Affect
  <2>5. call' \in [Callers -> Calls]
    <3>1. \/ \E pc \in PCs : Goto(c, pc)
          \/ \E pc \in PCs, code \in Codes : GotoWith(c, pc, code)
          \/ \E pc \in PCs, out \in Outputs \cup {NoOutput} :
               Set(c, [call[c] EXCEPT !.pc = pc, !.output = out])
               \/ Set(c, [call[c] EXCEPT !.output = out, !.pc = pc])
          \/ Set(c, Idle(call[c].n))
      <4>1. CASE Claim(c)
        BY <4>1, <2>2 DEF Claim, ClaimFree, ClaimConflict, ClaimReplay, ClaimAmbiguous,
                          ClaimExpired, ClaimPending, ReplayFrom, Fail, PCs, Codes
      <4>2. CASE \/ Authorize(c) \/ ClaimThrows(c)
                 \/ ReleaseThrows(c) \/ EmitThrows(c)
        BY <4>2 DEF Authorize, ClaimThrows, ReleaseThrows, EmitThrows, Fail, PCs, Codes
      <4>3. CASE MarkAmbiguous(c) \/ MarkAmbiguousThrows(c) \/ Release(c)
        BY <4>3, <2>1 DEF MarkAmbiguous, MarkAmbiguousThrows, Release, Fail, Calls, PCs, Codes
      <4>4. CASE \/ \E out \in Outputs : HandlerReturns(c, out)
        BY <4>4 DEF HandlerReturns, PCs
      <4>5. CASE HandlerThrows(c) \/ HandlerProvesNoEffect(c) \/ Complete(c) \/ CompleteThrows(c)
        BY <4>5 DEF HandlerThrows, HandlerProvesNoEffect, Complete, CompleteThrows,
                    AfterFailure, PCs, Codes
      <4>6. CASE EmitEvent(c) \/ EmitMeter(c) \/ EmitAudit(c) \/ MarkArtifactsEmitted(c)
        BY <4>6 DEF EmitEvent, EmitMeter, EmitAudit, MarkArtifactsEmitted, Fail, PCs, Codes
      <4>7. CASE Return(c) \/ FileFailure(c) \/ FileFailureThrows(c) \/ Crash(c)
        BY <4>7 DEF Return, FileFailure, FileFailureThrows, Crash
      <4> QED
        BY <1>4, <4>1, <4>2, <4>3, <4>4, <4>5, <4>6, <4>7 DEF Step
    <3>2. \E r \in Calls : Set(c, r)
      <4>1. CASE \E pc \in PCs : Goto(c, pc)
        BY <4>1, <2>1, <2>2, MoveType DEF Goto, Codes
      <4>2. CASE \E pc \in PCs, code \in Codes : GotoWith(c, pc, code)
        BY <4>2, <2>1, <2>2, MoveType DEF GotoWith
      <4>3. CASE \E pc \in PCs, out \in Outputs \cup {NoOutput} :
                   Set(c, [call[c] EXCEPT !.pc = pc, !.output = out])
                   \/ Set(c, [call[c] EXCEPT !.output = out, !.pc = pc])
        BY <4>3, <2>1, MoveType DEF Codes
      <4>4. CASE Set(c, Idle(call[c].n))
        BY ZenonT(60), <4>4, <2>1, <2>2, MoveType DEF PCs, Codes
      <4> QED
        BY <3>1, <4>1, <4>2, <4>3, <4>4
    <3> QED
      BY <3>2 DEF Set
  <2>6. answers' \subseteq Answers
    <3>1. ASSUME NEW o \in {"succeeded", "failed", "denied"}, Answer(c, o) PROVE answers' \subseteq Answers
      BY <3>1, <2>1, <2>2 DEF Answer, Answers
    <3>2. UNCHANGED answers \/ \E o \in {"succeeded", "failed", "denied"} : Answer(c, o)
      BY <1>4 DEF Step, Authorize, Claim, ClaimThrows, HandlerReturns, HandlerThrows,
                  HandlerProvesNoEffect, Complete, CompleteThrows, Release, ReleaseThrows,
                  MarkAmbiguous, MarkAmbiguousThrows, EmitEvent, EmitMeter, EmitAudit,
                  MarkArtifactsEmitted, EmitThrows, Return, FileFailure, FileFailureThrows, Crash
    <3> QED
      BY <3>1, <3>2
  <2>7. events' \in [Keys -> Nat] /\ meters' \in [Keys -> Nat] /\ successes' \in [Keys -> Nat]
    <3>1. ASSUME NEW rows \in [Keys -> Nat] PROVE Once(rows, call[c].key) \in [Keys -> Nat]
      BY <2>1 DEF Once
    <3> QED
      BY <1>4, <3>1 DEF Step, Authorize, Claim, ClaimThrows, HandlerReturns, HandlerThrows,
                  HandlerProvesNoEffect, Complete, CompleteThrows, Release, ReleaseThrows,
                  MarkAmbiguous, MarkAmbiguousThrows, EmitEvent, EmitMeter, EmitAudit,
                  MarkArtifactsEmitted, EmitThrows, Return, FileFailure, FileFailureThrows, Crash
  <2>8. clock' \in Nat /\ faults' \in Nat /\ crashes' \in Nat
    <3>1. /\ UNCHANGED clock
          /\ UNCHANGED faults \/ faults' = faults + 1
          /\ UNCHANGED crashes \/ crashes' = crashes + 1
      <4>1. CASE Crash(c)
        BY <4>1 DEF Crash
      <4>2. CASE Step(c)
        BY <4>2 DEF Throws, Step, Authorize, Claim, ClaimThrows, HandlerReturns, HandlerThrows,
                  HandlerProvesNoEffect, Complete, CompleteThrows, Release, ReleaseThrows,
                  MarkAmbiguous, MarkAmbiguousThrows, EmitEvent, EmitMeter, EmitAudit,
                  MarkArtifactsEmitted, EmitThrows, Return, FileFailure, FileFailureThrows
      <4> QED
        BY <1>4, <4>1, <4>2
    <3> QED
      BY <3>1
  <2> QED
    BY <2>3, <2>4, <2>5, <2>6, <2>7, <2>8
<1> QED
  BY <1>1, <1>2, <1>3, <1>4 DEF Next

(* The ledger, the calls, the evidence and the answers keep their types for   *)
(* any number of callers and keys and any bounds.                           *)
THEOREM TypeCorrect == Spec => []TypeOK
<1>1. Init => TypeOK
  BY BusAssumption DEF Init, TypeOK, Idle, Calls, PCs, Codes, Rows, Absent, Answers
<1> QED
  BY <1>1, TypeStep, PTL DEF Spec

-----------------------------------------------------------------------------
(* The inductive invariant.  A key has one owner at most; its row is the    *)
(* owner's live claim or already ambiguous, so that no claim can be won     *)
(* while a handler may still act; a released or absent key had no effect;   *)
(* and a call emits only the evidence of its key's completed row.           *)

Owners ==
  \A c \in Callers : call[c].pc \in OwnerPcs =>
    /\ Row(c).state \in {"pending", "ambiguous"}
    /\ Row(c).state = "pending" => Row(c).owner = Token(c)

Sole ==
  \A c, d \in Callers :
    call[c].pc \in OwnerPcs /\ call[d].pc \in OwnerPcs /\ call[c].key = call[d].key => c = d

EffectRows ==
  \A k \in Keys : effects[k] # {} => ledger[k].state # "absent" /\ k \notin ReadKeys

HandlersFresh ==
  \A c \in Callers : call[c].pc \in {"handle", "release"} => effects[call[c].key] = {}

CompletionsApplied ==
  \A c \in Callers : call[c].pc = "complete" /\ call[c].key \notin ReadKeys
                      => effects[call[c].key] # {}

OutputsReady == \A c \in Callers : call[c].pc = "complete" => call[c].output \in Outputs

Emitting ==
  /\ \A k \in Keys : ledger[k].state # "completed" => ledger[k].output = NoOutput
  /\ \A c \in Callers : call[c].pc \in EmitPcs =>
       Row(c).state = "completed" /\ SameRequest(c) /\ Row(c).output = call[c].output

IInv == /\ TypeOK /\ Owners /\ Sole /\ OneEffectPerKey /\ SuccessIsTheLedgers
        /\ EffectRows /\ HandlersFresh /\ CompletionsApplied /\ OutputsReady /\ Emitting

(* The invariant holds before the first call.                               *)
LEMMA IInit == Init => IInv
<1>1. Init => TypeOK
  BY BusAssumption DEF Init, TypeOK, Idle, Calls, PCs, Codes, Rows, Absent, Answers
<1> QED
  BY <1>1 DEF Init, IInv, Owners, Sole, OneEffectPerKey, Emitting, EffectRows,
              HandlersFresh, CompletionsApplied, OutputsReady,
              SuccessIsTheLedgers, Idle, Absent, OwnerPcs, EmitPcs

(* A step of a call preserves what the invariant says of claims and effects. *)
LEMMA ClaimStep ==
  ASSUME IInv, NEW c \in Callers, Step(c) \/ Crash(c)
  PROVE  /\ Owners' /\ Sole' /\ OneEffectPerKey'
         /\ EffectRows' /\ HandlersFresh' /\ CompletionsApplied' /\ OutputsReady' /\ Emitting'
<1> USE DEF IInv, Row, Token, OwnerPcs, EmitPcs
<1>0. TypeOK /\ call[c].key \in Keys /\ call[c] \in Calls /\ Row(c) \in Rows
  BY Local, Summary
<1>f. /\ \A d \in Callers : d # c => call'[d] = call[d]
      /\ \A k \in Keys : k # call[c].key => ledger'[k] = ledger[k]
      /\ call'[c].n = call[c].n
      /\ call'[c].pc # "idle" => call'[c].key = call[c].key /\ call'[c].input = call[c].input
  BY Summary
<1>k. \A d \in Callers : call[d].pc # "idle" => call[d].key \in Keys
  BY Local
<1>1. CASE Acquires(c)
  <2>1. Owners'
    BY <1>0, <1>f, <1>k, <1>1 DEF Acquires, Put, TypeOK, Owners, Sole, Rows
  <2>2. Sole'
    BY <1>0, <1>f, <1>k, <1>1 DEF Acquires, Owners, Sole
  <2>3. OneEffectPerKey'
    BY <1>0, <1>f, <1>k, <1>1 DEF Acquires, TypeOK, OneEffectPerKey, HandlersFresh
  <2>4. EffectRows'
    BY <1>0, <1>f, <1>1 DEF Acquires, Put, TypeOK, EffectRows, HandlersFresh, Rows
  <2>5. HandlersFresh'
    BY <1>0, <1>f, <1>k, <1>1 DEF Acquires, Put, TypeOK, Sole, EffectRows, HandlersFresh
  <2>6. CompletionsApplied'
    BY <1>0, <1>f, <1>k, <1>1 DEF Acquires, Put, TypeOK, Sole, CompletionsApplied
  <2>7. Emitting'
    <3>1. /\ ledger'[call[c].key].state = "pending" /\ ledger'[call[c].key].output = NoOutput
          /\ call'[c].pc \notin EmitPcs /\ Row(c).state = "absent"
      BY <1>0, <1>1 DEF Acquires, Put, TypeOK
    <3>2. \A k \in Keys : ledger'[k].state # "completed" => ledger'[k].output = NoOutput
      BY <3>1, <1>f DEF Emitting
    <3>3. ASSUME NEW d \in Callers, call'[d].pc \in EmitPcs
          PROVE  d # c /\ call[d].key # call[c].key /\ call[d].key \in Keys
      BY <3>1, <3>3, <1>f, <1>k DEF Emitting
    <3> QED
      BY <3>2, <3>3, <1>f DEF Emitting, SameRequest
  <2>8. OutputsReady'
    BY <1>0, <1>f, <1>1 DEF Acquires, OutputsReady
  <2> QED
    BY <2>1, <2>2, <2>3, <2>4, <2>5, <2>6, <2>7, <2>8
<1>2. CASE Runs(c)
  <2>1. Owners'
    BY <1>0, <1>f, <1>k, <1>2 DEF Runs, Affect, TypeOK, Owners, Sole, Rows
  <2>2. Sole'
    BY <1>0, <1>f, <1>k, <1>2 DEF Runs, Owners, Sole
  <2>3. OneEffectPerKey'
    BY <1>0, <1>f, <1>k, <1>2 DEF Runs, Affect, TypeOK, OneEffectPerKey, HandlersFresh
  <2>4. EffectRows'
    BY <1>0, <1>f, <1>2 DEF Runs, Affect, TypeOK, EffectRows, HandlersFresh, Rows, Owners
  <2>5. HandlersFresh'
    BY <1>0, <1>f, <1>k, <1>2 DEF Runs, Affect, TypeOK, Sole, EffectRows, HandlersFresh
  <2>6. CompletionsApplied'
    <3>1. \A k \in Keys : effects[k] # {} => effects'[k] # {}
      BY <1>2 DEF Runs, Affect, TypeOK
    <3>2. call'[c].pc = "complete" /\ call[c].key \notin ReadKeys => effects'[call[c].key] # {}
      BY <1>0, <1>2 DEF Runs, Affect, TypeOK
    <3> QED
      BY <3>1, <3>2, <1>f, <1>k DEF CompletionsApplied
  <2>7. Emitting'
    BY <1>0, <1>f, <1>k, <1>2 DEF Runs, Affect, TypeOK, Emitting, SameRequest, Rows
  <2>8. OutputsReady'
    BY <1>0, <1>f, <1>2 DEF Runs, OutputsReady
  <2> QED
    BY <2>1, <2>2, <2>3, <2>4, <2>5, <2>6, <2>7, <2>8
<1>3. CASE FailsToComplete(c)
  <2>1. Owners'
    BY <1>0, <1>f, <1>k, <1>3 DEF FailsToComplete, TypeOK, Owners, Sole, Rows
  <2>2. Sole'
    BY <1>0, <1>f, <1>k, <1>3 DEF FailsToComplete, Owners, Sole
  <2>3. OneEffectPerKey'
    BY <1>0, <1>f, <1>k, <1>3 DEF FailsToComplete, TypeOK, OneEffectPerKey, HandlersFresh
  <2>4. EffectRows'
    BY <1>0, <1>f, <1>3 DEF FailsToComplete, TypeOK, EffectRows, HandlersFresh, Rows
  <2>5. HandlersFresh'
    BY <1>0, <1>f, <1>k, <1>3 DEF FailsToComplete, TypeOK, Sole, EffectRows, HandlersFresh
  <2>6. CompletionsApplied'
    BY <1>0, <1>f, <1>k, <1>3 DEF FailsToComplete, TypeOK, Sole, CompletionsApplied
  <2>7. Emitting'
    BY <1>0, <1>f, <1>k, <1>3 DEF FailsToComplete, TypeOK, Emitting, SameRequest, Rows
  <2>8. OutputsReady'
    BY <1>0, <1>f, <1>3 DEF FailsToComplete, OutputsReady
  <2> QED
    BY <2>1, <2>2, <2>3, <2>4, <2>5, <2>6, <2>7, <2>8
<1>4. CASE Completes(c)
  <2>1. Owners'
    BY <1>0, <1>f, <1>k, <1>4 DEF Completes, Put, TypeOK, Owners, Sole, Rows
  <2>2. Sole'
    BY <1>0, <1>f, <1>k, <1>4 DEF Completes, Owners, Sole
  <2>3. OneEffectPerKey'
    BY <1>0, <1>f, <1>k, <1>4 DEF Completes, TypeOK, OneEffectPerKey, HandlersFresh
  <2>4. EffectRows'
    BY <1>0, <1>f, <1>4 DEF Completes, Put, TypeOK, EffectRows, HandlersFresh, Rows
  <2>5. HandlersFresh'
    BY <1>0, <1>f, <1>k, <1>4 DEF Completes, Put, TypeOK, Sole, EffectRows, HandlersFresh
  <2>6. CompletionsApplied'
    BY <1>0, <1>f, <1>k, <1>4 DEF Completes, Put, TypeOK, Sole, CompletionsApplied
  <2>7. Emitting'
    BY <1>0, <1>f, <1>k, <1>4 DEF Completes, Put, TypeOK, Emitting, SameRequest, Rows
  <2>8. OutputsReady'
    BY <1>0, <1>f, <1>4 DEF Completes, OutputsReady
  <2> QED
    BY <2>1, <2>2, <2>3, <2>4, <2>5, <2>6, <2>7, <2>8
<1>5. CASE Releases(c)
  <2>1. Owners'
    BY <1>0, <1>f, <1>k, <1>5 DEF Releases, Put, Absent, TypeOK, Owners, Sole, Rows
  <2>2. Sole'
    BY <1>0, <1>f, <1>k, <1>5 DEF Releases, Owners, Sole
  <2>3. OneEffectPerKey'
    BY <1>0, <1>f, <1>k, <1>5 DEF Releases, TypeOK, OneEffectPerKey, HandlersFresh
  <2>4. EffectRows'
    BY <1>0, <1>f, <1>5 DEF Releases, Put, Absent, TypeOK, EffectRows, HandlersFresh, Rows
  <2>5. HandlersFresh'
    BY <1>0, <1>f, <1>k, <1>5 DEF Releases, Put, Absent, TypeOK, Sole, EffectRows, HandlersFresh
  <2>6. CompletionsApplied'
    BY <1>0, <1>f, <1>k, <1>5 DEF Releases, Put, Absent, TypeOK, Sole, CompletionsApplied
  <2>7. Emitting'
    BY SMTT(30), <1>0, <1>f, <1>k, <1>5 DEF Releases, Put, Absent, TypeOK, Emitting, SameRequest, Rows
  <2>8. OutputsReady'
    BY <1>0, <1>f, <1>5 DEF Releases, OutputsReady
  <2> QED
    BY <2>1, <2>2, <2>3, <2>4, <2>5, <2>6, <2>7, <2>8
<1>6. CASE Doubts(c)
  <2>1. Owners'
    BY <1>0, <1>f, <1>k, <1>6 DEF Doubts, Doubt, Put, TypeOK, Owners, Sole, Rows
  <2>2. Sole'
    BY <1>0, <1>f, <1>k, <1>6 DEF Doubts, Owners, Sole
  <2>3. OneEffectPerKey'
    BY <1>0, <1>f, <1>k, <1>6 DEF Doubts, TypeOK, OneEffectPerKey, HandlersFresh
  <2>4. EffectRows'
    BY <1>0, <1>f, <1>6 DEF Doubts, Doubt, Put, TypeOK, EffectRows, HandlersFresh, Rows
  <2>5. HandlersFresh'
    BY <1>0, <1>f, <1>k, <1>6 DEF Doubts, Doubt, Put, TypeOK, Sole, EffectRows, HandlersFresh
  <2>6. CompletionsApplied'
    BY <1>0, <1>f, <1>k, <1>6 DEF Doubts, Doubt, Put, TypeOK, Sole, CompletionsApplied
  <2>7. Emitting'
    BY <1>0, <1>f, <1>k, <1>6 DEF Doubts, Doubt, Put, TypeOK, Emitting, SameRequest, Rows
  <2>8. OutputsReady'
    BY <1>0, <1>f, <1>6 DEF Doubts, OutputsReady
  <2> QED
    BY <2>1, <2>2, <2>3, <2>4, <2>5, <2>6, <2>7, <2>8
<1>7. CASE Marks(c)
  <2>1. Owners'
    BY <1>0, <1>f, <1>k, <1>7 DEF Marks, Put, TypeOK, Owners, Sole, Rows
  <2>2. Sole'
    BY <1>0, <1>f, <1>k, <1>7 DEF Marks, Owners, Sole
  <2>3. OneEffectPerKey'
    BY <1>0, <1>f, <1>k, <1>7 DEF Marks, TypeOK, OneEffectPerKey, HandlersFresh
  <2>4. EffectRows'
    BY <1>0, <1>f, <1>7 DEF Marks, Put, TypeOK, EffectRows, HandlersFresh, Rows
  <2>5. HandlersFresh'
    BY <1>0, <1>f, <1>k, <1>7 DEF Marks, Put, TypeOK, Sole, EffectRows, HandlersFresh
  <2>6. CompletionsApplied'
    BY <1>0, <1>f, <1>k, <1>7 DEF Marks, Put, TypeOK, Sole, CompletionsApplied
  <2>7. Emitting'
    BY <1>0, <1>f, <1>k, <1>7 DEF Marks, Put, TypeOK, Emitting, SameRequest, Rows
  <2>8. OutputsReady'
    BY <1>0, <1>f, <1>7 DEF Marks, OutputsReady
  <2> QED
    BY <2>1, <2>2, <2>3, <2>4, <2>5, <2>6, <2>7, <2>8
<1>8. CASE Quiet(c)
  <2>1. Owners'
    BY <1>0, <1>f, <1>k, <1>8 DEF Quiet, TypeOK, Owners, Sole, Rows
  <2>2. Sole'
    BY <1>0, <1>f, <1>k, <1>8 DEF Quiet, Owners, Sole
  <2>3. OneEffectPerKey'
    BY <1>0, <1>f, <1>k, <1>8 DEF Quiet, TypeOK, OneEffectPerKey, HandlersFresh
  <2>4. EffectRows'
    BY <1>0, <1>f, <1>8 DEF Quiet, TypeOK, EffectRows, HandlersFresh, Rows
  <2>5. HandlersFresh'
    BY <1>0, <1>f, <1>k, <1>8 DEF Quiet, TypeOK, Sole, EffectRows, HandlersFresh
  <2>6. CompletionsApplied'
    BY <1>0, <1>f, <1>k, <1>8 DEF Quiet, TypeOK, Sole, CompletionsApplied
  <2>7. Emitting'
    BY <1>0, <1>f, <1>k, <1>8 DEF Quiet, TypeOK, Emitting, SameRequest, Rows
  <2>8. OutputsReady'
    BY <1>0, <1>f, <1>8 DEF Quiet, OutputsReady
  <2> QED
    BY <2>1, <2>2, <2>3, <2>4, <2>5, <2>6, <2>7, <2>8
<1> QED
  BY <1>1, <1>2, <1>3, <1>4, <1>5, <1>6, <1>7, <1>8, Summary

(* What callers were told is added to at the end of a call only.            *)
LEMMA AnswerSummary ==
  ASSUME NEW c \in Callers, Step(c) \/ Crash(c)
  PROVE  \/ UNCHANGED answers
         \/ call[c].pc = "return" /\ Answer(c, "succeeded")
         \/ \E outcome \in {"failed", "denied"} : Answer(c, outcome)
  BY DEF Step, Authorize, Claim, ClaimThrows, HandlerReturns, HandlerThrows,
         HandlerProvesNoEffect, Complete, CompleteThrows, Release, ReleaseThrows,
         MarkAmbiguous, MarkAmbiguousThrows, EmitEvent, EmitMeter, EmitAudit,
         MarkArtifactsEmitted, EmitThrows, Return, FileFailure, FileFailureThrows, Crash

(* A settled row keeps its request and its output.                          *)
LEMMA SettledStep ==
  ASSUME TypeOK, NEW c \in Callers, Step(c) \/ Crash(c), NEW k \in Keys,
         ledger[k].state \in {"completed", "ambiguous"}
  PROVE  ledger'[k] \in {ledger[k], [ledger[k] EXCEPT !.emitted = TRUE]}
<1>1. CASE k # call[c].key
  BY <1>1, Summary
<1>2. CASE k = call[c].key
  BY <1>2, Summary DEF Acquires, Runs, FailsToComplete, Completes, Releases, Doubts, Marks,
                       Quiet, Put, Row, TypeOK
<1> QED
  BY <1>1, <1>2

(* What callers were told keeps agreeing with the ledger.                   *)
LEMMA AnswerStep ==
  ASSUME IInv, NEW c \in Callers, Step(c) \/ Crash(c)
  PROVE  SuccessIsTheLedgers'
<1>0. TypeOK /\ TypeOK'
  BY TypeStep DEF IInv, Next
<1>1. SUFFICES ASSUME NEW a \in answers', a.outcome = "succeeded"
               PROVE  /\ ledger'[a.key].state = "completed"
                      /\ ledger'[a.key].input = a.input
                      /\ ledger'[a.key].output = a.output
  BY DEF SuccessIsTheLedgers
<1>2. /\ a.key \in Keys /\ ledger[a.key].state = "completed"
      /\ ledger[a.key].input = a.input /\ ledger[a.key].output = a.output
  <2>1. CASE a \in answers
    BY <1>0, <1>1, <2>1 DEF IInv, SuccessIsTheLedgers, TypeOK, Answers
  <2>2. CASE a \notin answers
    <3>1. call[c].pc = "return" /\ Answer(c, "succeeded")
      BY <1>1, <2>2, AnswerSummary DEF Answer
    <3>2. a.key = call[c].key /\ a.input = call[c].input /\ a.output = call[c].output
      BY <2>2, <3>1 DEF Answer
    <3> QED
      BY <1>0, <3>1, <3>2, Local DEF IInv, Emitting, EmitPcs, Row, SameRequest
  <2> QED
    BY <2>1, <2>2
<1>3. ledger'[a.key] \in {ledger[a.key], [ledger[a.key] EXCEPT !.emitted = TRUE]}
  BY <1>0, <1>2, SettledStep
<1> QED
  BY <1>0, <1>2, <1>3 DEF TypeOK, Rows

(* Every step keeps the invariant.                                          *)
LEMMA IStep == IInv /\ [Next]_vars => IInv'
<1> SUFFICES ASSUME IInv, [Next]_vars PROVE IInv'
  OBVIOUS
<1> USE DEF IInv
<1>0. TypeOK'
  BY TypeStep
<1>1. CASE UNCHANGED <<ledger, call, effects, answers>>
  <2>1. Owners'
    BY <1>1 DEF Owners, Row, Token
  <2>2. Sole'
    BY <1>1 DEF Sole
  <2>3. OneEffectPerKey'
    BY <1>1 DEF OneEffectPerKey
  <2>4. SuccessIsTheLedgers'
    BY <1>1 DEF SuccessIsTheLedgers
  <2>5. EffectRows'
    BY <1>1 DEF EffectRows
  <2>6. HandlersFresh'
    BY <1>1 DEF HandlersFresh
  <2>7. CompletionsApplied'
    BY <1>1 DEF CompletionsApplied
  <2>8. Emitting'
    BY <1>1 DEF Emitting, Row, SameRequest
  <2>9. OutputsReady'
    BY <1>1 DEF OutputsReady
  <2> QED
    BY <1>0, <2>1, <2>2, <2>3, <2>4, <2>5, <2>6, <2>7, <2>8, <2>9
<1>2. UNCHANGED vars \/ Tick => UNCHANGED <<ledger, call, effects, answers>>
  BY DEF vars, Tick
<1>3. ASSUME NEW c \in Callers, NEW k \in Keys, NEW in \in Inputs, Start(c, k, in) PROVE IInv'
  <2>0. /\ call'[c].pc = "request" /\ call[c].pc = "idle"
        /\ \A d \in Callers : d # c => call'[d] = call[d]
        /\ UNCHANGED <<ledger, effects, answers>>
    BY <1>3 DEF Start, Set, TypeOK
  <2>1. Owners'
    BY <2>0 DEF OwnerPcs, Owners, Row, Token
  <2>2. Sole'
    BY <2>0 DEF OwnerPcs, Sole
  <2>3. OneEffectPerKey'
    BY <2>0 DEF OneEffectPerKey
  <2>4. SuccessIsTheLedgers'
    BY <2>0 DEF SuccessIsTheLedgers
  <2>5. EffectRows'
    BY <2>0 DEF EffectRows
  <2>6. HandlersFresh'
    BY <2>0 DEF HandlersFresh
  <2>7. CompletionsApplied'
    BY <2>0 DEF CompletionsApplied
  <2>8. Emitting'
    BY <2>0 DEF EmitPcs, Emitting, Row, SameRequest
  <2>9. OutputsReady'
    BY <2>0 DEF OutputsReady
  <2> QED
    BY <1>0, <2>1, <2>2, <2>3, <2>4, <2>5, <2>6, <2>7, <2>8, <2>9
<1>4. ASSUME NEW c \in Callers, Step(c) \/ Crash(c) PROVE IInv'
  BY <1>0, <1>4, ClaimStep, AnswerStep
<1> QED
  BY <1>1, <1>2, <1>3, <1>4 DEF Next

(* One business effect per idempotency key, whatever expires, fails or      *)
(* crashes in between.                                                      *)
THEOREM OneEffect == Spec => []OneEffectPerKey
<1>1. IInv => OneEffectPerKey
  BY DEF IInv
<1> QED
  BY IInit, IStep, <1>1, PTL DEF Spec

(* All callers of a key are told the same success.                          *)
THEOREM SameSuccess == Spec => []SuccessIsTheLedgers
<1>1. IInv => SuccessIsTheLedgers
  BY DEF IInv
<1> QED
  BY IInit, IStep, <1>1, PTL DEF Spec

(* No later claim, late owner or recovery reopens a settled row.            *)
THEOREM Settled == Spec => SettledStaysSettled
<1>1. TypeOK /\ [Next]_vars =>
        [\A k \in Keys : ledger[k].state \in {"completed", "ambiguous"} =>
           ledger'[k] \in {ledger[k], [ledger[k] EXCEPT !.emitted = TRUE]}]_vars
  <2> SUFFICES ASSUME TypeOK, Next, NEW k \in Keys, ledger[k].state \in {"completed", "ambiguous"}
               PROVE  ledger'[k] \in {ledger[k], [ledger[k] EXCEPT !.emitted = TRUE]}
    BY DEF vars
  <2>1. CASE Tick
    BY <2>1 DEF Tick
  <2>2. ASSUME NEW c \in Callers, NEW k1 \in Keys, NEW in \in Inputs, Start(c, k1, in)
        PROVE  UNCHANGED ledger
    BY <2>2 DEF Start
  <2>3. ASSUME NEW c \in Callers, Step(c) \/ Crash(c)
        PROVE  ledger'[k] \in {ledger[k], [ledger[k] EXCEPT !.emitted = TRUE]}
    BY <2>3, SettledStep
  <2> QED
    BY <2>1, <2>2, <2>3 DEF Next
<1> QED
  BY TypeCorrect, <1>1, PTL DEF Spec, SettledStaysSettled

-----------------------------------------------------------------------------
(* Refusals.  A token is in use once: an effect or an answer that carries   *)
(* it is of this call or of an earlier one, and an answered call is over.   *)
(* A call that can still be refused has not changed the business state.     *)

Issued ==
  /\ \A k \in Keys : \A t \in effects[k] : t[2] <= call[t[1]].n
  /\ \A a \in answers : /\ a.call[2] <= call[a.call[1]].n
                        /\ a.call = Token(a.call[1]) => call[a.call[1]].pc = "idle"

\* A call the bus itself may refuse, and one its handler refused.
Refusable(r) ==
  r.pc \in {"request", "claim"} \/ (r.pc = "fail" /\ r.code \in Refused \ {"handler_refused"})

Disowned(r) == r.pc \in {"markAmbiguous", "fail"} /\ r.code = "handler_refused"

NotActed == \A c \in Callers : Refusable(call[c]) => Token(c) \notin effects[call[c].key]

DoubtCode ==
  \A c \in Callers : call[c].pc = "markAmbiguous" =>
    call[c].code \in {"idempotency_ambiguous", "invalid_input", "handler_refused"}

\* The row of an effect that its own handler refused: still that call's claim,
\* which nobody else can settle or release, or ambiguous for good.
Doubtful(row, t) == row.state = "ambiguous" \/ (row.state = "pending" /\ row.owner = t)

EffectDoubtful ==
  /\ \A c \in Callers : Disowned(call[c]) /\ Token(c) \in effects[call[c].key]
                          => Doubtful(Row(c), Token(c))
  /\ \A a \in answers : a.outcome = "denied" /\ a.call \in effects[a.key]
                         => a.by = "handler" /\ Doubtful(ledger[a.key], a.call)

DInv == IInv /\ Issued /\ NotActed /\ DoubtCode /\ EffectDoubtful

(* How a step of a call leaves its pc and its code, and what it answers:    *)
(* only a call that has had no handler run, or that releases its claim, is  *)
(* refused by the bus, and only one whose handler refused it otherwise.     *)
LEMMA Refusals ==
  ASSUME TypeOK, NEW c \in Callers, Step(c) \/ Crash(c)
  PROVE  /\ call'[c].pc = "markAmbiguous" =>
              call'[c].code \in {"idempotency_ambiguous", "invalid_input", "handler_refused"}
         /\ call'[c].pc # "request"
         /\ call'[c].pc = "claim" => call[c].pc = "request"
         /\ Refusable(call'[c]) =>
              \/ call[c].pc \in {"request", "claim", "release"}
              \/ call[c].pc = "markAmbiguous" /\ call'[c].code = call[c].code
         /\ Disowned(call'[c]) =>
              \/ call[c].pc \in {"handle", "release"}
              \/ call[c].pc = "markAmbiguous" /\ call'[c].code = call[c].code
         /\ \/ UNCHANGED answers
            \/ /\ call'[c].pc = "idle" /\ UNCHANGED effects
               /\ \E outcome \in {"succeeded", "failed", "denied"} :
                    /\ Answer(c, outcome)
                    /\ outcome = "denied" => Refusable(call[c]) \/ Disowned(call[c])
<1> USE DEF Refusable, Disowned
<1>a. call[c] \in Calls
  BY Local
<1>b. ASSUME NEW pc, NEW code, GotoWith(c, pc, code)
      PROVE  call'[c].pc = pc /\ call'[c].code = code
  <2>1. call'[c] = [call[c] EXCEPT !.pc = pc, !.code = code]
    BY <1>b DEF GotoWith, Set, TypeOK
  <2> QED
    BY <1>a, <2>1 DEF Calls
<1>d. ASSUME NEW pc, Goto(c, pc)
      PROVE  call'[c].pc = pc /\ call'[c].code = call[c].code
  <2>1. call'[c] = [call[c] EXCEPT !.pc = pc]
    BY <1>d DEF Goto, Set, TypeOK
  <2> QED
    BY <1>a, <2>1 DEF Calls
<1>1. CASE Authorize(c)
  <2>1. CASE Goto(c, "claim")
    BY <1>1, <2>1, <1>d DEF Authorize
  <2>2. CASE \E code \in {"authorization_denied", "invalid_input"} : Fail(c, code)
    <3>1. PICK code \in {"authorization_denied", "invalid_input"} : GotoWith(c, "fail", code)
      BY <2>2 DEF Fail
    <3> QED
      BY <1>1, <3>1, <1>b DEF Authorize
  <2> QED
    BY <1>1, <2>1, <2>2 DEF Authorize
<1>2. CASE Claim(c)
  <2>0. call[c].pc = "claim" /\ UNCHANGED answers
    BY <1>2 DEF Claim
  <2>1. CASE ClaimFree(c)
    BY <2>0, <2>1, <1>d DEF ClaimFree
  <2>2. CASE ClaimConflict(c) \/ ClaimAmbiguous(c) \/ ClaimPending(c) \/ ClaimExpired(c)
    BY <2>0, <2>2, <1>b DEF ClaimConflict, ClaimAmbiguous, ClaimPending, ClaimExpired, Fail
  <2>3. CASE ClaimReplay(c)
    BY <2>0, <2>3, <1>a DEF ClaimReplay, ReplayFrom, Set, Calls, TypeOK
  <2> QED
    BY <1>2, <2>1, <2>2, <2>3 DEF Claim
<1>3. CASE ClaimThrows(c) \/ ReleaseThrows(c) \/ MarkAmbiguousThrows(c)
  BY <1>3, <1>b DEF ClaimThrows, ReleaseThrows, MarkAmbiguousThrows, Fail
<1>4. CASE EmitThrows(c)
  BY <1>4, <1>b DEF EmitThrows, Fail, Refused
<1>5. ASSUME NEW out \in Outputs, HandlerReturns(c, out)
      PROVE  call'[c].pc = "complete" /\ UNCHANGED answers
  BY <1>5, <1>a DEF HandlerReturns, Set, Calls, TypeOK
<1>6. CASE HandlerThrows(c) \/ CompleteThrows(c)
  <2>1. \/ call[c].pc = "handle"
           /\ \E own \in {"none", "handler_refused", "invalid_input"} : AfterFailure(c, own)
        \/ call[c].pc = "complete" /\ AfterFailure(c, "none")
    BY <1>6 DEF HandlerThrows, CompleteThrows
  <2>2. UNCHANGED answers
    BY <1>6 DEF HandlerThrows, CompleteThrows
  <2> QED
    BY <2>1, <2>2, <1>b DEF AfterFailure
<1>7. CASE HandlerProvesNoEffect(c)
  BY <1>7, <1>b DEF HandlerProvesNoEffect
<1>8. CASE Complete(c)
  BY <1>8, <1>b, <1>d DEF Complete, AfterFailure
<1>9. CASE Release(c) \/ MarkAmbiguous(c)
  BY <1>9, <1>b DEF Release, MarkAmbiguous, Fail
<1>10. CASE EmitEvent(c) \/ EmitMeter(c) \/ EmitAudit(c)
  <2>1. PICK pc \in {"meter", "audit", "mark"} : Goto(c, pc)
    BY <1>10 DEF EmitEvent, EmitMeter, EmitAudit
  <2> QED
    BY <1>10, <2>1, <1>d DEF EmitEvent, EmitMeter, EmitAudit
<1>11. CASE MarkArtifactsEmitted(c)
  BY <1>11, <1>b, <1>d DEF MarkArtifactsEmitted, Fail, Refused
<1>12. CASE Return(c) \/ FileFailure(c) \/ FileFailureThrows(c) \/ Crash(c)
  BY <1>12, <1>a DEF Return, FileFailure, FileFailureThrows, Crash, Set, Idle, Calls, TypeOK
<1> QED
  BY <1>1, <1>2, <1>3, <1>4, <1>5, <1>6, <1>7, <1>8, <1>9, <1>10, <1>11, <1>12 DEF Step

(* Every step of a call keeps the refusals true.                            *)
LEMMA DeniedCallStep ==
  ASSUME DInv, IInv', NEW c \in Callers, Step(c) \/ Crash(c)
  PROVE  Issued' /\ NotActed' /\ DoubtCode' /\ EffectDoubtful'
<1>0. TypeOK /\ TypeOK' /\ call[c].pc # "idle" /\ call[c].key \in Keys /\ Token(c) \in Tokens
  BY Local, Summary DEF DInv, IInv
<1>1. /\ \A d \in Callers : d # c => call'[d] = call[d]
      /\ call'[c].n = call[c].n
      /\ call'[c].pc # "idle" => call'[c].key = call[c].key
  BY <1>0, Summary
<1>2. \A d \in Callers : Token(d)' = Token(d) /\ call'[d].n = call[d].n
  BY <1>1 DEF Token
<1>3. UNCHANGED effects \/ (call[c].pc = "handle" /\ Affect(c))
  BY <1>0, Summary DEF Acquires, Runs, FailsToComplete, Completes, Releases, Doubts, Marks, Quiet
<1>4. \A k \in Keys : \A t \in effects'[k] : t \in effects[k] \/ (t = Token(c) /\ k = call[c].key)
  BY <1>0, <1>3 DEF Affect, TypeOK
<1>5. \A k \in Keys : \A t \in effects[k] : t \in Tokens
  BY <1>0 DEF TypeOK
<1>6. \A a \in answers : a.call \in Tokens /\ a.key \in Keys /\ a.call # Token(c)
  BY <1>0 DEF TypeOK, Answers, DInv, Issued, Token
<1>7. \A a \in answers' : a \in answers \/ /\ a.call = Token(c) /\ a.key = call[c].key
                                           /\ call'[c].pc = "idle" /\ UNCHANGED effects
                                           /\ a.by = IF call[c].code = "handler_refused"
                                                     THEN "handler" ELSE "bus"
                                           /\ a.outcome = "denied" =>
                                                Refusable(call[c]) \/ Disowned(call[c])
  BY <1>0, Refusals DEF Answer
<1>8. Issued'
  <2>1. Token(c)[1] = c /\ Token(c)[2] = call[c].n /\ call[c].n \in Nat
    BY <1>0, Local DEF Token, Calls
  <2>2. ASSUME NEW k \in Keys, NEW t \in effects'[k] PROVE t[2] <= call'[t[1]].n
    <3>1. CASE t \in effects[k]
      BY <3>1, <1>2, <1>5 DEF DInv, Issued, Tokens
    <3>2. CASE t = Token(c)
      BY <2>1, <3>2, <1>2
    <3> QED
      BY <3>1, <3>2, <1>4
  <2>3. ASSUME NEW a \in answers'
        PROVE  /\ a.call[2] <= call'[a.call[1]].n
               /\ a.call = <<a.call[1], call'[a.call[1]].n>> => call'[a.call[1]].pc = "idle"
    <3>1. CASE a \in answers
      <4>1. a.call[1] \in Callers /\ a.call = <<a.call[1], a.call[2]>> /\ a.call # Token(c)
        BY <3>1, <1>6 DEF Tokens
      <4>2. /\ a.call[2] <= call[a.call[1]].n
            /\ a.call = <<a.call[1], call[a.call[1]].n>> => call[a.call[1]].pc = "idle"
        BY <3>1 DEF DInv, Issued, Token
      <4>3. call'[a.call[1]].n = call[a.call[1]].n
        BY <1>2, <4>1
      <4>4. CASE a.call[1] = c
        BY <4>1, <4>2, <4>3, <4>4, <2>1, <1>0
      <4>5. CASE a.call[1] # c
        BY <4>1, <4>2, <4>3, <4>5, <1>1
      <4> QED
        BY <4>4, <4>5
    <3>2. CASE a \notin answers
      BY <3>2, <1>7, <2>1, <1>2
    <3> QED
      BY <3>1, <3>2
  <2> QED
    BY <2>2, <2>3 DEF Issued, Token
<1>9. DoubtCode'
  BY <1>0, <1>1, Refusals DEF DInv, DoubtCode
<1>10. NotActed'
  <2> SUFFICES ASSUME NEW d \in Callers, Refusable(call'[d])
               PROVE  Token(d)' \notin effects'[call'[d].key]
    BY DEF NotActed
  <2>1. CASE d # c
    <3>1. Refusable(call[d]) /\ call'[d].key = call[d].key /\ call[d].key \in Keys
      BY <2>1, <1>0, <1>1, Local DEF Refusable
    <3>2. Token(d) \notin effects[call[d].key] /\ Token(d) # Token(c)
      BY <2>1, <3>1 DEF DInv, NotActed, Token
    <3> QED
      BY <3>1, <3>2, <1>2, <1>4
  <2>2. CASE d = c
    <3>1. call'[c].key = call[c].key
      BY <2>2, <1>1 DEF Refusable
    <3>2. /\ \/ call[c].pc \in {"request", "claim", "release"}
             \/ call[c].pc = "markAmbiguous" /\ call'[c].code = call[c].code
          /\ Refusable(call'[c])
      BY <2>2, <1>0, Refusals
    <3>3. call[c].pc # "markAmbiguous"
      <4>1. SUFFICES ASSUME call[c].pc = "markAmbiguous" PROVE FALSE
        OBVIOUS
      <4>2. call[c].code \in {"idempotency_ambiguous", "invalid_input", "handler_refused"}
        BY <4>1 DEF DInv, DoubtCode
      <4>3. call'[c].pc \notin {"request", "claim"}
        BY <1>0, <4>1, Refusals
      <4> QED
        BY <3>2, <4>1, <4>2, <4>3 DEF Refusable, Refused
    <3>4. UNCHANGED effects
      BY <1>3, <3>2
    <3>5. Token(c) \notin effects[call[c].key]
      BY <3>2, <3>3 DEF DInv, NotActed, Refusable, IInv, HandlersFresh
    <3> QED
      BY <2>2, <3>1, <3>4, <3>5, <1>2
  <2> QED
    BY <2>1, <2>2
<1>11. ASSUME NEW k \in Keys, NEW t \in Tokens, Doubtful(ledger[k], t),
              t # Token(c) \/ call[c].pc \notin {"complete", "release"}
       PROVE  Doubtful(ledger'[k], t)
  <2>1. CASE ledger'[k] = ledger[k]
    BY <1>11, <2>1
  <2>2. CASE ledger'[k] # ledger[k]
    <3>1. k = call[c].key /\ Row(c) = ledger[k]
      BY <1>0, <2>2, Summary DEF Row
    <3>2. Row(c).state \in {"pending", "ambiguous"}
      BY <1>11, <3>1 DEF Doubtful
    <3>3. ~Acquires(c) /\ ~Completes(c) /\ ~Releases(c) /\ ~Marks(c)
      <4>1. call[c].pc \in OwnerPcs /\ Row(c).state = "pending" => Row(c).owner = Token(c)
        BY DEF DInv, IInv, Owners
      <4> QED
        BY <1>11, <3>1, <3>2, <4>1
           DEF Acquires, Completes, Releases, Marks, Doubtful, OwnerPcs
    <3>4. Doubts(c)
      BY <1>0, <2>2, <3>3, Summary DEF Runs, FailsToComplete, Quiet
    <3> QED
      BY <1>0, <3>1, <3>4 DEF Doubts, Doubt, Put, Doubtful, TypeOK, Rows
  <2> QED
    BY <2>1, <2>2
<1>12. ASSUME NEW d \in Callers, Disowned(call'[d]), Token(d)' \in effects'[call'[d].key]
       PROVE  Doubtful(ledger'[call'[d].key], Token(d)')
  <2>1. Token(d)' = Token(d) /\ call'[d].key = call[d].key /\ call[d].key \in Keys
    BY <1>0, <1>1, <1>2, <1>12, Local DEF Disowned
  <2>2. CASE d # c
    <3>1. Token(d) \in Tokens /\ Token(d) # Token(c)
      BY <1>0, <2>2, Local DEF Token, Tokens, Calls
    <3>2. Token(d) \in effects[call[d].key]
      BY <1>4, <1>12, <2>1, <3>1
    <3>3. Doubtful(ledger[call[d].key], Token(d))
      BY <1>1, <1>12, <2>2, <3>2 DEF DInv, EffectDoubtful, Row
    <3> QED
      BY <1>11, <2>1, <3>1, <3>3
  <2>3. CASE d = c
    <3>1. call[c].pc \in {"handle", "release", "markAmbiguous"}
      BY <1>0, <1>12, <2>3, Refusals
    <3>2. CASE call[c].pc = "handle"
      <4>1. Doubtful(Row(c), Token(c))
        BY <1>0, <3>2 DEF DInv, IInv, Owners, OwnerPcs, Doubtful
      <4> QED
        BY <1>0, <1>11, <2>1, <2>3, <3>2, <4>1 DEF Row
    <3>3. CASE call[c].pc = "markAmbiguous"
      <4>1. Disowned(call[c]) /\ UNCHANGED effects
        BY <1>0, <1>3, <1>12, <2>3, <3>3, Refusals DEF Disowned
      <4>2. Doubtful(Row(c), Token(c))
        BY <1>12, <2>1, <2>3, <4>1 DEF DInv, EffectDoubtful
      <4> QED
        BY <1>0, <1>11, <2>1, <2>3, <3>3, <4>2 DEF Row
    <3>4. CASE call[c].pc = "release"
      <4>1. effects'[call[c].key] = {}
        BY <1>3, <3>4 DEF DInv, IInv, HandlersFresh
      <4> QED
        BY <1>12, <2>1, <2>3, <4>1
    <3> QED
      BY <3>1, <3>2, <3>3, <3>4
  <2> QED
    BY <2>2, <2>3
<1>13. ASSUME NEW a \in answers', a.outcome = "denied", a.call \in effects'[a.key]
       PROVE  a.by = "handler" /\ Doubtful(ledger'[a.key], a.call)
  <2>1. CASE a \in answers
    <3>1. a.call \in effects[a.key] /\ a.key \in Keys /\ a.call \in Tokens /\ a.call # Token(c)
      BY <1>4, <1>6, <1>13, <2>1
    <3>2. a.by = "handler" /\ Doubtful(ledger[a.key], a.call)
      BY <1>13, <2>1, <3>1 DEF DInv, EffectDoubtful
    <3> QED
      BY <1>11, <3>1, <3>2
  <2>2. CASE a \notin answers
    <3>1. /\ a.call = Token(c) /\ a.key = call[c].key /\ UNCHANGED effects
          /\ Token(c) \in effects[call[c].key]
      BY <1>7, <1>13, <2>2
    <3>2. Disowned(call[c])
      BY <1>7, <1>13, <2>2, <3>1 DEF DInv, NotActed
    <3>3. Doubtful(Row(c), Token(c))
      BY <3>1, <3>2 DEF DInv, EffectDoubtful
    <3>4. a.by = "handler"
      BY <1>7, <2>2, <3>2 DEF Disowned
    <3> QED
      BY <1>0, <1>11, <3>1, <3>2, <3>3, <3>4 DEF Disowned, Row
  <2> QED
    BY <2>1, <2>2
<1>14. EffectDoubtful'
  BY <1>12, <1>13 DEF EffectDoubtful, Row
<1> QED
  BY <1>8, <1>9, <1>10, <1>14

(* Every step keeps the refusals true.                                      *)
LEMMA DeniedStep == DInv /\ [Next]_vars => DInv'
<1> SUFFICES ASSUME DInv, [Next]_vars PROVE DInv'
  OBVIOUS
<1>0. IInv' /\ TypeOK /\ IInv
  BY IStep DEF DInv, IInv
<1>1. CASE UNCHANGED vars \/ Tick
  <2>1. UNCHANGED <<ledger, call, effects, answers>>
    BY <1>1 DEF vars, Tick
  <2> QED
    BY <1>0, <2>1 DEF DInv, Issued, NotActed, DoubtCode, EffectDoubtful, Token, Row
<1>2. ASSUME NEW c \in Callers, NEW k \in Keys, NEW in \in Inputs, Start(c, k, in) PROVE DInv'
  <2>1. /\ UNCHANGED <<ledger, effects, answers>> /\ call[c].pc = "idle"
        /\ call'[c].pc = "request" /\ call'[c].n = call[c].n + 1 /\ call'[c].key = k
        /\ \A d \in Callers : d # c => call'[d] = call[d]
    BY <1>0, <1>2 DEF Start, Set, TypeOK
  <2>2. \A d \in Callers : call[d].n \in Nat /\ (d # c => Token(d)' = Token(d))
    BY <1>0, <2>1, Local DEF Token, Calls
  <2>3. \A l \in Keys : \A t \in effects[l] : t \in Tokens /\ t # Token(c)'
    BY <1>0, <2>1, <2>2 DEF TypeOK, Tokens, Token, DInv, Issued
  <2>4. \A a \in answers : a.call \in Tokens /\ a.call # Token(c)'
    BY <1>0, <2>1, <2>2 DEF TypeOK, Answers, Tokens, Token, DInv, Issued
  <2>5. Issued'
    <3>1. \A t \in Tokens : t[1] \in Callers /\ t[2] \in Nat /\ t = <<t[1], t[2]>>
      BY DEF Tokens
    <3>2. \A d \in Callers : call[d].n <= call'[d].n
      BY <2>1, <2>2
    <3>3. \A d \in Callers : call'[d].n \in Nat
      BY <2>1, <2>2
    <3>4. ASSUME NEW l \in Keys, NEW t \in effects'[l] PROVE t[2] <= call'[t[1]].n
      BY <2>1, <2>2, <2>3, <3>1, <3>2, <3>3 DEF DInv, Issued
    <3>5. ASSUME NEW a \in answers'
          PROVE  /\ a.call[2] <= call'[a.call[1]].n
                 /\ a.call = <<a.call[1], call'[a.call[1]].n>> => call'[a.call[1]].pc = "idle"
      <4>1. /\ a.call[2] <= call[a.call[1]].n
            /\ a.call = <<a.call[1], call[a.call[1]].n>> => call[a.call[1]].pc = "idle"
        BY <2>1 DEF DInv, Issued, Token
      <4>2. a.call \in Tokens /\ a.call # <<c, call'[c].n>>
        BY <2>1, <2>4 DEF Token
      <4> QED
        BY <2>1, <2>2, <3>1, <3>2, <3>3, <4>1, <4>2
    <3> QED
      BY <3>4, <3>5 DEF Issued, Token
  <2>6. NotActed'
    <3> SUFFICES ASSUME NEW d \in Callers, Refusable(call'[d])
                 PROVE  Token(d)' \notin effects'[call'[d].key]
      BY DEF NotActed
    <3>1. CASE d = c
      BY <2>1, <2>3, <3>1
    <3>2. CASE d # c
      BY <2>1, <2>2, <3>2 DEF DInv, NotActed
    <3> QED
      BY <3>1, <3>2
  <2>7. DoubtCode'
    BY <2>1 DEF DInv, DoubtCode
  <2>8. EffectDoubtful'
    <3>1. ASSUME NEW d \in Callers, Disowned(call'[d]), Token(d)' \in effects'[call'[d].key]
          PROVE  Doubtful(ledger'[call'[d].key], Token(d)')
      BY <2>1, <2>2, <3>1 DEF DInv, EffectDoubtful, Disowned, Row
    <3>2. \A a \in answers' : a.outcome = "denied" /\ a.call \in effects'[a.key]
                              => a.by = "handler" /\ Doubtful(ledger'[a.key], a.call)
      BY <2>1 DEF DInv, EffectDoubtful
    <3> QED
      BY <3>1, <3>2 DEF EffectDoubtful, Row
  <2> QED
    BY <1>0, <2>5, <2>6, <2>7, <2>8 DEF DInv
<1>3. ASSUME NEW c \in Callers, Step(c) \/ Crash(c) PROVE DInv'
  BY <1>0, <1>3, DeniedCallStep DEF DInv
<1> QED
  BY <1>1, <1>2, <1>3 DEF Next

(* No denial hides an effect, whichever operation of the ledger threw and   *)
(* whoever ran beside it: where a handler acted and then refused the call,  *)
(* its key stays in doubt.                                                  *)
THEOREM NoHiddenEffect == Spec => []DenialHidesNoEffect
<1>1. Init => DInv
  BY IInit DEF Init, DInv, Issued, NotActed, Refusable, Disowned, DoubtCode, EffectDoubtful, Idle
<1>2. DInv => DenialHidesNoEffect
  BY DEF DInv, EffectDoubtful, Doubtful, DenialHidesNoEffect
<1> QED
  BY <1>1, <1>2, DeniedStep, PTL DEF Spec

-----------------------------------------------------------------------------
(* Evidence.  A call that emits has written what its pc says it has, and a  *)
(* call that is about to return found or left its row marked as emitted.    *)

Staged ==
  \A c \in Callers :
    /\ call[c].pc \in {"meter", "audit", "mark"} => events[call[c].key] = 1
    /\ call[c].pc \in {"audit", "mark"} /\ call[c].key \in MeteredKeys => meters[call[c].key] = 1
    /\ call[c].pc = "mark" => successes[call[c].key] = 1
    /\ call[c].pc = "return" => ledger[call[c].key].emitted

EInv == IInv /\ Staged /\ EvidenceFollowsCompletion

(* What a step of call c does to the evidence, its row and the answers.     *)
Emits(c) ==
  /\ UNCHANGED <<ledger, answers>>
  /\ \/ /\ call[c].pc = "event" /\ call'[c].pc \in {"meter", "audit"}
        /\ call'[c].pc = "audit" => call[c].key \notin MeteredKeys
        /\ events' = Once(events, call[c].key) /\ UNCHANGED <<meters, successes>>
     \/ /\ call[c].pc = "meter" /\ call'[c].pc = "audit"
        /\ meters' = Once(meters, call[c].key) /\ UNCHANGED <<events, successes>>
     \/ /\ call[c].pc = "audit" /\ call'[c].pc = "mark"
        /\ successes' = Once(successes, call[c].key) /\ UNCHANGED <<events, meters>>

Rewrites(c) ==
  /\ UNCHANGED <<events, meters, successes, answers>> /\ call'[c].pc \notin EmitPcs \ {"event"}
  /\ Row(c).state # "completed"
  /\ ledger'[call[c].key].emitted => Row(c).emitted

Closes(c) ==
  /\ UNCHANGED <<events, meters, successes, answers>>
  /\ call[c].pc = "mark" /\ call'[c].pc = "return"
  /\ ledger'[call[c].key].state = "completed" /\ ledger'[call[c].key].emitted

Watches(c) ==
  /\ UNCHANGED <<ledger, events, meters, successes>>
  /\ call'[c].pc \notin {"meter", "audit", "mark"}
  /\ call'[c].pc = "return" => Row(c).emitted
  /\ \/ UNCHANGED answers
     \/ call[c].pc = "return" /\ Answer(c, "succeeded")
     \/ \E outcome \in {"failed", "denied"} : Answer(c, outcome)

(* Each sink is written by a call that holds its key's completed row, in    *)
(* the order of the code, and nothing else writes them.                     *)
LEMMA EvidenceSummary ==
  ASSUME TypeOK, NEW c \in Callers, Step(c) \/ Crash(c)
  PROVE  Emits(c) \/ Rewrites(c) \/ Closes(c) \/ Watches(c)
<1> USE DEF evidence, EmitPcs, Row
<1>a. call[c] \in Calls /\ call[c].key \in Keys /\ ledger[call[c].key] \in Rows
  BY Local, Summary
<1>b. ASSUME NEW pc, NEW code, GotoWith(c, pc, code)
      PROVE  call'[c].pc = pc
  <2>1. call'[c] = [call[c] EXCEPT !.pc = pc, !.code = code]
    BY <1>b DEF GotoWith, Set, TypeOK
  <2> QED
    BY <1>a, <2>1 DEF Calls
<1>d. ASSUME NEW pc, Goto(c, pc)
      PROVE  call'[c].pc = pc
  <2>1. call'[c] = [call[c] EXCEPT !.pc = pc]
    BY <1>d DEF Goto, Set, TypeOK
  <2> QED
    BY <1>a, <2>1 DEF Calls
<1>e. ASSUME NEW row, Put(c, row)
      PROVE  ledger'[call[c].key] = row
  BY <1>a, <1>e DEF Put, TypeOK
<1>1. CASE Authorize(c)
  <2>1. CASE Goto(c, "claim")
    BY <1>1, <2>1, <1>d DEF Authorize, Watches
  <2>2. CASE \E code \in {"authorization_denied", "invalid_input"} : Fail(c, code)
    <3>1. PICK code \in {"authorization_denied", "invalid_input"} : GotoWith(c, "fail", code)
      BY <2>2 DEF Fail
    <3> QED
      BY <1>1, <3>1, <1>b DEF Authorize, Watches
  <2> QED
    BY <1>1, <2>1, <2>2 DEF Authorize
<1>2. CASE Claim(c)
  <2>0. call[c].pc = "claim" /\ UNCHANGED <<events, meters, successes, answers>>
    BY <1>2 DEF Claim
  <2>1. CASE ClaimFree(c)
    <3>1. call'[c].pc = "handle" /\ ~ledger'[call[c].key].emitted /\ Row(c).state = "absent"
      BY <2>1, <1>d, <1>e DEF ClaimFree
    <3> QED
      BY <2>0, <3>1 DEF Rewrites
  <2>2. CASE ClaimConflict(c) \/ ClaimAmbiguous(c) \/ ClaimPending(c)
    BY <2>0, <2>2, <1>b DEF ClaimConflict, ClaimAmbiguous, ClaimPending, Fail, Watches
  <2>3. CASE ClaimReplay(c)
    BY <2>0, <2>3, <1>a DEF ClaimReplay, ReplayFrom, Set, Calls, TypeOK, Watches
  <2>4. CASE ClaimExpired(c)
    <3>1. call'[c].pc = "fail" /\ ledger'[call[c].key] = Doubt(Row(c)) /\ Row(c).state = "pending"
      BY <2>4, <1>b, <1>e DEF ClaimExpired, Fail
    <3> QED
      BY <2>0, <3>1, <1>a DEF Rewrites, Doubt, Rows
  <2> QED
    BY <1>2, <2>1, <2>2, <2>3, <2>4 DEF Claim
<1>3. CASE ClaimThrows(c) \/ ReleaseThrows(c) \/ MarkAmbiguousThrows(c) \/ EmitThrows(c)
  BY <1>3, <1>b DEF ClaimThrows, ReleaseThrows, MarkAmbiguousThrows, EmitThrows, Fail, Watches
<1>4. ASSUME NEW out \in Outputs, HandlerReturns(c, out)
      PROVE  Watches(c)
  BY <1>4, <1>a DEF HandlerReturns, Set, Calls, TypeOK, Watches
<1>5. CASE HandlerThrows(c) \/ CompleteThrows(c)
  BY <1>5, <1>b DEF HandlerThrows, CompleteThrows, AfterFailure, Watches
<1>6. CASE HandlerProvesNoEffect(c)
  BY <1>6, <1>b DEF HandlerProvesNoEffect, Watches
<1>7. CASE Complete(c)
  <2>1. CASE OwnsClaim(c)
    <3>1. /\ ledger'[call[c].key] = [Row(c) EXCEPT !.state = "completed", !.owner = NoToken,
                                                   !.output = call[c].output]
          /\ call'[c].pc = "event" /\ Row(c).state = "pending"
          /\ UNCHANGED <<events, meters, successes, answers>>
      BY <1>7, <2>1, <1>d, <1>e DEF Complete, OwnsClaim
    <3> QED
      BY <3>1, <1>a DEF Rewrites, Rows
  <2>2. CASE ~OwnsClaim(c)
    BY <1>7, <2>2, <1>b DEF Complete, AfterFailure, Watches
  <2> QED
    BY <2>1, <2>2
<1>8. CASE Release(c) \/ MarkAmbiguous(c)
  <2>1. call'[c].pc = "fail" /\ UNCHANGED <<events, meters, successes, answers>>
    BY <1>8, <1>b DEF Release, MarkAmbiguous, Fail
  <2>2. CASE OwnsClaim(c)
    <3>1. /\ Row(c).state = "pending"
          /\ ledger'[call[c].key] = Absent \/ ledger'[call[c].key] = Doubt(Row(c))
      BY <1>8, <2>2, <1>e DEF Release, MarkAmbiguous, OwnsClaim
    <3>2. \/ ledger'[call[c].key].emitted = FALSE
          \/ ledger'[call[c].key].emitted = ledger[call[c].key].emitted
      <4>1. CASE ledger'[call[c].key] = Absent
        BY <4>1 DEF Absent
      <4>2. CASE ledger'[call[c].key] = Doubt(Row(c))
        BY <4>2, <1>a DEF Rows, Doubt
      <4> QED
        BY <3>1, <4>1, <4>2
    <3> QED
      BY <2>1, <3>1, <3>2 DEF Rewrites
  <2>3. CASE ~OwnsClaim(c)
    BY <1>8, <2>1, <2>3 DEF Release, MarkAmbiguous, Watches
  <2> QED
    BY <2>2, <2>3
<1>9. CASE EmitEvent(c) \/ EmitMeter(c) \/ EmitAudit(c)
  BY <1>9, <1>d DEF EmitEvent, EmitMeter, EmitAudit, Emits
<1>10. CASE MarkArtifactsEmitted(c)
  <2>0. call[c].pc = "mark" /\ UNCHANGED <<events, meters, successes, answers>>
    BY <1>10 DEF MarkArtifactsEmitted
  <2>1. CASE Row(c).state = "completed" /\ SameRequest(c)
    <3>1. /\ call'[c].pc = "return" /\ ledger'[call[c].key] = [Row(c) EXCEPT !.emitted = TRUE]
      BY <1>10, <2>1, <1>d, <1>e DEF MarkArtifactsEmitted
    <3> QED
      BY <2>0, <2>1, <3>1, <1>a DEF Closes, Rows
  <2>2. CASE ~(Row(c).state = "completed" /\ SameRequest(c))
    BY <1>10, <2>0, <2>2, <1>b DEF MarkArtifactsEmitted, Fail, Watches
  <2> QED
    BY <2>1, <2>2
<1>11. CASE Return(c) \/ FileFailure(c) \/ FileFailureThrows(c) \/ Crash(c)
  BY <1>11, <1>a DEF Return, FileFailure, FileFailureThrows, Crash, Set, Idle, Calls, TypeOK, Watches
<1> QED
  BY <1>1, <1>2, <1>3, <1>4, <1>5, <1>6, <1>7, <1>8, <1>9, <1>10, <1>11 DEF Step

(* The evidence of one key, in the words of EvidenceFollowsCompletion.      *)
Evident(k) ==
  /\ {events[k], meters[k], successes[k]} \subseteq {0, 1}
  /\ events[k] + meters[k] + successes[k] > 0 => ledger[k].state = "completed"
  /\ ledger[k].emitted => events[k] = 1 /\ successes[k] = 1 /\ (k \in MeteredKeys => meters[k] = 1)
  /\ (\E a \in answers : a.key = k /\ a.outcome = "succeeded") => ledger[k].emitted

(* Every step of a call keeps the evidence true.                            *)
LEMMA EvidenceCallStep ==
  ASSUME EInv, IInv', NEW c \in Callers, Step(c) \/ Crash(c)
  PROVE  Staged' /\ EvidenceFollowsCompletion'
<1>k. PICK k \in Keys : k = call[c].key
  BY Local, Summary DEF EInv, IInv
<1>0. /\ TypeOK /\ ledger[k] \in Rows /\ ledger'[k] \in Rows
      /\ events[k] \in Nat /\ meters[k] \in Nat /\ successes[k] \in Nat
  BY <1>k DEF EInv, IInv, TypeOK
<1>1. /\ \A d \in Callers : d # c => call'[d] = call[d]
      /\ \A l \in Keys : l # k => ledger'[l] = ledger[l]
      /\ call'[c].pc # "idle" => call'[c].key = k
  BY <1>0, <1>k, Summary
<1>2. \A d \in Callers : call[d].pc # "idle" => call[d].key \in Keys
  BY <1>0, Local
<1>3. \A l \in Keys : Evident(l)
  BY DEF EInv, EvidenceFollowsCompletion, Evident
<1>4. \A l \in Keys : events[l] = 1 \/ meters[l] = 1 \/ successes[l] = 1 \/ ledger[l].emitted
                        => ledger[l].state = "completed"
  BY <1>0, <1>3 DEF Evident, TypeOK
<1>5. (\A l \in Keys : Evident(l)') => EvidenceFollowsCompletion'
  BY DEF EvidenceFollowsCompletion, Evident
<1>6. CASE Emits(c)
  <2>0. UNCHANGED <<ledger, answers>> /\ call[c].pc \in {"event", "meter", "audit"}
    BY <1>6 DEF Emits
  <2>1. /\ \A l \in Keys : l # k => events'[l] = events[l] /\ meters'[l] = meters[l]
                                    /\ successes'[l] = successes[l]
        /\ events'[k] \in {events[k], 1} /\ meters'[k] \in {meters[k], 1}
        /\ successes'[k] \in {successes[k], 1}
        /\ \A l \in Keys : /\ events[l] = 1 => events'[l] = 1
                           /\ meters[l] = 1 => meters'[l] = 1
                           /\ successes[l] = 1 => successes'[l] = 1
    BY <1>0, <1>6, <1>k DEF Emits, Once, TypeOK
  <2>2. ledger[k].state = "completed"
    BY <1>k, <2>0 DEF EInv, IInv, Emitting, EmitPcs, Row
  <2>3. Staged'
    <3>1. /\ call[c].pc = "event" => events'[k] = 1
          /\ call[c].pc = "meter" => meters'[k] = 1
          /\ call[c].pc = "audit" => successes'[k] = 1
      BY <1>0, <1>3, <1>6, <1>k DEF Emits, Once, TypeOK, Evident
    <3>2. /\ call[c].pc \in {"meter", "audit"} => events'[k] = 1
          /\ call[c].pc = "audit" /\ k \in MeteredKeys => meters'[k] = 1
      BY <1>k, <2>1 DEF EInv, Staged
    <3>3. /\ call'[c].pc \in {"meter", "audit", "mark"} => events'[k] = 1
          /\ call'[c].pc \in {"audit", "mark"} /\ k \in MeteredKeys => meters'[k] = 1
          /\ call'[c].pc = "mark" => successes'[k] = 1
          /\ call'[c].pc \notin {"return", "idle"}
      BY <1>6, <1>k, <3>1, <3>2 DEF Emits
    <3> QED
      BY <1>1, <1>2, <2>0, <2>1, <3>3 DEF EInv, Staged
  <2>4. \A l \in Keys : Evident(l)'
    <3>1. ASSUME NEW l \in Keys, l # k PROVE Evident(l)'
      BY <1>3, <2>0, <2>1, <3>1 DEF Evident
    <3>2. Evident(k)'
      BY <1>0, <1>3, <2>0, <2>1, <2>2 DEF Evident
    <3> QED
      BY <3>1, <3>2
  <2> QED
    BY <1>5, <2>3, <2>4
<1>7. CASE Rewrites(c)
  <2>1. /\ UNCHANGED <<events, meters, successes, answers>>
        /\ call'[c].pc \notin {"meter", "audit", "mark", "return"}
        /\ ledger[k].state # "completed" /\ (ledger'[k].emitted => ledger[k].emitted)
    BY <1>7, <1>k DEF Rewrites, Row, EmitPcs
  <2>2. ~ledger[k].emitted /\ events[k] = 0 /\ meters[k] = 0 /\ successes[k] = 0
    BY <1>0, <1>3, <1>4, <2>1 DEF Evident
  <2>3. Staged'
    <3>1. ASSUME NEW d \in Callers, call'[d].pc = "return" PROVE ledger'[call'[d].key].emitted
      <4>1. d # c /\ call'[d] = call[d] /\ call[d].key \in Keys /\ ledger[call[d].key].emitted
        BY <1>1, <1>2, <2>1, <3>1 DEF EInv, Staged
      <4> QED
        BY <1>1, <2>2, <4>1
    <3> QED
      BY <1>1, <2>1, <3>1 DEF EInv, Staged
  <2>4. \A l \in Keys : Evident(l)'
    <3>1. ASSUME NEW l \in Keys, l # k PROVE Evident(l)'
      BY <1>1, <1>3, <2>1, <3>1 DEF Evident
    <3>2. Evident(k)'
      BY <1>0, <1>3, <2>1, <2>2 DEF Evident
    <3> QED
      BY <3>1, <3>2
  <2> QED
    BY <1>5, <2>3, <2>4
<1>8. CASE Closes(c)
  <2>1. /\ UNCHANGED <<events, meters, successes, answers>>
        /\ call[c].pc = "mark" /\ call'[c].pc = "return"
        /\ ledger'[k].state = "completed" /\ ledger'[k].emitted
    BY <1>8, <1>k DEF Closes
  <2>2. events[k] = 1 /\ successes[k] = 1 /\ (k \in MeteredKeys => meters[k] = 1)
    BY <1>k, <2>1 DEF EInv, Staged
  <2>3. Staged'
    <3>1. ASSUME NEW d \in Callers, call'[d].pc = "return" PROVE ledger'[call'[d].key].emitted
      BY <1>1, <1>2, <2>1, <3>1 DEF EInv, Staged
    <3> QED
      BY <1>1, <2>1, <3>1 DEF EInv, Staged
  <2>4. \A l \in Keys : Evident(l)'
    <3>1. ASSUME NEW l \in Keys, l # k PROVE Evident(l)'
      BY <1>1, <1>3, <2>1, <3>1 DEF Evident
    <3>2. Evident(k)'
      BY <1>0, <1>3, <2>1, <2>2 DEF Evident
    <3> QED
      BY <3>1, <3>2
  <2> QED
    BY <1>5, <2>3, <2>4
<1>9. CASE Watches(c)
  <2>1. /\ UNCHANGED <<ledger, events, meters, successes>>
        /\ call'[c].pc \notin {"meter", "audit", "mark"}
        /\ call'[c].pc = "return" => ledger[k].emitted
    BY <1>9, <1>k DEF Watches, Row
  <2>2. \A a \in answers' : \/ a \in answers
                            \/ a.outcome # "succeeded"
                            \/ a.key = k /\ ledger[k].emitted
    BY <1>9, <1>k DEF Watches, Answer, EInv, Staged
  <2>3. Staged'
    BY <1>1, <2>1 DEF EInv, Staged
  <2>4. \A l \in Keys : Evident(l)'
    BY <1>3, <2>1, <2>2 DEF Evident
  <2> QED
    BY <1>5, <2>3, <2>4
<1> QED
  BY <1>0, <1>6, <1>7, <1>8, <1>9, EvidenceSummary

(* Every step keeps the evidence true.                                      *)
LEMMA EvidenceStep == EInv /\ [Next]_vars => EInv'
<1> SUFFICES ASSUME EInv, [Next]_vars PROVE EInv'
  OBVIOUS
<1>0. IInv' /\ TypeOK
  BY IStep DEF EInv, IInv
<1>1. CASE UNCHANGED vars \/ Tick
  <2>1. UNCHANGED <<call, ledger, events, meters, successes, answers>>
    BY <1>1 DEF vars, Tick, evidence
  <2> QED
    BY <1>0, <2>1 DEF EInv, Staged, EvidenceFollowsCompletion
<1>2. ASSUME NEW c \in Callers, NEW k \in Keys, NEW in \in Inputs, Start(c, k, in) PROVE EInv'
  <2>1. /\ UNCHANGED <<ledger, events, meters, successes, answers>>
        /\ call'[c].pc = "request" /\ \A d \in Callers : d # c => call'[d] = call[d]
    BY <1>0, <1>2 DEF Start, Set, TypeOK, evidence
  <2> QED
    BY <1>0, <2>1 DEF EInv, Staged, EvidenceFollowsCompletion
<1>3. ASSUME NEW c \in Callers, Step(c) \/ Crash(c) PROVE EInv'
  BY <1>0, <1>3, EvidenceCallStep DEF EInv
<1> QED
  BY <1>1, <1>2, <1>3 DEF Next

(* The event, the meter and the success audit row exist at most once, for a *)
(* completed command only, all before the row says so, and the row says so  *)
(* before any caller hears of the success.                                  *)
THEOREM EvidenceInOrder == Spec => []EvidenceFollowsCompletion
<1>1. Init => EInv
  BY IInit DEF Init, EInv, Staged, EvidenceFollowsCompletion, Idle, Absent
<1>2. EInv => EvidenceFollowsCompletion
  BY DEF EInv
<1> QED
  BY <1>1, <1>2, EvidenceStep, PTL DEF Spec

-----------------------------------------------------------------------------
(* The command bus implements EffectOnce.                                   *)

(* The success audit row is written by a call that emits, and by no other.  *)
LEMMA RecordSummary ==
  ASSUME NEW c \in Callers, Step(c) \/ Crash(c)
  PROVE  \/ UNCHANGED successes
         \/ /\ call[c].pc = "audit" /\ successes' = Once(successes, call[c].key)
            /\ UNCHANGED <<ledger, effects>>
<1>1. CASE EmitAudit(c)
  BY <1>1 DEF EmitAudit
<1>2. ASSUME Step(c), ~EmitAudit(c) PROVE UNCHANGED successes
  <2> USE DEF evidence
  <2>1. CASE \/ Authorize(c) \/ Claim(c) \/ ClaimThrows(c) \/ HandlerThrows(c)
             \/ HandlerProvesNoEffect(c)
    BY <2>1 DEF Authorize, Claim, ClaimThrows, HandlerThrows, HandlerProvesNoEffect
  <2>4. CASE \E out \in Outputs : HandlerReturns(c, out)
    BY <2>4 DEF HandlerReturns
  <2>2. CASE \/ Complete(c) \/ CompleteThrows(c) \/ Release(c) \/ ReleaseThrows(c)
             \/ MarkAmbiguous(c) \/ MarkAmbiguousThrows(c)
    BY <2>2 DEF Complete, CompleteThrows, Release, ReleaseThrows, MarkAmbiguous, MarkAmbiguousThrows
  <2>3. CASE \/ EmitEvent(c) \/ EmitMeter(c) \/ MarkArtifactsEmitted(c) \/ EmitThrows(c)
             \/ Return(c) \/ FileFailure(c) \/ FileFailureThrows(c)
    BY <2>3 DEF EmitEvent, EmitMeter, MarkArtifactsEmitted, EmitThrows, Return, FileFailure,
                FileFailureThrows
  <2> QED
    BY <1>2, <2>1, <2>2, <2>3, <2>4 DEF Step
<1>3. CASE Crash(c)
  BY <1>3 DEF Crash, evidence
<1> QED
  BY <1>1, <1>2, <1>3

(* What is left alone in the bus is left alone in the promise.              *)
LEMMA Unmapped ==
  /\ UNCHANGED ledger => UNCHANGED Verdict /\ UNCHANGED Result
  /\ UNCHANGED successes => UNCHANGED Recorded
  BY DEF Verdict, Result, Recorded

(* Every step of a call is a step of the promise for its key, or none.      *)
LEMMA PromiseStep ==
  ASSUME IInv, NEW c \in Callers, Step(c) \/ Crash(c)
  PROVE  Promise!Next \/ UNCHANGED Promise!vars
<1>k. PICK k \in Keys : k = call[c].key
  BY Local, Summary DEF IInv
<1> USE DEF IInv, Row
<1>0. TypeOK /\ call[c] \in Calls /\ ledger[k] \in Rows
  BY <1>k, Local, Summary
<1>f. \A l \in Keys : l # k => ledger'[l] = ledger[l]
  BY <1>k, Summary
<1>1. CASE ~UNCHANGED successes
  <2>1. /\ call[c].pc = "audit" /\ successes' = Once(successes, k)
        /\ UNCHANGED <<ledger, effects>>
    BY <1>1, <1>k, RecordSummary
  <2>2. UNCHANGED <<effects, Verdict, Result>>
    BY <2>1, Unmapped
  <2>3. ledger[k].state = "completed"
    BY <1>k, <2>1 DEF Emitting, EmitPcs
  <2>4. Verdict[k] = "completed"
    BY <2>3 DEF Verdict
  <2>5. successes[k] = 0 /\ successes' = [successes EXCEPT ![k] = 1]
    BY <1>0, <1>1, <2>1 DEF Once, TypeOK
  <2>6. k \notin Recorded /\ Recorded' = Recorded \cup {k}
    BY <1>0, <2>5 DEF TypeOK, Recorded
  <2>7. Promise!Record(k)
    BY <2>2, <2>4, <2>6 DEF Promise!Record
  <2> QED
    BY <2>7 DEF Promise!Next
<1>2. CASE UNCHANGED successes /\ (Acquires(c) \/ Releases(c))
  <2>1. UNCHANGED <<effects, Recorded>>
    BY <1>2, Unmapped DEF Acquires, Releases
  <2>2. /\ ledger[k].state \in {"absent", "pending"} /\ ledger[k].output = NoOutput
        /\ ledger'[k].state \in {"absent", "pending"} /\ ledger'[k].output = NoOutput
    <3>1. CASE Acquires(c)
      BY <1>0, <1>k, <3>1 DEF Acquires, Put, TypeOK, Emitting
    <3>2. CASE Releases(c)
      BY <1>0, <1>k, <3>2 DEF Releases, Put, Absent, TypeOK, Emitting
    <3> QED
      BY <1>2, <3>1, <3>2
  <2>3. UNCHANGED <<Verdict, Result>>
    BY <1>f, <2>2 DEF Verdict, Result
  <2> QED
    BY <2>1, <2>3 DEF Promise!vars
<1>3. CASE UNCHANGED successes /\ Runs(c)
  <2>1. UNCHANGED <<Verdict, Result, Recorded>>
    BY <1>3, Unmapped DEF Runs
  <2>2. CASE UNCHANGED effects
    BY <2>1, <2>2, Unmapped DEF Promise!vars
  <2>3. CASE Affect(c) /\ k \notin ReadKeys
    <3>1. effects[k] = {} /\ ledger[k].state \in {"pending", "ambiguous"}
      BY <1>k, <1>3 DEF Runs, HandlersFresh, Owners, OwnerPcs
    <3>2. Verdict[k] # "completed"
      BY <3>1 DEF Verdict
    <3>3. effects' = [effects EXCEPT ![k] = {Token(c)}] /\ effects'[k] = {Token(c)}
      BY <1>0, <1>k, <2>3, <3>1 DEF Affect, TypeOK
    <3>4. Promise!Apply(k)
      BY <2>1, <2>3, <3>1, <3>2, <3>3 DEF Promise!Apply
    <3> QED
      BY <3>4 DEF Promise!Next
  <2> QED
    BY <1>3, <1>k, <2>2, <2>3 DEF Runs
<1>4. CASE UNCHANGED successes /\ Completes(c)
  <2>1. UNCHANGED <<effects, Recorded>>
    BY <1>4, Unmapped DEF Completes
  <2>2. PICK out \in Outputs : out = call[c].output
    BY <1>4 DEF Completes, OutputsReady
  <2>3. Verdict[k] = "open" /\ (effects[k] # {} \/ k \in ReadKeys)
    BY <1>k, <1>4 DEF Completes, Verdict, CompletionsApplied
  <2>4. ledger'[k].state = "completed" /\ ledger'[k].output = out
    BY <1>0, <1>k, <1>4, <2>2 DEF Completes, Put, TypeOK, Rows
  <2>5. /\ Verdict' = [Verdict EXCEPT ![k] = "completed"]
        /\ Result' = [Result EXCEPT ![k] = out]
    BY <1>f, <2>4 DEF Verdict, Result
  <2>6. Promise!Complete(k, out)
    BY <2>1, <2>3, <2>5 DEF Promise!Complete
  <2> QED
    BY <2>6 DEF Promise!Next
<1>5. CASE UNCHANGED successes /\ Doubts(c)
  <2>1. UNCHANGED <<effects, Recorded>>
    BY <1>5, Unmapped DEF Doubts
  <2>2. Verdict[k] = "open"
    BY <1>k, <1>5 DEF Doubts, Verdict
  <2>3. ledger'[k].state = "ambiguous" /\ ledger'[k].output = ledger[k].output
    BY <1>0, <1>k, <1>5 DEF Doubts, Doubt, Put, TypeOK, Rows
  <2>4. Verdict' = [Verdict EXCEPT ![k] = "ambiguous"] /\ UNCHANGED Result
    BY <1>f, <2>3 DEF Verdict, Result
  <2>5. Promise!GiveUp(k)
    BY <2>1, <2>2, <2>4 DEF Promise!GiveUp
  <2> QED
    BY <2>5 DEF Promise!Next
<1>6. CASE UNCHANGED successes /\ Marks(c)
  <2>1. UNCHANGED <<effects, Recorded>>
    BY <1>6, Unmapped DEF Marks
  <2>2. ledger'[k].state = ledger[k].state /\ ledger'[k].output = ledger[k].output
    BY <1>0, <1>k, <1>6 DEF Marks, Put, TypeOK, Rows
  <2>3. UNCHANGED <<Verdict, Result>>
    BY <1>f, <2>2 DEF Verdict, Result
  <2> QED
    BY <2>1, <2>3 DEF Promise!vars
<1>7. CASE UNCHANGED successes /\ (FailsToComplete(c) \/ Quiet(c))
  BY <1>7, Unmapped DEF FailsToComplete, Quiet, Promise!vars
<1> QED
  BY <1>1, <1>2, <1>3, <1>4, <1>5, <1>6, <1>7, Summary

(* For any number of callers, keys and failures, the bus keeps the promise  *)
(* of EffectOnce: every execution of it is one of the abstract ledger.      *)
THEOREM BusImplementsEffectOnce == Spec => ImplementsEffectOnce
<1>1. Init => Promise!Init
  BY DEF Init, Promise!Init, Absent, Verdict, Result, Recorded
<1>2. IInv /\ [Next]_vars => [Promise!Next]_Promise!vars
  <2> SUFFICES ASSUME IInv, [Next]_vars PROVE Promise!Next \/ UNCHANGED Promise!vars
    OBVIOUS
  <2>1. CASE UNCHANGED vars \/ Tick
    BY <2>1, Unmapped DEF vars, Tick, evidence, Promise!vars
  <2>2. ASSUME NEW c \in Callers, NEW k \in Keys, NEW in \in Inputs, Start(c, k, in)
        PROVE  UNCHANGED Promise!vars
    BY <2>2, Unmapped DEF Start, evidence, Promise!vars
  <2>3. ASSUME NEW c \in Callers, Step(c) \/ Crash(c)
        PROVE  Promise!Next \/ UNCHANGED Promise!vars
    BY <2>3, PromiseStep
  <2> QED
    BY <2>1, <2>2, <2>3 DEF Next
<1> QED
  BY IInit, IStep, <1>1, <1>2, PTL DEF Spec, ImplementsEffectOnce, Promise!Spec
=============================================================================
