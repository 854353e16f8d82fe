----------------------------- MODULE CommandBus -----------------------------
(***************************************************************************)
(* The command bus of packages/command-bus: calls of executeById that run  *)
(* concurrently in several processes, the durable idempotency ledger they  *)
(* share (SqliteIdempotencyStore, one BEGIN IMMEDIATE transaction per      *)
(* operation, hence one atomic step each) and the three evidence sinks     *)
(* written after completion (SqliteEventLog, SqliteMeteringSink,           *)
(* SqliteAuditChain).                                                      *)
(*                                                                         *)
(* Every `await` of the method that touches shared state is a step of its  *)
(* own, so that calls interleave, claims expire and processes die between  *)
(* any two of them.                                                        *)
(***************************************************************************)
EXTENDS Integers, FiniteSets

CONSTANTS
  Callers,        \* processes (or request contexts) that execute commands
  Keys,           \* ledger keys: tenant, command id and idempotency key
  ReadKeys,       \* the keys whose contract is declared effect: "read"
  MeteredKeys,    \* the keys whose contract declares a meter
  Inputs,         \* parsed inputs; the request hash is a function of key and input
  Outputs,        \* parsed outputs a handler may return
  NoKey, NoInput, NoOutput, \* null values
  PendingTimeout, \* pendingTimeoutMs in clock ticks
  MaxClock,       \* bound on the clock
  MaxCalls,       \* bound on the calls one caller makes
  MaxFaults,      \* bound on store and sink operations that throw
  MaxCrashes      \* bound on processes that die in the middle of a call

ASSUME BusAssumption ==
  /\ ReadKeys \subseteq Keys /\ MeteredKeys \subseteq Keys
  /\ NoKey \notin Keys /\ NoInput \notin Inputs /\ NoOutput \notin Outputs
  /\ PendingTimeout \in Nat \ {0}
  /\ MaxClock \in Nat /\ MaxCalls \in Nat /\ MaxFaults \in Nat /\ MaxCrashes \in Nat

VARIABLES
  clock,      \* the bus's now()
  ledger,     \* key -> row of command_idempotency
  call,       \* caller -> the local state of its current executeById
  events,     \* key -> rows of command_events with the key's completion event id
  meters,     \* key -> rows of command_metering with the key's completion id
  successes,  \* key -> "succeeded" rows of command_audit with the key's completion id
  effects,    \* key -> the calls whose handler changed the business state
  answers,    \* what callers were told, with the audit outcome it was filed under
  faults, crashes

vars == <<clock, ledger, call, events, meters, successes, effects, answers, faults, crashes>>

evidence == <<events, meters, successes>>
budget   == <<faults, crashes>>

-----------------------------------------------------------------------------
(* The ledger's rows and the owner tokens.  A token is randomUUID(): here   *)
(* the caller and the number of its call.                                   *)

Tokens == Callers \X Nat
NoToken == <<>>

Absent == [state |-> "absent", input |-> NoInput, owner |-> NoToken, expires |-> 0,
           output |-> NoOutput, emitted |-> FALSE]

Rows == [state : {"absent", "pending", "completed", "ambiguous"},
         input : Inputs \cup {NoInput}, owner : Tokens \cup {NoToken}, expires : Nat,
         output : Outputs \cup {NoOutput}, emitted : BOOLEAN]

PCs == {"idle", "request", "claim", "handle", "complete", "release", "markAmbiguous",
        "event", "meter", "audit", "mark", "return", "fail"}

\* "handler_refused" stands for the codes of a CommandBusError that the handler
\* itself throws (or that reaches it from a command it calls) and that the audit
\* files as a denial; one that is filed as a failure is an "invalid_input".
Codes == {"none", "authorization_denied", "invalid_input", "handler_failed", "handler_refused",
          "idempotency_conflict", "idempotency_pending", "idempotency_ambiguous"}

\* Outside "idle" a call is engaged on a key with an input.
Calls == {r \in [pc : PCs, n : Nat, key : Keys \cup {NoKey}, input : Inputs \cup {NoInput},
                 at : Nat, output : Outputs \cup {NoOutput}, code : Codes] :
            r.pc # "idle" => r.key \in Keys /\ r.input \in Inputs}

Idle(n) == [pc |-> "idle", n |-> n, key |-> NoKey, input |-> NoInput, at |-> 0,
            output |-> NoOutput, code |-> "none"]

Token(c) == <<c, call[c].n>>
Set(c, r) == call' = [call EXCEPT ![c] = r]
Goto(c, pc) == Set(c, [call[c] EXCEPT !.pc = pc])
GotoWith(c, pc, code) == Set(c, [call[c] EXCEPT !.pc = pc, !.code = code])
Fail(c, code) == GotoWith(c, "fail", code)

\* The row of the key that call c is about.
Row(c) == ledger[call[c].key]
Put(c, row) == ledger' = [ledger EXCEPT ![call[c].key] = row]

\* A store or sink operation that throws (a busy or unavailable database).
Throws == faults < MaxFaults /\ faults' = faults + 1

Init ==
  /\ clock = 0
  /\ ledger = [k \in Keys |-> Absent]
  /\ call = [c \in Callers |-> Idle(0)]
  /\ events = [k \in Keys |-> 0]
  /\ meters = [k \in Keys |-> 0]
  /\ successes = [k \in Keys |-> 0]
  /\ effects = [k \in Keys |-> {}]
  /\ answers = {}
  /\ faults = 0 /\ crashes = 0

Tick ==
  /\ clock < MaxClock
  /\ clock' = clock + 1
  /\ UNCHANGED <<ledger, call, evidence, effects, answers, budget>>

-----------------------------------------------------------------------------
(* executeById up to the claim.                                             *)

\* occurredAt is read once, here; the claim made later still carries it.
Start(c, k, in) ==
  /\ call[c].pc = "idle" /\ call[c].n < MaxCalls
  /\ Set(c, [pc |-> "request", n |-> call[c].n + 1, key |-> k, input |-> in,
              at |-> clock, output |-> NoOutput, code |-> "none"])
  /\ UNCHANGED <<clock, ledger, evidence, effects, answers, budget>>

\* identity, tenant, the "requested" audit row, subscription, entitlement,
\* grant, scope and the input parser: any of them may refuse the call.
Authorize(c) ==
  /\ call[c].pc = "request"
  /\ \/ Goto(c, "claim")
     \/ \E code \in {"authorization_denied", "invalid_input"} : Fail(c, code)
  /\ UNCHANGED <<clock, ledger, evidence, effects, answers, budget>>

\* Mutant: the key alone binds the request.
SameRequestKeyExists(c) == Row(c).state # "absent" \/ Row(c).input = call[c].input

SameRequest(c) == Row(c).input = call[c].input

ClaimFree(c) ==
  /\ Row(c).state = "absent"
  /\ Put(c, [state |-> "pending", input |-> call[c].input, owner |-> Token(c),
              expires |-> call[c].at + PendingTimeout, output |-> NoOutput, emitted |-> FALSE])
  /\ Goto(c, "handle")

ClaimConflict(c) ==
  /\ Row(c).state # "absent" /\ ~SameRequest(c)
  /\ Fail(c, "idempotency_conflict")
  /\ UNCHANGED ledger

\* Mutant: a replay returns without repairing the evidence.
ReplayFromOutput(row) == IF row.output = NoOutput THEN "event" ELSE "return"

\* A replay first emits the artifacts the owner could not.
ReplayFrom(row) == IF row.emitted THEN "return" ELSE "event"

ClaimReplay(c) ==
  /\ Row(c).state = "completed" /\ SameRequest(c)
  /\ Set(c, [call[c] EXCEPT !.output = Row(c).output, !.pc = ReplayFrom(Row(c))])
  /\ UNCHANGED ledger

ClaimAmbiguous(c) ==
  /\ Row(c).state = "ambiguous" /\ SameRequest(c)
  /\ Fail(c, "idempotency_ambiguous")
  /\ UNCHANGED ledger

\* Mutant: an expired claim is taken over by the next caller.
ClaimExpiredTakeover(c) ==
  /\ Row(c).state = "pending" /\ SameRequest(c) /\ call[c].at >= Row(c).expires
  /\ Put(c, [Row(c) EXCEPT !.owner = Token(c), !.expires = call[c].at + PendingTimeout])
  /\ Goto(c, "handle")

Doubt(row) == [row EXCEPT !.state = "ambiguous", !.owner = NoToken]

\* The owner is lost or late: the claim is never taken over.
ClaimExpired(c) ==
  /\ Row(c).state = "pending" /\ SameRequest(c) /\ call[c].at >= Row(c).expires
  /\ Put(c, Doubt(Row(c)))
  /\ Fail(c, "idempotency_ambiguous")

\* Mutant: a caller polls a pending claim instead of giving up.
ClaimPendingPolls(c) ==
  /\ Row(c).state = "pending" /\ SameRequest(c) /\ call[c].at < Row(c).expires
  /\ UNCHANGED <<call, ledger>>

ClaimPending(c) ==
  /\ Row(c).state = "pending" /\ SameRequest(c) /\ call[c].at < Row(c).expires
  /\ Fail(c, "idempotency_pending")
  /\ UNCHANGED ledger

Claim(c) ==
  /\ call[c].pc = "claim"
  /\ \/ ClaimFree(c) \/ ClaimConflict(c) \/ ClaimReplay(c)
     \/ ClaimAmbiguous(c) \/ ClaimExpired(c) \/ ClaimPending(c)
  /\ UNCHANGED <<clock, evidence, effects, answers, budget>>

ClaimThrows(c) ==
  /\ call[c].pc = "claim" /\ Throws
  /\ Fail(c, "authorization_denied")
  /\ UNCHANGED <<clock, ledger, evidence, effects, answers, crashes>>

-----------------------------------------------------------------------------
(* The owner of a claim: the handler, then complete, release or             *)
(* markAmbiguous.                                                           *)

Affect(c) == effects' = [effects EXCEPT ![call[c].key] = @ \cup {Token(c)}]

\* A handler of a read command changes no business state.
HandlerReturns(c, out) ==
  /\ call[c].pc = "handle"
  /\ Set(c, [call[c] EXCEPT !.pc = "complete", !.output = out])
  /\ IF call[c].key \in ReadKeys THEN UNCHANGED effects ELSE Affect(c)
  /\ UNCHANGED <<clock, ledger, evidence, answers, budget>>

\* Mutant: every failed claim is released, as if nothing had been written.
AfterFailureReleases(c, own) ==
  GotoWith(c, "release", "handler_failed")

\* The catch block around handler and complete.  A CommandBusError keeps its
\* own code; any other exception ("none") is given one.
AfterFailure(c, own) ==
  IF call[c].key \in ReadKeys
    THEN GotoWith(c, "release", IF own = "none" THEN "handler_failed" ELSE own)
    ELSE GotoWith(c, "markAmbiguous", IF own = "none" THEN "idempotency_ambiguous" ELSE own)

\* A plain exception, an output its parser refuses, or a CommandBusError.
HandlerThrows(c) ==
  /\ call[c].pc = "handle"
  /\ \E own \in {"none", "handler_refused", "invalid_input"} : AfterFailure(c, own)
  /\ UNCHANGED effects \/ (call[c].key \notin ReadKeys /\ Affect(c))
  /\ UNCHANGED <<clock, ledger, evidence, answers, budget>>

\* CommandDefinitiveNoEffectError: thrown before any effect.
HandlerProvesNoEffect(c) ==
  /\ call[c].pc = "handle"
  /\ \E code \in {"handler_failed", "authorization_denied", "idempotency_conflict"} :
       GotoWith(c, "release", code)
  /\ UNCHANGED <<clock, ledger, evidence, effects, answers, budget>>

\* Mutant: a late owner settles a row that is no longer its claim.
OwnsClaimOrLate(c) == Row(c).state \in {"pending", "ambiguous"} /\ SameRequest(c)

\* complete, release and markAmbiguous touch only the caller's own live claim.
OwnsClaim(c) == Row(c).state = "pending" /\ SameRequest(c) /\ Row(c).owner = Token(c)

Complete(c) ==
  /\ call[c].pc = "complete"
  /\ IF OwnsClaim(c)
       THEN /\ Put(c, [Row(c) EXCEPT !.state = "completed", !.owner = NoToken,
                                     !.output = call[c].output])
            /\ Goto(c, "event")
       ELSE AfterFailure(c, "none") /\ UNCHANGED ledger
  /\ UNCHANGED <<clock, evidence, effects, answers, budget>>

CompleteThrows(c) ==
  /\ call[c].pc = "complete" /\ Throws
  /\ AfterFailure(c, "none")
  /\ UNCHANGED <<clock, ledger, evidence, effects, answers, crashes>>

\* Mutant: release keeps the row under a state of its own.
ReleaseKeepsRow(c) ==
  /\ call[c].pc = "release"
  /\ Put(c, [Row(c) EXCEPT !.state = "released"])
  /\ Fail(c, call[c].code)
  /\ UNCHANGED <<clock, evidence, effects, answers, budget>>

\* release throws unless the row is still this call's pending claim; the
\* exception leaves the catch block as an authorization_denied.
Release(c) ==
  /\ call[c].pc = "release"
  /\ IF OwnsClaim(c)
       THEN Put(c, Absent) /\ Fail(c, call[c].code)
       ELSE UNCHANGED ledger /\ Fail(c, "authorization_denied")
  /\ UNCHANGED <<clock, evidence, effects, answers, budget>>

ReleaseThrows(c) ==
  /\ call[c].pc = "release" /\ Throws
  /\ Fail(c, "authorization_denied")
  /\ UNCHANGED <<clock, ledger, evidence, effects, answers, crashes>>

\* markAmbiguous: its own failures are swallowed.
MarkAmbiguous(c) ==
  /\ call[c].pc = "markAmbiguous"
  /\ IF OwnsClaim(c)
       THEN Put(c, Doubt(Row(c)))
       ELSE UNCHANGED ledger
  /\ Fail(c, call[c].code)
  /\ UNCHANGED <<clock, evidence, effects, answers, budget>>

MarkAmbiguousThrows(c) ==
  /\ call[c].pc = "markAmbiguous" /\ Throws
  /\ Fail(c, call[c].code)
  /\ UNCHANGED <<clock, ledger, evidence, effects, answers, crashes>>

-----------------------------------------------------------------------------
(* emitCompletionArtifacts: by the owner after complete, and by every       *)
(* replay that finds the row's artifacts still pending.  The three sinks    *)
(* ignore an append whose id they already hold.                             *)

Once(rows, k) == [rows EXCEPT ![k] = IF @ = 0 THEN 1 ELSE @]

EmitEvent(c) ==
  /\ call[c].pc = "event"
  /\ events' = Once(events, call[c].key)
  /\ Goto(c, IF call[c].key \in MeteredKeys THEN "meter" ELSE "audit")
  /\ UNCHANGED <<clock, ledger, meters, successes, effects, answers, budget>>

EmitMeter(c) ==
  /\ call[c].pc = "meter"
  /\ meters' = Once(meters, call[c].key)
  /\ Goto(c, "audit")
  /\ UNCHANGED <<clock, ledger, events, successes, effects, answers, budget>>

EmitAudit(c) ==
  /\ call[c].pc = "audit"
  /\ successes' = Once(successes, call[c].key)
  /\ Goto(c, "mark")
  /\ UNCHANGED <<clock, ledger, events, meters, effects, answers, budget>>

MarkArtifactsEmitted(c) ==
  /\ call[c].pc = "mark"
  /\ IF Row(c).state = "completed" /\ SameRequest(c)
       THEN Put(c, [Row(c) EXCEPT !.emitted = TRUE]) /\ Goto(c, "return")
       ELSE UNCHANGED ledger /\ Fail(c, "idempotency_pending")
  /\ UNCHANGED <<clock, evidence, effects, answers, budget>>

EmitThrows(c) ==
  /\ call[c].pc \in {"event", "meter", "audit", "mark"} /\ Throws
  /\ Fail(c, "idempotency_pending")
  /\ UNCHANGED <<clock, ledger, evidence, effects, answers, crashes>>

-----------------------------------------------------------------------------
(* The end of a call.                                                       *)

Answer(c, outcome) ==
  answers' = answers \cup {[call |-> Token(c), key |-> call[c].key, input |-> call[c].input,
                            outcome |-> outcome, output |-> call[c].output,
                            by |-> IF call[c].code = "handler_refused" THEN "handler" ELSE "bus"]}

Return(c) ==
  /\ call[c].pc = "return"
  /\ Answer(c, "succeeded")
  /\ Set(c, Idle(call[c].n))
  /\ UNCHANGED <<clock, ledger, evidence, effects, budget>>

\* Mutant: every failure is filed as a denial.
RefusedAll == Codes

\* The outer catch files the failure in the (security) audit.
Refused == {"authorization_denied", "handler_failed", "handler_refused"}

FileFailure(c) ==
  /\ call[c].pc = "fail"
  /\ Answer(c, IF call[c].code \in Refused THEN "denied" ELSE "failed")
  /\ Set(c, Idle(call[c].n))
  /\ UNCHANGED <<clock, ledger, evidence, effects, budget>>

\* The audit sink refuses the failure row: the caller sees the sink's error.
FileFailureThrows(c) ==
  /\ call[c].pc = "fail" /\ Throws
  /\ Set(c, Idle(call[c].n))
  /\ UNCHANGED <<clock, ledger, evidence, effects, answers, crashes>>

\* The process dies; the ledger and the sinks are durable.
Crash(c) ==
  /\ call[c].pc # "idle" /\ crashes < MaxCrashes
  /\ crashes' = crashes + 1
  /\ Set(c, Idle(call[c].n))
  /\ UNCHANGED <<clock, ledger, evidence, effects, answers, faults>>

Step(c) ==
  \/ Authorize(c) \/ Claim(c) \/ ClaimThrows(c)
  \/ \E out \in Outputs : HandlerReturns(c, out)
  \/ HandlerThrows(c) \/ HandlerProvesNoEffect(c)
  \/ Complete(c) \/ CompleteThrows(c) \/ Release(c) \/ ReleaseThrows(c)
  \/ MarkAmbiguous(c) \/ MarkAmbiguousThrows(c)
  \/ EmitEvent(c) \/ EmitMeter(c) \/ EmitAudit(c) \/ MarkArtifactsEmitted(c) \/ EmitThrows(c)
  \/ Return(c) \/ FileFailure(c) \/ FileFailureThrows(c)

Next ==
  \/ Tick
  \/ \E c \in Callers : Step(c) \/ Crash(c) \/ \E k \in Keys, in \in Inputs : Start(c, k, in)

Spec == Init /\ [][Next]_vars

\* A live process keeps executing its call: every await settles.
Fairness == \A c \in Callers : WF_vars(Step(c))
LiveSpec == Spec /\ Fairness
-----------------------------------------------------------------------------
(* Correctness.                                                             *)

Answers == [call : Tokens, key : Keys, input : Inputs,
            outcome : {"succeeded", "failed", "denied"}, output : Outputs \cup {NoOutput},
            by : {"bus", "handler"}]

TypeOK ==
  /\ clock \in Nat /\ faults \in Nat /\ crashes \in Nat
  /\ ledger \in [Keys -> Rows]
  /\ call \in [Callers -> Calls]
  /\ events \in [Keys -> Nat] /\ meters \in [Keys -> Nat] /\ successes \in [Keys -> Nat]
  /\ effects \in [Keys -> SUBSET Tokens]
  /\ answers \subseteq Answers

\* However calls, expiries, retries and crashes interleave, the business
\* effect behind one idempotency key is carried out by one handler run only.
OneEffectPerKey ==
  \A k \in Keys : \A t, u \in effects[k] : t = u

\* Every success any caller was ever told of is the ledger's completed row:
\* all callers of a key see the same output for the same input.
SuccessIsTheLedgers ==
  \A a \in answers : a.outcome = "succeeded" =>
    /\ ledger[a.key].state = "completed"
    /\ ledger[a.key].input = a.input
    /\ ledger[a.key].output = a.output

\* No denial hides an effect.  The bus itself files as "denied" only calls that
\* changed nothing: an effect whose outcome it does not know is filed as "failed".
\* Where the handler acted and then refused the call in its own words, the key
\* stays in doubt: no caller repeats the effect or is told that it succeeded.
DenialHidesNoEffect ==
  \A a \in answers : a.outcome = "denied" /\ a.call \in effects[a.key] =>
    a.by = "handler" /\ ledger[a.key].state \in {"pending", "ambiguous"}

\* The success event, the meter and the success audit row exist at most once
\* per key, and only for a completed command; the row says they were emitted
\* only when all of them exist, and no caller hears of a success before that.
EvidenceFollowsCompletion ==
  \A k \in Keys :
    /\ {events[k], meters[k], successes[k]} \subseteq {0, 1}
    /\ events[k] + meters[k] + successes[k] > 0 => ledger[k].state = "completed"
    /\ ledger[k].emitted =>
         events[k] = 1 /\ successes[k] = 1 /\ (k \in MeteredKeys => meters[k] = 1)
    /\ (\E a \in answers : a.key = k /\ a.outcome = "succeeded") => ledger[k].emitted

\* A completed or ambiguous row is final: no later claim, late owner or
\* recovery reopens it, rebinds it or changes its output.
SettledStaysSettled ==
  [][\A k \in Keys : ledger[k].state \in {"completed", "ambiguous"} =>
       ledger'[k] \in {ledger[k], [ledger[k] EXCEPT !.emitted = TRUE]}]_vars

\* Every call that is not cut short by a crash comes to an answer.
EveryCallEnds ==
  \A c \in Callers : call[c].pc # "idle" ~> call[c].pc = "idle"

\* What the ledger, the handlers and the audit come to, key by key.
Verdict == [k \in Keys |-> IF ledger[k].state \in {"completed", "ambiguous"}
                           THEN ledger[k].state ELSE "open"]
Result == [k \in Keys |-> ledger[k].output]
Recorded == {k \in Keys : successes[k] > 0}

Promise == INSTANCE EffectOnce WITH
  applied <- effects, verdict <- Verdict, result <- Result, recorded <- Recorded

\* The bus keeps the promise of EffectOnce: no caller, claim or clock shows
\* through the effect, the verdict, the output and the record of a key.
ImplementsEffectOnce == Promise!Spec
=============================================================================
