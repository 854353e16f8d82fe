----------------------------- MODULE EffectOnce -----------------------------
(***************************************************************************)
(* What an idempotency key promises, whoever calls and whatever fails: the *)
(* effect is carried out at most once, its verdict (completed with one     *)
(* output, or ambiguous) is given once and never withdrawn, completed is   *)
(* said only of an effect that took place, and success is recorded once.   *)
(***************************************************************************)
CONSTANTS
  Keys,      \* idempotency keys
  ReadKeys,  \* the keys of commands without an effect
  Outputs,   \* results
  NoOutput   \* the result of a key without one

VARIABLES
  applied,   \* key -> the handler runs that have carried out its effect
  verdict,   \* key -> "open", "completed" or "ambiguous"
  result,    \* key -> the one output every caller is given
  recorded   \* the keys whose success has been recorded

vars == <<applied, verdict, result, recorded>>

Init ==
  /\ applied = [k \in Keys |-> {}]
  /\ verdict = [k \in Keys |-> "open"]
  /\ result = [k \in Keys |-> NoOutput]
  /\ recorded = {}

\* Some run carries out the effect, if none has.  It may come later than the
\* verdict "ambiguous", never than "completed".
Apply(k) ==
  /\ k \notin ReadKeys /\ applied[k] = {} /\ verdict[k] # "completed"
  /\ \E run \in applied'[k] : applied' = [applied EXCEPT ![k] = {run}]
  /\ UNCHANGED <<verdict, result, recorded>>

Complete(k, out) ==
  /\ verdict[k] = "open" /\ (applied[k] # {} \/ k \in ReadKeys)
  /\ verdict' = [verdict EXCEPT ![k] = "completed"]
  /\ result' = [result EXCEPT ![k] = out]
  /\ UNCHANGED <<applied, recorded>>

GiveUp(k) ==
  /\ verdict[k] = "open"
  /\ verdict' = [verdict EXCEPT ![k] = "ambiguous"]
  /\ UNCHANGED <<applied, result, recorded>>

Record(k) ==
  /\ verdict[k] = "completed" /\ k \notin recorded
  /\ recorded' = recorded \cup {k}
  /\ UNCHANGED <<applied, verdict, result>>

Next == \E k \in Keys :
  Apply(k) \/ GiveUp(k) \/ Record(k) \/ \E out \in Outputs : Complete(k, out)

Spec == Init /\ [][Next]_vars
=============================================================================
