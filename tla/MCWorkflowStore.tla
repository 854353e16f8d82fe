--------------------------- MODULE MCWorkflowStore ---------------------------
(* TLC instances of WorkflowStore: two sessions of one process (an executing *)
(* run, and a call that loads a copy of its own) and one of another process. *)
EXTENDS WorkflowStore, TLC

CONSTANTS p, q, s, t, u

OneProcess == s :> p @@ t :> p @@ u :> p
TwoProcesses == s :> p @@ t :> p @@ u :> q

MCSymmetry == Permutations({s, t})
=============================================================================
