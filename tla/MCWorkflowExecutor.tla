-------------------------- MODULE MCWorkflowExecutor --------------------------
(* TLC instances of WorkflowExecutor: a chain of two nodes, and a fan-in.     *)
EXTENDS WorkflowExecutor, TLC

CONSTANTS a, b, c

Pair == <<a, b>>
Chain == a :> {} @@ b :> {a}

Three == <<a, b, c>>
Join == a :> {} @@ b :> {} @@ c :> {a, b}
=============================================================================
