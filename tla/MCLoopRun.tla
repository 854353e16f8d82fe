------------------------------ MODULE MCLoopRun ------------------------------
(* TLC instances of LoopRun: three owner tokens.                              *)
EXTENDS LoopRun, TLC

CONSTANTS a, b, c

\* Two iterations whose evidence asks for the effect, one that has it at once, a breach, nothing.
OneEffect ==
  {<<{"matched"}, {"matched", "complete"}>>, <<{"matched", "complete"}>>, <<{"breached"}>>, <<{}>>}
=============================================================================
