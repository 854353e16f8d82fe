---------------------------- MODULE MCCommandBus ----------------------------
(* TLC instances of CommandBus: one write key with two inputs and outputs,   *)
(* and a smaller one with a write and a read key side by side for liveness. *)
EXTENDS CommandBus, TLC

CONSTANTS c1, c2, i1, i2, o1, o2, write, read

MCSymmetry == Permutations({c1, c2}) \cup Permutations({i1, i2}) \cup Permutations({o1, o2})
=============================================================================
