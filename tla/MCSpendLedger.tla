---------------------------- MODULE MCSpendLedger ----------------------------
(* TLC instances of SpendLedger: two grants of one platform.                 *)
EXTENDS SpendLedger, TLC

CONSTANTS p, q, g1, g2, c, k1, k2

Ask(g, n) == [grant |-> g, campaign |-> c, amount |-> n]

\* Both keys at g1 are above its total, at g1 and g2 above g2's ceiling.
TwoKeys == k1 :> {Ask(g1, 2)} @@ k2 :> {Ask(g1, 2), Ask(g2, 1)}
TwoTotals == g1 :> 3 @@ g2 :> 2
TwoCeilings == g1 :> 4 @@ g2 :> 2

MCSymmetry == Permutations(Procs)
=============================================================================
