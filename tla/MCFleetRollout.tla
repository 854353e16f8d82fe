---------------------------- MODULE MCFleetRollout ----------------------------
(* TLC instances of FleetRollout: a canary and one more venture.             *)
EXTENDS FleetRollout

CONSTANTS c1, c2, canary, other

CanaryFirst == <<canary, other>>
\* Branch, migrations, checks and preview are left out: they are hooks like merge.
ShortPlan ==
  <<"upgrade", "merge_gate", "merge", "touch", "production", "smoke",
    "production_readback", "lock">>
=============================================================================
