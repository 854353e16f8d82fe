CONSTANTS
  c1 = c1
  c2 = c2
  canary = canary
  other = other
  Controllers = {c1, c2}
  Ventures = {canary, other}
  Order <- CanaryFirst
  Plan <- ShortPlan
  Hooks = {"merge", "production", "smoke", "compensate"}
  PreviousRelease = TRUE
  None = None
  MaxTroubles = 2
  LapseCost = 2
SPECIFICATION FairSpec
CHECK_DEADLOCK FALSE
INVARIANTS TypeOK CompletedNotRepeated BlastRadius ResultIsTrue
PROPERTIES RunEnds
