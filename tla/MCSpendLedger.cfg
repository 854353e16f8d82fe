CONSTANTS
  p = p
  q = q
  g1 = g1
  g2 = g2
  c = c
  k1 = k1
  k2 = k2
  Procs = {p, q}
  Grants = {g1, g2}
  Campaigns = {c}
  Keys = {k1, k2}
  RequestsOf <- TwoKeys
  Total <- TwoTotals
  Ceiling <- TwoCeilings
  Pausable = {g1}
  None = None
  MaxFailures = 1
SPECIFICATION Spec
SYMMETRY MCSymmetry
CHECK_DEADLOCK FALSE
INVARIANTS TypeOK WithinBudget SpendIsAccounted OverspendHalts PausedOnceAndSeen
