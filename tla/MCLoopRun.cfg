CONSTANTS
  a = a
  b = b
  c = c
  Owners = {a, b, c}
  Inputs <- OneEffect
  MaxActions = 1
  None = None
  MaxFailures = 2
  MaxStalls = 1
SPECIFICATION FairSpec
CHECK_DEADLOCK FALSE
INVARIANTS TypeOK AppliedOnce RecordIsTrue
PROPERTIES EndedIsFinal RunEnds
