CONSTANTS
  a = a
  b = b
  c = c
  Owners = {a, b, c}
  Inputs <- OneEffect
  MaxActions = 1
  None = None
  MaxFailures = 1
  MaxStalls = 2
SPECIFICATION Spec
CHECK_DEADLOCK FALSE
INVARIANTS AbsenceIsFinal
