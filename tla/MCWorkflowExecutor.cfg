CONSTANTS
  a = a
  b = b
  c = c
  Nodes = {a, b, c}
  Order <- Three
  Deps <- Join
  Effectful = {b, c}
  Human = {}
  Reconcilers = {a, b, c}
  OnFailure = {b, c}
  OnCancel = {b}
  MaxParallel = 2
  MaxAttempts = 2
  MaxPolls = 2
  LateWrites = FALSE
  MaxCrashes = 1
  MaxCancels = 0
  MaxSteers = 1
SPECIFICATION Spec
CHECK_DEADLOCK FALSE
INVARIANTS TypeOK NoBlindReplay SuccessIsVerified FailedIsCompensated
