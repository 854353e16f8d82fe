CONSTANTS
  a = a
  b = b
  c = c
  Nodes = {a, b, c}
  Order <- Three
  Deps <- Join
  Effectful = {a, c}
  Human = {b}
  Reconcilers = {a}
  OnFailure = {a}
  OnCancel = {a}
  MaxParallel = 2
  MaxAttempts = 2
  MaxPolls = 1
  LateWrites = TRUE
  MaxCrashes = 1
  MaxCancels = 1
  MaxSteers = 1
SPECIFICATION Spec
CHECK_DEADLOCK FALSE
PROPERTIES VerifiedNotRepeated FanIn
