CONSTANTS
  a = a
  b = b
  c = c
  Nodes = {a, b}
  Order <- Pair
  Deps <- Chain
  Effectful = {a, b}
  Human = {}
  Reconcilers = {a, b}
  OnFailure = {a}
  OnCancel = {a}
  MaxParallel = 2
  MaxAttempts = 2
  MaxPolls = 2
  LateWrites = FALSE
  MaxCrashes = 0
  MaxCancels = 1
  MaxSteers = 0
SPECIFICATION Spec
CHECK_DEADLOCK FALSE
PROPERTIES CancelledIsFinal
