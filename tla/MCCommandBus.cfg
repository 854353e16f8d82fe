CONSTANTS
  c1 = c1
  c2 = c2
  write = write
  read = read
  i1 = i1
  i2 = i2
  o1 = o1
  o2 = o2
  Callers = {c1, c2}
  Keys = {write}
  ReadKeys = {}
  MeteredKeys = {write}
  Inputs = {i1, i2}
  Outputs = {o1, o2}
  NoKey = NoKey
  NoInput = NoInput
  NoOutput = NoOutput
  PendingTimeout = 1
  MaxClock = 2
  MaxCalls = 2
  MaxFaults = 1
  MaxCrashes = 1
SPECIFICATION Spec
SYMMETRY MCSymmetry
CHECK_DEADLOCK FALSE
INVARIANTS TypeOK OneEffectPerKey SuccessIsTheLedgers DenialHidesNoEffect EvidenceFollowsCompletion
PROPERTIES SettledStaysSettled ImplementsEffectOnce
