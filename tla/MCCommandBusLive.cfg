CONSTANTS
  c1 = c1
  c2 = c2
  write = write
  read = read
  i1 = i1
  i2 = i2
  o1 = o1
  o2 = o2
  Callers = {c1, c2}
  Keys = {write, read}
  ReadKeys = {read}
  MeteredKeys = {write}
  Inputs = {i1}
  Outputs = {o1}
  NoKey = NoKey
  NoInput = NoInput
  NoOutput = NoOutput
  PendingTimeout = 1
  MaxClock = 1
  MaxCalls = 1
  MaxFaults = 1
  MaxCrashes = 1
SPECIFICATION LiveSpec
CHECK_DEADLOCK FALSE
PROPERTIES EveryCallEnds
