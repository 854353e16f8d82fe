CONSTANTS
  p = p
  q = q
  plain = plain
  native = native
  r1 = r1
  r2 = r2
  Callers = {p, q}
  Keys = {plain, native}
  Native = {native}
  Rerun = {native}
  Requests = {r1, r2}
  RequestsOf <- TwoForPlain
  None = None
  MaxCalls = 3
  MaxFailures = 1
SPECIFICATION FairSpec
CHECK_DEADLOCK FALSE
INVARIANTS TypeOK OneWrite EntriesAreTrue
PROPERTIES NoEntryLost EveryCallEnds
