CONSTANTS
  p = p
  q = q
  s = s
  t = t
  u = u
  Sessions = {s, t, u}
  Processes = {p, q}
  Home <- TwoProcesses
  Unread = Unread
  MaxEvents = 3
  MaxCrashes = 2
  MaxFaults = 2
SPECIFICATION Spec
SYMMETRY MCSymmetry
CHECK_DEADLOCK FALSE
INVARIANTS TypeOK LogIsHistory LogIsPrefix Recoverable
PROPERTIES NoChangeLost
