SPECIFICATION Spec
CONSTANTS
  c1 = c1
  c2 = c2
  p1 = p1
  p2 = p2
  f1 = f1
  f2 = f2
  s1 = s1
  s2 = s2
  Connections = {c1, c2}
  PosterOf <- MCPosterOf
  Ssl = {}
  NeedsAuth = {}
  UsesVpn = {}
  Files = {f1, f2}
  Slices = {s1, s2}
  FileOf <- MCFileOf
  Unreadable = {f2}
  NbMaxTrySending = 1
  KMaxAuthRejectedCycles = 1
  TryResume = TRUE
  DelFiles = TRUE
  MayStop = FALSE
  Prefetch = 1
  MaxFaults = 2
  MaxClicks = 0
  MaxVpnLosses = 0
SYMMETRY MCSymmetry
INVARIANTS
  LastSlotIsComing
CHECK_DEADLOCK FALSE
