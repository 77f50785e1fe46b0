SPECIFICATION Spec
CONSTANTS
  c1 = c1
  c2 = c2
  p1 = p1
  p2 = p2
  f1 = f1
  f2 = f2
  s1 = s1
  s2 = s2
  Connections = {c1}
  PosterOf <- MCPosterOf1
  Ssl = {}
  NeedsAuth = {}
  UsesVpn = {}
  Files = {f1}
  Slices = {s1}
  FileOf <- MCFileOf1
  Unreadable = {}
  NbMaxTrySending = 1
  KMaxAuthRejectedCycles = 1
  TryResume = TRUE
  DelFiles = TRUE
  MayStop = TRUE
  Prefetch = 1
  MaxFaults = 2
  MaxClicks = 2
  MaxVpnLosses = 0
INVARIANTS
  InFlightIsUnknown
CHECK_DEADLOCK FALSE
