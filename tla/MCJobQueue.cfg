SPECIFICATION Spec
CONSTANTS
  j1 = j1
  j2 = j2
  j3 = j3
  NoJob = NoJob
  Jobs = {j1, j2, j3}
  HasPacking = {j1, j2}
  Monitored = {j2}
  VpnRequired = {j2}
  HasCommand = {j1}
  MayFail = {j2}
  MaxActs = 3
INVARIANTS
  TypeOK
  NoJobLost
  StartsAndEndsOnce
  PackingIsHead
  OnePacking
  CancelEnds
  ShutdownIsComing
  QueueMovesOn
PROPERTIES
  StopAllBinds
  ShutdownLeavesNothing
  StopWithdrawsShutdown
CHECK_DEADLOCK FALSE
