SPECIFICATION Spec
CONSTANTS
  j1 = j1
  j2 = j2
  NoJob = NoJob
  Jobs = {j1, j2}
  Protocols = {"openvpn", "wireguard"}
  RecoveryMaxAttempts = 2
  MaxFaults = 2
  MaxClicks = 3
INVARIANTS
  TypeOK
  UserStopWins
  JobPausedWithoutTunnel
  
  ChangeIsComing
PROPERTIES
  OnlyUserStopsUnderJob
  UserPauseIsKept
CHECK_DEADLOCK FALSE
