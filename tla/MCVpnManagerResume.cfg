SPECIFICATION Spec
CONSTANTS
  j1 = j1
  j2 = j2
  NoJob = NoJob
  Jobs = {j1, j2}
  Protocols = {"openvpn", "wireguard"}
  RecoveryMaxAttempts = 2
  MaxFaults = 0
  MaxClicks = 3
INVARIANTS
  RunningIsRetained
CHECK_DEADLOCK FALSE
