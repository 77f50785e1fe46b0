SPECIFICATION Spec
CONSTANTS
  j1 = j1
  j2 = j2
  j3 = j3
  NoJob = NoJob
  Jobs = {j1, j2, j3}
  HasPacking = {j1, j2}
  Monitored = {j1, j2}
  VpnRequired = {}
  HasCommand = {j1}
  MayFail = {}
  MaxActs = 3
INVARIANTS
  ActiveJobRuns
CHECK_DEADLOCK FALSE
