CONSTANTS
  a = a
  b = b
  NoReplica = NoReplica
  NumResources = 1
  NumVersions = 1
  BatchSize = 1
  Replicas = {a, b}
  RowLockWaits = TRUE
  Steady = {}
  MaxSyncs = 1
  MaxChanges = 2
  Disturbances = {"crash"}
  MaxDisturbances = 1
SPECIFICATION Spec
CHECK_DEADLOCK FALSE
PROPERTIES
  RemovalsAreRecorded
