CONSTANTS
  a = a
  b = b
  NoReplica = NoReplica
  NumResources = 2
  NumVersions = 2
  BatchSize = 1
  Replicas = {a, b}
  RowLockWaits = TRUE
  Steady = {2}
  MaxSyncs = 2
  MaxChanges = 1
  Disturbances = {"crash", "rebalance", "publish", "discovery"}
  MaxDisturbances = 1
SPECIFICATION FairSpec
CHECK_DEADLOCK FALSE
INVARIANTS
  TypeOK
  AnnouncedFirst
PROPERTIES
  SuccessIsEarned
  OnlyMissingAreDeleted
  SyncsEnd
