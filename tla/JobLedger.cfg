CONSTANTS
  j1 = j1
  j2 = j2
  c1 = c1
  dataset = dataset
  m = m
  i1 = i1
  h404 = h404
  h500 = h500
  NoJob = NoJob
  NoDelimiter = NoDelimiter
  Jobs <- MCJobs
  Resources <- MCResources
  Instances = {i1}
  ResourceOf <- MCResourceOf
  ParentOf <- MCParentOf
  InstanceOf <- MCInstanceOf
  HttpLabels = {h404, h500}
  DataLabels = {"size:small", "size:large"}
  Delimiters = {"semicolon"}
  MaxReopens = 1
SPECIFICATION Spec
INVARIANTS
  TypeOK
  LatestFollowsJob
  TerminalIsBacked
  OneResultPerAttempt
  OutcomeLabelsAgree
  ChildrenAreUnlisted
  NoOrphans
SYMMETRY HttpCodeSymmetry
PROPERTIES
  LatestMovesOnAnnouncement
  SuccessIsRemembered
  ImplementsLifecycle
CHECK_DEADLOCK FALSE
