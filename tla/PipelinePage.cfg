CONSTANTS
  v1 = v1
  v2 = v2
  page = page
  f1 = f1
  f2 = f2
  f3 = f3
  dataset = dataset
  m1 = m1
  m2 = m2
  m3 = m3
  i1 = i1
  jobsSlot = jobsSlot
  childSlot = childSlot
  retrySlot = retrySlot
  NoJob = NoJob
  NoDelimiter = NoDelimiter
  Jobs <- ChangingJobs
  Resources <- ChangingResources
  Instances <- OneInstance
  ResourceOf <- ChangingResourceOf
  ParentOf <- ChangingParentOf
  InstanceOf <- ChangingInstanceOf
  HttpLabels = {}
  DataLabels = {}
  Delimiters = {}
  MaxReopens = 99
  Slots <- ChangingSlots
  SlotOf <- ChangingSlotOf
  RetrySlot = retrySlot
  Version <- ChangingVersion
  Crawls <- ChangingCrawls
  Disturbances = {"fault", "retry"}
  Failures = {"FAILED"}
  MaxDisturbances = 1
SPECIFICATION FairPipelineSpec
ACTION_CONSTRAINTS
  RetryWhenQuiet
  PromptConsumer
CHECK_DEADLOCK FALSE
INVARIANTS
  CompletedHasObjects
  MergedTablesAreWhole
  CompletedPagesAreQueryable
PROPERTIES
  OpenJobsEnd
