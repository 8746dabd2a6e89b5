CONSTANTS
  v1 = v1
  v2 = v2
  page = page
  f1 = f1
  f2 = f2
  f3 = f3
  dataset = dataset
  m1 = m1
  m2 = m2
  m3 = m3
  i1 = i1
  jobsSlot = jobsSlot
  childSlot = childSlot
  retrySlot = retrySlot
  NoJob = NoJob
  NoDelimiter = NoDelimiter
  Jobs <- PageJobs
  Resources <- PageResources
  Instances <- OneInstance
  ResourceOf <- PageResourceOf
  ParentOf <- PageParentOf
  InstanceOf <- PageInstanceOf
  HttpLabels = {}
  DataLabels = {}
  Delimiters = {}
  MaxReopens = 99
  Slots <- PageSlots
  SlotOf <- ParallelSlotOf
  RetrySlot = retrySlot
  Version <- PageVersion
  Crawls <- PageCrawls
  Disturbances = {"retry"}
  Failures = {"FAILED"}
  MaxDisturbances = 1
SPECIFICATION PipelineSpec
CONSTRAINT ShortBacklogs
ACTION_CONSTRAINT RetryWhenQuiet
CHECK_DEADLOCK FALSE
INVARIANTS
  RetriedPageRecovers
