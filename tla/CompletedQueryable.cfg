CONSTANTS
  v1 = v1
  v2 = v2
  page = page
  f1 = f1
  f2 = f2
  f3 = f3
  dataset = dataset
  m1 = m1
  m2 = m2
  m3 = m3
  i1 = i1
  jobsSlot = jobsSlot
  childSlot = childSlot
  retrySlot = retrySlot
  NoJob = NoJob
  NoDelimiter = NoDelimiter
  Jobs <- FileJobs
  Resources <- FileResources
  Instances <- OneInstance
  ResourceOf <- FileResourceOf
  ParentOf <- FileParentOf
  InstanceOf <- FileInstanceOf
  HttpLabels = {}
  DataLabels = {}
  Delimiters = {}
  MaxReopens = 99
  Slots <- FileSlots
  SlotOf <- FileSlotOf
  RetrySlot = retrySlot
  Version <- FileVersion
  Crawls <- FileCrawls
  Disturbances = {"retry", "fault"}
  Failures = {}
  MaxDisturbances = 1
SPECIFICATION PipelineSpec
CHECK_DEADLOCK FALSE
INVARIANTS
  CompletedIsQueryable
