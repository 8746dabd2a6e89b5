CONSTANTS
  w1 = w1
  w2 = w2
  h = h
  z = z
  u = u
  d = d
  None = None
  Crawlers = {w1, w2}
  Sources = {h, z, u, d}
  KindOf <- Kind
  Dated = {h, z}
  PageDated = TRUE
  UnderRoot = {d}
  TTL = 1
  MaxTime = 2
  MaxCrawls = 2
  Files <- SomeFiles
  InitialSample = 2
  MaxSample = 4
  MaxRepairs = 2
  MaxBatchRows = 2
  MaxBatchCells = 8
  JevEnabled = TRUE
  Sites <- SomeSites
  Root = "root"
  MaxDepth = 2
  MaxPages = 4
  HasKey = TRUE
  Archives = {"leaf", "empty", "mixed", "big", "deep", "wide", "itself"}
  TopArchives = {"leaf", "empty", "mixed", "big", "deep", "wide", "itself"}
  MembersOf <- SomeMembers
  MaxArchiveDepth = 3
  MaxEntries = 12
  MaxExpanded = 8
  Resources <- SomeResources
  Formats = {"CSV", "HTML"}
  Initial = 4
  MaxRows = 5
  PageSize = 2
  ServerCaps = {1, 2, 3}
  Documents <- SomeDocuments
  RecordBatch = 3
  Inputs <- SomeInputs
  LowerCase <- SomeTexts
  Missing = Missing
  Writers = {w1, w2}
  PartsOf <- SomeParts
  SinglePart = 2
  MaxTries = 2
  MaxChanges = 1
  NoObject = NoObject
  Undated = Undated
SPECIFICATION Spec
CHECK_DEADLOCK FALSE
INVARIANTS
  IndexesAreWhole
  LabelsAreHonest
  ServedIsRecent
  WholeFileOnce
  StrictIsExact
  DiscoveryIsExact
  ArchiveIsWhole
  DeletedOnlyIfGone
  ChildrenReportToParent
  IncompleteIsMismatched
  RecordsAreRows
  NamesAreDistinct
  TableIsUnion
  UploadsAreSafe
PROPERTIES
  ConfirmedListingIsCurrent
  EveryStepDescends
  CsvReadEnds
  PageDiscoveryEnds
