CONSTANTS
  Files <- OneFile
  InitialSample = 2
  MaxSample = 4
  MaxRepairs = 2
  MaxBatchRows = 2
  MaxBatchCells = 8
  JevEnabled = TRUE
SPECIFICATION CsvSpec
CHECK_DEADLOCK FALSE
PROPERTIES
  RepairsHitTheMalformedLine
