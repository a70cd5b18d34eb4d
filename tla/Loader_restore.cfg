\* One file type worker, two schema workers, two loaders, one thread per table.
SPECIFICATION FairSpec
CONSTANTS
  t1 = t1
  t2 = t2
  s1 = s1
  Databases = {"d"}
  CreateFiles = {"d"}
  Tables = {t1, t2, s1}
  SequenceObjects = {s1}
  DbOf <- MCDbOf
  SchemaFiles = {t1}
  Parts <- MCParts
  Indexed = {t1}
  TableOrder <- MCOrder
  FileWorkers = {f1}
  SchemaWorkers = {w1, w2}
  Loaders = {l1, l2}
  IndexWorkers = {i1}
  MaxThreads = 1
  RetryCount = 1
  DropFailures = 1
  Modes <- MCModes
CHECK_DEADLOCK FALSE
INVARIANTS TableCounters RestoredTables RequestsKept IndexesAfterAllData
PROPERTIES
  RowsStay
  EndsUnlessRetryStranded
