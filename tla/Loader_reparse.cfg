\* Two file type workers read the schema file and a data file of t1.
SPECIFICATION Spec
CONSTANTS
  t1 = t1
  t2 = t2
  s1 = s1
  Databases = {"d"}
  CreateFiles = {"d"}
  Tables = {t1}
  SequenceObjects = {}
  DbOf <- MCDbOf
  SchemaFiles = {t1}
  Parts <- MCParts
  Indexed = {t1}
  TableOrder <- MCOrder
  FileWorkers = {f1, f2}
  SchemaWorkers = {w1, w2}
  Loaders = {l1, l2}
  IndexWorkers = {i1}
  MaxThreads = 1
  RetryCount = 1
  DropFailures = 0
  Modes <- DropMode
PROPERTY RowsStay
CHECK_DEADLOCK FALSE
