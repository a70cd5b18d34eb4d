\* Six keys, three first characters, three threads on the table.
CONSTANTS
    Rows <- MCRows
    MaxKeyLength = 2
    MaxItemsOptions = {0, 1, 2, 5}
    PartBits = 3
    MantissaBits = 1
    MaxThreads = 3
SPECIFICATION FairSpec
INVARIANT PartsDistinct
PROPERTIES ImplementsTableExport EndsUnlessStuck
CHECK_DEADLOCK FALSE
