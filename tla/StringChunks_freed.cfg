\* The default of --max-items-per-string-chunk.
CONSTANTS
    Rows <- MCRows
    MaxKeyLength = 2
    MaxItemsOptions = {5}
    PartBits = 30
    MantissaBits = 20
    MaxThreads = 2
SPECIFICATION Spec
INVARIANT NothingMissing
CHECK_DEADLOCK FALSE
