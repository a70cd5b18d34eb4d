\* A table whose largest key is the largest integer, with a gap and steps
\* that adapt to the time measured.
CONSTANTS
    MaxU = 15
    Rows = {3, 4, 5, 9, 10, 14, 15}
    FirstKey = 3
    LastKey = 15
    FixedLength = FALSE
    MinStep = 1
    MaxStep = 4
    StartStep = 2
    Measured = {0, 3}
    MaxThreads = 2
    ExactParts = 8
SPECIFICATION FairSpec
INVARIANTS TypeOK CursorInside AtMostOnce NothingMissing FilesDistinct
PROPERTIES ImplementsTableExport Termination
CHECK_DEADLOCK FALSE
