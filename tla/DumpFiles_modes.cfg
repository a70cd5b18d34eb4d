\* Two workers, two close threads and two command threads.
CONSTANTS
    Workers = {w1, w2}
    CloseThreads = {c1, c2}
    ExecThreads = {e1, e2}
    Scenarios <- MCScenarios
    MaxPartials = 1
    StatementSize = 8
    ChunkFilesize = 9
    HeaderSize = 1
    InsertSize = 1
    TerminatorSize = 1
    RowBatch = 2
SPECIFICATION Spec
INVARIANTS OutputComplete StreamSound ChildrenBounded
PROPERTY Termination
CHECK_DEADLOCK FALSE
