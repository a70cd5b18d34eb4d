\* Two workers, tables in both stages, with and without --use-defer.
CONSTANTS
    Workers = {w1, w2}
    NonTransactional = {t1}
    Transactional = {t2, t3}
    Options <- MCOptions
    MaxChunks = 2
    MaxGuint = 7
    NoTable = NoTable
SPECIFICATION FairSpec
INVARIANTS CounterHonest OneAnswerPerRequest EveryChunkDumped DeferredLast
PROPERTY Termination
CHECK_DEADLOCK FALSE
