SPECIFICATION FairSpec
CONSTANTS
    Workers = {w1, w2}
    d1 = d1
    d2 = d2
    t1 = t1
    t2 = t2
    v1 = v1
    Databases = {d1, d2}
    Tables = {t1, t2, v1}
    Routines = {d1}
    DatabaseOf <- MCDatabaseOf
    KindOf <- MCKindOf
INVARIANTS QueuesSound ListsComplete BackupComplete
PROPERTIES
    Termination
CHECK_DEADLOCK FALSE
