\* Two workers and two connections, any two of three jobs.
CONSTANTS
    None = None
    Data = Data
    Load = Load
    Schema = Schema
    Threads = {t1, t2}
    Conns = {c1, c2}
    Jobs = {Data, Load, Schema}
    ScriptOf <- Scripts
    FromFile = {Data, Load}
    SchemaJobs = {Schema}
    MaxThreads = 2
    Pieces = 1
    Prefill = 1
    CommitCount = 2
    Faults = {"timeout", "refused", "deadlock", "lost", "answer lost", "commit"}
    MaxFaults = 1
    MaxJobs = 2
SPECIFICATION FairSpec
INVARIANTS PoolClean RestoredOnce LoadAfterArrival
PROPERTY Termination
CHECK_DEADLOCK FALSE
