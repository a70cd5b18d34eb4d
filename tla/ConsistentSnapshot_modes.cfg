SPECIFICATION FairSpec
CONSTANTS
    Workers = {w1, w2, w3}
    SyncModes = {"LOCK", "GTID", "SAFE_NO_LOCK", "NO_LOCK"}
    MaxRetries = 3
    MaxPos = 2
    None = None
INVARIANTS Consistent ComparedAtRest
PROPERTIES
    Termination
