SPECIFICATION Spec
CONSTANTS
    Workers = {w1, w2}
    SyncModes = {"LOCK"}
    MaxRetries = 1
    MaxPos = 2
    None = None
INVARIANTS SnapshotMaintained
