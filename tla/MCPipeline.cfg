\* Two workers, the pull service beside them, a cache that may fail, a critical line.
SPECIFICATION Spec
CONSTANTS
    Files = {a}
    Critical = {2}
    ScanSizes = {1, 2}
    MaxLines = 3
    MaxCrashes = 1
    Workers = {v, w}
    DualMode = TRUE
    MaxStoreFailures = 1
SYMMETRY WorkerSymmetry
INVARIANTS GapsOfCheckpoint
PROPERTY CachedUntilSent
