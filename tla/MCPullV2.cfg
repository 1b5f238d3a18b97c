\* Callers send any cursor; critical lines overtake others; the buffer can overflow.
SPECIFICATION Spec
CONSTANTS
    Files = {a}
    Critical = {2}
    ScanSizes = {1, 2}
    MaxLines = 6
    MaxCrashes = 2
    MaxBuffered = 3
    PullSizes = {1, 2}
    Cursors = {1, 2, none}
    NoCursor = none
    MaxBatches = 3
INVARIANTS TypeOK UnacknowledgedKept DefaultCursorSkipsNothing  
PROPERTY ImplementsLog
