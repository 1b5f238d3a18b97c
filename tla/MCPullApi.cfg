\* Callers name cursors or leave them to the agent, their scopes overlap; lines join records
\* and overtake each other; the buffer overflows.
SPECIFICATION ApiSpec
CONSTANTS
    Files = {a}
    Critical = {2}
    ScanSizes = {1, 2}
    MaxLines = 4
    MaxCrashes = 1
    Scopes = {p1, p2}
    FilesOf <- AllFiles
    Continuations = {3}
    Repeats = {1, 4}
    MaxBuffered = 2
    PullSizes = {1, 2}
    Cursors = {1, 3, none}
    CommitCursors = {3, none}
    NoCursor = none
    BatchIds = {x, y}
SYMMETRY Interchangeable
INVARIANTS CommittedCoversOnlyAcked UnackedSurvivesCrash
PROPERTY CommittedNeverMovesBack
