\* One task at a time, failing writes, one fault, and an agent that restarts and numbers its records anew.
SPECIFICATION FairSpec
CONSTANTS
    Files = {a}
    Critical = {}
    ScanSizes = {1, 2}
    MaxLines = 3
    MaxCrashes = 1
    Scopes = {all}
    FilesOf <- AllFiles
    Continuations = {}
    Repeats = {}
    MaxBuffered = 3
    PullSizes = {1, 2}
    Cursors = {none}
    CommitCursors = {none}
    NoCursor = none
    BatchIds = {x, y}
    Workers = {w}
    MaxFaults = 1
INVARIANT AckedIsIndexed
 
