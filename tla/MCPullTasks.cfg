\* A source with an operator beside one without; goroutines end before their task is stale.
SPECIFICATION FairSpec
CONSTANTS
    Sources = {s1, s2}
    ManualSources = {s2}
    TaskIds = {t1, t2, t3}
    NoSource = none
    Interval = 1
    StaleAfter = 2
    MaxRun = 2
    MaxRestarts = 1
INVARIANTS   LiveTaskInFlight
PROPERTY SourceScheduledAgain
