\* Two rules, one of them silenced, and a threshold, one report and one request at a time, restarts and failed statements.
SPECIFICATION FairSpec
CONSTANTS
    Rules = {noisy, muted}
    Thresholds = {cpuHigh}
    Sources = {noisy, muted, cpuHigh}
    Silenced = {muted}
    Loop = loop
    Reports = {report1}
    Requests = {r1}
    Manual = manual
    Watched = {"closed"}
    MaxIncidents = 2
    MaxFaults = 1
    MaxRestarts = 1
\* With every row deleted and MaxIncidents created, nothing is left to do.
CHECK_DEADLOCK FALSE
INVARIANTS OneUnresolvedIncident OneAlertPerWindow
 
