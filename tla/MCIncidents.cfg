\* Three handlers on one incident.
SPECIFICATION IncidentsSpec
CONSTANTS
    Requests = {r1, r2, r3}
    Sources = {}
    Manual = manual
    Watched = {"created", "open", "acknowledged", "investigating", "resolved", "closed"}
    MaxIncidents = 1
SYMMETRY RequestSymmetry
INVARIANTS ResolvedWasInvestigated TimelineIsTrue
\* With every row deleted and MaxIncidents created, nothing is left to do.
CHECK_DEADLOCK FALSE
