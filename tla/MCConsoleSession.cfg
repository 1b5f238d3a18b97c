SPECIFICATION Spec
CONSTANTS
    t1 = t1
    t2 = t2
    Tab = {t1, t2}
    MaxToken = 2
    MaxActs = 1
SYMMETRY TabSymmetry
INVARIANTS
    OneLiveTokenPerFamily
    LoadingAwaitsACall
CHECK_DEADLOCK FALSE
