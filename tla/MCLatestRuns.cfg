CONSTANTS
    g1 = g1
    o1 = o1
    k1 = k1
    Fn = {g1}
    FnType <- Types
    ArgObj = {o1}
    FnCall = {k1}
    MaxSets = 2
    MaxSetArgs = 0
SPECIFICATION FuncsSpec
CHECK_DEADLOCK FALSE
INVARIANT LatestRuns
