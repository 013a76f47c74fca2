SPECIFICATION ReplaySpec
CONSTANTS
    n1 = n1
    n2 = n2
    j1 = j1
    j2 = j2
    k1 = k1
    k2 = k2
    s1 = s1
    Nodes = {n1, n2}
    JobIds = {j1, j2}
    Keys = {k1, k2}
    SetIds = {s1}
    Jobs <- TwoJobs
    ShardSets <- TwoSets
    Feed <- Events
    Epoch = 2
    Stale <- StaleLeases
    MaxLength = 5
INVARIANT RestoreIsReplay
CHECK_DEADLOCK FALSE
