SPECIFICATION WarmSpec
CONSTANTS
    n1 = n1
    n2 = n2
    j1 = j1
    j2 = j2
    j3 = j3
    k1 = k1
    k2 = k2
    k3 = k3
    s1 = s1
    s2 = s2
    Nodes = {n1}
    JobIds = {j1}
    Keys = {k1}
    SetIds = {s1}
    Jobs <- OneJob
    ShardSets <- NoSets
    Slots = 1
    Joining = {}
    Forgettable = {}
    AppendMayFail = TRUE
    MaxWaiting = 1
    MaxEpoch = 3
    MaxBatches = 2
    MaxEvents = 7
INVARIANTS TypeOK SingleUse StopFencesEarlierLeases RestartKeepsWork
PROPERTIES AuthorityRefinement
