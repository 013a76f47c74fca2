SPECIFICATION WarmSpec
CONSTANTS
    n1 = n1
    n2 = n2
    j1 = j1
    j2 = j2
    j3 = j3
    k1 = k1
    k2 = k2
    k3 = k3
    s1 = s1
    s2 = s2
    Nodes = {n1}
    JobIds = {j1, j2, j3}
    Keys = {k1, k2, k3}
    SetIds = {s1, s2}
    Jobs <- ThreeJobs
    ShardSets <- PairSet
    Slots = 2
    Joining = {}
    Forgettable = {}
    AppendMayFail = TRUE
    MaxWaiting = 1
    MaxEpoch = 1
    MaxBatches = 2
    MaxEvents = 6
INVARIANTS NoOvercommit
