SPECIFICATION KeysSpec
CONSTANTS
    n1 = n1
    n2 = n2
    j1 = j1
    j2 = j2
    j3 = j3
    k1 = k1
    k2 = k2
    k3 = k3
    s1 = s1
    s2 = s2
    Nodes = {n1, n2}
    JobIds = {j1, j2}
    Keys = {k1, k2}
    SetIds = {s1, s2}
    Jobs <- ReusedKey
    ShardSets <- RivalSets
    Slots = 1
    Joining = {n1}
    Forgettable = {n1}
    AppendMayFail = TRUE
    MaxWaiting = 1
    MaxEpoch = 1
    MaxBatches = 3
    MaxEvents = 6
INVARIANTS OneLeasePerKey SetAdmittedOnce
