SPECIFICATION FairSpec
CONSTANTS
    s1 = s1
    s2 = s2
    d1 = d1
    d2 = d2
    Sessions = {s1, s2}
    Digests = {d1, d2}
    DigestOf <- Binding
    Chunks = {0, 1}
    Leases <- AllLeases
    Perishable <- OldLeases
    Limit = 1
    MaxFaults = 2
INVARIANTS NothingLost QuotaHeld
PROPERTIES UploadCompletes
CHECK_DEADLOCK FALSE
