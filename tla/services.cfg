SPECIFICATION ServicesSpec
CONSTANTS
    n1 = n1
    n2 = n2
    j1 = j1
    j2 = j2
    j3 = j3
    e1 = e1
    e2 = e2
    c1 = c1
    c2 = c2
    c3 = c3
    Endpoints = {e1, e2}
    Conns = {c1, c2, c3}
    Owner <- MCOwner
    CacheFor = 2
    FetchTimeout = 1
    Validity = 4
    MaxPerEndpoint = 1
    MaxTotal = 2
    MaxClock = 4
    NoManifest = NoManifest
    MaxEvents = 3
    MaxMishaps = 3
    Entries = {1, 2, 3}
    GroupKeys = {1, 2}
    Required = {2, 3, 6}
    MaxNodes = 3
    Rtts = {50, 75, 90}
    Mbps = {1, 2, 5, 10, 20}
    NoLink = NoLink
    MaxLost = 1
    Requests <- Posted
    Result <- Report
    Shards <- PairOrDuds
    LeaseNode <- LeasedTo
    Receipt <- SignedBy
INVARIANTS CountsAreConnections  PlansAreSound DividendIsBacked
PROPERTIES StartsSoundly
CHECK_DEADLOCK FALSE
