SPECIFICATION RotaSpec
CONSTANTS
  Workers = {w1, w2}
  Conditions = {"hot", "unrouted"}
  Scans = {"loop", "api"}
  Absences = {0, 14}
  Counts = {0, 3}
  MaxAge = 0
  MaxChanges = 1
  MaxFailures = 1
  w1 = w1
  w2 = w2
  None = None
  Digests = {1, 2}
  Nodes = {1, 2, 3, 4}
  Size <- UnitSize
  Recorded <- TwoEach
  Reachable = {3, 4}
  MaxProbes = 4
  ProbeBytes = 2
  MaxRepairs = 4
  Period = 12
  MaxFaults = 0
PROPERTIES EveryHolderHasItsTurn
CHECK_DEADLOCK FALSE
