SPECIFICATION MCSpec
CONSTANTS
  Workers = {w1, w2}
  Conditions = {"hot", "unrouted"}
  Scans = {"loop", "api"}
  Absences = {0, 14}
  Counts = {0, 3}
  MaxAge = 0
  MaxChanges = 1
  MaxFailures = 1
  w1 = w1
  w2 = w2
  None = None
  Digests = {1}
  Nodes = {1, 2, 3}
  Size <- UnitSize
  Recorded <- FirstOnly
  Reachable = {1, 2, 3}
  MaxProbes = 6
  ProbeBytes = 6
  MaxRepairs = 1
  Period = 6
  MaxFaults = 2
INVARIANTS EvidenceSound AppliedIsLedgered
PROPERTIES RepairIsNeeded RoomyReconciles Converges
CHECK_DEADLOCK FALSE
