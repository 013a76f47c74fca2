CONSTANTS
  Jobs = {j1, j2}
  Kinds = {"serve", "once", "edge"}
  MaxFaults = 2
  MaxStops = 1
SPECIFICATION FairSpec
INVARIANTS  RecordedMeansRun
PROPERTIES OutboxRetained  StopEndsLoop
CHECK_DEADLOCK FALSE
