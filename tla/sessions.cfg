SPECIFICATION MCSpec
CONSTANTS
  MaxSids = 2
  MaxOpen = 2
  Modes = {"view", "control"}
  MaxSessions = 16
  MaxSeq = 2
  MaxLeases = 2
  MaxCalls = 3
  MaxFaults = 1
  MaxStops = 1
  Invocations = {r1}
  Hosts = {n1, n2}
  Versions = {d1, d2}
  MaxDeltas = 2
  Channel = 1
  MaxBreaks = 1
  MaxHalts = 1
INVARIANTS StopClears LeaseInputsInOrder
PROPERTIES  StopEndsRead SessionFreesGate
CHECK_DEADLOCK FALSE
