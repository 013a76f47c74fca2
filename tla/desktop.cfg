SPECIFICATION MCSpec
CONSTANTS
  Runtimes <- SmallRuntimes
  MaxSpawns = 2
  MaxGen = 2
  MaxFaults = 1
  MaxLosses = 1
  Owners = {o1}
  Chunks = 2
  MaxPending = 1
  NoOwner = NoOwner
  MaxGenerations = 3
  MaxKeys = 2
  MaxNonces = 1
  MaxDrops = 0
  MaxRestarts = 1
CHECK_DEADLOCK FALSE
INVARIANTS   CancelHolds JoinsShownCode ScreensTellTruth
PROPERTIES  WorkerComesBack ApprovalLands
