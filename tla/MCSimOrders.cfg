SPECIFICATION FairSpec
CONSTANTS
  MaxSize = 3
  Sizes = {3}
  Dirs = {"YES"}
  Strats = {"patient"}
  PatientSlice = 2
  TwapSlices = 2
  MinQty = 2
  RetryBudget = 1
  MaxSpawnDepth = 1
  MaxSpawns = 1
  MaxNew = 2
  MaxOrders = 6
  None = None
INVARIANTS SimTypeOK EveryOrderOnce ChainsEnd 
PROPERTY PartialResolves
