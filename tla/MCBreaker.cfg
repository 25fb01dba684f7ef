SPECIFICATION FairSpec
CONSTANTS
  MaxPos = 1500
  MaxCatQty = 3000
  MaxExpNotional = 600000
  HalfOpenMaxNotional = 20000
  MaxPositionLoss = 10000
  MinLiqRatio = 3
  MinOrderQty = 5
  MinOrderNotional = 500
  MinVerdict = 15
  Orders = {o1}
  Wants = {10, 1200}
  Asked = {20, 70}
  Seen <- SeenDef
  MaxInvalid = 1
  MaxRecs = 2
  RecoveryTicks = 2
  MinProbeFills = 1
  SlipThreshold = 2
  RejectThreshold = 2
  PoorThreshold = 1
  InvalidThreshold = 2
  SlipWindow = 2
  RejectWindow = 3
  PoorWindow = 1
  InvalidWindow = 2
INVARIANTS BreakerTypeOK HealthyUnlessOpen 
PROPERTIES PauseLasts QuietRecovers ProbesClose
