SPECIFICATION FairSpec
CONSTANTS
  Tokens = {t}
  Sizes = {3}
  Books <- BooksDef
  MaxOrderQty = 2
  MaxOrderNotional = 4
  MaxPosition = 2
  MaxSlippageBps = 5000
  MinLiquidity = 2
  MaxDailyLoss = 2
  FillEvents = TRUE
  Restored <- RestoredDef
  MaxOrders = 2
INVARIANTS AccountsTypeOK CapPlusBlind
PROPERTIES NoOrderPastLoss FillsKeepValue PositionsConverge
CHECK_DEADLOCK FALSE
