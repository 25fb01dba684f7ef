SPECIFICATION FairSpec
CONSTANTS
  Tokens = {a, b}
  Traded = {a}
  TradesEach = 1
  CaptureTrades = TRUE
  WalletTrades = TRUE
  HourLength = 1
  Window = 0
  RoundTime = 1
  Ttl = 1
  MaxTime = 1
  MaxRounds = 2
  None = None
INVARIANTS RecTypeOK TicksMarkRounds FilesByHour EachTradeOnce
PROPERTIES RoundsEnd StopEndsLoop
CHECK_DEADLOCK FALSE
