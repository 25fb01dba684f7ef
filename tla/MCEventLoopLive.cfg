SPECIFICATION FairLoopSpec
CONSTANTS
  Tick = tick
  Signals = {term}
  Callers = {tick, term}
  Keys = {k1}
  OrderIds = {o1}
  ExtIds = {e1}
  MaxConcurrent = 1
  MaxRejects = 2
  MaxErrors = 1
  MaxRecs = 1
  ApiMayFail = TRUE
  DayMayRoll = TRUE
  None = None
PROPERTIES RestingOrdersResolve SubmissionsSettle SignalsEnd
CHECK_DEADLOCK FALSE
