SPECIFICATION LoopSpec
CONSTANTS
  Tick = tick
  Signals = {term}
  Callers = {tick, term}
  Keys = {k1, k2}
  OrderIds = {o1, o2}
  ExtIds = {e1, e2}
  MaxConcurrent = 1
  MaxRejects = 2
  MaxErrors = 1
  MaxRecs = 2
  ApiMayFail = TRUE
  DayMayRoll = FALSE
  None = None
SYMMETRY Symmetry
INVARIANTS LoopTypeOK 
PROPERTY NoOrderAfterStop
CHECK_DEADLOCK FALSE
