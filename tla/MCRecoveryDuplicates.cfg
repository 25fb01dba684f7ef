SPECIFICATION RecoverySpec
CONSTANTS
  Tick = tick
  Callers = {tick}
  Keys = {k1, r1, r2}
  RecoveredKeys = {r1, r2}
  OrderIds = {o1, o2, o3}
  ExtIds = {e1, e2}
  MaxConcurrent = 2
  MaxRejects = 1
  MaxErrors = 1
  ApiMayFail = FALSE
  Closings = {}
  MaxBoots = 2
  None = None
INVARIANT NoDuplicateAfterRestart
CHECK_DEADLOCK FALSE
