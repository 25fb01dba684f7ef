SPECIFICATION Spec
CONSTANTS
  Callers = {c1, c2}
  Keys = {k1}
  OrderIds = {o1, o2}
  ExtIds = {e1, e2}
  MaxConcurrent = 2
  MaxRejects = 1
  MaxErrors = 1
  ApiMayFail = TRUE
  None = None
SYMMETRY Symmetry
INVARIANTS
  TypeOK
  StoreMatchesExchange
  CancelledMeansGone
  AtMostOneLiveOrder
PROPERTY ImplementsLedger
