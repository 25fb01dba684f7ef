SPECIFICATION Spec
CONSTANTS
  Tokens = {a}
  Books <- BooksDef
  Wants = {1, 3}
  MaxHeld = 3
  MaxTicks = 8
  InitialEquity = 100
  EntrySlippageBps = 2000
  ExitSlippageBps = 2500
  FeeBps = 5000
  WarmupTicks = 1
  Cooldown = 2
  MaxHold = 2
  ExitRetry = 2
  None = None
INVARIANTS BacktestTypeOK EquityExplained MarksBelong ExitsAreTried
CHECK_DEADLOCK FALSE
