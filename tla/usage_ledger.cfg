SPECIFICATION Spec
CONSTANTS
  Turn = {t1, t2, t3}
  MaxIterations = 2
  MaxCalls = 3
  Day <- TwoDays
  Estimate = 2
  MaxCost = 3
  Cap = 2
  ProviderLimit = 2
  SseLimit = 1
  Environment <- Expiries
SYMMETRY AnyTurn
INVARIANTS TypeOK LedgerMatches OvershootBounded SlotsMatchHolders
CHECK_DEADLOCK FALSE
