SPECIFICATION Spec
CONSTANTS
  Groups = {g1}
  NoGroup = NoGroup
  MaxBuys = 1
  BuyAmounts = {2}
  Estimates = {2}
  MaxRetries = 1
  MaxSkips = 2
  MaxAttempts = 2
  TryBound = 1
  QueueBound = 1
  PartialExits = TRUE
  TgEnabled = TRUE
  Percents = {50}
INVARIANTS TypeOK SellExclusion ClosedIsFinal
PROPERTIES ActiveNeedsLanding ImplementsSales
CHECK_DEADLOCK FALSE
