SPECIFICATION FairSpec
CONSTANTS
  Groups = {g1}
  NoGroup = NoGroup
  MaxBuys = 1
  BuyAmounts = {2}
  Estimates = {2}
  MaxRetries = 1
  MaxSkips = 2
  MaxAttempts = 2
  TryBound = 1
  QueueBound = 1
  PartialExits = FALSE
  TgEnabled = FALSE
  Percents = {50}
PROPERTY FallbackReturns
CHECK_DEADLOCK FALSE
