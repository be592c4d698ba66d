SPECIFICATION FairSpec
CONSTANTS
  Groups = {g1}
  NoGroup = NoGroup
  MaxBuys = 1
  BuyAmounts = {2}
  Estimates = {0, 2}
  MaxRetries = 2
  MaxSkips = 1
  MaxAttempts = 1
  TryBound = 1
  QueueBound = 1
  PartialExits = TRUE
  TgEnabled = FALSE
  Percents = {50}
PROPERTIES SaleEnds SaleLetsGo PositionsMoveOn
CHECK_DEADLOCK FALSE
