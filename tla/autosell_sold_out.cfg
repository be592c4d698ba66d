SPECIFICATION Spec
CONSTANTS
  Groups = {g1, g2}
  NoGroup = NoGroup
  MaxBuys = 2
  BuyAmounts = {2}
  Estimates = {2}
  MaxRetries = 1
  MaxSkips = 2
  MaxAttempts = 2
  TryBound = 1
  QueueBound = 1
  PartialExits = FALSE
  TgEnabled = FALSE
  Percents = {50}
SYMMETRY GroupSymmetry
INVARIANT SoldOutIsClosed
CHECK_DEADLOCK FALSE
