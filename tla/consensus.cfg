SPECIFICATION FairSpec
CONSTANTS
  Wallets = {w1, w2, w3}
  Slots = {a}
  Shapes <- MCShapes
  Mins = {2}
  Timeout = 2
  MaxDelay = 0
  ChannelBound = 1
INVARIANTS TypeOK ReachedMeansTriggered RejectedStaysOut
PROPERTIES ImplementsVoting TriggerJustified TriggeredEnds
