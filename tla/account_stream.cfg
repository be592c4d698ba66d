SPECIFICATION FairSpec
CONSTANTS
  Mints = {m1}
  NoMint = NoMint
  Trackers = {t1}
  Cleaners = {untrack}
  Pruners = {untrack}
INVARIANTS TypeOK NoBalanceLeft
PROPERTIES StreamStarts GrowthFollowed
