SPECIFICATION FairSpec
CONSTANTS
  Mints = {m1, m2}
  NoMint = NoMint
  Trackers = {t1}
  Cleaners = {exec}
  Pruners = {}
PROPERTY TrackedIsFollowed
