SPECIFICATION FairSpec
CONSTANTS
  m1 = m1
  m2 = m2
  d1 = d1
  h1 = h1
  Devs = {d1}
  NoDev = NoDev
  Mints = {m1, m2}
  Handles = {h1}
  NoHandle = NoHandle
  Creator <- MCCreator
  Payer <- MCPayer
  Handle <- MCHandle
  History = {m1, m2}
  Watched = {m1, m2}
  MaxCrashes = 1
  NoMint = NoMint
  Tasks = {t1, t2}
  NoTask = NoTask
  Traded = {m1}
  MaxPrefetches = 1
INVARIANTS TypeOK MigrationsCounted BackfillIsWhole MintsLinkedOnce OneFetchPerMint
PROPERTIES LookedUpIsCached
