SPECIFICATION FairSpec
CONSTANTS
  MaxId = 3
  Wallets = {w1}
  NoWallet = NoWallet
  DefaultWallets = {}
  Given <- MCGiven
  MaxBatch = 2
  MaxFaults = 1
INVARIANTS TypeOK SelectedExists RestartRecovers RedoneLikeOnce FilterIsRemembered
PROPERTIES WalletFollowed LeaverDropped
