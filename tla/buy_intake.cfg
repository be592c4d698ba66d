SPECIFICATION Spec
CONSTANTS
  Tasks = {t1, t2, t3}
  Keys = {k1, k2}
  NoKey = NoKey
  Pools = {direct, wrapper}
  NoPool = NoPool
  Permits = 2
  Wallets = {w1, w2}
  Us = us
  Fees = {fee, fee2}
  OurFee = fee
  Buybacks = {buyback, buyback2}
  OurBuyback = buyback
  MaxReserve = 8
SYMMETRY TaskSymmetry
INVARIANTS TypeOK OneBuyAtATime ClaimHasOwner BuyIsPlaced SellIsPlaced QuotesAreSafe
PROPERTIES CooldownKept ImplementsBuys
