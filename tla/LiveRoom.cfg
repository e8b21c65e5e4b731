CONSTANTS
  a1 = a1
  a2 = a2
  b1 = b1
  k1 = k1
  Auctions = {a1, a2}
  NoAuction = NoAuction
  Bids = {b1}
  Closings = {k1}
  NoSnapshot = NoSnapshot
  MaxDrops = 1
  MaxPicks = 2

SPECIFICATION Spec
INVARIANTS
  TypeOK
  FollowsInRoom
  NothingMissed
SYMMETRY AuctionSymmetry
CHECK_DEADLOCK FALSE
