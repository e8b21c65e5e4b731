CONSTANTS
  u1 = u1
  u2 = u2
  r1 = r1
  r2 = r2
  r3 = r3
  Users = {u1, u2}
  NoUser = NoUser
  Requests = {r1, r2, r3}
  NoHash = NoHash
  NoBid = NoBid
  NoOrder = NoOrder
  RuleSet <- MCRules
  Inputs <- MCInputs
  b1 = b1
  b2 = b2
  c1 = c1
  BidCalls = {b1, b2}
  CancelCalls = {c1}
  StartCalls = {}
  UpdateCalls = {}
  PayCalls = {}
  Timer = Timer
  Faults = {}
  MaxInFlight = 4
  MaxTime = 4
  TopN = 2

SPECIFICATION FairSpec
INVARIANT MirrorCaughtUp
PROPERTIES
  AuctionEnds
CHECK_DEADLOCK FALSE
