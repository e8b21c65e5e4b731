CONSTANTS
  u1 = u1
  u2 = u2
  r1 = r1
  r2 = r2
  r3 = r3
  Users = {u1, u2}
  NoUser = NoUser
  Requests = {r1, r2, r3}
  NoHash = NoHash
  NoBid = NoBid
  NoOrder = NoOrder
  RuleSet <- MCRules
  Inputs <- SaleInputs
  b1 = b1
  b2 = b2
  BidCalls = {b1, b2}
  CancelCalls = {}
  StartCalls = {}
  UpdateCalls = {}
  PayCalls = {}
  Timer = Timer
  Faults = {}
  MaxInFlight = 2
  MaxTime = 3
  TopN = 2

SPECIFICATION Spec
INVARIANT OrderGoesToLeader
CHECK_DEADLOCK FALSE
