CONSTANTS
  u1 = u1
  u2 = u2
  r1 = r1
  r2 = r2
  r3 = r3
  Users = {u1, u2}
  NoUser = NoUser
  Requests = {r1, r2, r3}
  NoHash = NoHash
  NoBid = NoBid
  NoOrder = NoOrder
  RuleSet <- MCRules
  Inputs <- SaleInputs
  b1 = b1
  b2 = b2
  p1 = p1
  BidCalls = {b1, b2}
  CancelCalls = {}
  StartCalls = {}
  UpdateCalls = {}
  PayCalls = {p1}
  Timer = Timer
  Faults = {"db", "rollback", "redis", "flush", "crash"}
  MaxInFlight = 2
  MaxTime = 3
  TopN = 2

SPECIFICATION Spec
SYMMETRY BidSymmetry
INVARIANTS
  TypeOK
  RowSoldHasOrder
  AckedBidDurable
PROPERTIES
  OrderStands
CHECK_DEADLOCK FALSE
