CONSTANTS
  u1 = u1
  u2 = u2
  r1 = r1
  r2 = r2
  r3 = r3
  Users = {u1, u2}
  NoUser = NoUser
  Requests = {r1, r2, r3}
  NoHash = NoHash
  NoBid = NoBid
  NoOrder = NoOrder
  RuleSet <- MCRules
  Inputs <- MCInputs
  b1 = b1
  b2 = b2
  b3 = b3
  c1 = c1
  BidCalls = {b1, b2, b3}
  CancelCalls = {c1}
  StartCalls = {}
  UpdateCalls = {}
  PayCalls = {}
  Timer = Timer
  Faults = {"crash", "resend"}
  MaxInFlight = 5
  MaxTime = 3
  TopN = 2

SPECIFICATION Spec
SYMMETRY BidSymmetry
INVARIANTS
  MirrorBehind
  RecordedIsKnown
  OrderMeansSold
PROPERTIES
  NeverBackward
  ImplementsRedisAuction
CHECK_DEADLOCK FALSE
