CONSTANTS
  u1 = u1
  u2 = u2
  r1 = r1
  r2 = r2
  r3 = r3
  Users = {u1, u2}
  NoUser = NoUser
  Requests = {r1, r2, r3}
  NoHash = NoHash
  NoBid = NoBid
  NoOrder = NoOrder
  RuleSet <- TwoRules
  Inputs <- SaleInputs
  b1 = b1
  c1 = c1
  s1 = s1
  s2 = s2
  e1 = e1
  BidCalls = {b1}
  CancelCalls = {c1}
  StartCalls = {s1, s2}
  UpdateCalls = {e1}
  PayCalls = {}
  Timer = Timer
  Faults = {"resend", "evict"}
  MaxInFlight = 2
  MaxTime = 2
  TopN = 2

SPECIFICATION Spec
INVARIANTS
  OnlyStartedInRedis
PROPERTIES
  MirrorNeverRewinds
CHECK_DEADLOCK FALSE
