CONSTANTS
  u1 = u1
  u2 = u2
  r1 = r1
  r2 = r2
  r3 = r3
  Users = {u1, u2}
  NoUser = NoUser
  Requests = {r1, r2, r3}
  NoHash = NoHash
  NoBid = NoBid
  NoOrder = NoOrder
  RuleSet <- TwoRules
  Inputs <- MCInputs
  b1 = b1
  b2 = b2
  b3 = b3
  c1 = c1
  s1 = s1
  e1 = e1
  p1 = p1
  BidCalls = {b1, b2, b3}
  CancelCalls = {c1}
  StartCalls = {s1}
  UpdateCalls = {e1}
  PayCalls = {p1}
  Timer = Timer
  Faults = {"rollback"}
  MaxInFlight = 1
  MaxTime = 4
  TopN = 1

SPECIFICATION Spec
SYMMETRY BidSymmetry
INVARIANTS
  StoresAgree
  RefusedLeavesNoTrace
CHECK_DEADLOCK FALSE
