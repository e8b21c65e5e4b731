CONSTANTS
  u1 = u1
  u2 = u2
  u3 = u3
  c1 = c1
  c2 = c2
  c3 = c3
  Users = {u1, u2, u3}
  NoUser = NoUser
  Requests = {c1, c2, c3}
  Calls = {c1, c2, c3}
  NoHash = NoHash
  RuleSet <- MCRules
  Window = 2
  Limit = 1
  TopN = 2
  MaxTime = 2

SPECIFICATION Spec
SYMMETRY CallSymmetry
INVARIANTS
  TypeOK
  RateHolds
  BoardNotBehind
  NoticeIsTrue
  SaleIsAnnounced
PROPERTIES
  RefusedWhenFull
CHECK_DEADLOCK FALSE
