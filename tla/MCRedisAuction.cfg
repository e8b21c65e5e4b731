CONSTANTS
  u1 = u1
  u2 = u2
  u3 = u3
  r1 = r1
  r2 = r2
  r3 = r3
  r4 = r4
  Users = {u1, u2, u3}
  NoUser = NoUser
  Requests = {r1, r2, r3, r4}
  NoHash = NoHash
  RuleSet <- MCRules
  MaxTime = 7

SPECIFICATION Spec
INVARIANTS
  TypeOK
  LeaderTopsBoard
  CapMeansSold
  RulesMatchScript
PROPERTIES
  NoSniping
  DeadlineKept
  ImplementsEnglishAuction
CHECK_DEADLOCK FALSE
