CONSTANTS
  NoUser = NoUser
  Null = Null
  NoHash = NoHash
  Scripts <- AllScripts

SPECIFICATION FairSpec
INVARIANTS
  TypeOK
  VerdictIsPass
PROPERTIES
  DriverFinishes
CHECK_DEADLOCK FALSE
