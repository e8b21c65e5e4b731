CONSTANTS
  p1 = p1
  p2 = p2
  p3 = p3
  a1 = a1
  a2 = a2
  Auctions = {a1, a2}
  Passes = {p1, p2, p3}
  Cold = {a1}
  Failing = {a1}
  NoHash = NoHash
  NoBid = NoBid
  MaxTime = 2

SPECIFICATION FairSpec
INVARIANTS
  TypeOK
  SettledOnce
  AnnouncedIsStored
  OneAwaited
PROPERTIES
  EndIsFinal
  OthersAreSettled
CHECK_DEADLOCK FALSE
