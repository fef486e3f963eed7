SPECIFICATION StoreSpec
CONSTANTS
  PutCall = {p1, p2, p3}
  Content = {a, b, big}
  Oversized = {big}
  NoPut = NoPut
  MaxCrashes = 2
INVARIANTS StoreInv
PROPERTIES ExistingIsJudgedRightly
CHECK_DEADLOCK FALSE
