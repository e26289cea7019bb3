SPECIFICATION Spec
CONSTANTS
  User = {u1, u2, u3}
  Tab = {ta, tb}
  MaxMatches = 1
  MaxRestarts = 1
  NoUser = NoUser
  NoSocket = NoSocket
  u1 = u1
  u2 = u2
  u3 = u3
  ta = ta
  tb = tb
CHECK_DEADLOCK FALSE
SYMMETRY ClubSymmetry
INVARIANTS
  TypeOK
  RecordIsRight
PROPERTIES
  ImplementsFight
  CancelledAfterGrace
