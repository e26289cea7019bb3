SPECIFICATION Spec
CONSTANTS
  User = {u1, u2}
  Tab = {ta, tb}
  MaxMatches = 1
  MaxRestarts = 0
  NoUser = NoUser
  NoSocket = NoSocket
  u1 = u1
  u2 = u2
  ta = ta
  tb = tb
CHECK_DEADLOCK FALSE
PROPERTY
  ChallengeLivesWithCreator
