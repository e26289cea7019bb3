SPECIFICATION Spec
CONSTANTS
  Login = {l1}
  Socket = {s1}
  MaxNow = 2
  NoLogin = NoLogin
  Request = {r1, r2, r3, r4}
  Until = {1, 5}
  AutobanDuration = 2
  Century = 9
  r1 = r1
  r2 = r2
  r3 = r3
  r4 = r4
SYMMETRY RequestSymmetry
CHECK_DEADLOCK FALSE
INVARIANTS
  TypeOK
  SocketsAreAccepted
  WarnsCountIsRight
PROPERTIES
  RefusedForGood
  ThirdWarningBans
  BanIsNotShortened
