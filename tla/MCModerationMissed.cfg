SPECIFICATION Spec
CONSTANTS
  Login = {l1}
  Socket = {s1}
  MaxNow = 0
  NoLogin = NoLogin
  Request = {r1, r2, r3}
  Until = {1}
  AutobanDuration = 2
  Century = 9
CHECK_DEADLOCK FALSE
PROPERTY
  ThirdWarningBansAlways
