SPECIFICATION Spec
CONSTANTS
  User = {u1, u2}
  Tab = {ta}
  MaxMatches = 2
  MaxRestarts = 0
  NoUser = NoUser
  NoSocket = NoSocket
  u1 = u1
  u2 = u2
  ta = ta
CHECK_DEADLOCK FALSE
INVARIANTS
  OnlySkippedAreGhosts
PROPERTIES
  AbandonedLobbyIsTimed
  DecidedFightsClose
  AbandonedChallengesGo
