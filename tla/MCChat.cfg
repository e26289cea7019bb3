SPECIFICATION Spec
CONSTANTS
  ana = ana
  ben = ben
  root = root
  User = {ana, ben, root}
  Owner = ana
  Txn = {1, 2, 3}
  Crowds <- MCCrowds
  Password = {"old", "new"}
  StartRooms <- MCStartRooms
  Indebted = {}
  Grown = {ana}
  ThemesOwned <- MCThemesOwned
  Finders = {}
  AutoApprove = TRUE
  Written = 99
  None = None
CHECK_DEADLOCK FALSE
INVARIANTS TypeOK EveryRuleHeld BlockedTextReviewed FilesMatchMessages
PROPERTY OnlyModeratorsReopen
