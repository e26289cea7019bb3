SPECIFICATION Spec
CONSTANTS
  ana = ana
  ben = ben
  root = root
  User = {ana, ben, root}
  Admin = {root}
  Creator = ana
  Goods <- MCGoods
  Stock <- MCStock
  Rolls <- MCRolls
  Layouts <- MCLayouts
  Showcases <- MCShowcases
  Crowds <- MCCrowds
  Instants = {2870, 2890, 5775}
  StartAura = 1400
  StartDebt = 50
  StartRespects = 9
  Nothing = nothing
  Txn = {1, 2, 3}
CHECK_DEADLOCK FALSE
INVARIANTS TypeOK BooksBalance NothingTwice NothingUnowned DeadlocksAreOfItems
PROPERTY ImplementsTill
