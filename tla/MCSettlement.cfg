CONSTANTS
  User = {adam, bob}
  Txn = {t1, t2, t3}
  Stake = {1, 3}
  Policies = 1
  NoTxn = NoTxn
  NoRow = NoRow
  NoUser = NoUser
SPECIFICATION Spec
CHECK_DEADLOCK FALSE
INVARIANTS
  TypeOK
  ReadsAreFresh
  BalancesMatchFights
  StreaksMatchFights
  NoFreeInsurance
PROPERTIES
  ImplementsLedger
  TransactionsEnd
