-------------------------- MODULE SettlementProofs --------------------------
(***************************************************************************)
(* That the transactions of Settlement amount to the single steps of       *)
(* Ledger, for any number of users, transactions, stakes and policies.     *)
(* The argument is two-phase locking: whatever a transaction has read, it  *)
(* read under a lock it keeps until its end, and only the end of a         *)
(* transaction changes accounts, and only those it has locked.             *)
(***************************************************************************)
EXTENDS Settlement, FiniteFacts

(* Which of its variables a transaction needs set, by the statement it is
   at: the part of the invariant that is not about locks. *)
JobOK ==
  \A t \in Txn :
    /\ pc[t] \in {"selectLoser", "clearFlags", "pay"} =>
         fight[t] \in Row /\ fight[t].winner # fight[t].loser
    /\ pc[t] \in {"selectOwner", "arm"} => owner[t] \in User

IInv == TypeOK /\ JobOK /\ ReadsAreFresh

(* What a fight does to an account leaves an account. *)
LEMMA PaidType ==
  ASSUME account \in [User -> Account], NEW r \in Row
  PROVE  Paid(r) \in [User -> Account]
<1>0. r.stake \in Nat
  BY StakeAssumption DEF Row
<1>1. r.stake \in Int /\ r.stake \div 2 \in Int
  <2>1. \A n \in Nat : n \in Int /\ n \div 2 \in Int
    OBVIOUS
  <2>. QED
    BY <1>0, <2>1
<1>2. Moved(r, "aura") \in Int /\ Moved(r, "debt") \in Int
  BY <1>1 DEF Moved, Amount
<1>3. ASSUME NEW a \in Account
      PROVE  Won(a, r) \in Account /\ Lost(a, r) \in Account
  <2>1. a.aura \in Int /\ a.debt \in Int /\ a.won \in Nat /\ a.lost \in Nat
        /\ a.winStreak \in Nat /\ a.lossStreak \in Nat
    BY DEF Account
  <2>2. /\ a.aura + Moved(r, "aura") \in Int /\ a.debt - Moved(r, "debt") \in Int
        /\ a.aura - Moved(r, "aura") \in Int /\ a.debt + Moved(r, "debt") \in Int
        /\ a.won + 1 \in Nat /\ a.lost + 1 \in Nat
        /\ a.winStreak + 1 \in Nat /\ a.lossStreak + 1 \in Nat
    BY <1>2, <2>1
  <2>3. Won(a, r) \in Account
    BY <2>2, ZenonT(30) DEF Won, Account
  <2>4. Lost(a, r) \in Account
    BY <2>2, ZenonT(30) DEF Lost, Account
  <2>. QED
    BY <2>3, <2>4
<1>. QED
  BY <1>3 DEF Paid

(* A fight clears the flags of its two players and touches nobody else. *)
LEMMA PaidOthers ==
  ASSUME account \in [User -> Account], NEW r \in Row, NEW u \in User,
         u # r.winner, u # r.loser
  PROVE  Paid(r)[u] = account[u]
BY DEF Paid

(* Arming a policy leaves accounts, as long as there is one to use. *)
LEMMA InsuredType ==
  ASSUME account \in [User -> Account], NEW u \in User, account[u].policies > 0
  PROVE  /\ Insured(u) \in [User -> Account]
         /\ \A v \in User \ {u} : Insured(u)[v] = account[v]
<1>1. account[u].policies - 1 \in Nat
  BY DEF Account
<1>2. [account[u] EXCEPT !.policies = @ - 1, !.armed = TRUE] \in Account
  BY <1>1 DEF Account
<1>. QED
  BY <1>2 DEF Insured

(* The invariant holds before the first transaction. *)
LEMMA InitInvariant == Init => IInv
<1>. SUFFICES ASSUME Init PROVE IInv
  OBVIOUS
<1>. USE DEF Init, LedgerInit
<1>1. account \in [User -> Account]
  BY PoliciesAssumption DEF Account
<1>2. fights \in Seq(Row)
  OBVIOUS
<1>. QED
  BY <1>1, <1>2 DEF IInv, TypeOK, JobOK, ReadsAreFresh

(* No step breaks it. *)
LEMMA NextInvariant == IInv /\ [Next]_vars => IInv'
<1>. SUFFICES ASSUME IInv, [Next]_vars PROVE IInv'
  OBVIOUS
<1>. USE DEF IInv
<1>0. CASE UNCHANGED vars
  BY <1>0 DEF vars, TypeOK, JobOK, ReadsAreFresh
<1>a. SUFFICES ASSUME NEW t \in Txn,
                 \/ BeginSettle(t) \/ SelectLoser(t) \/ ClearFlags(t) \/ Settle(t)
                 \/ BeginArm(t) \/ SelectOwner(t) \/ Arm(t) \/ Refuse(t)
                 \/ Fail(t) \/ DetectDeadlock(t)
      PROVE IInv'
  BY <1>0 DEF Next
<1>1. CASE BeginSettle(t)
  <2>. PICK r \in Row : r.winner # r.loser /\ fight' = [fight EXCEPT ![t] = r]
    BY <1>1 DEF BeginSettle
  <2>. QED
    BY <1>1, NoRowAssumption DEF BeginSettle, Goto, ledgerVars, TypeOK, JobOK, ReadsAreFresh
<1>2. CASE SelectLoser(t)
  <2>1. fight[t] \in Row /\ account[fight[t].loser].armed \in BOOLEAN
    BY <1>2 DEF SelectLoser, JobOK, TypeOK, Row, Account
  <2>2. fight'[t] \in Row /\ fight'[t].winner = fight[t].winner
          /\ fight'[t].loser = fight[t].loser
          /\ fight'[t].insured = account[fight[t].loser].armed
    BY <1>2, <2>1 DEF SelectLoser, TypeOK, Row
  <2>3. TypeOK'
    BY <1>2, <2>2 DEF SelectLoser, SelectForUpdate, Lock, Goto, ledgerVars, TypeOK
  <2>4. JobOK'
    BY <1>2, <2>2 DEF SelectLoser, Goto, JobOK, TypeOK
  <2>5. ReadsAreFresh'
    BY <1>2, <2>1, <2>2, NoTxnAssumption
    DEF SelectLoser, SelectForUpdate, Lock, Goto, ledgerVars, TypeOK, JobOK, ReadsAreFresh, Row
  <2>. QED
    BY <2>3, <2>4, <2>5
<1>3. CASE ClearFlags(t)
  BY <1>3, NoTxnAssumption
  DEF ClearFlags, Lock, Goto, ledgerVars, TypeOK, JobOK, ReadsAreFresh, Row
<1>4. CASE Settle(t)
  <2>1. fight[t] \in Row /\ lock[fight[t].winner] = t /\ lock[fight[t].loser] = t
    BY <1>4 DEF Settle, JobOK, ReadsAreFresh
  <2>2. account' \in [User -> Account] /\ fights' \in Seq(Row)
    BY <1>4, <2>1, PaidType DEF Settle, TypeOK
  <2>3. TypeOK'
    BY <1>4, <2>2 DEF Settle, End, Goto, Release, TypeOK
  <2>4. JobOK'
    BY <1>4 DEF Settle, End, Goto, JobOK, TypeOK
  <2>5. \A u \in User : lock[u] # t => account'[u] = account[u]
    BY <1>4, <2>1, PaidOthers DEF Settle, TypeOK
  <2>6. ReadsAreFresh'
    BY <1>4, <2>5 DEF Settle, End, Goto, Release, TypeOK, JobOK, ReadsAreFresh, Row
  <2>. QED
    BY <2>3, <2>4, <2>6
<1>5. CASE BeginArm(t)
  BY <1>5 DEF BeginArm, Goto, ledgerVars, TypeOK, JobOK, ReadsAreFresh
<1>6. CASE SelectOwner(t)
  BY <1>6, NoTxnAssumption
  DEF SelectOwner, SelectForUpdate, Lock, Goto, ledgerVars, TypeOK, JobOK, ReadsAreFresh, Row
<1>7. CASE Arm(t)
  <2>1. owner[t] \in User /\ lock[owner[t]] = t
    BY <1>7 DEF Arm, JobOK, ReadsAreFresh
  <2>2. account[owner[t]].policies > 0
    BY <1>7, <2>1 DEF Arm, Refused, TypeOK, Account
  <2>3. account' \in [User -> Account]
        /\ \A u \in User : lock[u] # t => account'[u] = account[u]
    BY <1>7, <2>1, <2>2, InsuredType DEF Arm, TypeOK
  <2>4. TypeOK'
    BY <1>7, <2>3 DEF Arm, End, Goto, Release, TypeOK
  <2>5. JobOK'
    BY <1>7 DEF Arm, End, Goto, JobOK, TypeOK
  <2>6. ReadsAreFresh'
    BY <1>7, <2>3 DEF Arm, End, Goto, Release, TypeOK, JobOK, ReadsAreFresh, Row
  <2>. QED
    BY <2>4, <2>5, <2>6
<1>8. CASE Refuse(t)
  BY <1>8 DEF Refuse, End, Goto, Release, ledgerVars, TypeOK, JobOK, ReadsAreFresh, Row
<1>9. CASE Fail(t) \/ DetectDeadlock(t)
  BY <1>9 DEF DetectDeadlock, Fail, End, Goto, Release, ledgerVars, TypeOK, JobOK, ReadsAreFresh, Row
<1>. QED
  BY <1>a, <1>1, <1>2, <1>3, <1>4, <1>5, <1>6, <1>7, <1>8, <1>9

(* The invariant is one of every behaviour. *)
LEMMA Invariant == Spec => []IInv
BY InitInvariant, NextInvariant, PTL DEF Spec

(* Every variable keeps its type, whatever the transactions do: accounts stay
   accounts and the number of policies never goes below zero. *)
THEOREM TypeCorrect == Spec => []TypeOK
<1>1. IInv => TypeOK
  BY DEF IInv
<1>. QED
  BY <1>1, Invariant, PTL

(* What a transaction read is still true when it acts on it. *)
THEOREM ReadsStayFresh == Spec => []ReadsAreFresh
<1>1. IInv => ReadsAreFresh
  BY DEF IInv
<1>. QED
  BY <1>1, Invariant, PTL

(* A step of the transactions is a step of the ledger, or none. *)
LEMMA StepRefinement == IInv /\ [Next]_vars => [LedgerNext]_ledgerVars
<1>. SUFFICES ASSUME IInv, [Next]_vars PROVE [LedgerNext]_ledgerVars
  OBVIOUS
<1>. USE DEF IInv
<1>0. CASE UNCHANGED vars
  BY <1>0 DEF vars, ledgerVars
<1>1. ASSUME NEW t \in Txn, Settle(t) PROVE LedgerNext
  <2>1. fight[t] \in Row /\ RecordFight(fight[t])
    BY <1>1 DEF Settle, JobOK, ReadsAreFresh, RecordFight
  <2>. QED
    BY <2>1 DEF LedgerNext
<1>2. ASSUME NEW t \in Txn, Arm(t) PROVE LedgerNext
  <2>1. owner[t] \in User
    BY <1>2 DEF Arm, JobOK
  <2>2. Insure(owner[t])
    BY <1>2, <2>1 DEF Arm, Refused, Insure, TypeOK, Account
  <2>. QED
    BY <2>1, <2>2 DEF LedgerNext
<1>3. ASSUME NEW t \in Txn,
             \/ BeginSettle(t) \/ SelectLoser(t) \/ ClearFlags(t) \/ BeginArm(t)
             \/ SelectOwner(t) \/ Refuse(t) \/ Fail(t) \/ DetectDeadlock(t)
      PROVE UNCHANGED ledgerVars
  BY <1>3 DEF BeginSettle, SelectLoser, ClearFlags, BeginArm, SelectOwner, Refuse, Fail, DetectDeadlock
<1>. QED
  BY <1>0, <1>1, <1>2, <1>3 DEF Next

(* The transactions of settle and armInsurance, interleaved, blocked, failed
   and aborted in any way, implement the ledger in which each happens in one
   step: no armed policy pays twice, none is paid for and lost, and an insured
   fight is insured for both of its sides. *)
THEOREM TransactionsAreAtomic == Spec => ImplementsLedger
<1>1. Init => LedgerInit
  BY DEF Init
<1>. QED
  BY <1>1, Invariant, StepRefinement, PTL DEF Spec, ImplementsLedger, LedgerSpec

-----------------------------------------------------------------------------
(* The fights table: what the counters and balances say about its rows.      *)

(* A row more, and what it does to the accounts. *)
LEMMA RowAdded ==
  ASSUME TypeOK, NEW r \in Row, RecordFight(r)
  PROVE  /\ DOMAIN fights = 1..Len(fights) /\ IsFiniteSet(DOMAIN fights)
         /\ Len(fights) + 1 \notin DOMAIN fights /\ Len(fights) \in Nat
         /\ DOMAIN fights' = DOMAIN fights \cup {Len(fights) + 1}
         /\ fights'[Len(fights) + 1] = r
         /\ \A k \in DOMAIN fights : fights'[k] = fights[k] /\ fights[k] \in Row
<1>1. fights \in Seq(Row) /\ fights' = Append(fights, r)
  BY DEF TypeOK, RecordFight
<1>2. Len(fights) \in Nat /\ DOMAIN fights = 1..Len(fights)
  BY <1>1
<1>3. IsFiniteSet(DOMAIN fights)
  BY <1>2, FS_Interval
<1> QED BY <1>1, <1>2, <1>3

LEMMA AccountsAfter ==
  ASSUME TypeOK, NEW r \in Row, RecordFight(r)
  PROVE  /\ account'[r.winner] = Won(account[r.winner], r)
         /\ account'[r.loser] = Lost(account[r.loser], r)
         /\ \A u \in User \ {r.winner, r.loser} : account'[u] = account[u]
         /\ r.winner \in User /\ r.loser \in User
  BY DEF RecordFight, Paid, Row

(* The columns of the winner and of the loser, one by one. *)
LEMMA WonColumns ==
  ASSUME NEW a \in Account, NEW r
  PROVE  /\ Won(a, r).aura = a.aura + Moved(r, "aura")
         /\ Won(a, r).debt = a.debt - Moved(r, "debt")
         /\ Won(a, r).won = a.won + 1 /\ Won(a, r).lost = a.lost
         /\ Won(a, r).winStreak = a.winStreak + 1 /\ Won(a, r).lossStreak = 0
         /\ Won(a, r).armed = FALSE /\ Won(a, r).policies = a.policies
  BY DEF Won, Account

LEMMA LostColumns ==
  ASSUME NEW a \in Account, NEW r
  PROVE  /\ Lost(a, r).aura = a.aura - Moved(r, "aura")
         /\ Lost(a, r).debt = a.debt + Moved(r, "debt")
         /\ Lost(a, r).won = a.won /\ Lost(a, r).lost = a.lost + 1
         /\ Lost(a, r).winStreak = 0 /\ Lost(a, r).lossStreak = a.lossStreak + 1
         /\ Lost(a, r).armed = FALSE /\ Lost(a, r).policies = a.policies
  BY DEF Lost, Account

(* The accounts of the two players, column by column. *)
LEMMA WinnerAfter ==
  ASSUME TypeOK, NEW r \in Row, RecordFight(r), NEW u, u = r.winner
  PROVE  /\ account'[u].won = account[u].won + 1 /\ account'[u].lost = account[u].lost
         /\ account'[u].winStreak = account[u].winStreak + 1 /\ account'[u].lossStreak = 0
         /\ account'[u].armed = FALSE /\ account'[u].policies = account[u].policies
<1>1. account'[u] = Won(account[u], r) /\ account[u] \in Account
  BY AccountsAfter DEF TypeOK
<1> DEFINE a == account[u]
<1>2. a \in Account
  BY <1>1
<1> HIDE DEF a
<1>3. /\ Won(a, r).won = a.won + 1 /\ Won(a, r).lost = a.lost
      /\ Won(a, r).winStreak = a.winStreak + 1 /\ Won(a, r).lossStreak = 0
      /\ Won(a, r).armed = FALSE /\ Won(a, r).policies = a.policies
  BY <1>2, WonColumns
<1> QED BY <1>1, <1>3 DEF a

LEMMA LoserAfter ==
  ASSUME TypeOK, NEW r \in Row, RecordFight(r), NEW u, u = r.loser
  PROVE  /\ account'[u].won = account[u].won /\ account'[u].lost = account[u].lost + 1
         /\ account'[u].lossStreak = account[u].lossStreak + 1 /\ account'[u].winStreak = 0
         /\ account'[u].armed = FALSE /\ account'[u].policies = account[u].policies
<1>1. account'[u] = Lost(account[u], r) /\ account[u] \in Account
  BY AccountsAfter DEF TypeOK
<1> DEFINE a == account[u]
<1>2. a \in Account
  BY <1>1
<1> HIDE DEF a
<1>3. /\ Lost(a, r).won = a.won /\ Lost(a, r).lost = a.lost + 1
      /\ Lost(a, r).lossStreak = a.lossStreak + 1 /\ Lost(a, r).winStreak = 0
      /\ Lost(a, r).armed = FALSE /\ Lost(a, r).policies = a.policies
  BY <1>2, LostColumns
<1> QED BY <1>1, <1>3 DEF a

(* What a row moves is a number. *)
LEMMA BetType ==
  ASSUME NEW r \in Row
  PROVE  /\ Bet(r) \in Int /\ Bet(r) = Amount(r)
         /\ \A u, type : Gain(u, type, r) \in Int
<1>1. r.stake \in Nat /\ r.stake \in Int /\ r.stake \div 2 \in Int
  <2>1. \A n \in Nat : n \in Int /\ n \div 2 \in Int
    OBVIOUS
  <2>2. r.stake \in Nat
    BY StakeAssumption DEF Row
  <2> QED BY <2>1, <2>2
<1>2. Bet(r) \in Int /\ -Bet(r) \in Int
  BY <1>1 DEF Bet
<1> QED BY <1>2 DEF Bet, Amount, Gain

(* A row more adds what it moved. *)
LEMMA FlowAfter ==
  ASSUME TypeOK, NEW r \in Row, RecordFight(r), NEW u \in User, NEW type \in {"aura", "debt"}
  PROVE  Flow(u, type) \in Int /\ Flow(u, type)' = Flow(u, type) + Gain(u, type, r)
<1> DEFINE D == DOMAIN fights
           n == Len(fights) + 1
           f == [k \in D |-> Gain(u, type, fights[k])]
           g == [k \in D \cup {n} |-> Gain(u, type, fights'[k])]
<1>1. IsFiniteSet(D) /\ n \notin D /\ DOMAIN fights' = D \cup {n} /\ fights'[n] = r
      /\ \A k \in D : fights'[k] = fights[k] /\ fights[k] \in Row
  BY RowAdded
<1>2. Flow(u, type) = SumFunctionOnSet(f, D) /\ Flow(u, type)' = SumFunctionOnSet(g, D \cup {n})
  BY <1>1 DEF Flow, SumFunction
<1>3. /\ \A k \in D : f[k] \in Int /\ g[k] = f[k]
      /\ g[n] = Gain(u, type, r) /\ g[n] \in Int
  BY <1>1, BetType
<1> HIDE DEF D, n, f, g
<1>4. IntsOn(f, D) /\ IntsOn(g, D)
  BY <1>1, <1>3 DEF IntsOn
<1>5. SumFunctionOnSet(f, D) \in Int /\ SumFunctionOnSet(f, D) = SumFunctionOnSet(g, D)
  BY <1>3, <1>4, SumOfSame
<1>6. SumFunctionOnSet(g, D \cup {n}) = SumFunctionOnSet(g, D) + g[n]
  BY <1>1, <1>3, <1>4, SumOfOneMore
<1> QED BY <1>2, <1>3, <1>5, <1>6

LEMMA BalancesStep ==
  ASSUME TypeOK, BalancesMatchFights, NEW r \in Row, RecordFight(r), NEW u \in User
  PROVE  account'[u].aura = Flow(u, "aura")' /\ account'[u].debt = -Flow(u, "debt")'
<1>1. /\ Flow(u, "aura") \in Int /\ Flow(u, "aura")' = Flow(u, "aura") + Gain(u, "aura", r)
      /\ Flow(u, "debt") \in Int /\ Flow(u, "debt")' = Flow(u, "debt") + Gain(u, "debt", r)
  BY FlowAfter
<1>2. /\ account[u].aura = Flow(u, "aura") /\ account[u].debt = -Flow(u, "debt")
      /\ account[u] \in Account
  BY DEF BalancesMatchFights, TypeOK
<1>3. /\ Gain(u, "aura", r) \in Int /\ Gain(u, "debt", r) \in Int
      /\ Amount(r) \in Int /\ Bet(r) = Amount(r)
  BY BetType
<1>4. r.winner # r.loser
  BY DEF RecordFight
<1>5. /\ account'[u].aura = account[u].aura + Gain(u, "aura", r)
      /\ account'[u].debt = account[u].debt - Gain(u, "debt", r)
  <2>1. CASE u = r.winner
    <3>1. account'[u].aura = account[u].aura + Moved(r, "aura")
          /\ account'[u].debt = account[u].debt - Moved(r, "debt")
      BY <2>1, <1>2, AccountsAfter, WonColumns
    <3>2. Gain(u, "aura", r) = Moved(r, "aura") /\ Gain(u, "debt", r) = Moved(r, "debt")
      BY <2>1, <1>3, <1>4 DEF Gain, Moved
    <3> QED BY <3>1, <3>2
  <2>2. CASE u = r.loser
    <3>1. account'[u].aura = account[u].aura - Moved(r, "aura")
          /\ account'[u].debt = account[u].debt + Moved(r, "debt")
      BY <2>2, <1>2, AccountsAfter, LostColumns
    <3>2. Gain(u, "aura", r) = -Moved(r, "aura") /\ Gain(u, "debt", r) = -Moved(r, "debt")
      BY <2>2, <1>3, <1>4 DEF Gain, Moved
    <3>3. Moved(r, "aura") \in Int /\ Moved(r, "debt") \in Int
      BY <1>3 DEF Moved
    <3>4. account[u].aura \in Int /\ account[u].debt \in Int
      BY <1>2 DEF Account
    <3> QED BY <3>1, <3>2, <3>3, <3>4
  <2>3. CASE u \notin {r.winner, r.loser}
    BY <2>3, <1>2, <1>3, AccountsAfter DEF Gain, Account
  <2> QED BY <2>1, <2>2, <2>3
<1> QED BY <1>1, <1>2, <1>3, <1>5

(* The fights of a user, after a row more. *)
LEMMA RowsAfter ==
  ASSUME TypeOK, NEW r \in Row, RecordFight(r), NEW u \in User
  PROVE  LET n == Len(fights) + 1 IN
         /\ WonAt(u)' = IF u = r.winner THEN WonAt(u) \cup {n} ELSE WonAt(u)
         /\ LostAt(u)' = IF u = r.loser THEN LostAt(u) \cup {n} ELSE LostAt(u)
         /\ InsuredAt(u)' = IF u = r.loser /\ r.insured THEN InsuredAt(u) \cup {n}
                            ELSE InsuredAt(u)
  BY RowAdded DEF WonAt, LostAt, InsuredAt

(* All of them came before it. *)
LEMMA RowsBefore ==
  ASSUME TypeOK, NEW r \in Row, RecordFight(r), NEW u \in User
  PROVE  LET n == Len(fights) + 1 IN
         /\ n \in Nat
         /\ \A k \in WonAt(u) \cup LostAt(u) : k \in Nat /\ k < n
         /\ IsFiniteSet(WonAt(u)) /\ IsFiniteSet(LostAt(u)) /\ IsFiniteSet(InsuredAt(u))
         /\ IsFiniteSet(Since(WonAt(u), LostAt(u))) /\ IsFiniteSet(Since(LostAt(u), WonAt(u)))
<1>1. DOMAIN fights = 1..Len(fights) /\ IsFiniteSet(DOMAIN fights) /\ Len(fights) \in Nat
  BY RowAdded
<1>2. /\ WonAt(u) \subseteq DOMAIN fights /\ LostAt(u) \subseteq DOMAIN fights
      /\ InsuredAt(u) \subseteq DOMAIN fights
      /\ Since(WonAt(u), LostAt(u)) \subseteq DOMAIN fights
      /\ Since(LostAt(u), WonAt(u)) \subseteq DOMAIN fights
  BY DEF WonAt, LostAt, InsuredAt, Since
<1> QED BY <1>1, <1>2, FS_Subset

(* The counters after a row more. *)
LEMMA StreaksStep ==
  ASSUME TypeOK, StreaksMatchFights, NEW r \in Row, RecordFight(r), NEW u \in User
  PROVE  /\ account'[u].won = Cardinality(WonAt(u)')
         /\ account'[u].lost = Cardinality(LostAt(u)')
         /\ account'[u].winStreak = Cardinality(Since(WonAt(u)', LostAt(u)'))
         /\ account'[u].lossStreak = Cardinality(Since(LostAt(u)', WonAt(u)'))
<1> DEFINE n == Len(fights) + 1
           W == WonAt(u)
           L == LostAt(u)
<1>1. /\ WonAt(u)' = IF u = r.winner THEN W \cup {n} ELSE W
      /\ LostAt(u)' = IF u = r.loser THEN L \cup {n} ELSE L
  BY RowsAfter
<1>2. /\ n \in Nat /\ \A k \in W \cup L : k \in Nat /\ k < n
      /\ IsFiniteSet(W) /\ IsFiniteSet(L) /\ IsFiniteSet(Since(W, L)) /\ IsFiniteSet(Since(L, W))
  BY RowsBefore
<1>3. /\ account[u].won = Cardinality(W) /\ account[u].lost = Cardinality(L)
      /\ account[u].winStreak = Cardinality(Since(W, L))
      /\ account[u].lossStreak = Cardinality(Since(L, W))
      /\ account[u] \in Account
  BY DEF StreaksMatchFights, TypeOK
<1>4. r.winner # r.loser
  BY DEF RecordFight
<1> HIDE DEF n, W, L
(* A streak goes on with a fight that ends the same way, and ends with one
   that does not: the fight of row n came last. *)
<1>8. n \notin W /\ n \notin L /\ \A k \in W \cup L : k < n /\ ~(n < k)
  <2>1. \A k \in W \cup L : k < n /\ ~(n < k) /\ k # n
    BY <1>2
  <2> QED BY <2>1
<1>5. CASE u = r.winner
  <2>1. /\ account'[u].won = account[u].won + 1 /\ account'[u].lost = account[u].lost
        /\ account'[u].winStreak = account[u].winStreak + 1 /\ account'[u].lossStreak = 0
    BY <1>5, WinnerAfter
  <2>2. WonAt(u)' = W \cup {n} /\ LostAt(u)' = L
    BY <1>1, <1>4, <1>5
  <2>3. /\ n \notin W /\ Since(W \cup {n}, L) = Since(W, L) \cup {n} /\ n \notin Since(W, L)
        /\ Since(L, W \cup {n}) = {}
    BY <1>2, <1>8 DEF Since
  <2>4. /\ Cardinality(W \cup {n}) = Cardinality(W) + 1
        /\ Cardinality(Since(W, L) \cup {n}) = Cardinality(Since(W, L)) + 1
        /\ Cardinality({}) = 0
    BY <1>2, <2>3, FS_AddElement, FS_EmptySet
  <2> QED BY <2>1, <2>2, <2>3, <2>4, <1>3
<1>6. CASE u = r.loser
  <2>1. /\ account'[u].lost = account[u].lost + 1 /\ account'[u].won = account[u].won
        /\ account'[u].lossStreak = account[u].lossStreak + 1 /\ account'[u].winStreak = 0
    BY <1>6, LoserAfter
  <2>2. LostAt(u)' = L \cup {n} /\ WonAt(u)' = W
    BY <1>1, <1>4, <1>6
  <2>3. /\ n \notin L /\ Since(L \cup {n}, W) = Since(L, W) \cup {n} /\ n \notin Since(L, W)
        /\ Since(W, L \cup {n}) = {}
    BY <1>2, <1>8 DEF Since
  <2>4. /\ Cardinality(L \cup {n}) = Cardinality(L) + 1
        /\ Cardinality(Since(L, W) \cup {n}) = Cardinality(Since(L, W)) + 1
        /\ Cardinality({}) = 0
    BY <1>2, <2>3, FS_AddElement, FS_EmptySet
  <2> QED BY <2>1, <2>2, <2>3, <2>4, <1>3
<1>7. CASE u \notin {r.winner, r.loser}
  BY <1>1, <1>3, <1>7, AccountsAfter
<1> QED BY <1>5, <1>6, <1>7

(* The policies after a row more. *)
LEMMA InsuranceStep ==
  ASSUME TypeOK, NoFreeInsurance, NEW r \in Row, RecordFight(r), NEW u \in User
  PROVE  Cardinality(InsuredAt(u)') + (IF account'[u].armed THEN 1 ELSE 0)
           <= Policies - account'[u].policies
<1> DEFINE n == Len(fights) + 1
           I == InsuredAt(u)
<1>1. /\ InsuredAt(u)' = IF u = r.loser /\ r.insured THEN I \cup {n} ELSE I
      /\ IsFiniteSet(I) /\ Cardinality(I) \in Nat
  BY RowsAfter, RowsBefore, FS_CardinalityType
<1>2. n \notin I
  <2>1. I \subseteq DOMAIN fights
    BY DEF InsuredAt, LostAt
  <2> QED BY <2>1, RowAdded
<1>3. /\ Cardinality(I) + (IF account[u].armed THEN 1 ELSE 0) <= Policies - account[u].policies
      /\ account[u] \in Account /\ account[u].policies \in Nat /\ account[u].armed \in BOOLEAN
  BY DEF NoFreeInsurance, TypeOK, Account
<1> HIDE DEF n, I
<1>4. CASE u = r.loser
  <2>1. account'[u].armed = FALSE /\ account'[u].policies = account[u].policies
    BY <1>4, LoserAfter
  <2>2. r.insured = account[u].armed
    BY <1>4 DEF RecordFight
  <2>3. Cardinality(I \cup {n}) = Cardinality(I) + 1
    BY <1>1, <1>2, FS_AddElement
  <2> QED BY <2>1, <2>2, <2>3, <1>1, <1>3, <1>4, PoliciesAssumption
<1>5. CASE u = r.winner /\ u # r.loser
  <2>1. account'[u].armed = FALSE /\ account'[u].policies = account[u].policies
    BY <1>5, WinnerAfter
  <2> QED BY <2>1, <1>1, <1>3, <1>5, PoliciesAssumption
<1>6. CASE u \notin {r.winner, r.loser}
  BY <1>1, <1>3, <1>6, AccountsAfter
<1> QED BY <1>4, <1>5, <1>6

-----------------------------------------------------------------------------
Books == BalancesMatchFights /\ StreaksMatchFights /\ NoFreeInsurance

LEMMA BooksInit == LedgerInit => Books
<1> SUFFICES ASSUME LedgerInit PROVE Books
  OBVIOUS
<1>1. fights = <<>> /\ DOMAIN fights = {}
  BY DEF LedgerInit
<1>2. \A u \in User : /\ account[u].aura = 0 /\ account[u].debt = 0 /\ account[u].won = 0
                      /\ account[u].lost = 0 /\ account[u].winStreak = 0
                      /\ account[u].lossStreak = 0 /\ account[u].armed = FALSE
                      /\ account[u].policies = Policies
  BY DEF LedgerInit
<1>3. ASSUME NEW u, NEW type PROVE Flow(u, type) = 0
  BY <1>1, SumOfNone DEF Flow, SumFunction
<1>4. ASSUME NEW u
      PROVE  /\ WonAt(u) = {} /\ LostAt(u) = {} /\ InsuredAt(u) = {}
             /\ Since(WonAt(u), LostAt(u)) = {} /\ Since(LostAt(u), WonAt(u)) = {}
  BY <1>1 DEF WonAt, LostAt, InsuredAt, Since
<1>5. Cardinality({}) = 0
  BY FS_EmptySet
<1>6. BalancesMatchFights
  <2>1. ASSUME NEW u \in User
        PROVE  account[u].aura = Flow(u, "aura") /\ account[u].debt = -Flow(u, "debt")
    <3>1. Flow(u, "aura") = 0 /\ Flow(u, "debt") = 0
      BY <1>3
    <3>2. -Flow(u, "debt") = 0
      BY <3>1
    <3> QED BY <1>2, <3>1, <3>2
  <2> QED BY <2>1 DEF BalancesMatchFights
<1>7. StreaksMatchFights
  BY <1>2, <1>4, <1>5 DEF StreaksMatchFights
<1>8. NoFreeInsurance
  <2>1. ASSUME NEW u \in User
        PROVE  Cardinality(InsuredAt(u)) + (IF account[u].armed THEN 1 ELSE 0)
                 <= Policies - account[u].policies
    <3>1. Cardinality(InsuredAt(u)) = 0
      BY <1>4, <1>5
    <3> QED BY <1>2, <3>1, PoliciesAssumption
  <2> QED BY <2>1 DEF NoFreeInsurance
<1> QED BY <1>6, <1>7, <1>8 DEF Books

LEMMA BooksStep == TypeOK /\ Books /\ [LedgerNext]_ledgerVars => Books'
<1> SUFFICES ASSUME TypeOK, Books, [LedgerNext]_ledgerVars PROVE Books'
  OBVIOUS
<1> USE DEF Books
<1>1. CASE UNCHANGED ledgerVars
  <2>1. account' = account /\ fights' = fights
    BY <1>1 DEF ledgerVars
  <2>2. BalancesMatchFights'
    BY <2>1 DEF BalancesMatchFights, Flow
  <2>3. StreaksMatchFights'
    BY <2>1, ZenonT(30) DEF StreaksMatchFights, WonAt, LostAt, Since
  <2>4. NoFreeInsurance'
    BY <2>1 DEF NoFreeInsurance, InsuredAt, LostAt
  <2> QED BY <2>2, <2>3, <2>4
<1>2. ASSUME NEW r \in Row, RecordFight(r) PROVE Books'
  <2>1. BalancesMatchFights'
    BY <1>2, BalancesStep DEF BalancesMatchFights
  <2>2. StreaksMatchFights'
    BY <1>2, StreaksStep DEF StreaksMatchFights, Since
  <2>3. NoFreeInsurance'
    BY <1>2, InsuranceStep DEF NoFreeInsurance
  <2> QED BY <2>1, <2>2, <2>3
<1>3. ASSUME NEW u \in User, Insure(u) PROVE Books'
  <2>1. /\ account' = Insured(u) /\ fights' = fights /\ ~account[u].armed
        /\ account[u].policies > 0 /\ account \in [User -> Account]
    BY <1>3 DEF Insure, TypeOK
  <2>2. \A v \in User : account[v].policies \in Nat /\ account[v].armed \in BOOLEAN
    BY <2>1 DEF Account
  <2>3. \A v \in User : /\ account'[v].aura = account[v].aura /\ account'[v].debt = account[v].debt
                        /\ account'[v].won = account[v].won /\ account'[v].lost = account[v].lost
                        /\ account'[v].winStreak = account[v].winStreak
                        /\ account'[v].lossStreak = account[v].lossStreak
    BY <2>1 DEF Insured, Account
  <2>4. /\ account'[u].armed = TRUE /\ account'[u].policies = account[u].policies - 1
        /\ \A v \in User \ {u} : account'[v] = account[v]
    BY <2>1 DEF Insured, Account
  <2>5. BalancesMatchFights'
    BY <2>1, <2>3 DEF BalancesMatchFights, Flow
  <2>6. StreaksMatchFights'
    <3>1. ASSUME NEW v \in User
          PROVE  /\ WonAt(v)' = WonAt(v) /\ LostAt(v)' = LostAt(v)
                 /\ Since(WonAt(v), LostAt(v))' = Since(WonAt(v), LostAt(v))
                 /\ Since(LostAt(v), WonAt(v))' = Since(LostAt(v), WonAt(v))
      BY <2>1 DEF WonAt, LostAt, Since
    <3> QED BY <2>3, <3>1 DEF StreaksMatchFights
  <2>7. ASSUME NEW v \in User
        PROVE  Cardinality(InsuredAt(v)') + (IF account'[v].armed THEN 1 ELSE 0)
                 <= Policies - account'[v].policies
    <3>1. InsuredAt(v)' = InsuredAt(v) /\ IsFiniteSet(InsuredAt(v))
      <4>1. IsFiniteSet(DOMAIN fights)
        BY FS_Interval DEF TypeOK
      <4>2. InsuredAt(v) \subseteq DOMAIN fights
        BY DEF InsuredAt, LostAt
      <4> QED BY <2>1, <4>1, <4>2, FS_Subset DEF InsuredAt, LostAt
    <3>2. Cardinality(InsuredAt(v)) \in Nat
      BY <3>1, FS_CardinalityType
    <3>3. Cardinality(InsuredAt(v)) + (IF account[v].armed THEN 1 ELSE 0)
            <= Policies - account[v].policies
      BY DEF NoFreeInsurance
    <3> QED BY <2>1, <2>2, <2>4, <3>1, <3>2, <3>3, PoliciesAssumption
  <2>8. NoFreeInsurance'
    BY <2>7 DEF NoFreeInsurance
  <2> QED BY <2>5, <2>6, <2>8
<1> QED BY <1>1, <1>2, <1>3 DEF LedgerNext

LEMMA BooksInvariant == Spec => []Books
<1>1. Init => Books
  BY BooksInit DEF Init
<1>2. IInv /\ Books /\ [Next]_vars => Books'
  BY StepRefinement, BooksStep DEF IInv
<1> QED BY <1>1, <1>2, Invariant, PTL DEF Spec

(* Aura and debt follow from the rows of the fights table: what one user wins
   another one loses, whatever was insured, failed or aborted in between. *)
THEOREM BalancesMatch == Spec => []BalancesMatchFights
  BY BooksInvariant, PTL DEF Books

(* The counters of wins, losses and streaks are those of the table. *)
THEOREM StreaksMatch == Spec => []StreaksMatchFights
  BY BooksInvariant, PTL DEF Books

(* No policy insures two fights, and no fight is insured without one. *)
THEOREM InsuranceIsPaid == Spec => []NoFreeInsurance
  BY BooksInvariant, PTL DEF Books

-----------------------------------------------------------------------------
(* Zero sum.  BalancesMatch says of each user what the rows moved; that      *)
(* nothing is left over when all users are added up is one sum more.         *)
SumOf(column) == SumFunctionOnSet([u \in User |-> account[u][column]], User)
ZeroSum == SumOf("aura") = 0 /\ SumOf("debt") = 0

(* What one member gains and another one loses leaves the sum as it was. *)
LEMMA TransferKeepsSum ==
  ASSUME NEW f, NEW g, NEW S, NEW x \in S, NEW y \in S, x # y, IntsOn(f, S), NEW d \in Int,
         g[x] = f[x] + d, g[y] = f[y] - d, \A z \in S \ {x, y} : g[z] = f[z]
  PROVE  SumFunctionOnSet(g, S) = SumFunctionOnSet(f, S)
<1> DEFINE h == [z \in S |-> IF z = x THEN f[x] + d ELSE f[z]]
<1>1. /\ \A z \in S : f[z] \in Int
      /\ h[x] = f[x] + d /\ \A z \in S \ {x} : h[z] = f[z]
      /\ \A z \in S : h[z] \in Int
  BY DEF IntsOn
<1>2. SumFunctionOnSet(h, S) = SumFunctionOnSet(f, S) + d
  <2> HIDE DEF h
  <2> QED BY <1>1, SumOfChanged
<1>3. IntsOn(h, S) /\ -d \in Int /\ g[y] = h[y] + (-d) /\ \A z \in S \ {y} : g[z] = h[z]
  <2> HIDE DEF h
  <2>1. g[y] = h[y] + (-d) /\ h[y] \in Int
    BY <1>1
  <2>2. \A z \in S \ {y} : g[z] = h[z]
    BY <1>1
  <2> QED BY <1>1, <2>1, <2>2 DEF IntsOn
<1>4. SumFunctionOnSet(g, S) = SumFunctionOnSet(h, S) + (-d)
  <2> HIDE DEF h
  <2> QED BY <1>3, SumOfChanged
<1>5. SumFunctionOnSet(f, S) \in Int
  BY SumOfSame
<1> HIDE DEF h
<1> QED BY <1>2, <1>4, <1>5

LEMMA ZeroSumStep ==
  ASSUME IsFiniteSet(User), TypeOK, ZeroSum, [LedgerNext]_ledgerVars
  PROVE  ZeroSum'
<1> DEFINE f(column) == [u \in User |-> account[u][column]]
           g(column) == [u \in User |-> account'[u][column]]
<1>1. \A u \in User : account[u] \in Account /\ account[u].aura \in Int /\ account[u].debt \in Int
  BY DEF TypeOK, Account
<1>2. \A column \in {"aura", "debt"} : IntsOn(f(column), User)
  BY <1>1 DEF IntsOn
<1>3. ASSUME NEW r \in Row, RecordFight(r), NEW column \in {"aura", "debt"}
      PROVE  SumFunctionOnSet(g(column), User) = SumFunctionOnSet(f(column), User)
  <2> DEFINE d == IF column = "aura" THEN Moved(r, "aura") ELSE -Moved(r, "debt")
  <2>1. r.winner \in User /\ r.loser \in User /\ r.winner # r.loser
        /\ \A u \in User \ {r.winner, r.loser} : account'[u] = account[u]
    BY <1>3, AccountsAfter DEF RecordFight
  <2>2. Moved(r, "aura") \in Int /\ Moved(r, "debt") \in Int
    BY BetType DEF Moved
  <2>a. \A a, m \in Int : a - m = a + (-m) /\ a + m = a - (-m)
    OBVIOUS
  <2>3. account'[r.winner][column] = account[r.winner][column] + d
    <3>1. /\ account'[r.winner].aura = account[r.winner].aura + Moved(r, "aura")
          /\ account'[r.winner].debt = account[r.winner].debt - Moved(r, "debt")
      <4> DEFINE a == account[r.winner]
      <4>1. a \in Account /\ account'[r.winner] = Won(a, r)
        BY <1>1, <1>3, <2>1, AccountsAfter
      <4> HIDE DEF a
      <4>2. Won(a, r).aura = a.aura + Moved(r, "aura") /\ Won(a, r).debt = a.debt - Moved(r, "debt")
        BY <4>1, WonColumns
      <4> QED BY <4>1, <4>2 DEF a
    <3>2. account[r.winner].aura \in Int /\ account[r.winner].debt \in Int
      BY <1>1, <2>1
    <3>3. CASE column = "aura"
      BY <3>1, <3>3
    <3>5. account'[r.winner].debt = account[r.winner].debt + (-Moved(r, "debt"))
      BY <2>2, <2>a, <3>1, <3>2
    <3>4. CASE column = "debt"
      <4>1. d = -Moved(r, "debt")
        BY <3>4
      <4> HIDE DEF d
      <4> QED BY <3>4, <3>5, <4>1
    <3> QED BY <3>3, <3>4
  <2>4. account'[r.loser][column] = account[r.loser][column] - d
    <3>1. /\ account'[r.loser].aura = account[r.loser].aura - Moved(r, "aura")
          /\ account'[r.loser].debt = account[r.loser].debt + Moved(r, "debt")
      <4> DEFINE a == account[r.loser]
      <4>1. a \in Account /\ account'[r.loser] = Lost(a, r)
        BY <1>1, <1>3, <2>1, AccountsAfter
      <4> HIDE DEF a
      <4>2. Lost(a, r).aura = a.aura - Moved(r, "aura") /\ Lost(a, r).debt = a.debt + Moved(r, "debt")
        BY <4>1, LostColumns
      <4> QED BY <4>1, <4>2 DEF a
    <3>2. account[r.loser].aura \in Int /\ account[r.loser].debt \in Int
      BY <1>1, <2>1
    <3>3. CASE column = "aura"
      BY <3>1, <3>3
    <3>5. account'[r.loser].debt = account[r.loser].debt - (-Moved(r, "debt"))
      BY <2>2, <2>a, <3>1, <3>2
    <3>4. CASE column = "debt"
      <4>1. d = -Moved(r, "debt")
        BY <3>4
      <4> HIDE DEF d
      <4> QED BY <3>4, <3>5, <4>1
    <3> QED BY <3>3, <3>4
  <2>5. d \in Int
    BY <2>2
  <2>6. /\ g(column)[r.winner] = f(column)[r.winner] + d
        /\ g(column)[r.loser] = f(column)[r.loser] - d
        /\ \A u \in User \ {r.winner, r.loser} : g(column)[u] = f(column)[u]
    BY <2>1, <2>3, <2>4
  <2>7. IntsOn(f(column), User)
    BY <1>2
  <2> HIDE DEF d, f, g
  <2> QED BY <2>1, <2>5, <2>6, <2>7, TransferKeepsSum
<1>4. ASSUME NEW u \in User, Insure(u), NEW column \in {"aura", "debt"}
      PROVE  g(column) = f(column)
  BY <1>1, <1>4 DEF Insure, Insured, TypeOK, Account
<1>5. CASE UNCHANGED ledgerVars
  BY <1>5 DEF ledgerVars, ZeroSum, SumOf
<1>6. \A column : SumOf(column) = SumFunctionOnSet(f(column), User)
                  /\ SumOf(column)' = SumFunctionOnSet(g(column), User)
  BY DEF SumOf
<1> HIDE DEF f, g
<1> QED BY <1>3, <1>4, <1>5, <1>6 DEF ZeroSum, LedgerNext

(* No aura and no debt is made or lost by fighting, however many users there
   are: an insured loss is half for both sides or for none, also when the
   policy is armed while the fight is being settled. *)
THEOREM FightsAreZeroSum == ASSUME IsFiniteSet(User) PROVE Spec => []ZeroSum
<1>1. LedgerInit => ZeroSum
  <2> SUFFICES ASSUME LedgerInit, NEW column \in {"aura", "debt"} PROVE SumOf(column) = 0
    BY DEF ZeroSum
  <2> DEFINE f == [u \in User |-> account[u][column]]
  <2>1. IntsOn(f, User) /\ \A u \in User : f[u] = 0
    BY DEF IntsOn, LedgerInit
  <2> HIDE DEF f
  <2>2. SumFunctionOnSet(f, User) = 0
    BY <2>1, SumOfZeros
  <2> QED BY <2>2 DEF SumOf, f
<1>2. IInv /\ ZeroSum /\ [Next]_vars => ZeroSum'
  BY StepRefinement, ZeroSumStep DEF IInv
<1> QED BY <1>1, <1>2, Invariant, PTL DEF Spec, Init

-----------------------------------------------------------------------------
(* Waiting.  What a transaction holds, by the statement it is at: locks are  *)
(* held by running transactions only.                                        *)
HeldBy(t, u) ==
  \/ pc[t] = "clearFlags" /\ u = fight[t].loser
  \/ pc[t] = "pay" /\ u \in {fight[t].winner, fight[t].loser}
  \/ pc[t] = "arm" /\ u = owner[t]
HoldersRun == \A u \in User, t \in Txn : lock[u] = t => HeldBy(t, u)

LEMMA HoldersInit == Init => HoldersRun
  BY NoTxnAssumption DEF Init, HoldersRun

LEMMA HoldersStep == IInv /\ HoldersRun /\ [Next]_vars => HoldersRun'
<1> SUFFICES ASSUME IInv, HoldersRun, [Next]_vars, NEW u \in User, NEW s \in Txn, lock'[u] = s
             PROVE  HeldBy(s, u)'
  BY DEF HoldersRun
<1>0. TypeOK /\ (lock[u] = s => HeldBy(s, u))
  BY DEF IInv, HoldersRun
<1> USE <1>0, NoTxnAssumption DEF TypeOK, HeldBy
<1>1. CASE UNCHANGED vars
  BY <1>1 DEF vars
<1>2. ASSUME NEW t \in Txn, BeginSettle(t) \/ BeginArm(t) PROVE HeldBy(s, u)'
  BY <1>2 DEF BeginSettle, BeginArm, Goto
<1>3. ASSUME NEW t \in Txn, SelectLoser(t) PROVE HeldBy(s, u)'
  <2>1. fight[t] \in Row
    BY <1>3 DEF SelectLoser, IInv, JobOK
  <2>2. fight'[t].loser = fight[t].loser /\ \A k \in Txn \ {t} : fight'[k] = fight[k]
    BY <1>3, <2>1 DEF SelectLoser, Row
  <2> QED BY <1>3, <2>2 DEF SelectLoser, SelectForUpdate, Lock, Goto
<1>4. ASSUME NEW t \in Txn, ClearFlags(t) \/ SelectOwner(t) PROVE HeldBy(s, u)'
  BY <1>4 DEF ClearFlags, SelectOwner, SelectForUpdate, Lock, Goto
<1>5. ASSUME NEW t \in Txn, Settle(t) \/ Arm(t) \/ Refuse(t) \/ Fail(t) \/ DetectDeadlock(t)
      PROVE  HeldBy(s, u)'
  BY <1>5 DEF Settle, Arm, Refuse, Fail, DetectDeadlock, End, Release, Goto
<1> QED BY <1>1, <1>2, <1>3, <1>4, <1>5 DEF Next

LEMMA HoldersInvariant == Spec => [](IInv /\ HoldersRun)
  BY HoldersInit, HoldersStep, Invariant, PTL DEF Spec

(* Who waits for whom, as the deadlock detector sees it. *)
Waits == [s \in Txn |-> WaitsFor(s)]

LEMMA WaitsForRunning ==
  ASSUME IInv, HoldersRun, NEW t \in Txn
  PROVE  WaitsFor(t) \subseteq {s \in Txn : Running(s)} \ {t}
<1>1. ASSUME NEW u \in Wanted(t) PROVE u \in User
  BY <1>1 DEF Wanted, IInv, JobOK, Row
<1>2. ASSUME NEW u \in Wanted(t), lock[u] \notin {NoTxn, t}
      PROVE  lock[u] \in Txn /\ Running(lock[u])
  BY <1>1, <1>2 DEF IInv, TypeOK, HoldersRun, HeldBy, Running
<1> QED BY <1>2 DEF WaitsFor

(* Waiting ends.  As long as a transaction runs, some running one finds the
   locks of its statement free or is on a cycle, so that PostgreSQL runs its
   statement or aborts it. *)
Free(t) == \A u \in Wanted(t) : lock[u] \in {NoTxn, t}
NobodyIsStuck ==
  (\E t \in Txn : Running(t)) => \E t \in Txn : Running(t) /\ (Free(t) \/ Deadlocked(t))

LEMMA SomebodyRuns == ASSUME IsFiniteSet(Txn), IInv, HoldersRun PROVE NobodyIsStuck
<1> SUFFICES ASSUME \E t \in Txn : Running(t)
             PROVE  \E t \in Txn : Running(t) /\ (Free(t) \/ Deadlocked(t))
  BY DEF NobodyIsStuck
<1> DEFINE T == {t \in Txn : Running(t)}
<1>1. T \in SUBSET DOMAIN Waits /\ T # {} /\ IsFiniteSet(T)
  <2>1. T \subseteq Txn /\ DOMAIN Waits = Txn
    BY DEF Waits
  <2> QED BY <2>1, FS_Subset
<1>2. Closed(T, Waits)
  BY WaitsForRunning DEF Waits, Closed
<1>3. \E t \in T : Waits[t] = {} \/ OnCycle(t, Waits)
  <2> HIDE DEF T
  <2> QED BY <1>1, <1>2, SomebodyMoves
<1>4. PICK t \in Txn : Running(t) /\ (WaitsFor(t) = {} \/ OnCycle(t, Waits))
  BY <1>3 DEF Waits
<1>5. WaitsFor(t) = {} => Free(t)
  BY DEF WaitsFor, Free
<1> QED BY <1>4, <1>5 DEF Waits, Deadlocked

(* No set of transactions waits for ever: whoever holds a lock is running,
   so the finitely many that run would be waiting for one another. *)
THEOREM WaitingEnds == ASSUME IsFiniteSet(Txn) PROVE Spec => []NobodyIsStuck
<1>1. IInv /\ HoldersRun => NobodyIsStuck
  BY SomebodyRuns
<1> QED BY <1>1, HoldersInvariant, PTL

(* A transaction that PostgreSQL may abort settles a fight, and its loser is
   the winner of another fight that is being settled and waits for it. *)
DeadlocksAreFights ==
  \A t \in Txn : Deadlocked(t) =>
    /\ pc[t] = "clearFlags" /\ lock[fight[t].winner] \notin {NoTxn, t}
    /\ \E s \in Txn : pc[s] = "clearFlags" /\ fight[s].winner = fight[t].loser

(* Only fights are lost to a deadlock, and only in a ring of users who each
   lost to the next one: who arms an insurance is never aborted for it. *)
THEOREM OnlyFightsDeadlock == Spec => []DeadlocksAreFights
<1>1. IInv /\ HoldersRun => DeadlocksAreFights
  <2> SUFFICES ASSUME IInv, HoldersRun, NEW t \in Txn, Deadlocked(t)
               PROVE  /\ pc[t] = "clearFlags" /\ lock[fight[t].winner] \notin {NoTxn, t}
                      /\ \E s \in Txn : pc[s] = "clearFlags" /\ fight[s].winner = fight[t].loser
    BY DEF DeadlocksAreFights
  <2>1. /\ DOMAIN Waits = Txn /\ OnCycle(t, Waits)
        /\ \A s \in DOMAIN Waits : Waits[s] \subseteq DOMAIN Waits \ {s}
    BY WaitsForRunning DEF Waits, Deadlocked
  <2>2. Waits[t] # {} /\ \E r, s \in DOMAIN Waits : s \in Waits[r] /\ t \in Waits[s]
    BY <2>1, CycleNeighbours
  <2>3. PICK r \in Txn, s \in Txn : s \in WaitsFor(r) /\ t \in WaitsFor(s)
    BY <2>1, <2>2 DEF Waits
  <2>4. WaitsFor(t) # {}
    BY <2>2 DEF Waits
  <2>5. ASSUME NEW k \in Txn, NEW m \in Txn, m \in WaitsFor(k)
        PROVE  \E u \in Wanted(k) \cap User : lock[u] = m /\ HeldBy(m, u)
    <3>1. PICK u \in Wanted(k) : lock[u] = m
      BY <2>5 DEF WaitsFor
    <3>2. u \in User
      BY <3>1 DEF Wanted, IInv, JobOK, Row
    <3> QED BY <3>1, <3>2 DEF HoldersRun
  <2>6. pc[t] \in {"clearFlags", "pay", "arm"} /\ pc[s] \in {"clearFlags", "pay", "arm"}
    BY <2>3, <2>5 DEF HeldBy
  <2>7. pc[t] \in {"selectLoser", "clearFlags", "selectOwner"}
        /\ pc[s] \in {"selectLoser", "clearFlags", "selectOwner"}
    BY <2>3, <2>4 DEF WaitsFor, Wanted
  <2>8. pc[t] = "clearFlags" /\ pc[s] = "clearFlags"
    BY <2>6, <2>7
  <2>9. PICK u \in Wanted(s) \cap User : lock[u] = t /\ HeldBy(t, u)
    BY <2>3, <2>5
  <2>10. u = fight[t].loser /\ u \in {fight[s].winner, fight[s].loser} /\ s # t
    BY <2>3, <2>8, <2>9, WaitsForRunning DEF HeldBy, Wanted
  <2>11. fight[s].winner = fight[t].loser
    BY <2>8, <2>9, <2>10 DEF IInv, ReadsAreFresh
  <2>12. lock[fight[t].winner] \notin {NoTxn, t}
    BY <2>4, <2>8 DEF WaitsFor, Wanted, IInv, ReadsAreFresh
  <2> QED BY <2>8, <2>11, <2>12
<1> QED BY <1>1, HoldersInvariant, PTL

-----------------------------------------------------------------------------
(* Progress.  Every step takes a statement off what is left to do, so a      *)
(* finite crowd of transactions is done after finitely many of them.         *)
Left(t) ==
  CASE pc[t] = "idle"                        -> 4
    [] pc[t] = "selectLoser"                 -> 3
    [] pc[t] \in {"clearFlags", "selectOwner"} -> 2
    [] pc[t] \in {"pay", "arm"}              -> 1
    [] pc[t] \in {"done", "failed"}          -> 0
Work == SumFunctionOnSet([t \in Txn |-> Left(t)], Txn)

LEMMA WorkType == ASSUME IsFiniteSet(Txn), TypeOK PROVE Work \in Nat
<1> DEFINE f == [t \in Txn |-> Left(t)]
<1>1. \A t \in Txn : f[t] \in Nat
  BY DEF TypeOK, Left
<1> HIDE DEF f
<1>2. SumFunctionOnSet(f, Txn) \in Nat
  BY <1>1, SumOfNats
<1> QED BY <1>2 DEF Work, f

LEMMA WorkStep ==
  ASSUME IsFiniteSet(Txn), IInv, Next
  PROVE  Work' < Work
<1> USE DEF IInv, TypeOK
<1>1. PICK t \in Txn :
        \/ BeginSettle(t) \/ SelectLoser(t) \/ ClearFlags(t) \/ Settle(t)
        \/ BeginArm(t) \/ SelectOwner(t) \/ Arm(t) \/ Refuse(t)
        \/ Fail(t) \/ DetectDeadlock(t)
  BY DEF Next
<1>2. /\ \A s \in Txn \ {t} : pc'[s] = pc[s]
      /\ Left(t) \in Nat /\ Left(t)' \in Nat /\ Left(t)' < Left(t)
  BY <1>1 DEF BeginSettle, SelectLoser, ClearFlags, Settle, BeginArm, SelectOwner, Arm, Refuse,
     Fail, DetectDeadlock, Running, End, Goto, Left
<1> DEFINE f == [s \in Txn |-> Left(s)]
           g == [s \in Txn |-> Left(s)']
           d == Left(t)' - Left(t)
<1>3. /\ d \in Int /\ d < 0 /\ g[t] = f[t] + d
      /\ \A s \in Txn : f[s] \in Int
      /\ \A s \in Txn \ {t} : g[s] = f[s]
  <2>1. \A s \in Txn : Left(s) \in Int
    BY DEF Left
  <2>2. \A s \in Txn \ {t} : Left(s)' = Left(s)
    BY <1>2 DEF Left
  <2>3. f[t] = Left(t) /\ g[t] = Left(t)'
    OBVIOUS
  <2>4. \A a, b \in Nat : b < a => b - a \in Int /\ b - a < 0 /\ b = a + (b - a)
    OBVIOUS
  <2>5. d \in Int /\ d < 0 /\ Left(t)' = Left(t) + d
    BY <1>2, <2>4
  <2> HIDE DEF d
  <2> QED BY <2>1, <2>2, <2>3, <2>5
<1>4. Work = SumFunctionOnSet(f, Txn) /\ Work' = SumFunctionOnSet(g, Txn)
  BY DEF Work
<1> HIDE DEF f, g, d
<1>5. IntsOn(f, Txn)
  BY <1>3 DEF IntsOn
<1>6. Work' = Work + d
  BY <1>3, <1>4, <1>5, SumOfChanged
<1>7. Work \in Nat
  BY WorkType
<1> QED BY <1>3, <1>6, <1>7

(* What is left to do is a number that every step makes smaller: no
   transaction goes round in circles, and each locks, writes and ends once. *)
THEOREM WorkRunsOut ==
  ASSUME IsFiniteSet(Txn) PROVE Spec => [](Work \in Nat) /\ [][Work' < Work]_vars
<1>1. IInv => Work \in Nat
  BY WorkType DEF IInv
<1>2. IInv /\ [Next]_vars => [Work' < Work]_vars
  BY WorkStep
<1> QED BY <1>1, <1>2, Invariant, PTL DEF Spec

(* Fairness, with the guards of the statements instead of ENABLED, which is
   out of the prover's reach: Fairness at every moment of a behaviour. *)
StatementsRun ==
  \A t \in Txn :
    /\ <>[](pc[t] = "selectLoser" /\ Free(t)) => []<><<SelectLoser(t)>>_vars
    /\ <>[](pc[t] = "clearFlags" /\ Free(t))  => []<><<ClearFlags(t)>>_vars
    /\ <>[](pc[t] = "pay")                    => []<><<Settle(t)>>_vars
    /\ <>[](pc[t] = "selectOwner" /\ Free(t)) => []<><<SelectOwner(t)>>_vars
    /\ <>[](pc[t] = "arm")                    => []<><<Arm(t) \/ Refuse(t)>>_vars
    /\ <>[](Running(t) /\ Deadlocked(t))      => []<><<DetectDeadlock(t)>>_vars

(* While a transaction runs, something happens: the database never comes to
   a standstill, whatever its transactions wait for.  With WorkRunsOut, every
   transaction has ended after finitely many such steps. *)
THEOREM TransactionsProgress ==
  ASSUME IsFiniteSet(Txn)
  PROVE  Init /\ [][Next]_vars /\ []StatementsRun =>
           []((\E t \in Txn : Running(t)) => <><<Next>>_vars)
<1> DEFINE Still == [][FALSE]_vars
           Ready(t) == Running(t) /\ (Free(t) \/ Deadlocked(t))
<1>1. ASSUME NEW t \in Txn
      PROVE  []StatementsRun => (Still => ~Ready(t))
  <2>1. StatementsRun =>
          /\ <>[](pc[t] = "selectLoser" /\ Free(t)) => []<><<SelectLoser(t)>>_vars
          /\ <>[](pc[t] = "clearFlags" /\ Free(t))  => []<><<ClearFlags(t)>>_vars
          /\ <>[](pc[t] = "pay")                    => []<><<Settle(t)>>_vars
          /\ <>[](pc[t] = "selectOwner" /\ Free(t)) => []<><<SelectOwner(t)>>_vars
          /\ <>[](pc[t] = "arm")                    => []<><<Arm(t) \/ Refuse(t)>>_vars
          /\ <>[](Running(t) /\ Deadlocked(t))      => []<><<DetectDeadlock(t)>>_vars
    BY DEF StatementsRun
  <2>2. Ready(t) =>
          \/ pc[t] = "selectLoser" /\ Free(t)
          \/ pc[t] = "clearFlags" /\ Free(t)
          \/ pc[t] = "pay"
          \/ pc[t] = "selectOwner" /\ Free(t)
          \/ pc[t] = "arm"
          \/ Running(t) /\ Deadlocked(t)
    BY DEF Running
  <2>3. [FALSE]_vars =>
          /\ (pc[t] = "selectLoser" /\ Free(t)) => (pc[t] = "selectLoser" /\ Free(t))'
          /\ (pc[t] = "clearFlags" /\ Free(t)) => (pc[t] = "clearFlags" /\ Free(t))'
          /\ (pc[t] = "pay") => (pc[t] = "pay")'
          /\ (pc[t] = "selectOwner" /\ Free(t)) => (pc[t] = "selectOwner" /\ Free(t))'
          /\ (pc[t] = "arm") => (pc[t] = "arm")'
          /\ (Running(t) /\ Deadlocked(t)) => (Running(t) /\ Deadlocked(t))'
    <3> SUFFICES ASSUME UNCHANGED vars
                 PROVE  /\ pc'[t] = pc[t] /\ (Free(t) <=> Free(t)')
                        /\ (Running(t) /\ Deadlocked(t) => Running(t)' /\ Deadlocked(t)')
      OBVIOUS
    <3>1. \A s : Wanted(s)' = Wanted(s) /\ WaitsFor(s)' = WaitsFor(s) /\ pc' = pc /\ lock' = lock
      BY DEF vars, Wanted, WaitsFor
    <3>2. Deadlocked(t)' <=> Deadlocked(t)
      BY <3>1 DEF Deadlocked, OnCycle, Closed
    <3> QED BY <3>1, <3>2 DEF Free, Running
  <2> HIDE DEF Ready
  <2> QED BY <2>1, <2>2, <2>3, PTL
<1>2. []StatementsRun => (Still => \A t \in Txn : ~Ready(t))
  <2> HIDE DEF Still, Ready
  <2> QED BY <1>1
<1>3. Init /\ [][Next]_vars => []NobodyIsStuck
  <2>1. IInv /\ HoldersRun => NobodyIsStuck
    BY SomebodyRuns
  <2> QED BY <2>1, InitInvariant, NextInvariant, HoldersInit, HoldersStep, PTL
<1>4. NobodyIsStuck /\ (\E t \in Txn : Running(t)) => ~(\A t \in Txn : ~Ready(t))
  BY DEF NobodyIsStuck
<1> HIDE DEF Ready
<1> QED BY <1>2, <1>3, <1>4, PTL
=============================================================================
