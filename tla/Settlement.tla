----------------------------- MODULE Settlement -----------------------------
(***************************************************************************)
(* The database transactions that settle fights and arm insurances, under  *)
(* PostgreSQL's READ COMMITTED: settle of fight-club.repository.ts and     *)
(* armInsurance of consumables.service.ts.  A transaction takes row locks  *)
(* of the users table statement by statement, its writes become visible    *)
(* at its commit, and it may fail at any statement.  settle locks the      *)
(* loser first and the winner second, so two fights the same two users     *)
(* won against each other can block one another until PostgreSQL aborts    *)
(* one.                                                                    *)
(***************************************************************************)
EXTENDS Ledger, Deadlocks, FiniteSets, Functions

CONSTANTS
  Txn,        \* bound: the transactions that will ever run, each once
  NoTxn, NoRow, NoUser

ASSUME NoTxnAssumption == NoTxn \notin Txn
ASSUME NoRowAssumption == NoRow \notin Row
ASSUME NoUserAssumption == NoUser \notin User

VARIABLES
  pc,         \* transaction -> the statement it is at
  fight,      \* transaction -> the row settle is going to insert
  owner,      \* transaction -> the user armInsurance works for
  lock        \* user -> the transaction that holds the row's lock

vars == <<account, fights, pc, fight, owner, lock>>

Running(t) == pc[t] \in {"selectLoser", "clearFlags", "pay", "selectOwner", "arm"}

Init ==
  /\ LedgerInit
  /\ pc = [t \in Txn |-> "idle"]
  /\ fight = [t \in Txn |-> NoRow]
  /\ owner = [t \in Txn |-> NoUser]
  /\ lock = [u \in User |-> NoTxn]

Goto(t, l) == pc' = [pc EXCEPT ![t] = l]

(* Locking rows waits until no other transaction holds one of them. *)
Lock(t, us) ==
  /\ \A u \in us : lock[u] \in {NoTxn, t}
  /\ lock' = [u \in User |-> IF u \in us THEN t ELSE lock[u]]
(* SELECT ... FOR UPDATE; faulty: the row is read without the lock. *)
SelectOnly(t, u) == UNCHANGED lock
SelectForUpdate(t, u) == Lock(t, {u})

(* The end of a transaction gives up its locks; faulty: only the first. *)
ReleaseLoser(t) == [u \in User |->
  IF lock[u] = t /\ (fight[t] = NoRow \/ fight[t].loser = u) THEN NoTxn ELSE lock[u]]
Release(t) == [u \in User |-> IF lock[u] = t THEN NoTxn ELSE lock[u]]

End(t, l) ==
  /\ Goto(t, l)
  /\ lock' = Release(t)
  /\ UNCHANGED <<fight, owner>>

-----------------------------------------------------------------------------
(* settle is called with a winner, a loser and the stake of their match. *)
BeginSettle(t) ==
  \E r \in Row :
    /\ pc[t] = "idle"
    /\ r.winner # r.loser /\ ~r.insured
    /\ Goto(t, "selectLoser")
    /\ fight' = [fight EXCEPT ![t] = r]
    /\ UNCHANGED <<ledgerVars, owner, lock>>

(* SELECT armed ... FOR UPDATE: the loser's flag decides the amount. *)
SelectLoser(t) ==
  /\ pc[t] = "selectLoser"
  /\ SelectForUpdate(t, fight[t].loser)
  /\ fight' = [fight EXCEPT ![t].insured = account[fight[t].loser].armed]
  /\ Goto(t, "clearFlags")
  /\ UNCHANGED <<ledgerVars, owner>>

(* UPDATE ... armed = false of both: the first lock on the winner's row. *)
ClearFlags(t) ==
  /\ pc[t] = "clearFlags"
  /\ Lock(t, {fight[t].winner, fight[t].loser})
  /\ Goto(t, "pay")
  /\ UNCHANGED <<ledgerVars, fight, owner>>

(* The stake, the counters and the row of the fight, and the COMMIT. *)
Settle(t) ==
  /\ pc[t] = "pay"
  /\ account' = Paid(fight[t])
  /\ fights' = Append(fights, fight[t])
  /\ End(t, "done")

(* POST /shop/use of a fight_insurance. *)
BeginArm(t) ==
  \E u \in User :
    /\ pc[t] = "idle"
    /\ Goto(t, "selectOwner")
    /\ owner' = [owner EXCEPT ![t] = u]
    /\ UNCHANGED <<ledgerVars, fight, lock>>

SelectOwner(t) ==
  /\ pc[t] = "selectOwner"
  /\ SelectForUpdate(t, owner[t])
  /\ Goto(t, "arm")
  /\ UNCHANGED <<ledgerVars, fight, owner>>

(* ALREADY_ARMED or NOT_OWNED; faulty: nobody counts the policies. *)
AlreadyArmed(t) == account[owner[t]].armed
Refused(t) == account[owner[t]].armed \/ account[owner[t]].policies = 0

Arm(t) ==
  /\ pc[t] = "arm" /\ ~Refused(t)
  /\ account' = Insured(owner[t])
  /\ UNCHANGED fights
  /\ End(t, "done")

Refuse(t) ==
  /\ pc[t] = "arm" /\ Refused(t)
  /\ UNCHANGED ledgerVars
  /\ End(t, "failed")

(* A statement of the transaction fails: nothing of it is ever seen. *)
Fail(t) ==
  /\ Running(t)
  /\ UNCHANGED ledgerVars
  /\ End(t, "failed")

(* PostgreSQL's lock manager: a transaction that waits for itself is
   aborted. *)
Wanted(t) ==
  CASE pc[t] = "selectLoser" -> {fight[t].loser}
    [] pc[t] = "clearFlags"  -> {fight[t].winner, fight[t].loser}
    [] pc[t] = "selectOwner" -> {owner[t]}
    [] OTHER -> {}
WaitsFor(t) == {lock[u] : u \in Wanted(t)} \ {NoTxn, t}
Deadlocked(t) == OnCycle(t, [s \in Txn |-> WaitsFor(s)])
DetectDeadlock(t) == Deadlocked(t) /\ Fail(t)

Next ==
  \E t \in Txn :
    \/ BeginSettle(t) \/ SelectLoser(t) \/ ClearFlags(t) \/ Settle(t)
    \/ BeginArm(t) \/ SelectOwner(t) \/ Arm(t) \/ Refuse(t)
    \/ Fail(t) \/ DetectDeadlock(t)

(* The database executes a statement whose locks are free, and its deadlock
   detector runs.  Nothing makes it fail otherwise. *)
Fairness ==
  \A t \in Txn :
    /\ WF_vars(SelectLoser(t)) /\ WF_vars(ClearFlags(t)) /\ WF_vars(Settle(t))
    /\ WF_vars(SelectOwner(t)) /\ WF_vars(Arm(t) \/ Refuse(t))
    /\ WF_vars(DetectDeadlock(t))

Spec == Init /\ [][Next]_vars /\ Fairness

-----------------------------------------------------------------------------
TypeOK ==
  /\ account \in [User -> Account]
  /\ fights \in Seq(Row)
  /\ pc \in [Txn -> {"idle", "selectLoser", "clearFlags", "pay",
                     "selectOwner", "arm", "done", "failed"}]
  /\ fight \in [Txn -> Row \cup {NoRow}]
  /\ owner \in [Txn -> User \cup {NoUser}]
  /\ lock \in [User -> Txn \cup {NoTxn}]

(* A transaction that has decided what to do still holds the locks under
   which it decided, and what it read is still so: the reason why the
   transactions can be read as single steps. *)
ReadsAreFresh ==
  \A t \in Txn :
    /\ pc[t] \in {"clearFlags", "pay"} =>
         /\ lock[fight[t].loser] = t
         /\ fight[t].insured = account[fight[t].loser].armed
    /\ pc[t] = "pay" => lock[fight[t].winner] = t
    /\ pc[t] = "arm" => lock[owner[t]] = t

(* Aura and debt can be recomputed from the fights table alone: every row
   moved the stake, or half of it when insured, from one user to another, so
   fights are zero-sum and no settlement is lost or paid twice. *)
Bet(r) == IF r.insured THEN r.stake \div 2 ELSE r.stake
Gain(u, type, r) ==
  CASE r.type = type /\ r.winner = u -> Bet(r)
    [] r.type = type /\ r.loser = u /\ r.winner # u -> -Bet(r)
    [] r.type # type \/ u \notin {r.winner, r.loser} -> 0
Flow(u, type) == SumFunction([k \in DOMAIN fights |-> Gain(u, type, fights[k])])
BalancesMatchFights ==
  \A u \in User : account[u].aura = Flow(u, "aura") /\ account[u].debt = -Flow(u, "debt")

(* The counters are those of the fights table: a streak is the number of the
   user's fights since the last one that ended the other way. *)
WonAt(u) == {k \in DOMAIN fights : fights[k].winner = u}
LostAt(u) == {k \in DOMAIN fights : fights[k].loser = u}
Since(rows, others) == {k \in rows : \A j \in others : j < k}
StreaksMatchFights ==
  \A u \in User :
    /\ account[u].won = Cardinality(WonAt(u)) /\ account[u].lost = Cardinality(LostAt(u))
    /\ account[u].winStreak = Cardinality(Since(WonAt(u), LostAt(u)))
    /\ account[u].lossStreak = Cardinality(Since(LostAt(u), WonAt(u)))

(* One policy insures one fight: the insured losses of a user, and the one
   that is armed, were each paid for with a policy. *)
InsuredAt(u) == {k \in LostAt(u) : fights[k].insured}
NoFreeInsurance ==
  \A u \in User :
    Cardinality(InsuredAt(u)) + (IF account[u].armed THEN 1 ELSE 0)
      <= Policies - account[u].policies

(* However the transactions interleave, wait and fail, the accounts change as
   if each had run alone. *)
ImplementsLedger == LedgerSpec

(* No transaction hangs: waiting ends, by the lock or by an abort. *)
TransactionsEnd == \A t \in Txn : Running(t) ~> ~Running(t)
=============================================================================
