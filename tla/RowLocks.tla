------------------------------ MODULE RowLocks ------------------------------
(***************************************************************************)
(* PostgreSQL's row locks, as the transactions of src/ meet them: SELECT   *)
(* ... FOR UPDATE, a plain UPDATE (which does not touch the key), and the  *)
(* key share that inserting a row takes on every row it refers to.  A lock *)
(* is held to the end of its transaction.                                  *)
(***************************************************************************)
EXTENDS Integers

CONSTANT Txn            \* bound: the requests that will ever run, each once

ASSUME TxnAssumption == Txn \subseteq Nat

VARIABLE locks          \* the locks held: transaction, row and mode

Modes == {"update", "nokey", "share"}

Conflicts(m, n) ==
  \/ "update" \in {m, n}
  \/ m = "nokey" /\ n = "nokey"

Lock(row, mode) == [row |-> row, mode |-> mode]

(* The transactions that keep t from taking the lock w. *)
Holders(t, w) ==
  {s \in Txn \ {t} : \E l \in locks :
     l.txn = s /\ l.row = w.row /\ Conflicts(l.mode, w.mode)}

(* A statement waits until nobody holds what it wants. *)
Take(t, ws) ==
  /\ \A w \in ws : Holders(t, w) = {}
  /\ locks' = locks \cup {[txn |-> t, row |-> w.row, mode |-> w.mode] : w \in ws}

(* A statement that is a transaction of its own holds nothing afterwards. *)
Release(t, ws) ==
  /\ \A w \in ws : Holders(t, w) = {}
  /\ locks' = {l \in locks : l.txn # t}

(* No two transactions hold locks that conflict. *)
Exclusive ==
  \A l, k \in locks :
    l.txn # k.txn /\ l.row = k.row => ~Conflicts(l.mode, k.mode)
=============================================================================
