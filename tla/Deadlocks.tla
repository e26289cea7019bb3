----------------------------- MODULE Deadlocks -----------------------------
(***************************************************************************)
(* When PostgreSQL finds a deadlock: a transaction that waits, over any    *)
(* number of others, for itself.  One that merely waits for a member of    *)
(* such a cycle is not on it, and is not aborted.                          *)
(***************************************************************************)
EXTENDS Naturals

(* The sets that hold all of what their members wait for. *)
Closed(ts, waits) == \A s \in ts : waits[s] \subseteq ts

OnCycle(t, waits) ==
  \A ts \in SUBSET DOMAIN waits : waits[t] \subseteq ts /\ Closed(ts, waits) => t \in ts
=============================================================================
