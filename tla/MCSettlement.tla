---------------------------- MODULE MCSettlement ----------------------------
(* Settlement on a small instance: see the README for the run. *)
EXTENDS Settlement
=============================================================================
