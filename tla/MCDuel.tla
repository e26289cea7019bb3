------------------------------- MODULE MCDuel -------------------------------
(* Duel on a small instance: see the README for the scaling of the times. *)
EXTENDS Duel, TLC

(* The tabs are interchangeable: no operation compares them. *)
TabSymmetry == Permutations(Tabs)
=============================================================================
