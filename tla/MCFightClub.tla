---------------------------- MODULE MCFightClub ----------------------------
(* FightClub on small instances: see the README for the runs. *)
EXTENDS FightClub, TLC

(* Users are interchangeable, and so are the tabs. *)
ClubSymmetry == Permutations(User) \cup Permutations(Tab)
=============================================================================
