---------------------------- MODULE MCModeration ----------------------------
(* Moderation on small instances: see the README for the runs. *)
EXTENDS Moderation, TLC

(* Requests are interchangeable: no operation compares them. *)
RequestSymmetry == Permutations(Request)
=============================================================================
