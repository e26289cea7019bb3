-------------------------------- MODULE Fight --------------------------------
(***************************************************************************)
(* What the fight club promises of a fight, whatever its players, sockets, *)
(* timers and database do: the life of a fight as the outside sees it, and *)
(* the row of the fights table (src/database/scheme.ts) it may leave.      *)
(*                                                                         *)
(*        Open       Begin         Decide         Close                    *)
(*   none ----> open ----> fighting ----> decided ----> closed             *)
(*               |                                       ^                 *)
(*               +--GiveUp--> cancelled -----------------+                 *)
(*                                                                         *)
(* A fight is decided once, at most one row is written for it, and the row *)
(* says what was decided: a fight that began is never recorded as          *)
(* cancelled, and one that never began is never recorded as won.           *)
(***************************************************************************)
EXTENDS Sequences

CONSTANTS
  MatchId,
  Verdict,      \* the results a fight can have
  NoVerdict,
  Cancelled     \* the row of a challenge nobody fought

VARIABLES
  stage,        \* match -> where its life is
  result,       \* match -> its verdict, once decided
  row           \* match -> the rows written for it

fightVars == <<stage, result, row>>

Init ==
  /\ stage = [m \in MatchId |-> "none"]
  /\ result = [m \in MatchId |-> NoVerdict]
  /\ row = [m \in MatchId |-> <<>>]

Move(m, from, to) == stage[m] = from /\ stage' = [stage EXCEPT ![m] = to]
Write(m, r) == row' = [row EXCEPT ![m] = Append(@, r)]

Open(m)  == Move(m, "none", "open") /\ UNCHANGED <<result, row>>
Begin(m) == Move(m, "open", "fighting") /\ UNCHANGED <<result, row>>

Decide(m) ==
  /\ Move(m, "fighting", "decided")
  /\ \E v \in Verdict : result' = [result EXCEPT ![m] = v]
  /\ UNCHANGED row

(* The verdict reaches the database before the fight is closed, or never. *)
Record(m) ==
  /\ stage[m] = "decided" /\ row[m] = <<>>
  /\ Write(m, result[m])
  /\ UNCHANGED <<stage, result>>

Close(m)  == Move(m, "decided", "closed") /\ UNCHANGED <<result, row>>
GiveUp(m) == Move(m, "open", "cancelled") /\ UNCHANGED <<result, row>>

(* The cancellation reaches the database, or never does. *)
Settled(m) ==
  /\ Move(m, "cancelled", "closed")
  /\ Write(m, Cancelled) \/ UNCHANGED row
  /\ UNCHANGED result

(* The process stops: every fight that has begun its life is over. *)
Vanish ==
  /\ stage' = [m \in MatchId |-> IF stage[m] = "none" THEN "none" ELSE "closed"]
  /\ UNCHANGED <<result, row>>

Next ==
  \/ \E m \in MatchId : \/ Open(m) \/ Begin(m) \/ Decide(m) \/ Record(m)
                        \/ Close(m) \/ GiveUp(m) \/ Settled(m)
  \/ Vanish

Spec == Init /\ [][Next]_fightVars

-----------------------------------------------------------------------------
(* The record of a fight: no row while it is open or running, at most one
   ever, and that one is the verdict of a fight that was decided and
   "cancelled" for one that was not. *)
RecordIsRight ==
  \A m \in MatchId :
    /\ stage[m] \in {"none", "open", "fighting", "cancelled"} =>
         row[m] = <<>> /\ result[m] = NoVerdict
    /\ \/ row[m] = <<>>
       \/ result[m] \in Verdict /\ row[m] = <<result[m]>>
       \/ result[m] = NoVerdict /\ row[m] = <<Cancelled>>
=============================================================================
