--------------------------- MODULE FightClubProofs ---------------------------
(***************************************************************************)
(* That the fight club keeps the promise of module Fight, for any number   *)
(* of users, sockets, matches and restarts.  A match is in one place at a  *)
(* time: in the table with nothing written for it, on its way to the       *)
(* database with its verdict, or gone; the status FIGHT_OVER, which is set *)
(* before the first await of finishMatch, is what keeps the places apart.  *)
(***************************************************************************)
EXTENDS FightClub, FiniteFacts

(* A seat has an id exactly if it has a socket. *)
SeatsOK ==
  \A m \in MatchId, i \in Side : seat[m][i].id = NoUser <=> seat[m][i].socketId = NoSocket

(* Where a match is, and what was decided and written for it there. *)
LifeOK ==
  \A m \in MatchId :
    /\ status[m] \in {"none", "LOBBY", "FIGHTING"} => verdict[m] = NoVerdict /\ fights[m] = <<>>
    /\ status[m] = "FIGHTING" => \A i \in Side : seat[m][i].id \in User
    /\ status[m] = "FIGHT_OVER" => m \in settling \cup closing
    /\ m \in settling =>
         status[m] = "FIGHT_OVER" /\ verdict[m] \in Verdict /\ fights[m] = <<>>
    /\ m \in closing =>
         status[m] = "FIGHT_OVER" /\ verdict[m] \in Verdict /\ fights[m] = <<verdict[m]>>
    /\ m \in cancelling =>
         status[m] = "gone" /\ verdict[m] = NoVerdict /\ fights[m] = <<>>
    /\ \/ fights[m] = <<>>
       \/ verdict[m] \in Verdict /\ fights[m] = <<verdict[m]>>
       \/ verdict[m] = NoVerdict /\ fights[m] = <<Cancelled>>

IInv == TypeOK /\ SeatsOK /\ LifeOK

(* A player taken out of the match keeps the seat. *)
LEMMA UnseatType ==
  ASSUME NEW p \in Seat
  PROVE  /\ [p EXCEPT !.joinedMatch = FALSE] \in Seat
         /\ [p EXCEPT !.joinedMatch = FALSE].id = p.id
         /\ [p EXCEPT !.joinedMatch = FALSE].socketId = p.socketId
BY DEF Seat

(* The database and the table start empty. *)
LEMMA InitInvariant == Init => IInv
<1>. SUFFICES ASSUME Init PROVE IInv
  OBVIOUS
<1>1. EmptySeat \in Seat /\ EmptySeat.id = NoUser /\ EmptySeat.socketId = NoSocket
  BY DEF EmptySeat, CreatePlayer, Seat
<1>. QED
  BY <1>1 DEF Init, IInv, TypeOK, SeatsOK, LifeOK, Socket

(* No step takes a variable out of its type. *)
LEMMA TypeStep == TypeOK /\ SeatsOK /\ LifeOK /\ [Next]_vars => TypeOK'
<1>. SUFFICES ASSUME TypeOK, SeatsOK, LifeOK, [Next]_vars PROVE TypeOK'
  OBVIOUS
<1>. USE DEF TypeOK
<1>0. CASE UNCHANGED vars
  BY <1>0 DEF vars, netVars, tableVars, taskVars, dbVars
<1>1. ASSUME NEW s \in Socket, Connect(s) \/ CreateMatch(s) PROVE TypeOK'
  <2>1. CASE Connect(s)
    BY <2>1 DEF Connect, tableVars, taskVars, dbVars
  <2>2. CASE CreateMatch(s)
    <3>1. Owner(s) \in User
      BY DEF Socket, Owner
    <3>2. CreatePlayer(Owner(s), s, FALSE) \in Seat
      BY <3>1 DEF CreatePlayer, Seat
    <3>. QED
      <4>. PICK m \in MatchId : /\ status' = [status EXCEPT ![m] = "LOBBY"]
                               /\ seat' = [seat EXCEPT ![m][1] = CreatePlayer(Owner(s), s, FALSE)]
        BY <2>2 DEF CreateMatch
      <4>1. seat' \in [MatchId -> [Side -> Seat]]
        BY <3>2 DEF Side
      <4>. QED
        BY <2>2, <4>1 DEF CreateMatch, netVars, taskVars, dbVars
  <2>. QED
    BY <1>1, <2>1, <2>2
<1>2. ASSUME NEW s \in Socket, Disconnect(s) PROVE TypeOK'
  <2>1. seat' \in [MatchId -> [Side -> Seat]]
    BY <1>2, UnseatType DEF Disconnect
  <2>2. /\ grace' \in [MatchId -> [User -> Socket \cup {NoSocket}]]
        /\ leaver' \in [MatchId -> Socket \cup {NoSocket}]
    BY <1>2 DEF Disconnect
  <2>3. /\ status' \in [MatchId -> {"none", "LOBBY", "FIGHTING", "FIGHT_OVER", "gone"}]
        /\ verdict' \in [MatchId -> Verdict \cup {NoVerdict}]
        /\ settling' \subseteq MatchId
    <3>1. CASE UNCHANGED <<status, verdict, settling>>
      BY <3>1
    <3>2. ASSUME NEW m \in MatchId, NEW i \in Side, status[m] = "FIGHTING",
                 status' = [status EXCEPT ![m] = OverStatus], FinishMatch(m, i, "rage_quit")
          PROVE /\ status' \in [MatchId -> {"none", "LOBBY", "FIGHTING", "FIGHT_OVER", "gone"}]
                /\ verdict' \in [MatchId -> Verdict \cup {NoVerdict}]
                /\ settling' \subseteq MatchId
      BY <3>2 DEF FinishMatch, OverStatus, LifeOK, Verdict, Side, Other
    <3>. QED
      BY <1>2, <3>1, <3>2 DEF Disconnect, Reached, Bound
  <2>. QED
    BY <1>2, <2>1, <2>2, <2>3 DEF Disconnect, taskVars
<1>3. ASSUME NEW s \in Socket, NEW m \in MatchId,
             JoinMatch(s, m) \/ StartMatch(s, m) \/ ExpireLobbyChallenge(s, m)
      PROVE TypeOK'
  <2>1. CASE JoinMatch(s, m)
    <3>1. Owner(s) \in User
      BY DEF Socket, Owner
    <3>2. CreatePlayer(Owner(s), s, TRUE) \in Seat
      BY <3>1 DEF CreatePlayer, Seat
    <3>3. seat' \in [MatchId -> [Side -> Seat]]
      <4>1. ASSUME NEW i \in Side, seat' = [seat EXCEPT ![m][i] = CreatePlayer(@.id, s, TRUE)]
            PROVE  seat' \in [MatchId -> [Side -> Seat]]
        <5>1. CreatePlayer(seat[m][i].id, s, TRUE) \in Seat
          BY DEF CreatePlayer, Seat
        <5>. QED
          BY <4>1, <5>1
      <4>2. ASSUME seat' = [seat EXCEPT ![m][2] = CreatePlayer(Owner(s), s, TRUE)]
            PROVE  seat' \in [MatchId -> [Side -> Seat]]
        BY <4>2, <3>2 DEF Side
      <4>. QED
        BY <2>1, <4>1, <4>2 DEF JoinMatch, SideOf
    <3>4. grace' \in [MatchId -> [User -> Socket \cup {NoSocket}]]
      BY <2>1, <3>1 DEF JoinMatch, ClearLobbyGrace
    <3>. QED
      BY <2>1, <3>3, <3>4 DEF JoinMatch, netVars, dbVars
  <2>2. CASE StartMatch(s, m)
    BY <2>2 DEF StartMatch, netVars, dbVars
  <2>3. CASE ExpireLobbyChallenge(s, m)
    BY <2>3 DEF ExpireLobbyChallenge, Delete, netVars
  <2>. QED
    BY <1>3, <2>1, <2>2, <2>3
<1>4. ASSUME NEW m \in MatchId, NEW i \in Side, KnockOut(m, i) PROVE TypeOK'
  BY <1>4 DEF KnockOut, FinishMatch, OverStatus, LifeOK, Verdict, Side, Other, netVars, taskVars
<1>5. ASSUME NEW u \in User, NEW m \in MatchId, GraceElapses(u, m) PROVE TypeOK'
  BY <1>5 DEF GraceElapses, ClearLobbyGrace, netVars, tableVars, dbVars
<1>6. ASSUME NEW m \in MatchId,
             Settle(m) \/ SettleFails(m) \/ CloseMatch(m) \/ RecordCancelled(m)
      PROVE TypeOK'
  <2>1. CASE Settle(m)
    BY <2>1 DEF Settle, LifeOK, netVars, tableVars, taskVars
  <2>2. CASE SettleFails(m) \/ CloseMatch(m)
    BY <2>2 DEF SettleFails, CloseMatch, Delete, netVars, taskVars
  <2>3. CASE RecordCancelled(m)
    <3>1. Append(fights[m], Cancelled) \in Seq(Verdict \cup {Cancelled})
      OBVIOUS
    <3>. QED
      BY <2>3, <3>1 DEF RecordCancelled, netVars, tableVars, taskVars
  <2>. QED
    BY <1>6, <2>1, <2>2, <2>3
<1>7. CASE Restart
  BY <1>7 DEF Restart
<1>. QED
  BY <1>0, <1>1, <1>2, <1>3, <1>4, <1>5, <1>6, <1>7 DEF Next

(* What a step may do to a seat: nothing to its id, or give it one. *)
LEMMA SeatStep ==
  TypeOK /\ SeatsOK /\ [Next]_vars =>
    /\ SeatsOK'
    /\ \A m \in MatchId, i \in Side : seat[m][i].id \in User => seat'[m][i].id \in User
<1>. DEFINE Good == /\ SeatsOK'
                    /\ \A m \in MatchId, i \in Side :
                         seat[m][i].id \in User => seat'[m][i].id \in User
<1>. SUFFICES ASSUME TypeOK, SeatsOK, [Next]_vars PROVE Good
  OBVIOUS
<1>. USE DEF SeatsOK
<1>1. CASE UNCHANGED seat
  BY <1>1
<1>2. ASSUME NEW m \in MatchId, NEW i \in Side, NEW s \in Socket, NEW u \in User,
             NEW joined \in BOOLEAN,
             seat' = [seat EXCEPT ![m][i] = CreatePlayer(u, s, joined)]
      PROVE  Good
  BY <1>2, NoneAssumption DEF CreatePlayer, TypeOK, Socket
<1>3. ASSUME NEW s \in Socket PROVE Owner(s) \in User
  BY DEF Socket, Owner
<1>4. ASSUME NEW s \in Socket, CreateMatch(s) PROVE Good
  <2>1. PICK m \in MatchId : seat' = [seat EXCEPT ![m][1] = CreatePlayer(Owner(s), s, FALSE)]
    BY <1>4 DEF CreateMatch
  <2>2. 1 \in Side /\ Owner(s) \in User
    BY <1>3 DEF Side
  <2>. QED
    BY <1>2, <2>1, <2>2
<1>5. ASSUME NEW s \in Socket, NEW m \in MatchId, JoinMatch(s, m) PROVE Good
  <2>1. Owner(s) \in User /\ 2 \in Side
    BY <1>3 DEF Side
  <2>2. ASSUME NEW i \in SideOf(Owner(s), m),
               seat' = [seat EXCEPT ![m][i] = CreatePlayer(@.id, s, TRUE)]
        PROVE  Good
    <3>1. i \in Side /\ seat[m][i].id = Owner(s)
      BY <2>2 DEF SideOf
    <3>2. seat' = [seat EXCEPT ![m][i] = CreatePlayer(Owner(s), s, TRUE)]
      BY <2>2, <3>1 DEF TypeOK
    <3>. QED
      BY <1>2, <2>1, <3>1, <3>2
  <2>3. ASSUME seat' = [seat EXCEPT ![m][2] = CreatePlayer(Owner(s), s, TRUE)]
        PROVE  Good
    BY <1>2, <2>1, <2>3
  <2>. QED
    BY <1>5, <2>2, <2>3 DEF JoinMatch
<1>6. ASSUME NEW s \in Socket, Disconnect(s) PROVE Good
  BY <1>6, UnseatType DEF Disconnect, TypeOK
<1>7. CASE UNCHANGED vars
  BY <1>1, <1>7 DEF vars, tableVars
<1>8. ASSUME NEW s \in Socket, Connect(s) PROVE Good
  BY <1>1, <1>8 DEF Connect, tableVars
<1>9. ASSUME NEW s \in Socket, NEW m \in MatchId,
             StartMatch(s, m) \/ ExpireLobbyChallenge(s, m)
      PROVE Good
  BY <1>1, <1>9 DEF StartMatch, ExpireLobbyChallenge
<1>10. ASSUME NEW m \in MatchId, NEW i \in Side, KnockOut(m, i) PROVE Good
  BY <1>1, <1>10 DEF KnockOut
<1>11. ASSUME NEW u \in User, NEW m \in MatchId, GraceElapses(u, m) PROVE Good
  BY <1>1, <1>11 DEF GraceElapses, tableVars
<1>12. ASSUME NEW m \in MatchId,
              Settle(m) \/ SettleFails(m) \/ CloseMatch(m) \/ RecordCancelled(m)
       PROVE Good
  BY <1>1, <1>12 DEF Settle, SettleFails, CloseMatch, RecordCancelled, tableVars
<1>13. CASE Restart
  BY <1>1, <1>13 DEF Restart
<1>. QED
  BY <1>4, <1>5, <1>6, <1>7, <1>8, <1>9, <1>10, <1>11, <1>12, <1>13 DEF Next

(* A fight is decided between its two players. *)
LEMMA FinishStep ==
  ASSUME TypeOK, LifeOK, NEW m \in MatchId, NEW i \in Side, NEW how \in {"ko", "rage_quit"},
         status[m] = "FIGHTING", FinishMatch(m, i, how)
  PROVE  /\ verdict'[m] \in Verdict
         /\ \E v \in Verdict : verdict' = [verdict EXCEPT ![m] = v]
         /\ settling' = settling \cup {m}
<1>1. seat[m][i].id \in User /\ seat[m][Other(i)].id \in User
  BY DEF LifeOK, Side, Other
<1>. QED
  BY <1>1 DEF FinishMatch, TypeOK, Verdict

(* The first row of a match is its only one. *)
LEMMA FirstRow ==
  ASSUME NEW r PROVE Append(<<>>, r) = <<r>> /\ <<r>> # <<>>
<1>1. Append(<<>>, r) = <<r>>
  OBVIOUS
<1>2. Len(<<r>>) = 1 /\ Len(<<>>) = 0
  OBVIOUS
<1>. QED
  BY <1>1, <1>2

(* No step puts a match in two places. *)
LEMMA LifeStep == TypeOK /\ SeatsOK /\ LifeOK /\ [Next]_vars => LifeOK'
<1>. SUFFICES ASSUME TypeOK, SeatsOK, LifeOK, [Next]_vars PROVE LifeOK'
  OBVIOUS
<1>1. \A m \in MatchId, i \in Side : seat[m][i].id \in User => seat'[m][i].id \in User
  BY SeatStep
<1>2. NoVerdict \notin Verdict
  BY NoneAssumption DEF NoVerdict, Verdict
<1>. USE DEF TypeOK, LifeOK
<1>3. ASSUME UNCHANGED <<status, verdict, dbVars>> PROVE LifeOK'
  BY <1>1, <1>3 DEF dbVars
<1>4. CASE UNCHANGED vars
  BY <1>3, <1>4 DEF vars, tableVars
<1>5. ASSUME NEW s \in Socket, Connect(s) PROVE LifeOK'
  BY <1>3, <1>5 DEF Connect, tableVars
<1>6. ASSUME NEW s \in Socket, CreateMatch(s) PROVE LifeOK'
  <2>1. PICK m \in MatchId : status[m] = "none" /\ status' = [status EXCEPT ![m] = "LOBBY"]
    BY <1>6 DEF CreateMatch
  <2>2. UNCHANGED <<verdict, settling, closing, cancelling, fights>>
    BY <1>6 DEF CreateMatch, dbVars
  <2>. QED
    BY <1>1, <2>1, <2>2
<1>7. ASSUME NEW s \in Socket, NEW m \in MatchId, JoinMatch(s, m) PROVE LifeOK'
  BY <1>3, <1>7 DEF JoinMatch
<1>8. ASSUME NEW s \in Socket, NEW m \in MatchId, StartMatch(s, m) PROVE LifeOK'
  <2>1. UNCHANGED <<seat, verdict, settling, closing, cancelling, fights>>
    BY <1>8 DEF StartMatch, dbVars
  <2>2. CASE status[m] = "LOBBY" /\ BothJoined(m)
    <3>1. \A i \in Side : seat[m][i].id \in User
      BY <2>2 DEF BothJoined, SeatsOK, Seat
    <3>2. status' = [status EXCEPT ![m] = "FIGHTING"]
      BY <1>8, <2>2 DEF StartMatch
    <3>. QED
      BY <2>1, <2>2, <3>1, <3>2
  <2>3. CASE ~(status[m] = "LOBBY" /\ BothJoined(m))
    BY <1>8, <2>1, <2>3 DEF StartMatch
  <2>. QED
    BY <2>2, <2>3
<1>9. ASSUME NEW m \in MatchId, NEW i \in Side, NEW how \in {"ko", "rage_quit"},
             status[m] = "FIGHTING", FinishMatch(m, i, how),
             status' = [status EXCEPT ![m] = OverStatus],
             UNCHANGED <<closing, cancelling, fights>>
      PROVE  LifeOK'
  <2>1. /\ verdict'[m] \in Verdict
        /\ \E v \in Verdict : verdict' = [verdict EXCEPT ![m] = v]
        /\ settling' = settling \cup {m}
    BY <1>9, FinishStep
  <2>. QED
    BY <1>1, <1>9, <2>1 DEF OverStatus
<1>10. ASSUME NEW m \in MatchId, NEW i \in Side, KnockOut(m, i) PROVE LifeOK'
  BY <1>9, <1>10 DEF KnockOut
<1>11. ASSUME NEW s \in Socket, Disconnect(s) PROVE LifeOK'
  <2>1. UNCHANGED <<closing, cancelling, fights>>
    BY <1>11 DEF Disconnect
  <2>2. CASE UNCHANGED <<status, verdict, settling>>
    BY <1>1, <2>1, <2>2
  <2>3. ASSUME NEW m \in MatchId, NEW i \in Side, status[m] = "FIGHTING",
               status' = [status EXCEPT ![m] = OverStatus], FinishMatch(m, i, "rage_quit")
        PROVE  LifeOK'
    BY <1>9, <2>1, <2>3
  <2>. QED
    BY <1>11, <2>2, <2>3 DEF Disconnect, Reached, Bound
<1>12. ASSUME NEW u \in User, NEW m \in MatchId, GraceElapses(u, m) PROVE LifeOK'
  BY <1>3, <1>12 DEF GraceElapses, tableVars
<1>13. ASSUME NEW s \in Socket, NEW m \in MatchId, ExpireLobbyChallenge(s, m) PROVE LifeOK'
  <2>1. UNCHANGED <<seat, verdict, settling, closing, fights>>
    BY <1>13 DEF ExpireLobbyChallenge
  <2>2. \/ UNCHANGED <<status, cancelling>>
        \/ /\ status[m] = "LOBBY"
           /\ status' = [status EXCEPT ![m] = "gone"]
           /\ cancelling' = cancelling \cup {m}
    BY <1>13 DEF ExpireLobbyChallenge, StillAbandoned, Delete
  <2>. QED
    BY <2>1, <2>2
<1>14. ASSUME NEW m \in MatchId, Settle(m) PROVE LifeOK'
  <2>1. fights'[m] = <<verdict[m]>>
    <3>1. m \in settling /\ fights' = [fights EXCEPT ![m] = Append(@, verdict[m])]
      BY <1>14 DEF Settle
    <3>2. fights[m] = <<>>
      BY <3>1
    <3>. QED
      BY <3>1, <3>2, FirstRow
  <2>. QED
    BY <1>1, <1>2, <1>14, <2>1 DEF Settle, tableVars
<1>15. ASSUME NEW m \in MatchId, SettleFails(m) PROVE LifeOK'
  <2>1. /\ m \in settling /\ settling' = settling \ {m}
        /\ status' = [status EXCEPT ![m] = "gone"]
        /\ UNCHANGED <<seat, verdict, closing, cancelling, fights>>
    BY <1>15 DEF SettleFails, Delete
  <2>2. m \notin closing /\ m \notin cancelling
    BY <2>1, FirstRow
  <2>. QED
    BY <2>1, <2>2
<1>16. ASSUME NEW m \in MatchId, CloseMatch(m) PROVE LifeOK'
  <2>1. /\ m \in closing /\ closing' = closing \ {m}
        /\ status' = [status EXCEPT ![m] = "gone"]
        /\ UNCHANGED <<seat, verdict, settling, cancelling, fights>>
    BY <1>16 DEF CloseMatch, Delete
  <2>2. m \notin settling /\ m \notin cancelling
    BY <2>1, FirstRow
  <2>. QED
    BY <2>1, <2>2
<1>17. ASSUME NEW m \in MatchId, RecordCancelled(m) PROVE LifeOK'
  <2>1. Append(fights[m], Cancelled) = <<Cancelled>>
    <3>1. m \in cancelling
      BY <1>17 DEF RecordCancelled
    <3>2. fights[m] = <<>>
      BY <3>1
    <3>. QED
      BY <3>2, FirstRow
  <2>. QED
    BY <1>1, <1>2, <1>17, <2>1 DEF RecordCancelled, tableVars
<1>18. CASE Restart
  BY <1>18 DEF Restart, Live
<1>. QED
  BY <1>4, <1>5, <1>6, <1>7, <1>8, <1>10, <1>11, <1>12, <1>13, <1>14, <1>15, <1>16, <1>17,
     <1>18 DEF Next

(* The invariant is one of every behaviour. *)
LEMMA Invariant == Spec => []IInv
<1>1. IInv /\ [Next]_vars => IInv'
  BY TypeStep, SeatStep, LifeStep DEF IInv
<1>. QED
  BY <1>1, InitInvariant, PTL DEF Spec

(* Every variable keeps its type. *)
THEOREM TypeCorrect == Spec => []TypeOK
<1>1. IInv => TypeOK
  BY DEF IInv
<1>. QED
  BY <1>1, Invariant, PTL

(* A match gets at most one row; the row is its verdict if it was decided and
   "cancelled" only if it never was. *)
THEOREM RecordsAreRight == Spec => []RecordIsRight
<1>1. IInv => RecordIsRight
  BY DEF IInv, TypeOK, LifeOK, RecordIsRight, F!RecordIsRight, StageOf
<1>. QED
  BY <1>1, Invariant, PTL

(* The stage of a match follows its status, and its continuations. *)
LEMMA StageStep ==
  ASSUME TypeOK, TypeOK', NEW m \in MatchId,
         \A k \in MatchId \ {m} : StageOf(k)' = StageOf(k)
  PROVE  [k \in MatchId |-> StageOf(k)]'
           = [[k \in MatchId |-> StageOf(k)] EXCEPT ![m] = StageOf(m)']
OBVIOUS

(* A step of the club is a step of each fight, or none. *)
LEMMA StepRefinement == IInv /\ IInv' /\ [Next]_vars => [F!Next]_F!fightVars
<1>. DEFINE Refined == [F!Next]_F!fightVars
<1>. SUFFICES ASSUME IInv, IInv', [Next]_vars PROVE Refined
  OBVIOUS
<1>1. TypeOK /\ TypeOK' /\ SeatsOK /\ LifeOK /\ LifeOK'
  BY DEF IInv
<1>2. ASSUME UNCHANGED <<status, cancelling, verdict, fights>> PROVE Refined
  BY <1>2 DEF F!fightVars, StageOf
<1>3. ASSUME NEW m \in MatchId, NEW from, NEW to,
             StageOf(m) = from, StageOf(m)' = to,
             \A k \in MatchId \ {m} : status'[k] = status[k],
             \A k \in MatchId \ {m} : k \in cancelling' <=> k \in cancelling
      PROVE  F!Move(m, from, to)
  <2>1. \A k \in MatchId \ {m} : StageOf(k)' = StageOf(k)
    BY <1>3 DEF StageOf
  <2>. QED
    BY <1>1, <1>3, <2>1, StageStep DEF F!Move
<1>4. CASE UNCHANGED vars
  BY <1>2, <1>4 DEF vars, tableVars, dbVars
<1>5. ASSUME NEW s \in Socket, Connect(s) PROVE Refined
  BY <1>2, <1>5 DEF Connect, tableVars, dbVars
<1>6. ASSUME NEW s \in Socket, CreateMatch(s) PROVE Refined
  <2>1. PICK m \in MatchId : status[m] = "none" /\ status' = [status EXCEPT ![m] = "LOBBY"]
    BY <1>6 DEF CreateMatch
  <2>2. UNCHANGED <<verdict, cancelling, fights>>
    BY <1>6 DEF CreateMatch, dbVars
  <2>3. StageOf(m) = "none" /\ StageOf(m)' = "open"
    BY <1>1, <2>1 DEF StageOf, TypeOK
  <2>4. F!Open(m)
    BY <1>1, <1>3, <2>1, <2>2, <2>3 DEF F!Open, TypeOK
  <2>. QED
    BY <2>4 DEF F!Next
<1>7. ASSUME NEW s \in Socket, NEW m \in MatchId, JoinMatch(s, m) PROVE Refined
  BY <1>2, <1>7 DEF JoinMatch, dbVars
<1>8. ASSUME NEW s \in Socket, NEW m \in MatchId, StartMatch(s, m) PROVE Refined
  <2>1. UNCHANGED <<verdict, cancelling, fights>>
    BY <1>8 DEF StartMatch, dbVars
  <2>2. CASE status[m] = "LOBBY" /\ status' = [status EXCEPT ![m] = "FIGHTING"]
    <3>1. StageOf(m) = "open" /\ StageOf(m)' = "fighting"
      BY <1>1, <2>2 DEF StageOf, TypeOK
    <3>2. F!Begin(m)
      BY <1>1, <1>3, <2>1, <2>2, <3>1 DEF F!Begin, TypeOK
    <3>. QED
      BY <3>2 DEF F!Next
  <2>. QED
    BY <1>2, <1>8, <2>1, <2>2 DEF StartMatch
<1>9. ASSUME NEW m \in MatchId, NEW i \in Side, NEW how \in {"ko", "rage_quit"},
             status[m] = "FIGHTING", FinishMatch(m, i, how),
             status' = [status EXCEPT ![m] = OverStatus], UNCHANGED <<cancelling, fights>>
      PROVE  Refined
  <2>1. StageOf(m) = "fighting" /\ StageOf(m)' = "decided"
    BY <1>1, <1>9 DEF StageOf, TypeOK, OverStatus
  <2>2. \E v \in Verdict : verdict' = [verdict EXCEPT ![m] = v]
    BY <1>1, <1>9, FinishStep
  <2>3. F!Decide(m)
    BY <1>1, <1>3, <1>9, <2>1, <2>2 DEF F!Decide, TypeOK
  <2>. QED
    BY <2>3 DEF F!Next
<1>10. ASSUME NEW m \in MatchId, NEW i \in Side, KnockOut(m, i) PROVE Refined
  BY <1>9, <1>10 DEF KnockOut
<1>11. ASSUME NEW s \in Socket, Disconnect(s) PROVE Refined
  <2>1. UNCHANGED <<cancelling, fights>>
    BY <1>11 DEF Disconnect
  <2>2. ASSUME NEW m \in MatchId, NEW i \in Side, status[m] = "FIGHTING",
               status' = [status EXCEPT ![m] = OverStatus], FinishMatch(m, i, "rage_quit")
        PROVE  Refined
    BY <1>9, <2>1, <2>2
  <2>. QED
    BY <1>2, <1>11, <2>1, <2>2 DEF Disconnect, Reached, Bound
<1>12. ASSUME NEW u \in User, NEW m \in MatchId, GraceElapses(u, m) PROVE Refined
  BY <1>2, <1>12 DEF GraceElapses, tableVars, dbVars
<1>13. ASSUME NEW s \in Socket, NEW m \in MatchId, ExpireLobbyChallenge(s, m) PROVE Refined
  <2>1. UNCHANGED <<verdict, fights>>
    BY <1>13 DEF ExpireLobbyChallenge
  <2>2. CASE /\ status[m] = "LOBBY" /\ status' = [status EXCEPT ![m] = "gone"]
             /\ cancelling' = cancelling \cup {m}
    <3>1. StageOf(m) = "open" /\ StageOf(m)' = "cancelled"
      BY <1>1, <2>2 DEF StageOf, TypeOK
    <3>2. F!GiveUp(m)
      BY <1>1, <1>3, <2>1, <2>2, <3>1 DEF F!GiveUp, TypeOK
    <3>. QED
      BY <3>2 DEF F!Next
  <2>. QED
    BY <1>2, <1>13, <2>1, <2>2 DEF ExpireLobbyChallenge, StillAbandoned, Delete
<1>14. ASSUME NEW m \in MatchId, Settle(m) PROVE Refined
  <2>1. UNCHANGED <<status, verdict, cancelling>> /\ m \in settling
        /\ fights' = [fights EXCEPT ![m] = Append(@, verdict[m])]
    BY <1>14 DEF Settle, tableVars
  <2>2. StageOf(m) = "decided" /\ fights[m] = <<>>
    BY <1>1, <2>1 DEF StageOf, LifeOK
  <2>3. F!Record(m)
    BY <2>1, <2>2 DEF F!Record, F!Write, StageOf
  <2>. QED
    BY <2>3 DEF F!Next
<1>15. ASSUME NEW m \in MatchId, SettleFails(m) \/ CloseMatch(m) PROVE Refined
  <2>1. UNCHANGED <<verdict, cancelling, fights>> /\ m \in settling \cup closing
        /\ status' = [status EXCEPT ![m] = "gone"]
    BY <1>15 DEF SettleFails, CloseMatch, Delete
  <2>2. StageOf(m) = "decided" /\ StageOf(m)' = "closed"
    BY <1>1, <2>1 DEF StageOf, LifeOK, TypeOK
  <2>3. F!Close(m)
    BY <1>1, <1>3, <2>1, <2>2 DEF F!Close, TypeOK
  <2>. QED
    BY <2>3 DEF F!Next
<1>16. ASSUME NEW m \in MatchId, RecordCancelled(m) PROVE Refined
  <2>1. UNCHANGED <<status, verdict>> /\ m \in cancelling /\ cancelling' = cancelling \ {m}
        /\ \/ fights' = [fights EXCEPT ![m] = Append(@, Cancelled)]
           \/ UNCHANGED fights
    BY <1>16 DEF RecordCancelled, tableVars
  <2>2. StageOf(m) = "cancelled" /\ StageOf(m)' = "closed"
    BY <1>1, <2>1 DEF StageOf, LifeOK, TypeOK
  <2>3. F!Settled(m)
    BY <1>1, <1>3, <2>1, <2>2 DEF F!Settled, F!Write, TypeOK
  <2>. QED
    BY <2>3 DEF F!Next
<1>17. CASE Restart
  <2>1. UNCHANGED <<verdict, fights>> /\ cancelling' = {}
        /\ status' = [m \in MatchId |-> IF m \in Live THEN "gone" ELSE status[m]]
    BY <1>17 DEF Restart
  <2>2. \A m \in MatchId : StageOf(m)' = IF StageOf(m) = "none" THEN "none" ELSE "closed"
    BY <1>1, <2>1 DEF StageOf, Live, TypeOK
  <2>3. F!Vanish
    BY <2>1, <2>2 DEF F!Vanish
  <2>. QED
    BY <2>3 DEF F!Next
<1>. QED
  BY <1>4, <1>5, <1>6, <1>7, <1>8, <1>10, <1>11, <1>12, <1>13, <1>14, <1>15, <1>16, <1>17
  DEF Next

(* The club implements the life of a fight: whatever joins, leaves, timers,
   failures and restarts interleave, a match is opened, begun, decided,
   recorded and closed in that order and each at most once. *)
THEOREM ClubImplementsFight == Spec => ImplementsFight
<1>1. Init => F!Init
  BY DEF Init, F!Init, StageOf
<1>. QED
  BY <1>1, Invariant, StepRefinement, PTL DEF Spec, ImplementsFight, F!Spec

-----------------------------------------------------------------------------
(* Timers and expiries are about sockets that have closed; no user sits
   twice in a match; and once the expiry of the socket in a seat is being
   looked into, no timer of that user for the match is armed. *)
GraceOK ==
  /\ online \cap fresh = {}
  /\ \A m \in MatchId : status[m] = "none" => \A i \in Side : seat[m][i].id = NoUser
  /\ \A m \in MatchId : seat[m][1].id = seat[m][2].id => seat[m][1].id = NoUser
  /\ \A m \in MatchId, u \in User : grace[m][u] # NoSocket =>
       Owner(grace[m][u]) = u /\ grace[m][u] \notin online \cup fresh
  /\ \A s \in Socket, m \in MatchId : <<s, m>> \in expiring =>
       /\ s \notin online \cup fresh
       /\ \A i \in Side : seat[m][i].id = Owner(s) /\ seat[m][i].socketId = s =>
            grace[m][Owner(s)] = NoSocket

(* The socket of a seat taken now is open. *)
LEMMA GraceInit == Init => GraceOK
BY DEF Init, GraceOK, EmptySeat, CreatePlayer, Side

(* The next state of the seats when one is taken. *)
LEMMA SeatUpdate ==
  ASSUME seat \in [MatchId -> [Side -> Seat]], NEW m \in MatchId, NEW i \in Side, NEW p,
         seat' = [seat EXCEPT ![m][i] = p]
  PROVE  /\ seat'[m][i] = p
         /\ \A j \in Side \ {i} : seat'[m][j] = seat[m][j]
         /\ \A k \in MatchId \ {m} : seat'[k] = seat[k]
OBVIOUS

(* A seat taken with an open socket concerns no timer and no expiry. *)
LEMMA SitDown ==
  ASSUME TypeOK, GraceOK, NEW s \in online, NEW m \in MatchId, NEW i \in Side, NEW joined,
         seat' = [seat EXCEPT ![m][i] = CreatePlayer(Owner(s), s, joined)],
         \A j \in Side \ {i} : seat[m][j].id # Owner(s),
         status'[m] # "none", \A k \in MatchId \ {m} : status'[k] = status[k],
         \A k \in MatchId, u \in User : grace'[k][u] \in {grace[k][u], NoSocket},
         UNCHANGED <<online, fresh, expiring>>
  PROVE  GraceOK'
<1>. DEFINE p == CreatePlayer(Owner(s), s, joined)
<1>1. /\ seat'[m][i] = p
      /\ \A j \in Side \ {i} : seat'[m][j] = seat[m][j]
      /\ \A k \in MatchId \ {m} : seat'[k] = seat[k]
  BY SeatUpdate DEF TypeOK
<1>2. p.id = Owner(s) /\ p.socketId = s /\ s \in Socket /\ Owner(s) \in User
  BY DEF CreatePlayer, TypeOK, Socket, Owner
<1>. HIDE DEF p
<1>3. \A k \in MatchId : status'[k] = "none" => \A j \in Side : seat'[k][j].id = NoUser
  BY <1>1 DEF GraceOK
<1>4. \A k \in MatchId : seat'[k][1].id = seat'[k][2].id => seat'[k][1].id = NoUser
  <2>1. CASE i = 1
    BY <1>1, <1>2, <2>1 DEF GraceOK, Side
  <2>2. CASE i = 2
    BY <1>1, <1>2, <2>2 DEF GraceOK, Side
  <2>. QED
    BY <2>1, <2>2 DEF Side
<1>5. ASSUME NEW k \in MatchId, NEW u \in User, grace'[k][u] # NoSocket
      PROVE  Owner(grace'[k][u]) = u /\ grace'[k][u] \notin online' \cup fresh'
  BY <1>5 DEF GraceOK
<1>6. ASSUME NEW t \in Socket, NEW k \in MatchId, <<t, k>> \in expiring, NEW j \in Side,
             seat'[k][j].id = Owner(t), seat'[k][j].socketId = t
      PROVE  grace'[k][Owner(t)] = NoSocket
  <2>1. t # s /\ Owner(t) \in User
    BY <1>6 DEF GraceOK, Socket, Owner
  <2>2. seat'[k][j] = seat[k][j]
    BY <1>1, <1>2, <1>6, <2>1
  <2>3. grace[k][Owner(t)] = NoSocket
    BY <1>6, <2>2 DEF GraceOK
  <2>. QED
    BY <2>1, <2>3
<1>. QED
  BY <1>3, <1>4, <1>5, <1>6 DEF GraceOK

(* A socket that closes is put on a timer of its owner, which no expiry that
   is being looked into is about. *)
LEMMA Leave ==
  ASSUME TypeOK, GraceOK, NEW s \in Socket, Disconnect(s)
  PROVE  GraceOK'
<1>1. /\ s \in online /\ online' = online \ {s} /\ UNCHANGED <<fresh, expiring>>
  BY DEF Disconnect, taskVars
<1>2. \A m \in MatchId, i \in Side :
        seat'[m][i].id = seat[m][i].id /\ seat'[m][i].socketId = seat[m][i].socketId
  BY UnseatType DEF Disconnect, TypeOK
<1>3. \A m \in MatchId :
        \/ grace'[m] = grace[m]
        \/ /\ grace'[m] = [grace[m] EXCEPT ![Owner(s)] = s]
           /\ \E i \in Side : seat[m][i].id = Owner(s) /\ seat[m][i].socketId = s
  BY DEF Disconnect, Reached, Bound, SideOf
<1>4. \A m \in MatchId : status'[m] = "none" => status[m] = "none"
  BY DEF Disconnect, OverStatus, TypeOK
<1>5. ASSUME NEW m \in MatchId, NEW u \in User, grace'[m][u] # NoSocket
      PROVE  Owner(grace'[m][u]) = u /\ grace'[m][u] \notin online' \cup fresh'
  <2>1. CASE grace'[m] = grace[m]
    BY <1>1, <1>5, <2>1 DEF GraceOK
  <2>2. CASE grace'[m] = [grace[m] EXCEPT ![Owner(s)] = s]
    <3>1. s \notin fresh
      BY <1>1 DEF GraceOK
    <3>2. grace'[m][u] = IF u = Owner(s) THEN s ELSE grace[m][u]
      BY <2>2 DEF TypeOK
    <3>. QED
      BY <1>1, <1>5, <3>1, <3>2 DEF GraceOK
  <2>. QED
    BY <1>3, <2>1, <2>2
<1>6. ASSUME NEW t \in Socket, NEW m \in MatchId, <<t, m>> \in expiring, NEW i \in Side,
             seat[m][i].id = Owner(t), seat[m][i].socketId = t
      PROVE  grace'[m][Owner(t)] = NoSocket
  <2>1. grace[m][Owner(t)] = NoSocket /\ t # s /\ Owner(t) \in User /\ Owner(t) # NoUser
    BY <1>1, <1>6, NoneAssumption DEF GraceOK, Socket, Owner
  <2>2. CASE grace'[m] = grace[m]
    BY <2>1, <2>2
  <2>3. CASE grace'[m] = [grace[m] EXCEPT ![Owner(s)] = s]
             /\ \E j \in Side : seat[m][j].id = Owner(s) /\ seat[m][j].socketId = s
    <3>1. PICK j \in Side : seat[m][j].id = Owner(s) /\ seat[m][j].socketId = s
      BY <2>3
    <3>2. i # j
      BY <1>6, <2>1, <3>1
    <3>3. seat[m][i].id # seat[m][j].id
      BY <1>6, <2>1, <3>2 DEF GraceOK, Side
    <3>. QED
      BY <1>6, <2>1, <2>3, <3>1, <3>3 DEF TypeOK
  <2>. QED
    BY <1>3, <2>2, <2>3
<1>7. \A m \in MatchId : seat'[m][1].id = seat[m][1].id /\ seat'[m][2].id = seat[m][2].id
  BY <1>2 DEF Side
<1>8. /\ online' \cap fresh' = {}
      /\ \A t \in Socket, m \in MatchId : <<t, m>> \in expiring' => t \notin online' \cup fresh'
  BY <1>1 DEF GraceOK
<1>9. /\ \A m \in MatchId : status'[m] = "none" => \A i \in Side : seat'[m][i].id = NoUser
      /\ \A m \in MatchId : seat'[m][1].id = seat'[m][2].id => seat'[m][1].id = NoUser
  BY <1>2, <1>4, <1>7 DEF GraceOK
<1>. QED
  BY <1>1, <1>2, <1>5, <1>6, <1>8, <1>9 DEF GraceOK

(* Opening, leaving and taking seats, and the timers, keep it so. *)
LEMMA GraceStep == IInv /\ IInv' /\ GraceOK /\ [Next]_vars => GraceOK'
<1>. SUFFICES ASSUME IInv, IInv', GraceOK, [Next]_vars PROVE GraceOK'
  OBVIOUS
<1>1. TypeOK /\ TypeOK' /\ SeatsOK /\ LifeOK
  BY DEF IInv
<1>2. ASSUME NEW s \in Socket PROVE Owner(s) \in User /\ s # NoSocket
  BY NoneAssumption DEF Socket, Owner
<1>. USE <1>1, <1>2 DEF GraceOK, TypeOK
<1>3. ASSUME UNCHANGED <<netVars, seat, grace, expiring>>,
             \A m \in MatchId : status'[m] = "none" => status[m] = "none"
      PROVE  GraceOK'
  BY <1>3 DEF netVars
<1>4. CASE UNCHANGED vars
  BY <1>3, <1>4 DEF vars, tableVars, taskVars
<1>5. ASSUME NEW s \in Socket, Connect(s) PROVE GraceOK'
  BY <1>5 DEF Connect, tableVars, taskVars
<1>6. ASSUME NEW s \in Socket, CreateMatch(s) PROVE GraceOK'
  <2>1. PICK m \in MatchId :
          /\ status[m] = "none" /\ status' = [status EXCEPT ![m] = "LOBBY"]
          /\ seat' = [seat EXCEPT ![m][1] = CreatePlayer(Owner(s), s, FALSE)]
    BY <1>6 DEF CreateMatch
  <2>2. s \in online /\ UNCHANGED <<fresh, online, grace, expiring>>
    BY <1>6 DEF CreateMatch, netVars, taskVars
  <2>3. 1 \in Side /\ \A j \in Side \ {1} : seat[m][j].id # Owner(s)
    BY <2>1, NoneAssumption DEF Side
  <2>. QED
    <3>1. \A k \in MatchId \ {m} : status'[k] = status[k]
      BY <2>1
    <3>2. status'[m] # "none" /\ \A k \in MatchId, u \in User : grace'[k][u] \in {grace[k][u], NoSocket}
      BY <2>1, <2>2
    <3>. HIDE DEF GraceOK, TypeOK
    <3>. QED
      BY <2>1, <2>2, <2>3, <3>1, <3>2, SitDown
<1>7. ASSUME NEW s \in Socket, NEW m \in MatchId, JoinMatch(s, m) PROVE GraceOK'
  <2>1. /\ s \in online /\ status[m] # "none"
        /\ UNCHANGED <<fresh, online, status, expiring>>
    BY <1>7 DEF JoinMatch, netVars, Live
  <2>2. \A k \in MatchId, u \in User : grace'[k][u] \in {grace[k][u], NoSocket}
    BY <1>7 DEF JoinMatch, ClearLobbyGrace
  <2>3. ASSUME NEW i \in SideOf(Owner(s), m),
               seat' = [seat EXCEPT ![m][i] = CreatePlayer(@.id, s, TRUE)]
        PROVE  GraceOK'
    <3>1. i \in Side /\ seat[m][i].id = Owner(s)
      BY <2>3 DEF SideOf
    <3>2. seat' = [seat EXCEPT ![m][i] = CreatePlayer(Owner(s), s, TRUE)]
      BY <2>3, <3>1
    <3>3. \A j \in Side \ {i} : seat[m][j].id # Owner(s)
      <4>1. seat[m][1].id # seat[m][2].id \/ seat[m][1].id = NoUser
        OBVIOUS
      <4>2. \/ i = 1 /\ \A j \in Side \ {i} : j = 2
            \/ i = 2 /\ \A j \in Side \ {i} : j = 1
        BY <3>1 DEF Side
      <4>. QED
        BY <3>1, <4>1, <4>2, NoneAssumption
    <3>. HIDE DEF GraceOK, TypeOK
    <3>. QED
      BY <2>1, <2>2, <3>1, <3>2, <3>3, SitDown
  <2>4. ASSUME SideOf(Owner(s), m) = {},
               seat' = [seat EXCEPT ![m][2] = CreatePlayer(Owner(s), s, TRUE)]
        PROVE  GraceOK'
    <3>1. 2 \in Side /\ \A j \in Side \ {2} : seat[m][j].id # Owner(s)
      BY <2>4 DEF SideOf, Side
    <3>. HIDE DEF GraceOK, TypeOK
    <3>. QED
      BY <2>1, <2>2, <2>4, <3>1, SitDown
  <2>. QED
    BY <1>7, <2>3, <2>4 DEF JoinMatch
<1>8. ASSUME NEW s \in Socket, NEW m \in MatchId, StartMatch(s, m) PROVE GraceOK'
  BY <1>3, <1>8 DEF StartMatch
<1>9. ASSUME NEW m \in MatchId, NEW i \in Side, KnockOut(m, i) PROVE GraceOK'
  BY <1>3, <1>9 DEF KnockOut, OverStatus, taskVars
<1>10. ASSUME NEW s \in Socket, Disconnect(s) PROVE GraceOK'
  BY <1>10, Leave
<1>11. ASSUME NEW u \in User, NEW m \in MatchId, GraceElapses(u, m) PROVE GraceOK'
  BY <1>11 DEF GraceElapses, ClearLobbyGrace, netVars, tableVars
<1>12. ASSUME NEW s \in Socket, NEW m \in MatchId, ExpireLobbyChallenge(s, m) PROVE GraceOK'
  BY <1>12 DEF ExpireLobbyChallenge, Delete, netVars
<1>13. ASSUME NEW m \in MatchId,
              Settle(m) \/ SettleFails(m) \/ CloseMatch(m) \/ RecordCancelled(m)
       PROVE  GraceOK'
  BY <1>3, <1>13 DEF Settle, SettleFails, CloseMatch, RecordCancelled, Delete, tableVars, taskVars
<1>14. CASE Restart
  BY <1>14 DEF Restart
<1>. QED
  BY <1>4, <1>5, <1>6, <1>7, <1>8, <1>9, <1>10, <1>11, <1>12, <1>13, <1>14 DEF Next

(* A challenge is deleted only when the grace period of one of its players
   has run out, that player has no open socket, and no timer of the player
   for it is still running: rejoining in time always saves the challenge. *)
THEOREM CancelledOnlyAfterGrace == Spec => CancelledAfterGrace
<1>. DEFINE A == \A m \in MatchId :
                   status[m] = "LOBBY" /\ status'[m] = "gone" /\ restarts' = restarts =>
                     \E i \in Side :
                       /\ seat[m][i].id # NoUser /\ ~HasOpenSocket(seat[m][i].id)
                       /\ seat[m][i].socketId \notin online
                       /\ grace[m][seat[m][i].id] = NoSocket
<1>1. IInv /\ GraceOK /\ [Next]_vars => [A]_vars
  <2>. SUFFICES ASSUME IInv, GraceOK, Next, NEW m \in MatchId,
                       status[m] = "LOBBY", status'[m] = "gone", restarts' = restarts
                PROVE  \E i \in Side :
                         /\ seat[m][i].id # NoUser /\ ~HasOpenSocket(seat[m][i].id)
                         /\ seat[m][i].socketId \notin online
                         /\ grace[m][seat[m][i].id] = NoSocket
    OBVIOUS
  <2>1. TypeOK /\ LifeOK
    BY DEF IInv
  <2>2. PICK s \in Socket : ExpireLobbyChallenge(s, m) /\ status' # status
    <3>1. ~\E s \in Socket : Connect(s) \/ CreateMatch(s) \/ Disconnect(s)
      BY <2>1 DEF Connect, CreateMatch, Disconnect, OverStatus, tableVars, TypeOK
    <3>2. ~\E s \in Socket, k \in MatchId : JoinMatch(s, k) \/ StartMatch(s, k)
      BY <2>1 DEF JoinMatch, StartMatch, TypeOK
    <3>3. ~\E k \in MatchId, i \in Side : KnockOut(k, i)
      BY <2>1 DEF KnockOut, OverStatus, TypeOK
    <3>4. ~\E u \in User, k \in MatchId : GraceElapses(u, k)
      BY DEF GraceElapses, tableVars
    <3>5. ~\E k \in MatchId : Settle(k) \/ SettleFails(k) \/ CloseMatch(k) \/ RecordCancelled(k)
      BY <2>1 DEF Settle, SettleFails, CloseMatch, RecordCancelled, Delete, tableVars, TypeOK, LifeOK
    <3>6. ~Restart
      BY <2>1 DEF Restart, TypeOK
    <3>7. PICK s \in Socket, k \in MatchId : ExpireLobbyChallenge(s, k)
      BY <3>1, <3>2, <3>3, <3>4, <3>5, <3>6 DEF Next
    <3>8. k = m
      BY <2>1, <3>7 DEF ExpireLobbyChallenge, Delete, TypeOK
    <3>. QED
      BY <3>7, <3>8
  <2>3. ~HasOpenSocket(Owner(s)) /\ <<s, m>> \in expiring
    BY <2>2 DEF ExpireLobbyChallenge
  <2>4. PICK i \in Side : seat[m][i].id = Owner(s) /\ seat[m][i].socketId = s
    BY <2>2 DEF ExpireLobbyChallenge, StillAbandoned, SideOf
  <2>5. Owner(s) \in User /\ NoUser \notin User
    BY NoneAssumption DEF Socket, Owner
  <2>. QED
    BY <2>3, <2>4, <2>5 DEF GraceOK
<1>2. Spec => []GraceOK
  BY InitInvariant, GraceInit, GraceStep, Invariant, PTL DEF Spec
<1>. QED
  BY <1>1, <1>2, Invariant, PTL DEF Spec, CancelledAfterGrace

-----------------------------------------------------------------------------
(* Who may be away from a fight or a lobby.  A seat has a socket of its user; *)
(* a player who has joined has it open, unless the early return skipped him.  *)
SeatOwned ==
  \A m \in MatchId, i \in Side : seat[m][i].id # NoUser =>
    seat[m][i].socketId \in Socket /\ Owner(seat[m][i].socketId) = seat[m][i].id
Playing(m, i) == status[m] = "FIGHTING" \/ (status[m] = "LOBBY" /\ seat[m][i].joinedMatch)
LeaverOK == \A m \in MatchId : leaver[m] # NoSocket => verdict[m] # NoVerdict
GhostOK ==
  /\ SeatOwned /\ LeaverOK
  /\ \A m \in MatchId, i \in Side : Playing(m, i) /\ Away(m, i) => Skipped(seat[m][i].socketId, m)

LEMMA GhostInit == Init => GhostOK
BY DEF Init, GhostOK, LeaverOK, SeatOwned, Playing, Away, EmptySeat, CreatePlayer

(* A step takes a seat with an open socket, or changes neither its player nor
   the socket: at most the player has not joined any more. *)
Kept(m, i) ==
  /\ seat'[m][i].id = seat[m][i].id /\ seat'[m][i].socketId = seat[m][i].socketId
  /\ seat'[m][i].joinedMatch => seat[m][i].joinedMatch
Taken(m, i) ==
  /\ seat'[m][i].id \in User /\ seat'[m][i].socketId \in Socket \cap online'
  /\ Owner(seat'[m][i].socketId) = seat'[m][i].id

LEMMA SeatTaken ==
  ASSUME TypeOK, NEW m \in MatchId, NEW i \in Side, NEW s \in Socket, s \in online', NEW joined,
         seat' = [seat EXCEPT ![m][i] = CreatePlayer(Owner(s), s, joined)]
  PROVE  \A k \in MatchId, j \in Side :
           IF k = m /\ j = i THEN seat'[k][j].socketId = s /\ Taken(k, j) ELSE Kept(k, j)
<1>1. /\ seat'[m][i] = CreatePlayer(Owner(s), s, joined)
      /\ \A j \in Side \ {i} : seat'[m][j] = seat[m][j]
      /\ \A k \in MatchId \ {m} : seat'[k] = seat[k]
  BY SeatUpdate DEF TypeOK
<1>2. Owner(s) \in User
  BY DEF Owner, Socket
<1> QED BY <1>1, <1>2 DEF CreatePlayer, Taken, Kept

(* fight:join takes the seat of its user. *)
LEMMA JoinTakes ==
  ASSUME TypeOK, GraceOK, NEW s \in Socket, NEW m \in MatchId, JoinMatch(s, m)
  PROVE  \A k \in MatchId, j \in Side :
           /\ Taken(k, j) \/ Kept(k, j)
           /\ k = m /\ seat'[k][j].id = Owner(s) => seat'[k][j].socketId \in online'
<1>1. s \in online' /\ Owner(s) \in User /\ Owner(s) # NoUser
  BY NoneAssumption DEF JoinMatch, netVars, Socket, Owner
<1>2. ASSUME NEW i \in Side, seat' = [seat EXCEPT ![m][i] = CreatePlayer(Owner(s), s, TRUE)],
             \A j \in Side \ {i} : seat[m][j].id # Owner(s)
      PROVE  \A k \in MatchId, j \in Side :
               /\ Taken(k, j) \/ Kept(k, j)
               /\ k = m /\ seat'[k][j].id = Owner(s) => seat'[k][j].socketId \in online'
  <2>1. \A k \in MatchId, j \in Side :
          IF k = m /\ j = i THEN seat'[k][j].socketId = s /\ Taken(k, j) ELSE Kept(k, j)
    BY <1>1, <1>2, SeatTaken
  <2> QED BY <1>1, <1>2, <2>1 DEF Kept
<1>3. CASE \E i \in SideOf(Owner(s), m) : seat' = [seat EXCEPT ![m][i] = CreatePlayer(@.id, s, TRUE)]
  <2>1. PICK i \in Side : /\ seat[m][i].id = Owner(s)
                          /\ seat' = [seat EXCEPT ![m][i] = CreatePlayer(@.id, s, TRUE)]
    BY <1>3 DEF SideOf
  <2>2. seat' = [seat EXCEPT ![m][i] = CreatePlayer(Owner(s), s, TRUE)]
    BY <2>1 DEF TypeOK
  <2>3. \A j \in Side \ {i} : seat[m][j].id # Owner(s)
    BY <1>1, <2>1 DEF GraceOK, Side
  <2> QED BY <1>2, <2>2, <2>3
<1>4. CASE /\ SideOf(Owner(s), m) = {}
           /\ seat' = [seat EXCEPT ![m][2] = CreatePlayer(Owner(s), s, TRUE)]
  <2>1. 2 \in Side /\ \A j \in Side : seat[m][j].id # Owner(s)
    BY <1>4 DEF Side, SideOf
  <2> QED BY <1>2, <1>4, <2>1
<1> QED BY <1>3, <1>4 DEF JoinMatch

LEMMA SeatMoves ==
  ASSUME TypeOK, GraceOK, [Next]_vars, NEW m \in MatchId, NEW i \in Side
  PROVE  Taken(m, i) \/ Kept(m, i)
<1>1. CASE UNCHANGED seat
  BY <1>1 DEF Kept
<1>2. ASSUME NEW s \in Socket, CreateMatch(s) PROVE Taken(m, i) \/ Kept(m, i)
  <2>1. PICK k \in MatchId : seat' = [seat EXCEPT ![k][1] = CreatePlayer(Owner(s), s, FALSE)]
    BY <1>2 DEF CreateMatch
  <2>2. 1 \in Side /\ s \in online'
    BY <1>2 DEF CreateMatch, netVars, Side
  <2> QED BY <2>1, <2>2, SeatTaken
<1>3. ASSUME NEW s \in Socket, NEW k \in MatchId, JoinMatch(s, k) PROVE Taken(m, i) \/ Kept(m, i)
  BY <1>3, JoinTakes
<1>4. ASSUME NEW s \in Socket, Disconnect(s) PROVE Taken(m, i) \/ Kept(m, i)
  <2>1. seat'[m][i] = seat[m][i] \/ seat'[m][i] = [seat[m][i] EXCEPT !.joinedMatch = FALSE]
    BY <1>4 DEF Disconnect
  <2>2. seat[m][i] \in Seat
    BY DEF TypeOK
  <2> QED BY <2>1, <2>2 DEF Kept, Seat
<1>5. ASSUME NEW s \in Socket, Connect(s) PROVE UNCHANGED seat
  BY <1>5 DEF Connect, tableVars
<1>6. ASSUME NEW s \in Socket, NEW k \in MatchId, StartMatch(s, k) \/ ExpireLobbyChallenge(s, k)
      PROVE  UNCHANGED seat
  BY <1>6 DEF StartMatch, ExpireLobbyChallenge
<1>7. ASSUME NEW k \in MatchId, NEW j \in Side, KnockOut(k, j) PROVE UNCHANGED seat
  BY <1>7 DEF KnockOut
<1>8. ASSUME NEW u \in User, NEW k \in MatchId, GraceElapses(u, k) PROVE UNCHANGED seat
  BY <1>8 DEF GraceElapses, tableVars
<1>9. ASSUME NEW k \in MatchId, Settle(k) \/ SettleFails(k) \/ CloseMatch(k) \/ RecordCancelled(k)
      PROVE  UNCHANGED seat
  BY <1>9 DEF Settle, SettleFails, CloseMatch, RecordCancelled, tableVars
<1>10. CASE Restart \/ UNCHANGED vars
  BY <1>1, <1>10 DEF Restart, vars, tableVars
<1> QED BY <1>1, <1>2, <1>3, <1>4, <1>5, <1>6, <1>7, <1>8, <1>9, <1>10 DEF Next

(* A verdict is never taken back, nor is whose leaving it was. *)
LEMMA VerdictStays ==
  ASSUME IInv, [Next]_vars, NEW k \in MatchId, verdict[k] # NoVerdict
  PROVE  verdict'[k] = verdict[k] /\ leaver'[k] = leaver[k]
<1>1. TypeOK /\ LifeOK
  BY DEF IInv
<1>2. status[k] # "FIGHTING"
  BY <1>1 DEF LifeOK
<1>3. ASSUME NEW n \in MatchId, NEW i, NEW how, status[n] = "FIGHTING", FinishMatch(n, i, how)
      PROVE  n # k /\ verdict'[k] = verdict[k]
  BY <1>1, <1>2, <1>3 DEF FinishMatch, TypeOK
<1>4. ASSUME NEW s \in Socket, Disconnect(s)
      PROVE  verdict'[k] = verdict[k] /\ leaver'[k] = leaver[k]
  <2>1. CASE UNCHANGED <<verdict, leaver>>
    BY <2>1
  <2>2. ASSUME NEW n \in MatchId, NEW i \in Side, status[n] = "FIGHTING",
               FinishMatch(n, i, "rage_quit"), leaver' = [leaver EXCEPT ![n] = s]
        PROVE  verdict'[k] = verdict[k] /\ leaver'[k] = leaver[k]
    BY <1>1, <1>3, <2>2 DEF TypeOK
  <2> QED BY <1>4, <2>1, <2>2 DEF Disconnect, Reached, Bound
<1>5. ASSUME NEW n \in MatchId, NEW i \in Side, KnockOut(n, i)
      PROVE  verdict'[k] = verdict[k] /\ leaver'[k] = leaver[k]
  BY <1>3, <1>5 DEF KnockOut
<1>6. ASSUME NEW s \in Socket, Connect(s) \/ CreateMatch(s) PROVE UNCHANGED <<verdict, leaver>>
  BY <1>6 DEF Connect, CreateMatch
<1>7. ASSUME NEW s \in Socket, NEW n \in MatchId,
             JoinMatch(s, n) \/ StartMatch(s, n) \/ ExpireLobbyChallenge(s, n)
      PROVE  UNCHANGED <<verdict, leaver>>
  BY <1>7 DEF JoinMatch, StartMatch, ExpireLobbyChallenge
<1>8. ASSUME NEW v \in User, NEW n \in MatchId, GraceElapses(v, n)
      PROVE  UNCHANGED <<verdict, leaver>>
  BY <1>8 DEF GraceElapses
<1>9. ASSUME NEW n \in MatchId, Settle(n) \/ SettleFails(n) \/ CloseMatch(n) \/ RecordCancelled(n)
      PROVE  UNCHANGED <<verdict, leaver>>
  BY <1>9 DEF Settle, SettleFails, CloseMatch, RecordCancelled
<1>10. CASE Restart \/ UNCHANGED vars
  BY <1>10 DEF Restart, vars
<1> QED BY <1>4, <1>5, <1>6, <1>7, <1>8, <1>9, <1>10 DEF Next

(* Whose leaving decided a match is written with the verdict. *)
LEMMA LeaverStep ==
  ASSUME IInv, LeaverOK, [Next]_vars
  PROVE  LeaverOK'
<1> SUFFICES ASSUME NEW m \in MatchId, leaver'[m] # NoSocket
             PROVE  verdict'[m] # NoVerdict
  BY DEF LeaverOK
<1>1. CASE leaver[m] # NoSocket
  BY <1>1, VerdictStays DEF LeaverOK
<1>2. CASE leaver[m] = NoSocket
  <2>1. ASSUME NEW s \in Socket, Disconnect(s) PROVE verdict'[m] # NoVerdict
    <3>1. PICK n \in MatchId, i \in Side :
            FinishMatch(n, i, "rage_quit") /\ leaver' = [leaver EXCEPT ![n] = s]
      BY <1>2, <2>1 DEF Disconnect, Reached, Bound
    <3>2. n = m
      BY <1>2, <3>1 DEF IInv, TypeOK
    <3>3. verdict'[m].how = "rage_quit"
      BY <3>1, <3>2 DEF FinishMatch, IInv, TypeOK
    <3> QED BY <3>3 DEF NoVerdict
  <2>2. ASSUME NEW n \in MatchId, NEW i \in Side, KnockOut(n, i) PROVE UNCHANGED leaver
    BY <2>2 DEF KnockOut
  <2>3. ASSUME NEW s \in Socket, Connect(s) \/ CreateMatch(s) PROVE UNCHANGED leaver
    BY <2>3 DEF Connect, CreateMatch
  <2>4. ASSUME NEW s \in Socket, NEW n \in MatchId,
               JoinMatch(s, n) \/ StartMatch(s, n) \/ ExpireLobbyChallenge(s, n)
        PROVE  UNCHANGED leaver
    BY <2>4 DEF JoinMatch, StartMatch, ExpireLobbyChallenge
  <2>5. ASSUME NEW v \in User, NEW n \in MatchId, GraceElapses(v, n) PROVE UNCHANGED leaver
    BY <2>5 DEF GraceElapses
  <2>6. ASSUME NEW n \in MatchId,
               Settle(n) \/ SettleFails(n) \/ CloseMatch(n) \/ RecordCancelled(n)
        PROVE  UNCHANGED leaver
    BY <2>6 DEF Settle, SettleFails, CloseMatch, RecordCancelled
  <2>7. ASSUME Restart \/ UNCHANGED vars PROVE UNCHANGED leaver
    BY <2>7 DEF Restart, vars
  <2> QED BY <1>2, <2>1, <2>2, <2>3, <2>4, <2>5, <2>6, <2>7 DEF Next
<1> QED BY <1>1, <1>2

(* A connection skipped once stays so. *)
LEMMA SkippedStays ==
  ASSUME IInv, GhostOK, [Next]_vars, NEW s \in Socket, NEW m \in MatchId, Skipped(s, m)
  PROVE  Skipped(s, m)'
<1>1. PICK k \in MatchId : k < m /\ leaver[k] = s
  BY DEF Skipped
<1>2. verdict[k] # NoVerdict
  BY <1>1, NoneAssumption DEF GhostOK, LeaverOK, Socket
<1>3. leaver'[k] = s
  BY <1>1, <1>2, VerdictStays
<1> QED BY <1>1, <1>3 DEF Skipped

(* A socket that closes loses the oldest running fight it is bound to; the
   lobbies older than that get a timer, the younger matches are skipped. *)
LEMMA LeaveReaches ==
  ASSUME TypeOK, SeatOwned, NEW s \in Socket, Disconnect(s), NEW m \in MatchId, NEW i \in Side,
         seat[m][i].id # NoUser, seat[m][i].socketId = s, status[m] \in {"LOBBY", "FIGHTING"}
  PROVE  \/ status[m] = "LOBBY" /\ ~seat'[m][i].joinedMatch /\ grace'[m][Owner(s)] = s
         \/ status'[m] = "FIGHT_OVER"
         \/ Skipped(s, m)'
<1> DEFINE u == Owner(s)
           Running == {k \in Bound(s) : status[k] = "FIGHTING"}
<1>1. u = seat[m][i].id /\ u \in User
  BY DEF SeatOwned, Socket, Owner
<1>2. m \in Bound(s) /\ i \in SideOf(u, m)
  BY <1>1 DEF Bound, SideOf
<1>3. Bound(s) \subseteq MatchId /\ MatchId \subseteq Nat
  BY DEF Bound, MatchId
<1>4. CASE m \in Reached(s) /\ status[m] = "LOBBY"
  <2>1. seat'[m][i] = [seat[m][i] EXCEPT !.joinedMatch = FALSE]
        /\ grace'[m] = [grace[m] EXCEPT ![u] = s]
    BY <1>2, <1>4 DEF Disconnect
  <2>2. seat[m][i] \in Seat /\ grace[m] \in [User -> Socket \cup {NoSocket}]
    BY DEF TypeOK
  <2>3. ~seat'[m][i].joinedMatch /\ grace'[m][u] = s
    BY <1>1, <2>1, <2>2 DEF Seat
  <2> QED BY <1>1, <1>4, <2>3
<1>5. CASE m \notin Reached(s) \/ status[m] = "FIGHTING"
  <2>1. PICK k \in Running : (m \in Reached(s) /\ k = m) \/ ~(m <= k)
    BY <1>2, <1>5 DEF Reached
  <2>2. PICK n \in Running : \A j \in Running : n <= j
    <3>1. Running \in SUBSET Nat /\ Running # {}
      BY <1>3, <2>1
    <3> HIDE DEF Running
    <3> QED BY <3>1, LeastNumber
  <2>3. n \in Reached(s) /\ status[n] = "FIGHTING"
    BY <2>2 DEF Reached
  <2>4. PICK lost \in Reached(s), j \in Side :
          /\ status[lost] = "FIGHTING" /\ seat[lost][j].id # u
          /\ status' = [status EXCEPT ![lost] = OverStatus]
          /\ leaver' = [leaver EXCEPT ![lost] = s]
    BY <2>3 DEF Disconnect
  <2>5. /\ lost \in MatchId /\ n \in MatchId /\ k \in MatchId
        /\ lost <= n /\ n <= k /\ lost <= k
    <3>1. lost <= n /\ n <= k
      BY <2>1, <2>2, <2>4 DEF Reached
    <3>2. lost \in MatchId /\ n \in MatchId /\ k \in MatchId
      BY <1>3, <2>1, <2>2, <2>4 DEF Reached
    <3> QED BY <1>3, <3>1, <3>2
  <2>6. leaver'[lost] = s
    BY <2>4, <2>5 DEF TypeOK
  <2>7. CASE ~(m <= k)
    <3>1. lost < m
      BY <1>3, <2>5, <2>7
    <3> QED BY <2>5, <2>6, <3>1 DEF Skipped
  <2>8. CASE m \in Reached(s) /\ k = m
    <3>1. m <= lost
      BY <2>4, <2>8 DEF Reached
    <3>2. lost = m
      BY <1>3, <2>5, <2>8, <3>1
    <3> QED BY <2>4, <3>2 DEF OverStatus, TypeOK
  <2> QED BY <2>1, <2>7, <2>8
<1> QED BY <1>4, <1>5

(* Nothing but the early return leaves a player of a fight, or one who has
   joined a lobby, behind a closed socket. *)
LEMMA GhostStep ==
  ASSUME IInv, GraceOK, GhostOK, [Next]_vars
  PROVE  GhostOK'
<1>0. TypeOK /\ SeatOwned /\ LifeOK
  BY DEF IInv, GhostOK
<1>1. \A m \in MatchId, i \in Side : Taken(m, i) \/ Kept(m, i)
  BY <1>0, SeatMoves
<1>2. SeatOwned'
  BY <1>0, <1>1 DEF SeatOwned, Taken, Kept
<1> SUFFICES ASSUME NEW m \in MatchId, NEW i \in Side, Playing(m, i)', Away(m, i)'
             PROVE  Skipped(seat[m][i].socketId, m)'
  BY <1>2, LeaverStep DEF GhostOK
<1>3. Kept(m, i)
  BY <1>1 DEF Away, Taken
<1>4. seat'[m][i].id = seat[m][i].id /\ seat'[m][i].socketId = seat[m][i].socketId
      /\ (seat'[m][i].joinedMatch => seat[m][i].joinedMatch) /\ seat[m][i].id # NoUser
  BY <1>3 DEF Kept, Away
<1>5. ASSUME Playing(m, i), Away(m, i) PROVE Skipped(seat[m][i].socketId, m)'
  <2>1. Skipped(seat[m][i].socketId, m)
    BY <1>5 DEF GhostOK
  <2>2. \A s \in Socket : Skipped(s, m) => Skipped(s, m)'
    BY SkippedStays
  <2>3. seat[m][i].socketId \in Socket
    BY <1>0, <1>4 DEF SeatOwned
  <2> QED BY <1>4, <2>1, <2>2, <2>3 DEF Skipped
<1>6. ASSUME online \subseteq online', status'[m] = status[m] PROVE Skipped(seat[m][i].socketId, m)'
  BY <1>4, <1>5, <1>6 DEF Away, Playing
<1>7. ASSUME NEW s \in Socket, Connect(s) PROVE Skipped(seat[m][i].socketId, m)'
  BY <1>6, <1>7 DEF Connect, tableVars
<1>8. ASSUME NEW s \in Socket, CreateMatch(s) PROVE Skipped(seat[m][i].socketId, m)'
  <2>1. status[m] # "none"
    BY <1>4 DEF GraceOK
  <2> QED BY <1>0, <1>6, <1>8, <2>1 DEF CreateMatch, netVars, TypeOK
<1>9. ASSUME NEW s \in Socket, Disconnect(s) PROVE Skipped(seat[m][i].socketId, m)'
  <2>1. status[m] = status'[m] \/ status'[m] = "FIGHT_OVER"
    BY <1>0, <1>9 DEF Disconnect, OverStatus, TypeOK
  <2>2. status'[m] \in {"LOBBY", "FIGHTING"} /\ status[m] = status'[m]
    BY <2>1 DEF Playing
  <2>3. CASE seat[m][i].socketId = s
    <3>1. \/ status[m] = "LOBBY" /\ ~seat'[m][i].joinedMatch
          \/ status'[m] = "FIGHT_OVER"
          \/ Skipped(s, m)'
      BY <1>0, <1>4, <1>9, <2>2, <2>3, LeaveReaches
    <3>2. Skipped(s, m)'
      BY <2>2, <3>1 DEF Playing
    <3> QED BY <1>4, <2>3, <3>2 DEF Skipped
  <2>4. CASE seat[m][i].socketId # s
    <3>1. Away(m, i) /\ Playing(m, i)
      BY <1>4, <1>9, <2>2, <2>4 DEF Disconnect, Away, Playing
    <3> QED BY <1>5, <3>1
  <2> QED BY <2>3, <2>4
<1>10. ASSUME NEW s \in Socket, NEW k \in MatchId, JoinMatch(s, k)
       PROVE  Skipped(seat[m][i].socketId, m)'
  BY <1>6, <1>10 DEF JoinMatch, netVars
<1>11. ASSUME NEW s \in Socket, NEW k \in MatchId, StartMatch(s, k)
       PROVE  Skipped(seat[m][i].socketId, m)'
  <2>1. \/ status'[m] = status[m]
        \/ status[m] = "LOBBY" /\ BothJoined(m)
    BY <1>0, <1>11 DEF StartMatch, TypeOK
  <2>2. CASE status[m] = "LOBBY" /\ BothJoined(m)
    BY <1>4, <1>5, <1>11, <2>2 DEF StartMatch, netVars, BothJoined, Away, Playing
  <2> QED BY <1>6, <1>11, <2>1, <2>2 DEF StartMatch, netVars
<1>12. ASSUME NEW k \in MatchId, NEW j \in Side, KnockOut(k, j) PROVE Skipped(seat[m][i].socketId, m)'
  <2>1. status'[m] = status[m] \/ status'[m] = "FIGHT_OVER"
    BY <1>0, <1>12 DEF KnockOut, OverStatus, TypeOK
  <2> QED BY <1>6, <1>12, <2>1 DEF KnockOut, netVars, Playing
<1>13. ASSUME NEW u \in User, NEW k \in MatchId, GraceElapses(u, k)
       PROVE  Skipped(seat[m][i].socketId, m)'
  BY <1>6, <1>13 DEF GraceElapses, netVars, tableVars
<1>14. ASSUME NEW s \in Socket, NEW k \in MatchId, ExpireLobbyChallenge(s, k)
       PROVE  Skipped(seat[m][i].socketId, m)'
  <2>1. status'[m] = status[m] \/ status'[m] = "gone"
    BY <1>0, <1>14 DEF ExpireLobbyChallenge, Delete, TypeOK
  <2> QED BY <1>6, <1>14, <2>1 DEF ExpireLobbyChallenge, netVars, Playing
<1>15. ASSUME NEW k \in MatchId,
              Settle(k) \/ SettleFails(k) \/ CloseMatch(k) \/ RecordCancelled(k)
       PROVE  Skipped(seat[m][i].socketId, m)'
  <2>1. status'[m] = status[m] \/ status'[m] = "gone"
    BY <1>0, <1>15
    DEF Settle, SettleFails, CloseMatch, RecordCancelled, Delete, tableVars, TypeOK
  <2> QED BY <1>6, <1>15, <2>1
      DEF Settle, SettleFails, CloseMatch, RecordCancelled, netVars, Playing
<1>16. CASE Restart
  BY <1>0, <1>16 DEF Restart, Live, Playing, TypeOK
<1>17. CASE UNCHANGED vars
  BY <1>6, <1>17 DEF vars, netVars, tableVars
<1> QED BY <1>7, <1>8, <1>9, <1>10, <1>11, <1>12, <1>13, <1>14, <1>15, <1>16, <1>17 DEF Next

LEMMA ClubInvariant == Spec => [](IInv /\ GraceOK /\ GhostOK)
<1>1. IInv /\ [Next]_vars => IInv'
  BY TypeStep, SeatStep, LifeStep DEF IInv
<1> QED BY <1>1, InitInvariant, GraceInit, GhostInit, GraceStep, GhostStep, PTL DEF Spec

(* However joins, changes of sockets and leaving interleave with the start of
   a fight, a player whose socket is closed is in a running fight only if the
   early return of the disconnect handler skipped it. *)
THEOREM GhostsWereSkipped == Spec => []OnlySkippedAreGhosts
<1>1. GhostOK => OnlySkippedAreGhosts
  BY DEF GhostOK, OnlySkippedAreGhosts, Playing
<1> QED BY <1>1, ClubInvariant, PTL

(* The clock of a player away from a lobby stops in three ways only. *)
LEMMA TimedStep ==
  ASSUME IInv, GraceOK, GhostOK, Next, NEW m \in MatchId, NEW i \in Side, Untimed(m, i)'
  PROVE  Untimed(m, i) \/ Spared(m, i) \/ Skipped(seat[m][i].socketId, m)'
<1>. DEFINE Goal == Untimed(m, i) \/ Spared(m, i) \/ Skipped(seat[m][i].socketId, m)'
            t == seat[m][i].socketId
            u == seat[m][i].id
<1>0. TypeOK /\ SeatOwned /\ LifeOK
  BY DEF IInv, GhostOK
<1>1. Taken(m, i) \/ Kept(m, i)
  BY <1>0, SeatMoves
<1>2. seat'[m][i].id = u /\ seat'[m][i].socketId = t /\ u # NoUser
  BY <1>1 DEF Taken, Kept, Untimed, Away
<1>3. t \in Socket /\ Owner(t) = u /\ u \in User
  BY <1>0, <1>2 DEF SeatOwned, Socket, Owner
<1>4. /\ status'[m] = "LOBBY" /\ t \notin online' /\ grace'[m][u] # t
      /\ <<t, m>> \notin expiring'
  BY <1>2 DEF Untimed, Away
<1>5. ASSUME online \subseteq online', status'[m] = status[m], expiring \subseteq expiring',
             grace'[m][u] = grace[m][u]
      PROVE  Goal
  BY <1>2, <1>4, <1>5 DEF Untimed, Away
<1>6. ASSUME NEW s \in Socket, Connect(s) PROVE Goal
  BY <1>5, <1>6 DEF Connect, tableVars, taskVars
<1>7. ASSUME NEW s \in Socket, CreateMatch(s) PROVE Goal
  <2>1. status[m] # "none"
    BY <1>2 DEF GraceOK
  <2> QED BY <1>0, <1>5, <1>7, <2>1 DEF CreateMatch, netVars, taskVars, TypeOK
<1>8. ASSUME NEW s \in Socket, Disconnect(s) PROVE Goal
  <2>1. status[m] = "LOBBY" /\ expiring' = expiring
    BY <1>0, <1>4, <1>8 DEF Disconnect, OverStatus, taskVars, TypeOK
  <2>2. CASE t = s
    <3>1. \/ grace'[m][Owner(s)] = s \/ status'[m] = "FIGHT_OVER" \/ Skipped(s, m)'
      BY <1>0, <1>2, <1>8, <2>1, <2>2, LeaveReaches
    <3>2. Skipped(s, m)' /\ s = seat'[m][i].socketId
      BY <1>2, <1>3, <1>4, <2>2, <3>1
    <3> QED BY <3>2 DEF Skipped
  <2>3. CASE t # s
    <3>1. \/ grace'[m] = grace[m]
          \/ /\ grace'[m] = [grace[m] EXCEPT ![Owner(s)] = s]
             /\ \E j \in Side : seat[m][j].id = Owner(s) /\ seat[m][j].socketId = s
      BY <1>8 DEF Disconnect, Reached, Bound, SideOf
    <3>2. grace'[m][u] = grace[m][u]
      <4>1. CASE /\ grace'[m] = [grace[m] EXCEPT ![Owner(s)] = s]
                 /\ \E j \in Side : seat[m][j].id = Owner(s) /\ seat[m][j].socketId = s
        <5>1. PICK j \in Side : seat[m][j].id = Owner(s) /\ seat[m][j].socketId = s
          BY <4>1
        <5>2. j # i
          BY <2>3, <5>1
        <5>3. seat[m][j].id # u
          BY <1>2, <5>2 DEF GraceOK, Side
        <5> QED BY <1>0, <4>1, <5>1, <5>3 DEF TypeOK
      <4> QED BY <3>1, <4>1
    <3>3. t \notin online
      BY <1>4, <1>8, <2>3 DEF Disconnect
    <3> QED BY <1>2, <1>4, <2>1, <3>2, <3>3 DEF Untimed, Away
  <2> QED BY <2>2, <2>3
<1>9. ASSUME NEW s \in Socket, NEW k \in MatchId, JoinMatch(s, k) PROVE Goal
  <2>1. k # m \/ Owner(s) # u
    BY <1>0, <1>2, <1>4, <1>9, JoinTakes
  <2>2. grace'[m][u] = grace[m][u]
    BY <1>0, <1>9, <2>1 DEF JoinMatch, ClearLobbyGrace, TypeOK
  <2> QED BY <1>5, <1>9, <2>2 DEF JoinMatch, netVars
<1>10. ASSUME NEW s \in Socket, NEW k \in MatchId, StartMatch(s, k) PROVE Goal
  <2>1. status'[m] = status[m]
    BY <1>0, <1>4, <1>10 DEF StartMatch, TypeOK
  <2> QED BY <1>5, <1>10, <2>1 DEF StartMatch, netVars
<1>11. ASSUME NEW k \in MatchId, NEW j \in Side, KnockOut(k, j) PROVE Goal
  <2>1. status'[m] = status[m]
    BY <1>0, <1>4, <1>11 DEF KnockOut, OverStatus, TypeOK
  <2> QED BY <1>5, <1>11, <2>1 DEF KnockOut, netVars, taskVars
<1>12. ASSUME NEW v \in User, NEW k \in MatchId, GraceElapses(v, k) PROVE Goal
  <2>1. /\ grace' = [grace EXCEPT ![k][v] = NoSocket]
        /\ expiring' = expiring \cup {<<grace[k][v], k>>}
        /\ UNCHANGED <<online, status>>
    BY <1>12 DEF GraceElapses, ClearLobbyGrace, netVars, tableVars
  <2>2. CASE k = m /\ v = u
    <3>1. grace[m][u] # t /\ <<t, m>> \notin expiring
      BY <1>4, <2>1, <2>2
    <3> QED BY <1>2, <1>4, <2>1, <3>1 DEF Untimed, Away
  <2>3. CASE ~(k = m /\ v = u)
    <3>1. grace'[m][u] = grace[m][u]
      BY <1>0, <2>1, <2>3 DEF TypeOK
    <3> QED BY <1>5, <2>1, <3>1
  <2> QED BY <2>2, <2>3
<1>13. ASSUME NEW s \in Socket, NEW k \in MatchId, ExpireLobbyChallenge(s, k) PROVE Goal
  <2>1. /\ expiring' = expiring \ {<<s, k>>} /\ UNCHANGED <<online, grace>>
        /\ status'[m] = status[m]
    BY <1>0, <1>4, <1>13 DEF ExpireLobbyChallenge, Delete, netVars, TypeOK
  <2>2. CASE <<t, m>> \in expiring
    <3>1. s = t /\ k = m
      BY <1>4, <2>1, <2>2
    <3>2. HasOpenSocket(u)
      <4>1. StillAbandoned(t, m)
        BY <1>3, <1>4, <2>1 DEF StillAbandoned, SideOf
      <4>2. status'[m] # "gone"
        BY <1>4
      <4> QED BY <1>0, <1>3, <1>13, <3>1, <4>1, <4>2 DEF ExpireLobbyChallenge, Delete, TypeOK
    <3> QED BY <2>2, <3>2 DEF Spared
  <2>3. CASE <<t, m>> \notin expiring
    BY <1>2, <1>4, <2>1, <2>3 DEF Untimed, Away
  <2> QED BY <2>2, <2>3
<1>14. ASSUME NEW k \in MatchId,
              Settle(k) \/ SettleFails(k) \/ CloseMatch(k) \/ RecordCancelled(k)
       PROVE  Goal
  <2>1. status'[m] = status[m]
    BY <1>0, <1>4, <1>14
    DEF Settle, SettleFails, CloseMatch, RecordCancelled, Delete, tableVars, TypeOK
  <2> QED BY <1>5, <1>14, <2>1
      DEF Settle, SettleFails, CloseMatch, RecordCancelled, netVars, taskVars
<1>15. ~Restart
  BY <1>0, <1>4 DEF Restart, Live, TypeOK
<1> HIDE DEF Goal
<1> QED BY <1>6, <1>7, <1>8, <1>9, <1>10, <1>11, <1>12, <1>13, <1>14, <1>15 DEF Next, Goal

(* No player is ever left away from a lobby without a timer, or an expiry
   being looked into: in every order of joins, timers and closing sockets,
   only the early return and an expiry that found the player online with
   another socket let the clock stop. *)
THEOREM LobbiesStayTimed == Spec => AbandonedLobbyIsTimed
<1>1. IInv /\ GraceOK /\ GhostOK /\ [Next]_vars =>
        [\A m \in MatchId, i \in Side :
           Untimed(m, i)' => Untimed(m, i) \/ Spared(m, i) \/ Skipped(seat[m][i].socketId, m)']_vars
  BY TimedStep
<1>. QED
  BY <1>1, ClubInvariant, PTL DEF Spec, AbandonedLobbyIsTimed

-----------------------------------------------------------------------------
(* Progress.  ENABLED is out of the prover's reach, so fairness is stated     *)
(* with guards: WF_vars(A) says that <>[](ENABLED <<A>>_vars) implies         *)
(* []<><<A>>_vars, and the actions below are assignments behind one guard,    *)
(* which is what they are enabled by.  PromisesSettle is what Fairness says   *)
(* of finishMatch, TimersFire what it says of the grace timers.               *)
PromisesSettle ==
  \A m \in MatchId :
    /\ <>[](m \in settling) => []<><<Settle(m) \/ SettleFails(m)>>_vars
    /\ <>[](m \in closing) => []<><<CloseMatch(m)>>_vars
TimersFire ==
  \A m \in MatchId, u \in User, s \in Socket :
    /\ <>[](grace[m][u] # NoSocket) => []<><<GraceElapses(u, m)>>_vars
    /\ <>[](<<s, m>> \in expiring) => []<><<ExpireLobbyChallenge(s, m)>>_vars

(* A decided match waits for the settle transaction, then for the medals, and
   is deleted: no other handler takes it off that way. *)
LEMMA WaitsForAnswers ==
  ASSUME NEW m \in MatchId, IInv, [Next]_vars
  PROVE  /\ m \in settling => m \in settling' \/ m \in closing' \/ status'[m] = "gone"
         /\ m \in closing => m \in closing' \/ status'[m] = "gone"
<1>1. TypeOK /\ LifeOK
  BY DEF IInv
<1>2. m \in settling \cup closing => m \in Live
  BY <1>1 DEF LifeOK, Live
<1>. USE DEF dbVars
<1>3. CASE UNCHANGED vars
  BY <1>3 DEF vars
<1>4. ASSUME NEW s \in Socket, Connect(s) \/ CreateMatch(s) \/ Disconnect(s)
      PROVE  settling \subseteq settling' /\ closing' = closing
  BY <1>4 DEF Connect, CreateMatch, Disconnect, FinishMatch
<1>5. ASSUME NEW s \in Socket, NEW k \in MatchId,
             JoinMatch(s, k) \/ StartMatch(s, k) \/ ExpireLobbyChallenge(s, k)
      PROVE  settling' = settling /\ closing' = closing
  BY <1>5 DEF JoinMatch, StartMatch, ExpireLobbyChallenge
<1>6. ASSUME NEW k \in MatchId, NEW i \in Side, KnockOut(k, i)
      PROVE  settling \subseteq settling' /\ closing' = closing
  BY <1>6 DEF KnockOut, FinishMatch
<1>7. ASSUME NEW u \in User, NEW k \in MatchId, GraceElapses(u, k)
      PROVE  settling' = settling /\ closing' = closing
  BY <1>7 DEF GraceElapses
<1>8. ASSUME NEW k \in MatchId,
             Settle(k) \/ SettleFails(k) \/ CloseMatch(k) \/ RecordCancelled(k)
      PROVE  /\ m \in settling => m \in settling' \/ m \in closing' \/ status'[m] = "gone"
             /\ m \in closing => m \in closing' \/ status'[m] = "gone"
  BY <1>1, <1>8 DEF Settle, SettleFails, CloseMatch, RecordCancelled, Delete, TypeOK
<1>9. ASSUME Restart, m \in Live PROVE status'[m] = "gone"
  BY <1>1, <1>9 DEF Restart, TypeOK
<1>. QED
  BY <1>2, <1>3, <1>4, <1>5, <1>6, <1>7, <1>8, <1>9 DEF Next

(* A decided fight leaves the table, whether or not its result was saved,
   if the transaction and the medals it waits for answer at all. *)
THEOREM FightsClose == Init /\ [][Next]_vars /\ PromisesSettle => DecidedFightsClose
<1>. SUFFICES ASSUME NEW m \in MatchId
              PROVE  Init /\ [][Next]_vars /\ PromisesSettle =>
                       (status[m] = "FIGHT_OVER" ~> status[m] = "gone")
  BY DEF DecidedFightsClose
<1>1. Init /\ [][Next]_vars => []IInv
  BY InitInvariant, TypeStep, SeatStep, LifeStep, PTL DEF IInv
<1>2. PromisesSettle => /\ <>[](m \in settling) => []<><<Settle(m) \/ SettleFails(m)>>_vars
                        /\ <>[](m \in closing) => []<><<CloseMatch(m)>>_vars
  BY DEF PromisesSettle
<1>3. IInv /\ status[m] = "FIGHT_OVER" => m \in settling \/ m \in closing
  BY DEF IInv, LifeOK
<1>4. IInv /\ [Next]_vars =>
        /\ m \in settling => (m \in settling \/ m \in closing \/ status[m] = "gone")'
        /\ m \in closing => (m \in closing \/ status[m] = "gone")'
  BY WaitsForAnswers
<1>5. IInv /\ <<Settle(m) \/ SettleFails(m)>>_vars => (m \in closing \/ status[m] = "gone")'
  BY DEF IInv, TypeOK, Settle, SettleFails, Delete
<1>6. IInv /\ <<CloseMatch(m)>>_vars => (status[m] = "gone")'
  BY DEF IInv, TypeOK, CloseMatch, Delete
<1>. QED
  BY <1>1, <1>2, <1>3, <1>4, <1>5, <1>6, PTL

(* The creator u of a challenge, gone for good from the socket s. *)
Deserted(m, u, s) ==
  seat[m][1].id = u /\ seat[m][1].socketId = s /\ ~HasOpenSocket(u)
TimedChallengesGo ==
  \A m \in MatchId, u \in User, s \in Socket :
    <>[](Deserted(m, u, s) /\ ~Untimed(m, 1)) => <>[](status[m] # "LOBBY")

(* Who is on the clock stays on it, by AbandonedLobbyIsTimed, and the clock
   runs out: the timer hands over to the expiry, and the expiry deletes. *)
LEMMA ClockRuns ==
  ASSUME NEW m \in MatchId, NEW u \in User, NEW s \in Socket, IInv, GraceOK, GhostOK,
         Deserted(m, u, s)
  PROVE  /\ ~Untimed(m, 1) => status[m] # "LOBBY" \/ grace[m][u] = s \/ <<s, m>> \in expiring
         /\ s # NoSocket
         /\ [Next]_vars => (status[m] # "LOBBY" => (status[m] # "LOBBY")')
         /\ [Next]_vars => (<<s, m>> \in expiring /\ status[m] = "LOBBY" =>
                             (<<s, m>> \in expiring \/ status[m] # "LOBBY")')
         /\ GraceElapses(u, m) => (grace[m][u] # s)'
         /\ ExpireLobbyChallenge(s, m) => (status[m] # "LOBBY")'
<1>1. TypeOK /\ LifeOK
  BY DEF IInv
<1>2. 1 \in Side /\ s # NoSocket /\ u # NoUser
  BY NoneAssumption DEF Side, Socket
<1>3. Owner(s) = u /\ s \notin online
  BY <1>2 DEF Deserted, GhostOK, SeatOwned, HasOpenSocket
<1>4. ~Untimed(m, 1) => status[m] # "LOBBY" \/ grace[m][u] = s \/ <<s, m>> \in expiring
  BY <1>2, <1>3 DEF Untimed, Away, Deserted
<1>5. ExpireLobbyChallenge(s, m) => (status[m] # "LOBBY")'
  BY <1>1, <1>2, <1>3 DEF ExpireLobbyChallenge, StillAbandoned, SideOf, Deserted, Delete, TypeOK
<1>6. GraceElapses(u, m) => (grace[m][u] # s)'
  BY <1>1, <1>2 DEF GraceElapses, ClearLobbyGrace, TypeOK
<1>7. status[m] # "none"
  BY <1>2 DEF GraceOK, Deserted
<1>8. ASSUME [Next]_vars
      PROVE  /\ status[m] # "LOBBY" => status'[m] # "LOBBY"
             /\ <<s, m>> \in expiring /\ status[m] = "LOBBY" =>
                  <<s, m>> \in expiring' \/ status'[m] # "LOBBY"
  <2>. DEFINE Goal == /\ status[m] # "LOBBY" => status'[m] # "LOBBY"
                      /\ <<s, m>> \in expiring /\ status[m] = "LOBBY" =>
                           <<s, m>> \in expiring' \/ status'[m] # "LOBBY"
  <2>. USE <1>1, <1>7 DEF tableVars, taskVars, TypeOK
  <2>1. CASE UNCHANGED vars
    BY <2>1 DEF vars
  <2>2. ASSUME NEW t \in Socket, Connect(t) \/ CreateMatch(t) \/ Disconnect(t) PROVE Goal
    BY <2>2 DEF Connect, CreateMatch, Disconnect, OverStatus
  <2>3. ASSUME NEW t \in Socket, NEW k \in MatchId, JoinMatch(t, k) \/ StartMatch(t, k) PROVE Goal
    BY <2>3 DEF JoinMatch, StartMatch
  <2>4. ASSUME NEW t \in Socket, NEW k \in MatchId, ExpireLobbyChallenge(t, k) PROVE Goal
    BY <1>5, <2>4 DEF ExpireLobbyChallenge, Delete
  <2>5. ASSUME NEW k \in MatchId, NEW i \in Side, KnockOut(k, i) PROVE Goal
    BY <2>5 DEF KnockOut, OverStatus
  <2>6. ASSUME NEW v \in User, NEW k \in MatchId, GraceElapses(v, k) PROVE Goal
    BY <2>6 DEF GraceElapses
  <2>7. ASSUME NEW k \in MatchId,
               Settle(k) \/ SettleFails(k) \/ CloseMatch(k) \/ RecordCancelled(k)
        PROVE  Goal
    BY <2>7 DEF Settle, SettleFails, CloseMatch, RecordCancelled, Delete
  <2>8. CASE Restart
    BY <2>8 DEF Restart, Live
  <2>. QED
    BY <1>8, <2>1, <2>2, <2>3, <2>4, <2>5, <2>6, <2>7, <2>8 DEF Next
<1>. QED
  BY <1>2, <1>4, <1>5, <1>6, <1>8

(* A challenge whose creator has gone for good leaves the lobby, if timers
   fire and fetchSockets answers, unless its clock was lost: what
   AbandonedChallengesGo misses is only what AbandonedLobbyIsTimed lists. *)
THEOREM ChallengesGo == Init /\ [][Next]_vars /\ TimersFire => TimedChallengesGo
<1>. SUFFICES ASSUME NEW m \in MatchId, NEW u \in User, NEW s \in Socket
              PROVE  Init /\ [][Next]_vars /\ TimersFire =>
                       (<>[](Deserted(m, u, s) /\ ~Untimed(m, 1)) => <>[](status[m] # "LOBBY"))
  BY DEF TimedChallengesGo
<1>. DEFINE Clubs == IInv /\ GraceOK /\ GhostOK
            Gone == Deserted(m, u, s) /\ ~Untimed(m, 1)
<1>1. Init /\ [][Next]_vars => []Clubs
  BY InitInvariant, TypeStep, SeatStep, LifeStep, GraceInit, GraceStep, GhostInit, GhostStep, PTL
  DEF IInv
<1>2. TimersFire =>
        /\ <>[](grace[m][u] # NoSocket) => []<><<GraceElapses(u, m)>>_vars
        /\ <>[](<<s, m>> \in expiring) => []<><<ExpireLobbyChallenge(s, m)>>_vars
  BY DEF TimersFire
<1>3. Clubs /\ Gone => status[m] # "LOBBY" \/ grace[m][u] = s \/ <<s, m>> \in expiring
  BY ClockRuns
<1>4. Clubs /\ Gone /\ grace[m][u] = s => grace[m][u] # NoSocket
  BY ClockRuns
<1>5. Clubs /\ Gone /\ [Next]_vars =>
        /\ status[m] # "LOBBY" => (status[m] # "LOBBY")'
        /\ <<s, m>> \in expiring /\ ~(status[m] # "LOBBY") =>
             (<<s, m>> \in expiring \/ status[m] # "LOBBY")'
  BY ClockRuns
<1>6. Clubs /\ Gone /\ <<GraceElapses(u, m)>>_vars => (~(grace[m][u] = s))'
  BY ClockRuns
<1>7. Clubs /\ Gone /\ <<ExpireLobbyChallenge(s, m)>>_vars => (status[m] # "LOBBY")'
  BY ClockRuns
<1>. HIDE DEF Clubs, Gone
<1>. QED
  BY <1>1, <1>2, <1>3, <1>4, <1>5, <1>6, <1>7, PTL DEF Gone

(* With one connection per user, the two ways out of the clock are one: an
   expiry is about a closed socket, so it finds nobody online. *)
OneTab == \A s, t \in Socket : Owner(s) = Owner(t) => s = t
TimedOK == \A m \in MatchId, i \in Side : Untimed(m, i) => Skipped(seat[m][i].socketId, m)

LEMMA TimedInvariant ==
  ASSUME OneTab, IInv, GraceOK, GhostOK, TimedOK, [Next]_vars
  PROVE  TimedOK'
<1>1. SUFFICES ASSUME NEW m \in MatchId, NEW i \in Side, Untimed(m, i)'
               PROVE  Skipped(seat[m][i].socketId, m)'
  BY DEF TimedOK
<1>2. CASE UNCHANGED vars
  BY <1>1, <1>2 DEF TimedOK, vars, netVars, tableVars, taskVars, Untimed, Away, Skipped
<1>3. CASE Next
  <2>1. ~Spared(m, i)
    <3>1. SUFFICES ASSUME Spared(m, i) PROVE FALSE
      OBVIOUS
    <3>2. PICK t \in online : Owner(t) = seat[m][i].id
      BY <3>1 DEF Spared, HasOpenSocket
    <3>3. t \in Socket /\ Owner(t) \in User /\ seat[m][i].id # NoUser
      BY <3>2, NoneAssumption DEF IInv, TypeOK, Socket, Owner
    <3>4. seat[m][i].socketId \in Socket /\ Owner(seat[m][i].socketId) = seat[m][i].id
      BY <3>3 DEF GhostOK, SeatOwned
    <3>5. seat[m][i].socketId = t
      BY <3>2, <3>3, <3>4 DEF OneTab
    <3>6. seat[m][i].socketId \notin online
      BY <3>1, <3>4 DEF Spared, GraceOK
    <3>. QED
      BY <3>2, <3>5, <3>6
  <2>2. CASE Untimed(m, i)
    <3>1. Taken(m, i) \/ Kept(m, i)
      BY SeatMoves DEF IInv
    <3>2. seat'[m][i].socketId = seat[m][i].socketId
      BY <1>1, <3>1 DEF Taken, Kept, Untimed, Away
    <3>3. seat[m][i].id # NoUser
      BY <2>2 DEF Untimed, Away
    <3>4. PICK s \in Socket : s = seat[m][i].socketId
      BY <3>3 DEF GhostOK, SeatOwned
    <3>5. Skipped(s, m)
      BY <2>2, <3>4 DEF TimedOK
    <3>6. Skipped(s, m)'
      BY <3>5, SkippedStays
    <3>. QED
      BY <3>2, <3>4, <3>6 DEF Skipped
  <2>. QED
    BY <1>1, <1>3, <2>1, <2>2, TimedStep
<1>. QED
  BY <1>2, <1>3

(* A challenge whose creator is gone for good leaves the lobby, unless the
   early return skipped it, if timers fire and fetchSockets answers and users
   have one connection each: with a second one it may stay (the expiry that
   found the second one open arms no timer again). *)
THEOREM AbandonedChallengesLeave ==
  ASSUME OneTab
  PROVE  Init /\ [][Next]_vars /\ TimersFire => AbandonedChallengesGo
<1>. SUFFICES ASSUME NEW m \in MatchId, NEW u \in User
              PROVE  Init /\ [][Next]_vars /\ TimersFire =>
                       (<>[](/\ seat[m][1].id = u /\ ~HasOpenSocket(u)
                             /\ ~Skipped(seat[m][1].socketId, m)) =>
                          <>[](status[m] # "LOBBY"))
  BY DEF AbandonedChallengesGo
<1>. DEFINE Clubs == IInv /\ GraceOK /\ GhostOK /\ TimedOK
            Left == /\ seat[m][1].id = u /\ ~HasOpenSocket(u)
                    /\ ~Skipped(seat[m][1].socketId, m)
            Out == status[m] # "LOBBY"
<1>1. Init => TimedOK
  BY DEF Init, TimedOK, Untimed
<1>2. Init /\ [][Next]_vars => []Clubs
  BY <1>1, TimedInvariant, InitInvariant, TypeStep, SeatStep, LifeStep, GraceInit, GraceStep,
     GhostInit, GhostStep, PTL DEF IInv
<1>3. CASE \E s \in Socket : Owner(s) = u
  <2>1. PICK s \in Socket : Owner(s) = u
    BY <1>3
  <2>. DEFINE Gone == Deserted(m, u, s) /\ ~Untimed(m, 1)
  <2>2. Clubs /\ Left => Gone
    BY <2>1, NoneAssumption DEF OneTab, Deserted, GhostOK, SeatOwned, TimedOK, Side
  <2>3. Init /\ [][Next]_vars /\ TimersFire => (<>[]Gone => <>[]Out)
    BY ChallengesGo DEF TimedChallengesGo
  <2>. HIDE DEF Clubs, Left, Gone, Out
  <2>. QED
    BY <1>2, <2>2, <2>3, PTL DEF Left, Out
<1>4. CASE ~\E s \in Socket : Owner(s) = u
  <2>1. ~(Clubs /\ Left)
    BY <1>4, NoneAssumption DEF GhostOK, SeatOwned, Side
  <2>. HIDE DEF Clubs, Left, Out
  <2>. QED
    BY <1>2, <2>1, PTL DEF Left, Out
<1>. QED
  BY <1>3, <1>4
=============================================================================
