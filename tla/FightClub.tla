------------------------------ MODULE FightClub ------------------------------
(***************************************************************************)
(* The table of fights of src/fight-club/fight-club.service.ts and the     *)
(* gateway in front of it: challenges are created, joined, started, left,  *)
(* cancelled after a grace period, decided and written to the database.    *)
(*                                                                         *)
(* Every handler runs alone up to its next `await` (one Node.js process),  *)
(* so an action is a handler up to an await, or what follows one.  The     *)
(* continuations that wait are part of the state: joining, expiring,       *)
(* settling, cancelling.  How the hits of a fight are exchanged is the     *)
(* subject of module Duel; here a running fight may be decided at any time *)
(* by a player whose recorded connection is open.                          *)
(***************************************************************************)
EXTENDS Integers, FiniteSets, Sequences

CONSTANTS
  User,         \* the users
  Tab,          \* names of the connections a user opens, each name once
  MaxMatches,   \* bound: fights created
  MaxRestarts,  \* bound: restarts of the process
  NoUser,       \* the empty id of a free seat
  NoSocket      \* the empty socket id of a free seat; no timer

ASSUME BoundsAssumption == MaxMatches \in Nat \ {0} /\ MaxRestarts \in Nat
ASSUME NoneAssumption == NoUser \notin User /\ NoSocket \notin User \X Tab

Socket == User \X Tab            \* socket ids: never reused, each has one user
Owner(s) == s[1]
MatchId == 1..MaxMatches         \* in the order the Map iterates: of creation
Side == {1, 2}                   \* player1 (the creator) and player2
Other(i) == 3 - i

NoVerdict == [winner |-> NoUser, loser |-> NoUser, how |-> "none"]
Cancelled == [winner |-> NoUser, loser |-> NoUser, how |-> "cancelled"]

Seat == [id : User \cup {NoUser}, socketId : Socket \cup {NoSocket}, joinedMatch : BOOLEAN]
Verdict == [winner : User, loser : User, how : {"ko", "rage_quit"}]

VARIABLES
  fresh,       \* sockets not yet opened
  online,      \* sockets open now: the members of the user:<id> rooms
  status,      \* match -> "none", its MatchState.status, or "gone" when deleted
  seat,        \* match -> side -> player1 and player2
  grace,       \* match -> user -> socket of the armed lobbyGraceTimers entry
  joining,     \* <<s, m>>: handleJoin awaits client.join
  expiring,    \* <<s, m>>: expireLobbyChallenge awaits fetchSockets
  verdict,     \* match -> the arguments finishMatch was called with
  settling,    \* matches whose settle transaction has not answered
  closing,     \* matches whose finishMatch awaits awardFightAchievements
  cancelling,  \* matches whose recordCancelled has not answered
  fights,      \* match -> the rows of the fights table written for it
  restarts,    \* restarts of the process so far
  leaver       \* history: match -> the socket whose closing decided it

netVars   == <<fresh, online>>
tableVars == <<status, seat>>
taskVars  == <<joining, expiring>>
dbVars    == <<settling, closing, cancelling, fights>>
vars == <<netVars, tableVars, grace, taskVars, verdict, leaver, dbVars, restarts>>

CreatePlayer(u, s, joined) == [id |-> u, socketId |-> s, joinedMatch |-> joined]
EmptySeat == CreatePlayer(NoUser, NoSocket, FALSE)

Live == {m \in MatchId : status[m] \in {"LOBBY", "FIGHTING", "FIGHT_OVER"}}
SideOf(u, m) == {i \in Side : seat[m][i].id = u}
HasAnySocket(u) == online # {}   \* faulty: not only the sockets of u
HasOpenSocket(u) == \E s \in online : Owner(s) = u

Init ==
  /\ fresh = Socket /\ online = {}
  /\ status = [m \in MatchId |-> "none"]
  /\ seat = [m \in MatchId |-> [i \in Side |-> EmptySeat]]
  /\ grace = [m \in MatchId |-> [u \in User |-> NoSocket]]
  /\ joining = {} /\ expiring = {}
  /\ verdict = [m \in MatchId |-> NoVerdict]
  /\ settling = {} /\ closing = {} /\ cancelling = {}
  /\ fights = [m \in MatchId |-> <<>>]
  /\ restarts = 0
  /\ leaver = [m \in MatchId |-> NoSocket]

-----------------------------------------------------------------------------
(* handleConnection: the authenticated socket enters its user:<id> room. *)
Connect(s) ==
  /\ s \in fresh
  /\ fresh' = fresh \ {s}
  /\ online' = online \cup {s}
  /\ UNCHANGED <<tableVars, grace, taskVars, verdict, leaver, dbVars, restarts>>

(* fight:create.  The creator is seated with this socket but has not joined. *)
CreateMatch(s) ==
  \E m \in MatchId :
    /\ s \in online
    /\ status[m] = "none" /\ \A k \in MatchId : k < m => status[k] # "none"
    /\ status' = [status EXCEPT ![m] = "LOBBY"]
    /\ seat' = [seat EXCEPT ![m][1] = CreatePlayer(Owner(s), s, FALSE)]
    /\ UNCHANGED <<netVars, grace, taskVars, verdict, leaver, dbVars, restarts>>

ClearLobbyGrace(u, m) == [grace EXCEPT ![m][u] = NoSocket]

(* fight:join up to `await client.join`: a seated player moves to this socket,
   or a newcomer takes the free seat of a lobby; anyone else is refused. *)
JoinMatch(s, m) ==
  /\ s \in online /\ m \in Live
  /\ \/ \E i \in SideOf(Owner(s), m) :
          seat' = [seat EXCEPT ![m][i] = CreatePlayer(@.id, s, TRUE)]
     \/ /\ SideOf(Owner(s), m) = {}
        /\ status[m] = "LOBBY" /\ seat[m][2].id = NoUser
        /\ seat' = [seat EXCEPT ![m][2] = CreatePlayer(Owner(s), s, TRUE)]
  /\ grace' = ClearLobbyGrace(Owner(s), m)
  /\ joining' = joining \cup {<<s, m>>}
  /\ UNCHANGED <<netVars, status, expiring, verdict, leaver, dbVars, restarts>>

(* Faulty: one of the two is enough; a socket recorded once is enough. *)
CreatorJoined(m) == seat[m][1].joinedMatch
BothSeated(m) == \A i \in Side : seat[m][i].socketId # NoSocket
BothJoined(m) == \A i \in Side :
  seat[m][i].socketId # NoSocket /\ seat[m][i].joinedMatch

(* The rest of fight:join: startMatch, when both players have joined. *)
StartMatch(s, m) ==
  /\ <<s, m>> \in joining
  /\ joining' = joining \ {<<s, m>>}
  /\ status' = IF status[m] = "LOBBY" /\ BothJoined(m)
                 THEN [status EXCEPT ![m] = "FIGHTING"] ELSE status
  /\ UNCHANGED <<netVars, seat, grace, expiring, verdict, leaver, dbVars, restarts>>

(* finishMatch up to its first await: the result is on its way to the
   database, and no one else can decide the fight. *)
FinishMatch(m, i, how) ==
  /\ verdict' = [verdict EXCEPT ![m] =
                   [winner |-> seat[m][i].id, loser |-> seat[m][Other(i)].id, how |-> how]]
  /\ settling' = settling \cup {m}

(* The status is set before the first await; faulty: it is left for later. *)
StillFighting == "FIGHTING"
OverStatus == "FIGHT_OVER"

(* fight:hit that takes the last hit point. *)
KnockOut(m, i) ==
  /\ status[m] = "FIGHTING"
  /\ seat[m][i].socketId \in online
  /\ status' = [status EXCEPT ![m] = OverStatus]
  /\ FinishMatch(m, i, "ko")
  /\ UNCHANGED <<netVars, seat, grace, taskVars, leaver, closing, cancelling, fights, restarts>>

(* The matches handlePlayerDisconnect comes to act on, in the Map's order. *)
Bound(s) ==
  {m \in MatchId : /\ status[m] \in {"LOBBY", "FIGHTING"}
                   /\ \E i \in SideOf(Owner(s), m) : seat[m][i].socketId = s}
(* It returns at the first running fight and never sees those behind it;
   faulty: it stops at the first match of any status. *)
ReachedOne(s) == {m \in Bound(s) : \A k \in Bound(s) : m <= k}
Reached(s) ==
  {m \in Bound(s) : \A k \in Bound(s) : status[k] = "FIGHTING" => m <= k}

(* A socket closes: lobbies get a grace timer, a running fight is lost. *)
Disconnect(s) ==
  LET lobbies == {m \in Reached(s) : status[m] = "LOBBY"}
      lost    == {m \in Reached(s) : status[m] = "FIGHTING"}
  IN  /\ s \in online
      /\ online' = online \ {s}
      /\ seat' = [m \in MatchId |-> [i \in Side |->
                    IF m \in lobbies /\ i \in SideOf(Owner(s), m)
                      THEN [seat[m][i] EXCEPT !.joinedMatch = FALSE]
                      ELSE seat[m][i]]]
      /\ grace' = [m \in MatchId |->
                    IF m \in lobbies THEN [grace[m] EXCEPT ![Owner(s)] = s] ELSE grace[m]]
      /\ IF lost = {}
           THEN UNCHANGED <<status, verdict, leaver, settling>>
           ELSE \E m \in lost, i \in Side :
                  /\ seat[m][i].id # Owner(s)
                  /\ status' = [status EXCEPT ![m] = OverStatus]
                  /\ FinishMatch(m, i, "rage_quit")
                  /\ leaver' = [leaver EXCEPT ![m] = s]
      /\ UNCHANGED <<fresh, taskVars, closing, cancelling, fights, restarts>>

(* The 10 s grace timer of user u fires; the sockets of u are asked for. *)
GraceElapses(u, m) ==
  /\ grace[m][u] # NoSocket
  /\ grace' = ClearLobbyGrace(u, m)
  /\ expiring' = expiring \cup {<<grace[m][u], m>>}
  /\ UNCHANGED <<netVars, tableVars, joining, verdict, leaver, dbVars, restarts>>

(* activeMatches.delete, and the fault of leaving it out. *)
Forget(m) == status
Delete(m) == [status EXCEPT ![m] = "gone"]

(* The second look at the match after `await fetchSockets`; faulty: without
   the socket, without the status. *)
StillLobby(s, m) == status[m] = "LOBBY"
StillSeated(s, m) == \E i \in SideOf(Owner(s), m) : seat[m][i].socketId = s
StillAbandoned(s, m) ==
  /\ status[m] = "LOBBY"
  /\ \E i \in SideOf(Owner(s), m) : seat[m][i].socketId = s

(* The rest of expireLobbyChallenge: a user with any open socket keeps the
   challenge, and no timer is armed again; otherwise it is deleted and the
   cancellation is on its way to the database. *)
ExpireLobbyChallenge(s, m) ==
  /\ <<s, m>> \in expiring
  /\ expiring' = expiring \ {<<s, m>>}
  /\ IF ~HasOpenSocket(Owner(s)) /\ StillAbandoned(s, m)
       THEN /\ status' = Delete(m)
            /\ cancelling' = cancelling \cup {m}
       ELSE UNCHANGED <<status, cancelling>>
  /\ UNCHANGED <<netVars, seat, grace, joining, verdict, leaver, settling, closing, fights, restarts>>

(* The settle transaction commits; finishMatch goes on to the achievements,
   whose failure it swallows. *)
Settle(m) ==
  /\ m \in settling
  /\ settling' = settling \ {m}
  /\ closing' = closing \cup {m}
  /\ fights' = [fights EXCEPT ![m] = Append(@, verdict[m])]
  /\ UNCHANGED <<netVars, tableVars, grace, taskVars, verdict, leaver, cancelling, restarts>>

(* The settle transaction fails: fight:error, and the match is deleted. *)
SettleFails(m) ==
  /\ m \in settling
  /\ settling' = settling \ {m}
  /\ status' = Delete(m)
  /\ UNCHANGED <<netVars, seat, grace, taskVars, verdict, leaver, closing, cancelling, fights, restarts>>

(* finishMatch ends well: the match is deleted. *)
CloseMatch(m) ==
  /\ m \in closing
  /\ closing' = closing \ {m}
  /\ status' = Delete(m)
  /\ UNCHANGED <<netVars, seat, grace, taskVars, verdict, leaver, settling, cancelling, fights, restarts>>

(* recordCancelled answers; an error of it is only logged. *)
RecordCancelled(m) ==
  /\ m \in cancelling
  /\ cancelling' = cancelling \ {m}
  /\ \/ fights' = [fights EXCEPT ![m] = Append(@, Cancelled)]
     \/ UNCHANGED fights
  /\ UNCHANGED <<netVars, tableVars, grace, taskVars, verdict, leaver, settling, closing, restarts>>

(* The process restarts: the table, the timers and the continuations live in
   memory only.  A transaction in flight is lost, unless it had committed. *)
Restart ==
  /\ restarts < MaxRestarts
  /\ restarts' = restarts + 1
  /\ online' = {}
  /\ status' = [m \in MatchId |-> IF m \in Live THEN "gone" ELSE status[m]]
  /\ grace' = [m \in MatchId |-> [u \in User |-> NoSocket]]
  /\ joining' = {} /\ expiring' = {}
  /\ settling' = {} /\ closing' = {} /\ cancelling' = {}
  /\ UNCHANGED <<fresh, seat, verdict, leaver, fights>>

Next ==
  \/ \E s \in Socket : Connect(s) \/ CreateMatch(s) \/ Disconnect(s)
  \/ \E s \in Socket, m \in MatchId : JoinMatch(s, m) \/ StartMatch(s, m)
  \/ \E m \in MatchId, i \in Side : KnockOut(m, i)
  \/ \E u \in User, m \in MatchId : GraceElapses(u, m)
  \/ \E s \in Socket, m \in MatchId : ExpireLobbyChallenge(s, m)
  \/ \E m \in MatchId : Settle(m) \/ SettleFails(m) \/ CloseMatch(m) \/ RecordCancelled(m)
  \/ Restart

(* Timers fire and every awaited promise settles: the event loop never drops
   a continuation, and the database driver answers or fails every query.
   Nothing is assumed of the users. *)
Fairness ==
  /\ \A s \in Socket, m \in MatchId :
       WF_vars(StartMatch(s, m)) /\ WF_vars(ExpireLobbyChallenge(s, m))
  /\ \A u \in User, m \in MatchId : WF_vars(GraceElapses(u, m))
  /\ \A m \in MatchId :
       /\ WF_vars(Settle(m) \/ SettleFails(m))
       /\ WF_vars(CloseMatch(m))
       /\ WF_vars(RecordCancelled(m))

Spec == Init /\ [][Next]_vars /\ Fairness

-----------------------------------------------------------------------------
TypeOK ==
  /\ fresh \subseteq Socket /\ online \subseteq Socket
  /\ status \in [MatchId -> {"none", "LOBBY", "FIGHTING", "FIGHT_OVER", "gone"}]
  /\ seat \in [MatchId -> [Side -> Seat]]
  /\ grace \in [MatchId -> [User -> Socket \cup {NoSocket}]]
  /\ joining \subseteq Socket \X MatchId /\ expiring \subseteq Socket \X MatchId
  /\ verdict \in [MatchId -> Verdict \cup {NoVerdict}]
  /\ settling \subseteq MatchId /\ closing \subseteq MatchId /\ cancelling \subseteq MatchId
  /\ fights \in [MatchId -> Seq(Verdict \cup {Cancelled})]
  /\ restarts \in Nat
  /\ leaver \in [MatchId -> Socket \cup {NoSocket}]

(* The club keeps the promise of module Fight for each of its matches. *)
StageOf(m) ==
  CASE status[m] = "none"       -> "none"
    [] status[m] = "LOBBY"      -> "open"
    [] status[m] = "FIGHTING"   -> "fighting"
    [] status[m] = "FIGHT_OVER" -> "decided"
    [] OTHER -> IF m \in cancelling THEN "cancelled" ELSE "closed"
F == INSTANCE Fight WITH stage <- [m \in MatchId |-> StageOf(m)],
                         result <- verdict, row <- fights

(* Whatever joins, leaves, timers and restarts interleave, a match is decided
   at most once, gets at most one row, and is never both fought and recorded
   as cancelled. *)
ImplementsFight == F!Spec
RecordIsRight == F!RecordIsRight

(* Both players of a running fight are connected with the socket the match
   knows: nobody fights a ghost, and leaving is always noticed.  The early
   return of handlePlayerDisconnect breaks it. *)
Away(m, i) == seat[m][i].id # NoUser /\ seat[m][i].socketId \notin online
FightersConnected == \A m \in MatchId : status[m] = "FIGHTING" => \A i \in Side : ~Away(m, i)

(* handlePlayerDisconnect's early return: the closing of s decided an older
   match, so what s was bound to in the younger ones was not looked at. *)
Skipped(s, m) == \E k \in MatchId : k < m /\ leaver[k] = s

(* In whatever order players join, change sockets and leave while a fight
   starts, nothing but that early return, for that very connection, makes
   anyone fight a ghost. *)
OnlySkippedAreGhosts ==
  \A m \in MatchId, i \in Side :
    status[m] = "FIGHTING" /\ Away(m, i) => Skipped(seat[m][i].socketId, m)

(* A player away from a lobby is on the clock: the grace timer of the closed
   socket is armed or its expiry is being looked into - in whatever order
   sockets open, join and close.  There are two ways out: the early
   return, and an expiry that found the player online with another socket. *)
Untimed(m, i) ==
  /\ status[m] = "LOBBY" /\ Away(m, i)
  /\ grace[m][seat[m][i].id] # seat[m][i].socketId
  /\ <<seat[m][i].socketId, m>> \notin expiring
Spared(m, i) == <<seat[m][i].socketId, m>> \in expiring /\ HasOpenSocket(seat[m][i].id)
AbandonedLobbyIsTimed ==
  [][\A m \in MatchId, i \in Side :
       Untimed(m, i)' => Untimed(m, i) \/ Spared(m, i) \/ Skipped(seat[m][i].socketId, m)']_vars

(* A lobby disappears only when the grace period of a player who is away has
   run out: that player has no open socket, and no timer of the player for
   this match is still running. *)
CancelledAfterGrace ==
  [][\A m \in MatchId :
       status[m] = "LOBBY" /\ status'[m] = "gone" /\ restarts' = restarts =>
         \E i \in Side :
           /\ seat[m][i].id # NoUser /\ ~HasOpenSocket(seat[m][i].id)
           /\ seat[m][i].socketId \notin online
           /\ grace[m][seat[m][i].id] = NoSocket]_vars

(* A challenge lives as long as its creator is online. *)
ChallengeLivesWithCreator ==
  [][\A m \in MatchId :
       status[m] = "LOBBY" /\ status'[m] = "gone" /\ restarts' = restarts =>
         ~HasOpenSocket(seat[m][1].id)]_vars

(* A decided fight leaves the table, whether or not its result was saved. *)
DecidedFightsClose ==
  \A m \in MatchId : status[m] = "FIGHT_OVER" ~> status[m] = "gone"

(* A challenge whose creator is gone for good does not stay in the lobby,
   unless the early return skipped it. *)
AbandonedChallengesGo ==
  \A m \in MatchId, u \in User :
    <>[](/\ seat[m][1].id = u /\ ~HasOpenSocket(u)
         /\ ~Skipped(seat[m][1].socketId, m)) =>
      <>[](status[m] # "LOBBY")
=============================================================================
