------------------------------- MODULE Rooms -------------------------------
(***************************************************************************)
(* One room from its creation to its deletion: what its owner does to it   *)
(* (rooms/room/room.service.ts), what moderators decide about it           *)
(* (room.service.ts and admin/admin.service.ts), and who is let into it.   *)
(* A handler reads rows, awaits, and writes later by a statement of its    *)
(* own: nothing here is locked.                                            *)
(***************************************************************************)
EXTENDS Catalog, FiniteSets

CONSTANTS
  User,
  Owner,          \* the creator of the room
  Txn,            \* bound: the requests that will ever run, each once
  Crowds,         \* bound: the requests that are sent together
  Password,
  StartRooms,     \* bound: the rooms that behaviours begin with
  Indebted, Grown, \* who owes, and who is known to be over 18, at first
  ThemesOwned,    \* who has bought which of the themes that are not free
  Finders,        \* who has found the basement
  AutoApprove,    \* ROOMS_AUTO_APPROVE
  Written,        \* how many messages everybody has written before
  None            \* a field that is not given, no password, no room

Text     == {"fine", "mature", "blocked"}     \* a text, by what the filter finds in it
Status   == {"active", "checkout", "quarantined", "rejected", "banned"}
Shut     == {"quarantined", "banned"}         \* no message is taken
FreeTheme == "basement"
RoomThemes == {FreeTheme, "vaporwave", "fight_club"}

RoomRow == [title : Text, topic : Text, status : Status, nsfw : BOOLEAN, theme : RoomThemes,
            publicity : {"public", "private"}, password : Password \cup {None}]

Decisions == {"quarantine", "unquarantine", "approve", "reject", "setStatus"}
Fortunes  == {"ban", "unban", "mute", "indebt", "forgive", "confirmAge"}
Operation == {"create", "edit", "publicity", "delete", "enter", "send", "joinRoom",
              "deleteMessage"} \cup Decisions \cup Fortunes

(* What is asked for: the fields of the room, a password, a status, and the
   number of files of a message. *)
Request == [op : Operation, by : User, title : Text \cup {None}, topic : Text \cup {None},
            nsfw : BOOLEAN \cup {None}, theme : RoomThemes \cup {None},
            publicity : {"public", "private", None}, password : Password \cup {None},
            status : Status \cup {None}, files : Nat]
Valid(r) ==
  /\ r.op = "create" => r.by = Owner /\ None \notin {r.title, r.topic, r.publicity, r.theme, r.nsfw}
  /\ r.op = "publicity" => r.publicity # None
  /\ r.op = "setStatus" => r.status \in Status \ {"rejected"}
  /\ r.op = "enter" => r.password # None
  /\ r.files <= 5

ASSUME RoomAssumption ==
  /\ Txn \subseteq Nat /\ Owner \in User /\ Written \in Nat /\ AutoApprove \in BOOLEAN
  /\ Indebted \cup Grown \cup Finders \subseteq User
  /\ ThemesOwned \subseteq User \X RoomThemes
  /\ None \notin Password \cup RoomRow \cup Status
  /\ StartRooms \subseteq RoomRow
ASSUME CrowdsAssumption ==
  \A crowd \in Crowds :
    /\ crowd \in [Txn -> Request] /\ \A t \in Txn : Valid(crowd[t])
    /\ \A s, t \in Txn : crowd[s].op = "create" /\ crowd[t].op = "create" => s = t

VARIABLES
  room,           \* the row of rooms, or None
  accesses,       \* room_accesses
  medals,         \* the pairs of a user and a medal
  banned, muted, indebted, grown,
  req,            \* the requests
  pc,             \* the statement a request is at
  seen            \* what its earlier statements have read

roomVars == <<room, accesses, medals, banned, muted, indebted, grown, req, pc, seen>>

(* title, topic and status: the room as an edit or a message has read it;
   solvent: whether the author owed nothing; secret, nsfw: what the gate is
   to check; key: the medal to hand out. *)
Blank == [title |-> "fine", topic |-> "fine", status |-> "active", solvent |-> TRUE,
          secret |-> FALSE, nsfw |-> FALSE, key |-> None]
Seen == [title : Text, topic : Text, status : Status, solvent : BOOLEAN, secret : BOOLEAN,
         nsfw : BOOLEAN, key : {"landlord", "ratio_d", None}]

Labels == {"idle", "user", "insert", "own", "details", "stored", "write", "room", "grant",
           "decide", "reward", "befall", "access", "gate", "join", "upload", "count",
           "dress", "cleanup", "broadcast", "done"}

Start(r) ==
  CASE r.op \in {"create", "send"}                       -> "user"
    [] r.op \in {"edit", "publicity", "delete"}          -> "details"
    [] r.op = "enter"                                    -> "room"
    [] r.op = "joinRoom"                                 -> "access"
    [] r.op \in Decisions \cup {"deleteMessage"}         -> "decide"
    [] r.op \in Fortunes                                 -> "befall"

RoomsInit ==
  /\ req \in Crowds
  /\ room \in (IF \E t \in Txn : req[t].op = "create" THEN {None} ELSE StartRooms)
  /\ accesses = IF room # None /\ room.publicity = "private" THEN {Owner} ELSE {}
  /\ medals = {}
  /\ banned = {} /\ muted = {} /\ indebted = Indebted /\ grown = Grown
  /\ pc = [t \in Txn |-> "idle"]
  /\ seen = [t \in Txn |-> Blank]

Open == room # None
people == <<banned, muted, indebted, grown>>
Goto(t, l) == pc' = [pc EXCEPT ![t] = l] /\ UNCHANGED <<req, people>>
End(t) == Goto(t, "done") /\ seen' = [seen EXCEPT ![t] = Blank]
Refuse(t) == End(t) /\ UNCHANGED <<room, accesses, medals>>
Read(t, l) == Goto(t, l) /\ UNCHANGED <<room, accesses, medals>>
Running(t) == pc[t] \notin {"idle", "done"}

Begin(t) == pc[t] = "idle" /\ Read(t, Start(req[t])) /\ UNCHANGED seen

-----------------------------------------------------------------------------
(* classifyRoomText: what is blocked outweighs what is mature. *)
Verdict(title, topic) ==
  IF "blocked" \in {title, topic} THEN "blocked"
  ELSE IF "mature" \in {title, topic} THEN "mature" ELSE "fine"

Given(new, old) == IF new = None THEN old ELSE new

(* assertThemeUnlocked *)
ThemeUnlocked(r) ==
  \/ r.theme \in {None, FreeTheme}
  \/ <<r.by, r.theme>> \in ThemesOwned /\ (r.theme = "fight_club" => r.by \in Finders)

(* createRoom: the checks, the insert, and the access of the creator. *)
MayCreate(r) == ThemeUnlocked(r) /\ r.by \notin banned \cup indebted

CheckCreator(t) ==
  /\ pc[t] = "user" /\ req[t].op = "create" /\ MayCreate(req[t])
  /\ Read(t, "insert") /\ UNCHANGED seen

CreateRefused(t) ==
  /\ pc[t] = "user" /\ req[t].op = "create" /\ ~MayCreate(req[t])
  /\ Refuse(t)

NewRoom(r) ==
  LET verdict == Verdict(r.title, r.topic) IN
  [title |-> r.title, topic |-> r.topic, theme |-> r.theme, publicity |-> r.publicity,
   password |-> r.password, nsfw |-> r.nsfw \/ verdict = "mature",
   status |-> IF verdict # "blocked" /\ AutoApprove THEN "active" ELSE "checkout"]

InsertRoom(t) ==
  /\ pc[t] = "insert"
  /\ room' = NewRoom(req[t])
  /\ Goto(t, IF req[t].publicity = "private" THEN "own" ELSE "done")
  /\ UNCHANGED <<accesses, medals, seen>>

OwnRoom(t) ==
  /\ pc[t] = "own"
  /\ accesses' = IF Open THEN accesses \cup {Owner} ELSE accesses
  /\ End(t) /\ UNCHANGED <<room, medals>>

-----------------------------------------------------------------------------
(* getRoomsDetails and the check of the owner, at the start of updateRoom,
   updateRoomPublicity and deleteRoom. *)
IsTheirs(r) == Open /\ room.status # "banned" /\ r.by = Owner

Details(t) ==
  /\ pc[t] = "details" /\ IsTheirs(req[t])
  /\ Read(t, IF req[t].op = "edit" THEN "stored" ELSE "write")
  /\ UNCHANGED seen

DetailsRefused(t) == pc[t] = "details" /\ ~IsTheirs(req[t]) /\ Refuse(t)

(* updateRoom: findById, and then the hash of the password is awaited. *)
ReadStored(t) ==
  /\ pc[t] = "stored" /\ Open /\ ThemeUnlocked(req[t])
  /\ seen' = [seen EXCEPT ![t].title = room.title, ![t].topic = room.topic,
                          ![t].status = room.status]
  /\ Read(t, "write")

EditRefused(t) ==
  /\ pc[t] = "stored" /\ ~(Open /\ ThemeUnlocked(req[t]))
  /\ Refuse(t)

(* Faulty: only the texts that are given are looked at. *)
EditVerdictOfGiven(r, old) == Verdict(Given(r.title, "fine"), Given(r.topic, "fine"))
EditVerdict(r, old) == Verdict(Given(r.title, old.title), Given(r.topic, old.topic))

(* A live room is sent to review.  Faulty: whatever the room's status is. *)
FlaggedAny(r, old) == EditVerdict(r, old) = "blocked"
Flagged(r, old) == EditVerdict(r, old) = "blocked" /\ old.status = "active"

Edited(r, old) ==
  [title |-> Given(r.title, room.title), topic |-> Given(r.topic, room.topic),
   theme |-> Given(r.theme, room.theme), publicity |-> Given(r.publicity, room.publicity),
   password |-> IF r.publicity = "public" THEN None ELSE Given(r.password, room.password),
   nsfw |-> IF EditVerdict(r, old) = "mature" THEN TRUE ELSE Given(r.nsfw, room.nsfw),
   status |-> IF Flagged(r, old) THEN "checkout" ELSE room.status]

WriteEdit(t) ==
  /\ pc[t] = "write" /\ req[t].op = "edit"
  /\ room' = IF Open THEN Edited(req[t], seen[t]) ELSE room
  /\ End(t) /\ UNCHANGED <<accesses, medals>>

WritePublicity(t) ==
  LET r == req[t] IN
  /\ pc[t] = "write" /\ r.op = "publicity"
  /\ room' = IF Open
             THEN [room EXCEPT !.publicity = r.publicity,
                     !.password = IF r.publicity = "private" THEN r.password ELSE None]
             ELSE room
  /\ End(t) /\ UNCHANGED <<accesses, medals>>

DeleteRoom(t) ==
  /\ pc[t] = "write" /\ req[t].op = "delete"
  /\ room' = None /\ accesses' = {}
  /\ End(t) /\ UNCHANGED medals

-----------------------------------------------------------------------------
(* joinPrivateRoom: the password that was read is compared, and the access
   row is inserted, as long as there is a room to refer to. *)
MayEnter(r) ==
  Open /\ room.publicity = "private" /\ r.by \notin accesses /\ r.password = room.password

ReadDoor(t) == pc[t] = "room" /\ req[t].op = "enter" /\ MayEnter(req[t]) /\ Read(t, "grant")
                 /\ UNCHANGED seen
DoorRefused(t) == pc[t] = "room" /\ req[t].op = "enter" /\ ~MayEnter(req[t]) /\ Refuse(t)

GrantAccess(t) ==
  /\ pc[t] = "grant"
  /\ accesses' = IF Open THEN accesses \cup {req[t].by} ELSE accesses
  /\ End(t) /\ UNCHANGED <<room, medals>>

-----------------------------------------------------------------------------
(* The moderators' decisions, each one UPDATE whatever the status was, and
   the medal that approval or quarantine brings the owner. *)
Decided(r) ==
  CASE r.op = "quarantine"                 -> "quarantined"
    [] r.op \in {"unquarantine", "approve"} -> "active"
    [] r.op = "reject"                     -> "rejected"
    [] r.op = "setStatus"                  -> r.status

Reward(r) ==
  CASE r.op # "unquarantine" /\ Decided(r) = "active" -> "landlord"
    [] Decided(r) = "quarantined"                     -> "ratio_d"
    [] OTHER                                          -> None

Decide(t) ==
  LET key == Reward(req[t]) IN
  /\ pc[t] = "decide" /\ req[t].op \in Decisions /\ Open
  /\ room' = [room EXCEPT !.status = Decided(req[t])]
  /\ Goto(t, IF key = None THEN "done" ELSE "reward")
  /\ seen' = [seen EXCEPT ![t].key = key]
  /\ UNCHANGED <<accesses, medals>>

DecideRefused(t) ==
  pc[t] = "decide" /\ req[t].op \in Decisions /\ ~Open /\ Refuse(t)

(* grantSafely *)
RewardOwner(t) ==
  /\ pc[t] = "reward"
  /\ medals' \in {medals, medals \cup {<<Owner, seen[t].key>>}}
  /\ End(t) /\ UNCHANGED <<room, accesses>>

(* What other modules do to the users that the checks here read. *)
Befall(t) ==
  LET r == req[t] IN
  /\ pc[t] = "befall"
  /\ banned' = CASE r.op = "ban" -> banned \cup {r.by} [] r.op = "unban" -> banned \ {r.by}
                 [] OTHER -> banned
  /\ muted' = IF r.op = "mute" THEN muted \cup {r.by} ELSE muted
  /\ indebted' = CASE r.op = "indebt" -> indebted \cup {r.by}
                   [] r.op = "forgive" -> indebted \ {r.by} [] OTHER -> indebted
  /\ grown' = IF r.op = "confirmAge" THEN grown \cup {r.by} ELSE grown
  /\ pc' = [pc EXCEPT ![t] = "done"]
  /\ UNCHANGED <<room, accesses, medals, req, seen>>

RoomsNext(t) ==
  \/ Begin(t)
  \/ CheckCreator(t) \/ CreateRefused(t) \/ InsertRoom(t) \/ OwnRoom(t)
  \/ Details(t) \/ DetailsRefused(t) \/ ReadStored(t) \/ EditRefused(t)
  \/ WriteEdit(t) \/ WritePublicity(t) \/ DeleteRoom(t)
  \/ ReadDoor(t) \/ DoorRefused(t) \/ GrantAccess(t)
  \/ Decide(t) \/ DecideRefused(t) \/ RewardOwner(t) \/ Befall(t)

RoomsTypeOK ==
  /\ room \in RoomRow \cup {None}
  /\ accesses \subseteq User
  /\ medals \subseteq User \X Medals
  /\ banned \subseteq User /\ muted \subseteq User /\ indebted \subseteq User /\ grown \subseteq User
  /\ req \in Crowds /\ pc \in [Txn -> Labels] /\ seen \in [Txn -> Seen]
=============================================================================
