----------------------------- MODULE ChatProofs -----------------------------
(***************************************************************************)
(* Proofs about Chat for any number of users and requests, whatever they   *)
(* ask for.                                                                *)
(***************************************************************************)
EXTENDS Chat, TLAPS

USE DEF vars, roomVars, people, rowsOfRoom, chatState, history, review

LEMMA RequestsAreValid ==
  ASSUME RoomsTypeOK, NEW t \in Txn
  PROVE  req[t] \in Request /\ Valid(req[t])
  BY CrowdsAssumption DEF RoomsTypeOK

LEMMA NoneIsNoRow == None \notin RoomRow /\ None \notin Status /\ None \notin Password
  BY RoomAssumption

LEMMA StartType ==
  ASSUME NEW r \in Request
  PROVE  Start(r) \in Labels
  BY DEF Start, Labels, Request, Operation, Decisions, Fortunes

(* The rows that the handlers write are rows. *)
LEMMA NewRoomType ==
  ASSUME NEW r \in Request, Valid(r), r.op = "create"
  PROVE  NewRoom(r) \in RoomRow
  BY RoomAssumption DEF NewRoom, Verdict, RoomRow, Request, Valid, Status

LEMMA EditedType ==
  ASSUME NEW r \in Request, NEW old \in Seen, room \in RoomRow
  PROVE  Edited(r, old) \in RoomRow
  BY DEF Edited, Given, Flagged, EditVerdict, Verdict, RoomRow, Request, Status

LEMMA DecidedType ==
  ASSUME NEW r \in Request, Valid(r), r.op \in Decisions
  PROVE  Decided(r) \in Status /\ Reward(r) \in {"landlord", "ratio_d", None}
  BY DEF Decided, Reward, Status, Decisions, Valid

-----------------------------------------------------------------------------
(* The statements that the handlers of an operation have. *)
Stage(t) ==
  /\ pc[t] \in {"insert", "own"} => req[t].op = "create"
  /\ pc[t] = "details" => req[t].op \in {"edit", "publicity", "delete"}
  /\ pc[t] = "stored" => req[t].op = "edit"
  /\ pc[t] = "write" => req[t].op \in {"edit", "publicity", "delete"}
  /\ pc[t] = "grant" => req[t].op = "enter"
  /\ pc[t] = "reward" => seen[t].key # None
  /\ pc[t] \in {"access", "gate"} => req[t].op \in {"send", "joinRoom"}
  /\ pc[t] = "join" => req[t].op = "joinRoom"
  /\ pc[t] \in {"upload", "count", "dress", "broadcast", "cleanup"} => req[t].op = "send"
Stages == \A t \in Txn : Stage(t)

(* A step of one request leaves the others where they are. *)
LEMMA RoomsFrame ==
  ASSUME RoomsTypeOK, NEW t \in Txn, RoomsNext(t)
  PROVE  /\ req' = req /\ pc[t] # "done" /\ pc'[t] \in Labels \ {"idle"}
         /\ pc' \in [Txn -> Labels] /\ seen' \in [Txn -> Seen]
         /\ \A s \in Txn \ {t} : pc'[s] = pc[s] /\ seen'[s] = seen[s]
<1>0. /\ req[t] \in Request /\ Valid(req[t]) /\ seen[t] \in Seen /\ Blank \in Seen
      /\ pc \in [Txn -> Labels] /\ seen \in [Txn -> Seen]
  BY RequestsAreValid DEF RoomsTypeOK, Blank, Seen, Text, Status
<1> USE DEF Goto, End, Refuse, Read, Labels
<1>1. CASE Begin(t)
  <2>1. Start(req[t]) \in Labels \ {"idle"}
    BY <1>0 DEF Start, Request, Operation, Decisions, Fortunes
  <2> QED BY <1>1, <1>0, <2>1 DEF Begin
<1>2. CASE CheckCreator(t) \/ CreateRefused(t) \/ InsertRoom(t) \/ OwnRoom(t)
  BY <1>2, <1>0 DEF CheckCreator, CreateRefused, InsertRoom, OwnRoom
<1>3. CASE Details(t) \/ DetailsRefused(t) \/ EditRefused(t)
  BY <1>3, <1>0 DEF Details, DetailsRefused, EditRefused
<1>4. CASE ReadStored(t)
  <2>1. room \in RoomRow
    BY <1>4 DEF ReadStored, Open, RoomsTypeOK
  <2>2. [seen[t] EXCEPT !.title = room.title, !.topic = room.topic, !.status = room.status]
          \in Seen
    BY <2>1, <1>0 DEF Seen, RoomRow
  <2> QED BY <1>4, <1>0, <2>2 DEF ReadStored
<1>5. CASE WriteEdit(t) \/ WritePublicity(t) \/ DeleteRoom(t)
  BY <1>5, <1>0 DEF WriteEdit, WritePublicity, DeleteRoom
<1>6. CASE ReadDoor(t) \/ DoorRefused(t) \/ GrantAccess(t)
  BY <1>6, <1>0 DEF ReadDoor, DoorRefused, GrantAccess
<1>7. CASE Decide(t)
  <2>1. [seen[t] EXCEPT !.key = Reward(req[t])] \in Seen
    BY <1>7, <1>0, DecidedType DEF Seen, Decide
  <2> QED BY <1>7, <1>0, <2>1 DEF Decide
<1>8. CASE DecideRefused(t) \/ RewardOwner(t) \/ Befall(t)
  BY <1>8, <1>0 DEF DecideRefused, RewardOwner, Befall
<1> QED BY <1>1, <1>2, <1>3, <1>4, <1>5, <1>6, <1>7, <1>8 DEF RoomsNext

LEMMA RoomsType ==
  ASSUME RoomsTypeOK, NEW t \in Txn, Stage(t), RoomsNext(t)
  PROVE  RoomsTypeOK'
<1>0. /\ req[t] \in Request /\ Valid(req[t]) /\ seen[t] \in Seen
      /\ req' \in Crowds /\ pc' \in [Txn -> Labels] /\ seen' \in [Txn -> Seen]
  BY RequestsAreValid, RoomsFrame DEF RoomsTypeOK
<1> USE DEF RoomsTypeOK, Goto, End, Refuse, Read, Open
<1>1. CASE Begin(t) \/ CheckCreator(t) \/ CreateRefused(t) \/ Details(t) \/ DetailsRefused(t)
  BY <1>1, <1>0 DEF Begin, CheckCreator, CreateRefused, Details, DetailsRefused
<1>2. CASE ReadStored(t) \/ EditRefused(t) \/ ReadDoor(t) \/ DoorRefused(t) \/ DecideRefused(t)
  BY <1>2, <1>0 DEF ReadStored, EditRefused, ReadDoor, DoorRefused, DecideRefused
<1>3. CASE InsertRoom(t)
  BY <1>3, <1>0, NewRoomType DEF InsertRoom, Stage
<1>4. CASE OwnRoom(t) \/ GrantAccess(t)
  BY <1>4, <1>0, RoomAssumption DEF OwnRoom, GrantAccess, Request
<1>5. CASE WriteEdit(t)
  <2>1. Open => Edited(req[t], seen[t]) \in RoomRow
    BY <1>0, EditedType
  <2> QED BY <1>5, <1>0, <2>1 DEF WriteEdit
<1>6. CASE WritePublicity(t)
  BY <1>6, <1>0 DEF WritePublicity, RoomRow, Request, Valid
<1>7. CASE DeleteRoom(t)
  BY <1>7, <1>0 DEF DeleteRoom
<1>8. CASE Decide(t)
  <2>1. Open => [room EXCEPT !.status = Decided(req[t])] \in RoomRow
    BY <1>8, <1>0, DecidedType DEF Decide, RoomRow
  <2> QED BY <1>8, <1>0, <2>1 DEF Decide
<1>9. CASE RewardOwner(t)
  <2>1. seen[t].key \in Medals
    BY <1>9, <1>0 DEF RewardOwner, Stage, Seen, Medals, RoomMedals
  <2> QED BY <1>9, <1>0, <2>1, RoomAssumption DEF RewardOwner
<1>10. CASE Befall(t)
  BY <1>10, <1>0 DEF Befall, Request
<1> QED
  BY <1>1, <1>2, <1>3, <1>4, <1>5, <1>6, <1>7, <1>8, <1>9, <1>10 DEF RoomsNext

LEMMA ChatFrame ==
  ASSUME RoomsTypeOK, NEW t \in Txn, ChatNext(t)
  PROVE  /\ req' = req /\ pc[t] \notin {"idle", "done"} /\ pc'[t] \in Labels \ {"idle"}
         /\ pc' \in [Txn -> Labels] /\ seen' \in [Txn -> Seen] /\ room' = room
         /\ \A s \in Txn \ {t} : pc'[s] = pc[s] /\ seen'[s] = seen[s]
<1>0. /\ seen[t] \in Seen /\ Blank \in Seen
      /\ pc \in [Txn -> Labels] /\ seen \in [Txn -> Seen]
  BY DEF RoomsTypeOK, Blank, Seen, Text, Status
<1> USE DEF Goto, End, Refuse, Read, Labels
<1>1. CASE ReadAuthor(t)
  <2>1. [seen[t] EXCEPT !.solvent = req[t].by \notin indebted] \in Seen
    BY <1>0 DEF Seen
  <2> QED BY <1>1, <1>0, <2>1 DEF ReadAuthor
<1>2. CASE ReadRoom(t)
  <2>1. [seen[t] EXCEPT !.status = room.status] \in Seen
    BY <1>2, <1>0 DEF Seen, ReadRoom, Open, RoomsTypeOK, RoomRow
  <2> QED BY <1>2, <1>0, <2>1 DEF ReadRoom
<1>3. CASE ReadAccess(t)
  <2>1. [seen[t] EXCEPT !.secret = room.publicity = "private" /\ req[t].by # Owner,
                        !.nsfw = room.nsfw] \in Seen
    BY <1>3, <1>0 DEF Seen, ReadAccess, Open, RoomsTypeOK, RoomRow
  <2> QED BY <1>3, <1>0, <2>1 DEF ReadAccess
<1>4. CASE PassGate(t) \/ SendRefused(t) \/ JoinChannel(t)
  BY <1>4, <1>0 DEF PassGate, SendRefused, JoinChannel
<1>5. CASE Upload(t) \/ UploadFails(t) \/ SaveMessage(t)
  BY <1>5, <1>0 DEF Upload, UploadFails, SaveMessage, OnFailure
<1>6. CASE CountMessage(t) \/ Dress(t) \/ DressFails(t)
  BY <1>6, <1>0 DEF CountMessage, Dress, DressFails, OnFailure
<1>7. CASE CleanUp(t) \/ Broadcast(t) \/ DeleteMessage(t)
  BY <1>7, <1>0 DEF CleanUp, Broadcast, DeleteMessage
<1> QED BY <1>1, <1>2, <1>3, <1>4, <1>5, <1>6, <1>7 DEF ChatNext

(* The medals of a message are medals. *)
LEMMA EarnedType ==
  ASSUME NEW n \in Nat
  PROVE  EarnedByMessages(n) \subseteq Medals
  BY DEF EarnedByMessages, When, Medals, RoomMedals

LEMMA ChatType ==
  ASSUME RoomsTypeOK, written \in [User -> Nat], NEW t \in Txn, ChatNext(t)
  PROVE  RoomsTypeOK' /\ written' \in [User -> Nat]
<1>0. /\ req[t] \in Request
      /\ req' \in Crowds /\ pc' \in [Txn -> Labels] /\ seen' \in [Txn -> Seen] /\ room' = room
  BY RequestsAreValid, ChatFrame DEF RoomsTypeOK
<1>1. CASE CountMessage(t)
  <2>1. req[t].by \in User
    BY <1>0 DEF Request
  <2>2. medals' \subseteq User \X Medals
    BY <1>1, <2>1, EarnedType DEF CountMessage, RoomsTypeOK
  <2>3. written' \in [User -> Nat]
    BY <1>1, <2>1 DEF CountMessage
  <2> QED BY <1>0, <1>1, <2>2, <2>3 DEF CountMessage, RoomsTypeOK, Goto
<1>2. CASE ~CountMessage(t)
  BY <1>0, <1>2 DEF RoomsTypeOK, ChatNext, Goto, End, Refuse, Read, ReadAuthor, ReadRoom,
     ReadAccess, PassGate, SendRefused, JoinChannel, Upload, UploadFails, SaveMessage, Dress,
     DressFails, CleanUp, Broadcast, DeleteMessage
<1> QED BY <1>1, <1>2

(* A restart only ends what is running. *)
LEMMA RestartType ==
  ASSUME RoomsTypeOK, Restart
  PROVE  RoomsTypeOK'
  BY DEF RoomsTypeOK, Restart, Labels, Blank, Seen, Text, Status

(* The statements of a request go on in the order its handler has them. *)
LEMMA RoomsStage ==
  ASSUME RoomsTypeOK, NEW t \in Txn, Stage(t), RoomsNext(t)
  PROVE  Stage(t)'
<1>0. /\ req[t] \in Request /\ Valid(req[t]) /\ req' = req
      /\ pc \in [Txn -> Labels] /\ seen \in [Txn -> Seen]
  BY RequestsAreValid, RoomsFrame DEF RoomsTypeOK
<1> USE DEF Goto, End, Refuse, Read, Stage
<1>1. CASE Begin(t)
  BY <1>1, <1>0 DEF Begin, Start, Request, Operation, Decisions, Fortunes
<1>2. CASE CheckCreator(t) \/ CreateRefused(t) \/ InsertRoom(t) \/ OwnRoom(t)
  BY <1>2, <1>0 DEF CheckCreator, CreateRefused, InsertRoom, OwnRoom
<1>3. CASE DetailsRefused(t) \/ ReadStored(t) \/ EditRefused(t)
  BY <1>3, <1>0 DEF DetailsRefused, ReadStored, EditRefused
<1>4. CASE Details(t)
  BY <1>4, <1>0 DEF Details
<1>5. CASE WriteEdit(t) \/ WritePublicity(t) \/ DeleteRoom(t)
  BY <1>5, <1>0 DEF WriteEdit, WritePublicity, DeleteRoom
<1>6. CASE ReadDoor(t) \/ DoorRefused(t) \/ GrantAccess(t)
  BY <1>6, <1>0 DEF ReadDoor, DoorRefused, GrantAccess
<1>7. CASE Decide(t)
  BY <1>7, <1>0 DEF Decide
<1>8. CASE DecideRefused(t) \/ RewardOwner(t) \/ Befall(t)
  BY <1>8, <1>0 DEF DecideRefused, RewardOwner, Befall
<1> QED BY <1>1, <1>2, <1>3, <1>4, <1>5, <1>6, <1>7, <1>8 DEF RoomsNext

LEMMA ChatStage ==
  ASSUME RoomsTypeOK, NEW t \in Txn, Stage(t), ChatNext(t)
  PROVE  Stage(t)'
<1>0. req' = req /\ pc \in [Txn -> Labels] /\ seen \in [Txn -> Seen]
  BY ChatFrame DEF RoomsTypeOK
<1> USE DEF Goto, End, Refuse, Read, Stage
<1>1. CASE ReadAuthor(t) \/ ReadRoom(t) \/ ReadAccess(t)
  BY <1>1, <1>0 DEF ReadAuthor, ReadRoom, ReadAccess
<1>2. CASE PassGate(t) \/ SendRefused(t) \/ JoinChannel(t)
  BY <1>2, <1>0 DEF PassGate, SendRefused, JoinChannel
<1>3. CASE Upload(t) \/ UploadFails(t) \/ SaveMessage(t) \/ CountMessage(t)
  BY <1>3, <1>0 DEF Upload, UploadFails, SaveMessage, CountMessage, OnFailure
<1>4. CASE Dress(t) \/ DressFails(t) \/ CleanUp(t) \/ Broadcast(t) \/ DeleteMessage(t)
  BY <1>4, <1>0 DEF Dress, DressFails, CleanUp, Broadcast, DeleteMessage, OnFailure
<1> QED BY <1>1, <1>2, <1>3, <1>4 DEF ChatNext

(* The statements of a message that is on its way, which no step of module
   Rooms enters or leaves, and those after its COMMIT. *)
Sending == {"gate", "join", "upload", "count", "dress", "broadcast", "cleanup"}
Sent    == {"count", "dress", "broadcast"}

LEMMA RoomsApart ==
  ASSUME RoomsTypeOK, NEW t \in Txn, RoomsNext(t)
  PROVE  pc[t] \notin Sending /\ pc'[t] \notin Sending
<1>0. /\ req[t] \in Request /\ Valid(req[t]) /\ pc \in [Txn -> Labels]
  BY RequestsAreValid DEF RoomsTypeOK
<1> USE DEF Goto, End, Refuse, Read, Sending
<1>1. CASE Begin(t)
  BY <1>1, <1>0 DEF Begin, Start, Request, Operation, Decisions, Fortunes
<1>2. CASE ~Begin(t)
  BY <1>2, <1>0 DEF RoomsNext, CheckCreator, CreateRefused, InsertRoom, OwnRoom, Details,
     DetailsRefused, ReadStored, EditRefused, WriteEdit, WritePublicity, DeleteRoom, ReadDoor,
     DoorRefused, GrantAccess, Decide, DecideRefused, RewardOwner, Befall
<1> QED BY <1>1, <1>2

(* Which requests have written their message. *)
Commits(t) ==
  /\ pc[t] \in Sent => t \in committed
  /\ t \in committed => pc[t] \in Sent \cup {"cleanup", "done"}
  /\ t \in committed /\ pc[t] = "cleanup" => t \in late

TypeInv == TypeOK /\ Stages /\ \A t \in Txn : Commits(t)

LEMMA TypeInit == Init => TypeInv
<1> SUFFICES ASSUME Init PROVE TypeInv
  OBVIOUS
<1>1. RoomsTypeOK
  BY RoomAssumption DEF Init, RoomsInit, RoomsTypeOK, Labels, Blank, Seen, Text, Status
<1>2. Stages /\ \A t \in Txn : Commits(t)
  BY DEF Init, RoomsInit, Stages, Stage, Commits, Sent
<1>3. TypeOK
  BY <1>1, RoomAssumption DEF Init, RoomsInit, TypeOK, Open
<1> QED BY <1>2, <1>3 DEF TypeInv

(* A step of one request, or the restart. *)
LEMMA StagesStep ==
  ASSUME TypeInv, Next
  PROVE  RoomsTypeOK' /\ written' \in [User -> Nat] /\ Stages' /\ req' = req
<1>0. RoomsTypeOK /\ written \in [User -> Nat] /\ Stages
  BY DEF TypeInv, TypeOK
<1>1. ASSUME NEW t \in Txn, RoomsNext(t), UNCHANGED written
      PROVE  RoomsTypeOK' /\ written' \in [User -> Nat] /\ Stages' /\ req' = req
  <2>1. RoomsTypeOK' /\ Stage(t)'
    BY <1>0, <1>1, RoomsType, RoomsStage DEF Stages
  <2>2. req' = req /\ \A s \in Txn \ {t} : pc'[s] = pc[s] /\ seen'[s] = seen[s]
    BY <1>0, <1>1, RoomsFrame
  <2> QED BY <1>0, <1>1, <2>1, <2>2 DEF Stages, Stage
<1>2. ASSUME NEW t \in Txn, ChatNext(t)
      PROVE  RoomsTypeOK' /\ written' \in [User -> Nat] /\ Stages' /\ req' = req
  <2>1. RoomsTypeOK' /\ Stage(t)' /\ written' \in [User -> Nat]
    BY <1>0, <1>2, ChatType, ChatStage DEF Stages
  <2>2. req' = req /\ \A s \in Txn \ {t} : pc'[s] = pc[s] /\ seen'[s] = seen[s]
    BY <1>0, <1>2, ChatFrame
  <2> QED BY <1>0, <2>1, <2>2 DEF Stages, Stage
<1>3. CASE Restart
  <2>1. RoomsTypeOK'
    BY <1>0, <1>3, RestartType
  <2>2. \A t \in Txn : pc'[t] \in {"done", "idle"}
    BY <1>0, <1>3 DEF Restart, Running, RoomsTypeOK
  <2> QED BY <1>0, <1>3, <2>1, <2>2 DEF Restart, Stages, Stage
<1> QED BY <1>1, <1>2, <1>3 DEF Next

LEMMA CommitsStep ==
  ASSUME TypeInv, Next
  PROVE  /\ \A t \in Txn : Commits(t)'
         /\ committed' \subseteq Txn /\ late' \subseteq committed'
<1>0. /\ RoomsTypeOK /\ pc \in [Txn -> Labels] /\ committed \subseteq Txn /\ late \subseteq committed
      /\ \A t \in Txn : Commits(t)
  BY DEF TypeInv, TypeOK, RoomsTypeOK
<1> USE DEF Commits, Sent
<1>1. ASSUME NEW t \in Txn, RoomsNext(t), UNCHANGED <<committed, late>>
      PROVE  (\A s \in Txn : Commits(s)') /\ committed' \subseteq Txn /\ late' \subseteq committed'
  <2>1. pc[t] \notin Sending /\ pc'[t] \notin Sending /\ pc[t] # "done"
    BY <1>0, <1>1, RoomsApart, RoomsFrame
  <2>2. \A s \in Txn \ {t} : pc'[s] = pc[s]
    BY <1>0, <1>1, RoomsFrame
  <2> QED BY <1>0, <1>1, <2>1, <2>2 DEF Sending
<1>2. ASSUME NEW t \in Txn, ChatNext(t)
      PROVE  (\A s \in Txn : Commits(s)') /\ committed' \subseteq Txn /\ late' \subseteq committed'
  <2>1. \A s \in Txn \ {t} : pc'[s] = pc[s]
    BY <1>0, <1>2, ChatFrame
  <2> USE DEF Goto, End, Refuse, Read
  <2>2. CASE ReadAuthor(t) \/ ReadRoom(t) \/ ReadAccess(t) \/ PassGate(t) \/ SendRefused(t)
    BY <1>0, <2>1, <2>2 DEF ReadAuthor, ReadRoom, ReadAccess, PassGate, SendRefused
  <2>3. CASE JoinChannel(t) \/ Upload(t) \/ UploadFails(t) \/ DeleteMessage(t)
    BY <1>0, <2>1, <2>3 DEF JoinChannel, Upload, UploadFails, DeleteMessage, OnFailure
  <2>4. CASE SaveMessage(t)
    BY <1>0, <2>1, <2>4 DEF SaveMessage
  <2>5. CASE CountMessage(t) \/ Dress(t) \/ DressFails(t)
    BY <1>0, <2>1, <2>5 DEF CountMessage, Dress, DressFails, OnFailure
  <2>6. CASE CleanUp(t) \/ Broadcast(t)
    BY <1>0, <2>1, <2>6 DEF CleanUp, Broadcast
  <2> QED BY <1>2, <2>2, <2>3, <2>4, <2>5, <2>6 DEF ChatNext
<1>3. CASE Restart
  BY <1>0, <1>3 DEF Restart, Running
<1> QED BY <1>1, <1>2, <1>3 DEF Next

LEMMA TombstoneType ==
  ASSUME NEW m \in Message
  PROVE  [m EXCEPT !.files = 0, !.deleted = TRUE] \in Message
<1>1. [m EXCEPT !.files = 0] \in Message
  BY DEF Message
<1>2. \A k \in Message : [k EXCEPT !.deleted = TRUE] \in Message
  BY DEF Message
<1> QED BY <1>1, <1>2

(* What refers to the room is only there as long as the room is. *)
LEMMA RowsStep ==
  ASSUME TypeInv, Next
  PROVE  /\ messages' \subseteq Message /\ objects' \subseteq Txn \X (1..5)
         /\ channel' \subseteq Txn /\ heard' \subseteq Txn \X Txn
         /\ ~Open' => accesses' = {} /\ messages' = {}
<1>0. /\ messages \subseteq Message /\ objects \subseteq Txn \X (1..5)
      /\ channel \subseteq Txn /\ heard \subseteq Txn \X Txn
      /\ ~Open => accesses = {} /\ messages = {}
      /\ RoomsTypeOK /\ Stages
  BY DEF TypeInv, TypeOK
<1>1. ASSUME NEW t \in Txn, RoomsNext(t), messages' = Cascaded(messages),
             UNCHANGED <<objects, channel, heard>>
      PROVE  /\ messages' \subseteq Message /\ objects' \subseteq Txn \X (1..5)
             /\ channel' \subseteq Txn /\ heard' \subseteq Txn \X Txn
             /\ ~Open' => accesses' = {} /\ messages' = {}
  <2>1. ~Open' => accesses' = {}
    <3>1. CASE DeleteRoom(t)
      BY <3>1 DEF DeleteRoom
    <3>2. CASE InsertRoom(t)
      <4>1. NewRoom(req[t]) \in RoomRow
        BY <1>0, <3>2, RequestsAreValid, NewRoomType DEF Stages, Stage, InsertRoom
      <4> QED BY <3>2, <4>1, NoneIsNoRow DEF InsertRoom, Open
    <3>3. CASE WriteEdit(t)
      BY <1>0, <3>3, NoneIsNoRow, EditedType, RequestsAreValid
      DEF WriteEdit, Open, RoomsTypeOK
    <3>4. CASE WritePublicity(t) \/ Decide(t)
      <4>0. req[t] \in Request /\ Valid(req[t])
        BY <1>0, RequestsAreValid
      <4>1. WritePublicity(t) /\ Open => room' \in RoomRow
        <5>1. SUFFICES ASSUME WritePublicity(t), Open PROVE room' \in RoomRow
          OBVIOUS
        <5>2. req[t].publicity \in {"public", "private"} /\ req[t].password \in Password \cup {None}
          BY <4>0, <5>1 DEF WritePublicity, Request, Valid
        <5>3. room \in RoomRow
          BY <1>0, <5>1 DEF RoomsTypeOK, Open
        <5> QED BY <5>1, <5>2, <5>3 DEF WritePublicity, RoomRow
      <4>2. Decide(t) => room' \in RoomRow
        BY <1>0, <4>0, DecidedType DEF RoomsTypeOK, Decide, RoomRow, Open
      <4> QED BY <1>0, <3>4, <4>1, <4>2, NoneIsNoRow DEF WritePublicity, Open
    <3>5. CASE OwnRoom(t) \/ GrantAccess(t)
      BY <1>0, <3>5 DEF OwnRoom, GrantAccess, Open
    <3>6. CASE ~(DeleteRoom(t) \/ InsertRoom(t) \/ WriteEdit(t) \/ WritePublicity(t)
                 \/ Decide(t) \/ OwnRoom(t) \/ GrantAccess(t))
      BY <1>0, <1>1, <3>6 DEF RoomsNext, Open, Read, Refuse, Begin, CheckCreator, CreateRefused,
         Details, DetailsRefused, ReadStored, EditRefused, ReadDoor, DoorRefused, DecideRefused,
         RewardOwner, Befall
    <3> QED BY <3>1, <3>2, <3>3, <3>4, <3>5, <3>6
  <2> QED BY <1>0, <1>1, <2>1 DEF Cascaded, Open
<1>2. ASSUME NEW t \in Txn, ChatNext(t)
      PROVE  /\ messages' \subseteq Message /\ objects' \subseteq Txn \X (1..5)
             /\ channel' \subseteq Txn /\ heard' \subseteq Txn \X Txn
             /\ ~Open' => accesses' = {} /\ messages' = {}
  <2>0. room' = room
    BY <1>0, <1>2, ChatFrame
  <2>1. req[t] \in Request /\ Valid(req[t])
    BY <1>0, RequestsAreValid
  <2> USE DEF Open
  <2>2. CASE SaveMessage(t)
    <3>1. [req |-> t, files |-> req[t].files, deleted |-> FALSE] \in Message
      BY <2>1 DEF Message, Request, Valid
    <3> QED BY <1>0, <2>0, <2>2, <3>1 DEF SaveMessage
  <2>3. CASE DeleteMessage(t)
    <3>1. ASSUME NEW m \in messages
          PROVE  [m EXCEPT !.files = 0, !.deleted = TRUE] \in Message
      <4>1. m \in Message
        BY <1>0
      <4> QED BY <4>1, TombstoneType
    <3>2. UNCHANGED <<accesses, objects, channel, heard>>
      BY <2>3 DEF DeleteMessage
    <3>3. messages' \subseteq Message /\ (messages = {} => messages' = {})
      BY <1>0, <2>3, <3>1 DEF DeleteMessage
    <3> QED BY <1>0, <2>0, <3>2, <3>3
  <2>4. CASE Upload(t)
    <3>1. Files(t) \subseteq Txn \X (1..5)
      BY <2>1 DEF Files, Request, Valid
    <3> QED BY <1>0, <2>0, <2>4, <3>1 DEF Upload
  <2>5. CASE JoinChannel(t) \/ Broadcast(t) \/ CleanUp(t)
    BY <1>0, <2>0, <2>5 DEF JoinChannel, Broadcast, CleanUp
  <2>6. CASE ReadAuthor(t) \/ ReadRoom(t) \/ ReadAccess(t) \/ PassGate(t) \/ SendRefused(t)
             \/ UploadFails(t) \/ CountMessage(t) \/ Dress(t) \/ DressFails(t)
    BY <1>0, <2>0, <2>6 DEF ReadAuthor, ReadRoom, ReadAccess, PassGate, SendRefused, UploadFails,
       CountMessage, Dress, DressFails, Read, Refuse
  <2> QED BY <1>2, <2>2, <2>3, <2>4, <2>5, <2>6 DEF ChatNext
<1>3. CASE Restart
  BY <1>0, <1>3 DEF Restart, Open
<1> QED BY <1>1, <1>2, <1>3 DEF Next

LEMMA TypeStep == TypeInv /\ [Next]_vars => TypeInv'
<1>1. CASE TypeInv /\ Next
  <2>1. RoomsTypeOK' /\ written' \in [User -> Nat] /\ Stages'
    BY <1>1, StagesStep
  <2>2. /\ \A t \in Txn : Commits(t)'
        /\ committed' \subseteq Txn /\ late' \subseteq committed'
    BY <1>1, CommitsStep
  <2>3. /\ messages' \subseteq Message /\ objects' \subseteq Txn \X (1..5)
        /\ channel' \subseteq Txn /\ heard' \subseteq Txn \X Txn
        /\ ~Open' => accesses' = {} /\ messages' = {}
    BY <1>1, RowsStep
  <2>4. overtaken' \in BOOLEAN
    BY <1>1 DEF TypeInv, TypeOK, Next, Review
  <2> QED BY <2>1, <2>2, <2>3, <2>4 DEF TypeInv, TypeOK
<1>2. CASE TypeInv /\ UNCHANGED vars
  BY <1>2 DEF TypeInv, TypeOK, RoomsTypeOK, Stages, Stage, Commits, Open
<1> QED BY <1>1, <1>2

LEMMA TypeHolds == Spec => []TypeInv
BY TypeInit, TypeStep, PTL DEF Spec

(* Every variable keeps its type: a room is a row or gone, nobody has access
   to a room that is gone, and its messages went with it (the cascades of the
   schema). *)
THEOREM TypeCorrect == Spec => []TypeOK
<1>1. TypeInv => TypeOK
  BY DEF TypeInv
<1> QED BY <1>1, TypeHolds, PTL

-----------------------------------------------------------------------------
(* What is remembered of a request that has begun: every rule that held in
   some state since then, this one included. *)
HeldNow == \A t \in Txn : pc[t] # "idle" => Holding(t) \subseteq held[t]

(* What the statements of a request have found out. *)
Checked(t) ==
  /\ req[t].op = "send" /\ pc[t] \in {"room", "access", "gate"} =>
       "unbarred" \in held[t] /\ (seen[t].solvent => "solvent" \in held[t])
  /\ req[t].op = "send" /\ pc[t] \in {"access", "gate"} =>
       (seen[t].status \notin Shut => "open" \in held[t])
  /\ pc[t] = "gate" =>
       /\ ~seen[t].secret => "access" \in held[t]
       /\ ~seen[t].nsfw => "grown" \in held[t]
  /\ pc[t] \in Sent \cup {"upload"} => ToSend \subseteq held[t]
  /\ pc[t] = "join" => ToListen \subseteq held[t]
  /\ pc[t] = "grant" => "password" \in held[t]
  /\ pc[t] = "write" /\ req[t].op = "edit" =>
       (seen[t].status = "active" => "live" \in held[t])

HeldInv == HeldNow /\ \A t \in Txn : Checked(t)

LEMMA HeldGrows ==
  ASSUME Remember, NEW t \in Txn, pc'[t] # "idle"
  PROVE  held[t] \subseteq held'[t] /\ Holding(t)' \subseteq held'[t]
  BY DEF Remember

LEMMA HeldInit == Init => HeldInv
  BY DEF Init, RoomsInit, HeldInv, HeldNow, Checked, Sent

LEMMA RoomsChecked ==
  ASSUME RoomsTypeOK, Stages, HeldInv, NEW t \in Txn, RoomsNext(t), Remember
  PROVE  Checked(t)'
<1>0. /\ req[t] \in Request /\ Valid(req[t]) /\ req' = req /\ pc[t] # "done" /\ pc'[t] # "idle"
      /\ pc \in [Txn -> Labels] /\ seen \in [Txn -> Seen] /\ Stage(t)
  BY RequestsAreValid, RoomsFrame DEF RoomsTypeOK, Stages
<1>1. held[t] \subseteq held'[t] /\ (pc[t] # "idle" => Holding(t) \subseteq held[t])
  BY <1>0, HeldGrows DEF HeldInv, HeldNow
<1> USE DEF Goto, End, Refuse, Read, Checked, Sent
<1>2. CASE Begin(t)
  BY <1>0, <1>2 DEF Begin, Start, Request, Operation, Decisions, Fortunes
<1>3. CASE CheckCreator(t) \/ CreateRefused(t) \/ InsertRoom(t) \/ OwnRoom(t) \/ DetailsRefused(t)
  BY <1>0, <1>3 DEF CheckCreator, CreateRefused, InsertRoom, OwnRoom, DetailsRefused
<1>4. CASE Details(t) \/ EditRefused(t) \/ WriteEdit(t) \/ WritePublicity(t) \/ DeleteRoom(t)
  BY <1>0, <1>4 DEF Details, EditRefused, WriteEdit, WritePublicity, DeleteRoom
<1>5. CASE ReadStored(t)
  <2>1. room.status = "active" => "live" \in held'[t]
    BY <1>1, <1>5 DEF ReadStored, Holding, When
  <2>2. pc'[t] = "write" /\ seen'[t].status = room.status
    BY <1>0, <1>5 DEF ReadStored, Seen
  <2> QED BY <1>0, <2>1, <2>2
<1>6. CASE ReadDoor(t)
  <2>1. "password" \in held'[t]
    BY <1>1, <1>6 DEF ReadDoor, MayEnter, Holding, When
  <2> QED BY <1>0, <1>6, <2>1 DEF ReadDoor
<1>7. CASE DoorRefused(t) \/ GrantAccess(t) \/ DecideRefused(t) \/ RewardOwner(t) \/ Befall(t)
           \/ Decide(t)
  BY <1>0, <1>7 DEF DoorRefused, GrantAccess, DecideRefused, RewardOwner, Befall, Decide
<1> QED BY <1>2, <1>3, <1>4, <1>5, <1>6, <1>7 DEF RoomsNext

LEMMA ChatChecked ==
  ASSUME TypeInv, HeldInv, NEW t \in Txn, ChatNext(t), Remember
  PROVE  Checked(t)'
<1>0. /\ RoomsTypeOK /\ req[t] \in Request /\ req' = req /\ pc[t] \notin {"idle", "done"}
      /\ pc'[t] # "idle" /\ pc \in [Txn -> Labels] /\ seen \in [Txn -> Seen] /\ Stage(t)
  BY RequestsAreValid, ChatFrame DEF RoomsTypeOK, Stages, TypeInv, TypeOK
<1>1. held[t] \subseteq held'[t] /\ Holding(t) \subseteq held[t] /\ Checked(t)
  BY <1>0, HeldGrows DEF HeldInv, HeldNow
<1> USE DEF Goto, End, Refuse, Read, Sent
<1>2. CASE ReadAuthor(t)
  <2>1. "unbarred" \in held'[t] /\ (req[t].by \notin indebted => "solvent" \in held'[t])
    BY <1>1, <1>2 DEF ReadAuthor, Holding, When
  <2>2. pc'[t] = "room" /\ seen'[t].solvent = (req[t].by \notin indebted)
    BY <1>0, <1>2 DEF ReadAuthor, Seen
  <2> QED BY <1>0, <2>1, <2>2 DEF Checked
<1>3. CASE ReadRoom(t)
  <2>1. room.status \notin Shut => "open" \in held'[t]
    BY <1>1, <1>3 DEF ReadRoom, Holding, When
  <2>2. pc'[t] = "access" /\ seen'[t].status = room.status /\ seen'[t].solvent = seen[t].solvent
    BY <1>0, <1>3 DEF ReadRoom, Seen
  <2> QED BY <1>0, <1>1, <1>3, <2>1, <2>2 DEF Checked, ReadRoom
<1>4. CASE ReadAccess(t)
  <2>1. Open /\ room.publicity \in {"public", "private"}
    BY <1>0, <1>4 DEF ReadAccess, RoomsTypeOK, RoomRow, Open
  <2>2. room.publicity = "public" \/ req[t].by = Owner => "access" \in held'[t]
    BY <1>1, <2>1 DEF Holding, When
  <2>3. ~room.nsfw => "grown" \in held'[t]
    BY <1>1, <2>1 DEF Holding, When
  <2>4. /\ pc'[t] = "gate" /\ seen'[t].solvent = seen[t].solvent
        /\ seen'[t].status = seen[t].status /\ seen'[t].nsfw = room.nsfw
        /\ seen'[t].secret = (room.publicity = "private" /\ req[t].by # Owner)
    BY <1>0, <1>4 DEF ReadAccess, Seen
  <2> QED BY <1>0, <1>1, <1>4, <2>1, <2>2, <2>3, <2>4 DEF Checked, ReadAccess
<1>5. CASE PassGate(t)
  <2>1. "access" \in held[t]
    <3>1. CASE seen[t].secret
      BY <1>1, <1>5, <3>1 DEF PassGate, MaySend, CanAccess, Holding, When, TypeInv, TypeOK
    <3> QED BY <1>1, <1>5, <3>1 DEF PassGate, Checked
  <2>2. "grown" \in held[t]
    <3>1. CASE seen[t].nsfw
      BY <1>1, <1>5, <3>1 DEF PassGate, MaySend, CanAccess, Holding, When
    <3> QED BY <1>1, <1>5, <3>1 DEF PassGate, Checked
  <2>3. req[t].op = "send" => {"unbarred", "solvent", "open"} \subseteq held[t]
    BY <1>1, <1>5 DEF PassGate, MaySend, Checked
  <2>4. \/ req[t].op = "send" /\ pc'[t] = "upload"
        \/ req[t].op = "joinRoom" /\ pc'[t] = "join"
    BY <1>0, <1>5 DEF PassGate
  <2> QED BY <1>0, <1>1, <2>1, <2>2, <2>3, <2>4 DEF Checked, ToSend, ToListen
<1>6. CASE SendRefused(t) \/ JoinChannel(t) \/ UploadFails(t) \/ DressFails(t) \/ CleanUp(t)
           \/ Broadcast(t) \/ DeleteMessage(t)
  BY <1>0, <1>6 DEF Checked, SendRefused, JoinChannel, UploadFails, DressFails, CleanUp, Broadcast,
     DeleteMessage, OnFailure
<1>7. CASE Upload(t) \/ SaveMessage(t) \/ CountMessage(t) \/ Dress(t)
  BY <1>0, <1>1, <1>7 DEF Checked, Upload, SaveMessage, CountMessage, Dress
<1> QED BY <1>2, <1>3, <1>4, <1>5, <1>6, <1>7 DEF ChatNext

LEMMA HeldStep == TypeInv /\ HeldInv /\ [Next]_vars => HeldInv'
<1>1. ASSUME TypeInv, HeldInv, Next
      PROVE  HeldInv'
  <2>1. HeldNow'
    BY <1>1, HeldGrows DEF HeldNow, Next
  <2>2. ASSUME NEW t \in Txn
        PROVE  Checked(t)'
    <3>0. /\ Remember /\ RoomsTypeOK /\ Stages /\ req' = req /\ Checked(t)
          /\ pc \in [Txn -> Labels]
      BY <1>1, StagesStep DEF Next, TypeInv, TypeOK, HeldInv, RoomsTypeOK
    <3>1. CASE RoomsNext(t)
      BY <1>1, <3>0, <3>1, RoomsChecked
    <3>2. CASE ChatNext(t)
      BY <1>1, <3>0, <3>2, ChatChecked
    <3>3. CASE pc'[t] = pc[t] /\ seen'[t] = seen[t]
      <4>1. CASE pc[t] = "idle"
        BY <3>0, <3>3, <4>1 DEF Checked, Sent
      <4>2. CASE pc[t] # "idle"
        <5>1. held[t] \subseteq held'[t]
          BY <3>0, <3>3, <4>2, HeldGrows
        <5> QED BY <3>0, <3>3, <5>1 DEF Checked
      <4> QED BY <4>1, <4>2
    <3>4. CASE Restart
      BY <3>0, <3>4 DEF Restart, Running, Checked, Sent
    <3>5. ASSUME NEW s \in Txn \ {t}, RoomsNext(s) \/ ChatNext(s)
          PROVE  pc'[t] = pc[t] /\ seen'[t] = seen[t]
      BY <3>0, <3>5, RoomsFrame, ChatFrame
    <3> QED BY <1>1, <3>1, <3>2, <3>3, <3>4, <3>5 DEF Next
  <2> QED BY <2>1, <2>2 DEF HeldInv
<1>2. ASSUME HeldInv, UNCHANGED vars
      PROVE  HeldInv'
  BY <1>2 DEF HeldInv, HeldNow, Checked, Holding, Open
<1> QED BY <1>1, <1>2

-----------------------------------------------------------------------------
(* EveryRuleHeld, of requests that have begun. *)
Rules ==
  /\ \A m \in messages : pc[m.req] # "idle" /\ ToSend \subseteq held[m.req]
  /\ \A t \in channel : pc[t] # "idle" /\ ToListen \subseteq held[t]
  /\ \A h \in heard : /\ pc[h[1]] # "idle" /\ ToSend \subseteq held[h[1]]
                      /\ pc[h[2]] # "idle" /\ ToListen \subseteq held[h[2]]
  /\ \A u \in accesses \ {Owner} :
       \E t \in Txn : /\ pc[t] # "idle" /\ "password" \in held[t]
                      /\ req[t].op = "enter" /\ req[t].by = u

LEMMA RulesInit == Init => Rules
  BY DEF Init, RoomsInit, Rules

(* A request that has begun is not forgotten. *)
LEMMA BegunStays ==
  ASSUME TypeInv, Next, NEW t \in Txn, pc[t] # "idle"
  PROVE  pc'[t] # "idle" /\ held[t] \subseteq held'[t]
<1>1. pc'[t] # "idle"
  <2>1. ASSUME NEW s \in Txn, RoomsNext(s) \/ ChatNext(s)
        PROVE  pc'[t] # "idle"
    BY <2>1, RoomsFrame, ChatFrame DEF TypeInv, TypeOK
  <2>2. CASE Restart
    BY <2>2 DEF Restart
  <2> QED BY <2>1, <2>2 DEF Next
<1> QED BY <1>1, HeldGrows DEF Next

(* What is new in a step, and who brought it about. *)
LEMMA NewRows ==
  ASSUME TypeInv, Next
  PROVE  /\ \A m \in messages' :
              \/ \E n \in messages : m.req = n.req
              \/ m.req \in Txn /\ pc[m.req] = "upload"
         /\ \A t \in channel' : t \in channel \/ (t \in Txn /\ pc[t] = "join")
         /\ \A h \in heard' : h \in heard \/ (h[1] \in Txn /\ pc[h[1]] = "broadcast" /\ h[2] \in channel)
         /\ \A u \in accesses' \ {Owner} :
              u \in accesses \/ \E t \in Txn : pc[t] = "grant" /\ req[t].by = u
<1>0. RoomsTypeOK /\ channel \subseteq Txn /\ messages \subseteq Message
  BY DEF TypeInv, TypeOK
<1>1. ASSUME NEW t \in Txn, RoomsNext(t), messages' = Cascaded(messages),
             UNCHANGED <<channel, heard>>
      PROVE  /\ messages' \subseteq messages /\ channel' = channel /\ heard' = heard
             /\ \A u \in accesses' \ {Owner} :
                  u \in accesses \/ (pc[t] = "grant" /\ req[t].by = u)
  <2>1. messages' \subseteq messages
    BY <1>1 DEF Cascaded
  <2>2. CASE OwnRoom(t) \/ GrantAccess(t) \/ DeleteRoom(t)
    BY <1>1, <2>1, <2>2 DEF OwnRoom, GrantAccess, DeleteRoom
  <2>3. CASE ~(OwnRoom(t) \/ GrantAccess(t) \/ DeleteRoom(t))
    BY <1>1, <2>1, <2>3 DEF RoomsNext, Read, Refuse, Begin, CheckCreator, CreateRefused,
       InsertRoom, Details, DetailsRefused, ReadStored, EditRefused, WriteEdit, WritePublicity,
       ReadDoor, DoorRefused, Decide, DecideRefused, RewardOwner, Befall
  <2> QED BY <2>2, <2>3
<1>2. ASSUME NEW t \in Txn, ChatNext(t)
      PROVE  /\ \A m \in messages' : (\E n \in messages : m.req = n.req)
                                       \/ (m.req = t /\ pc[t] = "upload")
             /\ \A s \in channel' : s \in channel \/ (s = t /\ pc[t] = "join")
             /\ \A h \in heard' : h \in heard \/ (h[1] = t /\ pc[t] = "broadcast" /\ h[2] \in channel)
             /\ accesses' = accesses
  <2>1. CASE SaveMessage(t)
    BY <2>1 DEF SaveMessage
  <2>2. CASE DeleteMessage(t)
    <3>1. ASSUME NEW m \in messages
          PROVE  [m EXCEPT !.files = 0, !.deleted = TRUE].req = m.req
      BY <1>0, <3>1 DEF Message
    <3> QED BY <2>2, <3>1 DEF DeleteMessage
  <2>3. CASE JoinChannel(t) \/ Broadcast(t)
    BY <2>3 DEF JoinChannel, Broadcast
  <2>4. CASE ReadAuthor(t) \/ ReadRoom(t) \/ ReadAccess(t) \/ PassGate(t) \/ SendRefused(t)
             \/ Upload(t) \/ UploadFails(t) \/ CountMessage(t) \/ Dress(t) \/ DressFails(t)
             \/ CleanUp(t)
    BY <2>4 DEF ReadAuthor, ReadRoom, ReadAccess, PassGate, SendRefused, Upload, UploadFails,
       CountMessage, Dress, DressFails, CleanUp, Read, Refuse
  <2> QED BY <1>2, <2>1, <2>2, <2>3, <2>4 DEF ChatNext
<1>3. CASE Restart
  BY <1>3 DEF Restart
<1> QED BY <1>1, <1>2, <1>3 DEF Next

LEMMA RulesStep == TypeInv /\ HeldInv /\ Rules /\ [Next]_vars => Rules'
<1>1. ASSUME TypeInv, HeldInv, Rules, Next
      PROVE  Rules'
  <2>0. /\ req' = req /\ Stages /\ channel \subseteq Txn /\ heard \subseteq Txn \X Txn
        /\ \A m \in messages : m.req \in Txn
    BY <1>1, StagesStep DEF TypeInv, TypeOK, Message
  <2>1. \A t \in Txn : pc[t] # "idle" => pc'[t] # "idle" /\ held[t] \subseteq held'[t]
    BY <1>1, BegunStays
  <2>2. \A t \in Txn : pc[t] \in {"upload", "broadcast"} => ToSend \subseteq held[t]
    BY <1>1 DEF HeldInv, Checked, Sent
  <2>3. \A t \in Txn : /\ pc[t] = "join" => ToListen \subseteq held[t]
                       /\ pc[t] = "grant" => "password" \in held[t] /\ req[t].op = "enter"
    BY <1>1, <2>0 DEF HeldInv, Checked, Stages, Stage
  <2>4. ASSUME NEW m \in messages'
        PROVE  pc'[m.req] # "idle" /\ ToSend \subseteq held'[m.req]
    <3>1. m.req \in Txn /\ pc[m.req] # "idle" /\ ToSend \subseteq held[m.req]
      BY <1>1, <2>0, <2>2, <2>4, NewRows DEF Rules
    <3> QED BY <2>1, <3>1
  <2>5. ASSUME NEW t \in channel'
        PROVE  pc'[t] # "idle" /\ ToListen \subseteq held'[t]
    <3>1. t \in Txn /\ pc[t] # "idle" /\ ToListen \subseteq held[t]
      BY <1>1, <2>0, <2>3, <2>5, NewRows DEF Rules
    <3> QED BY <2>1, <3>1
  <2>6. ASSUME NEW h \in heard'
        PROVE  /\ pc'[h[1]] # "idle" /\ ToSend \subseteq held'[h[1]]
               /\ pc'[h[2]] # "idle" /\ ToListen \subseteq held'[h[2]]
    <3>1. h \in heard \/ (h[1] \in Txn /\ pc[h[1]] = "broadcast" /\ h[2] \in channel)
      BY <1>1, <2>6, NewRows
    <3>2. /\ h[1] \in Txn /\ pc[h[1]] # "idle" /\ ToSend \subseteq held[h[1]]
          /\ h[2] \in Txn /\ pc[h[2]] # "idle" /\ ToListen \subseteq held[h[2]]
      <4>1. CASE h \in heard
        BY <1>1, <2>0, <4>1 DEF Rules
      <4>2. CASE h[1] \in Txn /\ pc[h[1]] = "broadcast" /\ h[2] \in channel
        BY <1>1, <2>0, <2>2, <4>2 DEF Rules
      <4> QED BY <3>1, <4>1, <4>2
    <3> QED BY <2>1, <3>2
  <2>7. ASSUME NEW u \in accesses' \ {Owner}
        PROVE  \E t \in Txn : /\ pc'[t] # "idle" /\ "password" \in held'[t]
                              /\ req'[t].op = "enter" /\ req'[t].by = u
    <3>1. PICK t \in Txn : /\ pc[t] # "idle" /\ "password" \in held[t]
                           /\ req[t].op = "enter" /\ req[t].by = u
      BY <1>1, <2>3, <2>7, NewRows DEF Rules
    <3> QED BY <2>0, <2>1, <3>1
  <2> QED BY <2>4, <2>5, <2>6, <2>7 DEF Rules
<1>2. ASSUME Rules, UNCHANGED vars
      PROVE  Rules'
  BY <1>2 DEF Rules
<1> QED BY <1>1, <1>2

(* A message is sent, a socket listens and a user is let in only after every
   check that the handlers make has found its rule to hold. *)
THEOREM RulesAreChecked == Spec => []EveryRuleHeld
<1>1. Init => TypeInv /\ HeldInv /\ Rules
  BY TypeInit, HeldInit, RulesInit
<1>2. TypeInv /\ HeldInv /\ Rules /\ [Next]_vars => (TypeInv /\ HeldInv /\ Rules)'
  BY TypeStep, HeldStep, RulesStep
<1>3. Rules => EveryRuleHeld
  BY DEF Rules, EveryRuleHeld
<1> QED BY <1>1, <1>2, <1>3, PTL DEF Spec

-----------------------------------------------------------------------------
(* FilesMatchMessages, and whose the files in the bucket are. *)
FilesInv ==
  /\ FilesMatchMessages
  /\ \A m \in messages : m.req \in committed
  /\ \A f \in objects : f \in Files(f[1]) /\ pc[f[1]] \in Sent \cup {"upload", "cleanup", "done"}

LEMMA FilesInit == Init => FilesInv
  BY DEF Init, RoomsInit, FilesInv, FilesMatchMessages

LEMMA RoomsFiles ==
  ASSUME TypeInv, FilesInv, NEW t \in Txn, RoomsNext(t), messages' = Cascaded(messages),
         UNCHANGED <<objects, history>>
  PROVE  FilesInv'
<1>1. messages' \subseteq messages
  BY DEF Cascaded
<1>2. /\ pc[t] \notin Sending \cup {"done"} /\ req' = req
      /\ \A s \in Txn \ {t} : pc'[s] = pc[s]
  BY RoomsApart, RoomsFrame DEF TypeInv, TypeOK
<1>3. \A f \in objects : f[1] \in Txn /\ f[1] # t /\ pc'[f[1]] = pc[f[1]]
  BY <1>2 DEF FilesInv, Sending, Sent, TypeInv, TypeOK
<1> QED BY <1>1, <1>2, <1>3 DEF FilesInv, FilesMatchMessages, Files, Running

LEMMA ChatFiles ==
  ASSUME TypeInv, FilesInv, NEW t \in Txn, ChatNext(t)
  PROVE  FilesInv'
<1>0. /\ req' = req /\ \A s \in Txn \ {t} : pc'[s] = pc[s]
      /\ objects \subseteq Txn \X (1..5) /\ messages \subseteq Message /\ Commits(t)
      /\ pc \in [Txn -> Labels] /\ pc' \in [Txn -> Labels] /\ pc[t] # "done"
  BY ChatFrame DEF TypeInv, TypeOK, RoomsTypeOK
<1>a. \A f \in objects : f[1] \in Txn
  BY <1>0
<1>b. \A m \in messages : m.req \in Txn
  BY <1>0 DEF Message
<1> USE DEF Goto, End, Refuse, Read
<1>1. CASE Upload(t)
  <2>1. \A f \in Files(t) : f[1] = t
    BY DEF Files
  <2>2. PICK f \in Files(t) : objects' = objects \cup {f}
    BY <1>1 DEF Upload
  <2>3. /\ UNCHANGED <<messages, pc, req, committed, late, leaked>> /\ pc[t] = "upload"
    BY <1>1 DEF Upload
  <2> QED BY <2>1, <2>2, <2>3 DEF FilesInv, FilesMatchMessages, Files, Running, Sent
<1>2. CASE SaveMessage(t)
  <2>1. /\ UNCHANGED <<objects, req, late, leaked>> /\ committed' = committed \cup {t}
        /\ pc'[t] = "count" /\ Files(t) \subseteq objects
        /\ messages' = messages \cup {[req |-> t, files |-> req[t].files, deleted |-> FALSE]}
    BY <1>0, <1>2 DEF SaveMessage
  <2>2. \A f \in objects : Running(f[1])' \/ f[1] \in committed \/ f \in leaked
    BY <1>0, <1>a, <2>1 DEF FilesInv, FilesMatchMessages, Running
  <2>3. \A f \in objects : pc'[f[1]] \in Sent \cup {"upload", "cleanup", "done"}
    BY <1>0, <1>a, <2>1 DEF FilesInv, Sent
  <2> QED BY <1>b, <2>1, <2>2, <2>3 DEF FilesInv, FilesMatchMessages, Files
<1>3. CASE DeleteMessage(t)
  <2>1. UNCHANGED <<objects, history, req>> /\ pc[t] = "decide"
    BY <1>3 DEF DeleteMessage
  <2>2. \A f \in objects : f[1] # t /\ pc'[f[1]] = pc[f[1]]
    BY <1>0, <1>a, <2>1 DEF FilesInv, Sent
  <2>3. \A m \in messages' :
          \E n \in messages : m.req = n.req /\ (m.files = n.files \/ m.files = 0)
    <3>1. ASSUME NEW m \in messages
          PROVE  /\ [m EXCEPT !.files = 0, !.deleted = TRUE].req = m.req
                 /\ [m EXCEPT !.files = 0, !.deleted = TRUE].files = 0
      BY <1>0, <3>1 DEF Message
    <3> QED BY <1>3, <3>1 DEF DeleteMessage
  <2>4. \A r \in Txn : {r} \X (1..0) \subseteq objects
    OBVIOUS
  <2> QED BY <1>b, <2>1, <2>2, <2>3, <2>4 DEF FilesInv, FilesMatchMessages, Running, Files
<1>4. CASE CleanUp(t)
  <2>1. PICK kept \in SUBSET Uploaded(t) :
          objects' = objects \ (Uploaded(t) \ kept) /\ leaked' = leaked \cup kept
    BY <1>4 DEF CleanUp
  <2>2. /\ UNCHANGED <<messages, committed, late, req>> /\ pc[t] = "cleanup" /\ pc'[t] = "done"
    BY <1>0, <1>4 DEF CleanUp
  <2>3. \A f \in objects : f[1] = t => f \in Uploaded(t)
    BY DEF FilesInv, Uploaded, Files
  <2>4. \A f \in Uploaded(t) : f[1] = t
    BY DEF Uploaded, Files
  <2>5. ASSUME NEW m \in messages, m.req \notin late
        PROVE  {m.req} \X (1..m.files) \subseteq objects'
    <3>1. m.req # t /\ {m.req} \X (1..m.files) \subseteq objects
      BY <1>0, <2>2, <2>5 DEF FilesInv, FilesMatchMessages, Commits
    <3>2. \A f \in {m.req} \X (1..m.files) : f[1] = m.req
      OBVIOUS
    <3> QED BY <2>1, <2>4, <3>1, <3>2
  <2>6. ASSUME NEW f \in objects'
        PROVE  /\ Running(f[1])' \/ f[1] \in committed \/ f \in leaked'
               /\ f \in Files(f[1])' /\ pc'[f[1]] \in Sent \cup {"upload", "cleanup", "done"}
    BY <1>0, <1>a, <2>1, <2>2, <2>3, <2>6 DEF FilesInv, FilesMatchMessages, Running, Files
  <2> QED BY <2>2, <2>5, <2>6 DEF FilesInv, FilesMatchMessages
<1>5. CASE \/ UploadFails(t) \/ CountMessage(t) \/ Dress(t) \/ DressFails(t)
  <2>1. /\ UNCHANGED <<messages, objects, req, committed, leaked>> /\ late \subseteq late'
        /\ pc'[t] \in Sent \cup {"cleanup"}
    BY <1>0, <1>5 DEF UploadFails, CountMessage, Dress, DressFails, OnFailure, Sent
  <2> QED BY <1>0, <1>a, <2>1 DEF FilesInv, FilesMatchMessages, Running, Files, Sent
<1>6. CASE Broadcast(t)
  <2>1. UNCHANGED <<messages, objects, req, history>> /\ pc'[t] = "done" /\ t \in committed
    BY <1>0, <1>6 DEF Broadcast, Commits, Sent
  <2> QED BY <1>0, <1>a, <2>1 DEF FilesInv, FilesMatchMessages, Running, Files, Sent
<1>7. CASE ReadAuthor(t) \/ ReadRoom(t) \/ ReadAccess(t) \/ PassGate(t) \/ SendRefused(t)
           \/ JoinChannel(t)
  <2>1. /\ UNCHANGED <<messages, objects, req, history>>
        /\ pc[t] \in {"user", "room", "access", "gate", "join"}
    BY <1>7 DEF ReadAuthor, ReadRoom, ReadAccess, PassGate, SendRefused, JoinChannel
  <2>2. \A f \in objects : f[1] # t /\ pc'[f[1]] = pc[f[1]]
    BY <1>0, <1>a, <2>1 DEF FilesInv, Sent
  <2> QED BY <2>1, <2>2 DEF FilesInv, FilesMatchMessages, Running, Files
<1> QED BY <1>1, <1>2, <1>3, <1>4, <1>5, <1>6, <1>7 DEF ChatNext

LEMMA FilesStep == TypeInv /\ FilesInv /\ [Next]_vars => FilesInv'
<1>1. ASSUME TypeInv, FilesInv, Restart
      PROVE  FilesInv'
  <2>1. /\ UNCHANGED <<messages, objects, req, committed, late>>
        /\ leaked' = leaked \cup UNION {Uploaded(t) : t \in {s \in Txn \ committed : Running(s)}}
        /\ pc' = [t \in Txn |-> IF Running(t) THEN "done" ELSE pc[t]]
    BY <1>1 DEF Restart
  <2>2. \A f \in objects : f[1] \in Txn
    BY <1>1 DEF TypeInv, TypeOK
  <2>3. ASSUME NEW f \in objects
        PROVE  f[1] \in committed \/ f \in leaked'
    <3>1. Running(f[1]) => f \in Uploaded(f[1])
      BY <1>1, <2>3 DEF FilesInv, Uploaded
    <3> QED BY <1>1, <2>1, <2>2, <2>3, <3>1 DEF FilesInv, FilesMatchMessages
  <2> QED BY <1>1, <2>1, <2>2, <2>3 DEF FilesInv, FilesMatchMessages, Files, Sent
<1>2. ASSUME FilesInv, UNCHANGED vars
      PROVE  FilesInv'
  BY <1>2 DEF FilesInv, FilesMatchMessages, Files, Running
<1> QED BY <1>1, <1>2, RoomsFiles, ChatFiles DEF Next

(* The compensation of a failed message removes no file of a message that is
   there, unless it failed after its COMMIT, and leaves none that a removal
   which failed, or a restart, does not account for. *)
THEOREM FilesAreMatched == Spec => []FilesMatchMessages
<1>1. FilesInv => FilesMatchMessages
  BY DEF FilesInv
<1> QED BY <1>1, TypeInit, TypeStep, FilesInit, FilesStep, PTL DEF Spec

-----------------------------------------------------------------------------
(* Nothing can have read the room before it is created, and an edit that no
   activation has overtaken knows every blocked text of a live room. *)
Creating == {t \in Txn : req[t].op = "create" /\ pc[t] \in {"idle", "user", "insert"}}
Editing == {t \in Txn : req[t].op = "edit" /\ pc[t] = "write"}
Knows(t) ==
  /\ seen[t].status = "active"
  /\ room.title = "blocked" => seen[t].title = "blocked"
  /\ room.topic = "blocked" => seen[t].topic = "blocked"
Live == Open /\ room.status = "active"

EditInv ==
  /\ Creating # {} => ~Open /\ Editing = {}
  /\ \A t \in Editing : t \notin stale /\ ~overtaken /\ Live => Knows(t)
  /\ BlockedTextReviewed

LEMMA EditInit == Init => EditInv
<1> SUFFICES ASSUME Init PROVE EditInv
  OBVIOUS
<1>1. Editing = {} /\ (Creating # {} => ~Open)
  BY DEF Init, RoomsInit, Editing, Creating, Open
<1>2. BlockedTextReviewed
  BY DEF Init, BlockedTextReviewed
<1> QED BY <1>1, <1>2 DEF EditInv

(* A step that leaves the texts and the status of the room, and that brings
   no request to the end of an edit. *)
LEMMA SameTexts ==
  ASSUME EditInv, Review, req' = req, \A t \in Txn : ~Activates(t),
         Open' => Open /\ room'.title = room.title /\ room'.topic = room.topic
                    /\ (room'.status = "active" => room.status = "active"),
         \A t \in Txn : pc'[t] = "write" /\ req[t].op = "edit" =>
           pc[t] = "write" /\ seen'[t] = seen[t],
         Creating' \subseteq Creating
  PROVE  EditInv'
<1>1. /\ reviewed' = reviewed /\ stale' = {t \in stale : pc'[t] = "write"}
      /\ overtaken => overtaken'
  BY DEF Review
<1>2. Editing' \subseteq Editing
  BY DEF Editing
<1>3. ASSUME NEW t \in Editing', t \notin stale', ~overtaken', Live'
      PROVE  Knows(t)'
  <2>1. t \in Editing /\ t \notin stale /\ ~overtaken /\ Live /\ seen'[t] = seen[t]
    BY <1>1, <1>2, <1>3 DEF Editing, Live
  <2> QED BY <1>3, <2>1 DEF EditInv, Knows, Live
<1>4. BlockedTextReviewed'
  BY <1>1 DEF EditInv, BlockedTextReviewed, Verdict
<1>5. Creating' # {} => ~Open' /\ Editing' = {}
  BY <1>2 DEF EditInv
<1> QED BY <1>3, <1>4, <1>5 DEF EditInv

(* What an edit writes that no activation has overtaken. *)
LEMMA EditedTexts ==
  ASSUME RoomsTypeOK, NEW t \in Txn, Knows(t) \/ ~Live, Open,
         NEW new, new = Edited(req[t], seen[t]), new.status = "active"
  PROVE  Live /\ new.title # "blocked" /\ new.topic # "blocked"
<1>1. req[t] \in Request /\ seen[t] \in Seen /\ room \in RoomRow
  BY RequestsAreValid DEF RoomsTypeOK, Open
<1>2. new.title = Given(req[t].title, room.title) /\ new.topic = Given(req[t].topic, room.topic)
  BY DEF Edited
<1>3. ~Flagged(req[t], seen[t]) /\ room.status = "active"
  BY DEF Edited
<1>4. EditVerdict(req[t], seen[t]) # "blocked"
  BY <1>3 DEF Flagged, Knows, Live
<1>5. Given(req[t].title, seen[t].title) # "blocked" /\ Given(req[t].topic, seen[t].topic) # "blocked"
  BY <1>4 DEF EditVerdict, Verdict
<1> QED BY <1>2, <1>3, <1>5 DEF Given, Knows, Live

LEMMA WriteEditStep ==
  ASSUME TypeInv, EditInv, NEW t \in Txn, WriteEdit(t), Review, req' = req
  PROVE  EditInv'
<1>0. /\ RoomsTypeOK /\ pc[t] = "write" /\ pc' = [pc EXCEPT ![t] = "done"] /\ pc \in [Txn -> Labels]
      /\ \A s \in Txn \ {t} : pc'[s] = pc[s] /\ seen'[s] = seen[s]
      /\ room' = IF Open THEN Edited(req[t], seen[t]) ELSE room
      /\ t \in Editing
  BY DEF TypeInv, TypeOK, RoomsTypeOK, WriteEdit, End, Goto, Editing
<1>1. \A s \in Txn : ~Activates(s)
  BY <1>0 DEF Activates
<1>2. /\ reviewed' = reviewed /\ stale' = {s \in stale : pc'[s] = "write"}
      /\ overtaken' = (overtaken \/ (room' # room /\ stale' # stale))
  BY <1>1 DEF Review
<1>3. Editing' = Editing \ {t} /\ Creating' = Creating
  BY <1>0 DEF Editing, Creating
<1>4. Creating' = {}
  BY <1>0, <1>3 DEF EditInv
<1>5. CASE room' = room
  BY <1>0, <1>1, <1>3, <1>5, SameTexts DEF Editing, Open
<1>6. CASE overtaken'
  BY <1>4, <1>6 DEF EditInv, BlockedTextReviewed
<1>7. CASE room' # room /\ ~overtaken'
  <2>1. Open /\ t \notin stale /\ ~overtaken /\ stale' = stale
    BY <1>0, <1>2, <1>7
  <2>2. Knows(t) \/ ~Live
    BY <1>0, <2>1 DEF EditInv
  <2>3. room'.status = "active" => Live /\ room'.title # "blocked" /\ room'.topic # "blocked"
    BY <1>0, <2>1, <2>2, EditedTexts
  <2>4. ASSUME NEW s \in Editing', s \notin stale', Live'
        PROVE  Knows(s)'
    <3>1. s \in Editing /\ s \notin stale /\ Live /\ seen'[s] = seen[s]
      BY <1>0, <1>3, <2>1, <2>3, <2>4 DEF Live, Editing
    <3> QED BY <2>1, <2>3, <2>4, <3>1 DEF EditInv, Knows, Live
  <2>5. BlockedTextReviewed'
    BY <2>3 DEF BlockedTextReviewed, Verdict
  <2> QED BY <1>4, <2>4, <2>5 DEF EditInv
<1> QED BY <1>5, <1>6, <1>7

LEMMA DecideStep ==
  ASSUME TypeInv, EditInv, NEW t \in Txn, Decide(t), Review, req' = req, crashed' = crashed
  PROVE  EditInv'
<1>0. /\ RoomsTypeOK /\ pc \in [Txn -> Labels] /\ pc[t] = "decide" /\ Open
      /\ pc'[t] \in {"done", "reward"} /\ req[t].op \in Decisions
      /\ \A s \in Txn \ {t} : pc'[s] = pc[s] /\ seen'[s] = seen[s]
      /\ room' = [room EXCEPT !.status = Decided(req[t])] /\ room \in RoomRow
  BY RoomsFrame DEF TypeInv, TypeOK, RoomsTypeOK, Decide, Goto, Open, RoomsNext
<1>1. /\ room'.title = room.title /\ room'.topic = room.topic
      /\ room'.status = Decided(req[t])
  BY <1>0 DEF RoomRow
<1>2. Editing' = Editing /\ Creating' = Creating /\ Creating = {}
  BY <1>0 DEF Editing, Creating, EditInv, Decisions
<1>3. CASE Decided(req[t]) = "active"
  <2>1. Activates(t)
    BY <1>0, <1>3 DEF Activates
  <2>2. reviewed' = <<room.title, room.topic>> /\ stale' = Editing /\ ~overtaken'
    BY <2>1 DEF Review, Editing
  <2> QED BY <1>1, <1>2, <2>2 DEF EditInv, BlockedTextReviewed
<1>4. CASE Decided(req[t]) # "active"
  BY <1>1, <1>2, <1>4 DEF EditInv, BlockedTextReviewed, Live
<1> QED BY <1>3, <1>4

LEMMA InsertRoomStep ==
  ASSUME TypeInv, EditInv, NEW t \in Txn, InsertRoom(t), req' = req
  PROVE  ~Open /\ EditInv'
<1>0. /\ RoomsTypeOK /\ pc \in [Txn -> Labels] /\ pc[t] = "insert" /\ req[t].op = "create"
      /\ pc'[t] \in {"own", "done"} /\ \A s \in Txn \ {t} : pc'[s] = pc[s]
      /\ room' = NewRoom(req[t])
  BY RoomsFrame DEF TypeInv, TypeOK, RoomsTypeOK, InsertRoom, Goto, RoomsNext, Stages, Stage
<1>1. t \in Creating
  BY <1>0 DEF Creating
<1>2. \A s \in Txn : req[s].op = "create" => s = t
  BY <1>0, CrowdsAssumption DEF RoomsTypeOK
<1>3. Creating' = {} /\ Editing' = {}
  BY <1>0, <1>1, <1>2 DEF Creating, EditInv, Editing
<1>4. room'.status = "active" => Verdict(room'.title, room'.topic) # "blocked"
  BY <1>0 DEF NewRoom
<1> QED BY <1>1, <1>3, <1>4 DEF EditInv, BlockedTextReviewed

LEMMA ReadStoredStep ==
  ASSUME TypeInv, EditInv, NEW t \in Txn, ReadStored(t), Review, req' = req
  PROVE  EditInv'
<1>0. /\ RoomsTypeOK /\ pc \in [Txn -> Labels] /\ seen \in [Txn -> Seen] /\ pc[t] = "stored"
      /\ pc'[t] = "write" /\ \A s \in Txn \ {t} : pc'[s] = pc[s] /\ seen'[s] = seen[s]
      /\ room' = room /\ Open /\ req[t].op = "edit"
      /\ seen'[t].title = room.title /\ seen'[t].topic = room.topic /\ seen'[t].status = room.status
  BY DEF TypeInv, TypeOK, RoomsTypeOK, ReadStored, Read, Goto, Stages, Stage, Seen
<1>1. \A s \in Txn : ~Activates(s)
  BY <1>0 DEF Activates
<1>2. /\ reviewed' = reviewed /\ stale' = {s \in stale : pc'[s] = "write"}
      /\ overtaken => overtaken'
  BY <1>0, <1>1 DEF Review
<1>3. Editing' = Editing \cup {t} /\ Creating' = {}
  BY <1>0 DEF Editing, Creating, EditInv
<1>4. ASSUME NEW s \in Editing', s \notin stale', ~overtaken', Live'
      PROVE  Knows(s)'
  <2>1. CASE s = t
    BY <1>0, <1>4, <2>1 DEF Knows, Live
  <2>2. CASE s # t
    <3>1. s \in Editing /\ s \notin stale /\ Live
      BY <1>0, <1>2, <1>3, <1>4, <2>2 DEF Live, Editing, Open
    <3> QED BY <1>0, <1>2, <1>4, <2>2, <3>1 DEF EditInv, Knows, Editing
  <2> QED BY <2>1, <2>2
<1>5. BlockedTextReviewed'
  BY <1>0, <1>2 DEF EditInv, BlockedTextReviewed, Open
<1> QED BY <1>3, <1>4, <1>5 DEF EditInv

LEMMA EditStep == TypeInv /\ EditInv /\ [Next]_vars => EditInv'
<1>1. ASSUME TypeInv, EditInv, Review, NEW t \in Txn, RoomsNext(t), crashed' = crashed
      PROVE  EditInv'
  <2>0. /\ RoomsTypeOK /\ pc \in [Txn -> Labels] /\ req' = req
        /\ \A s \in Txn \ {t} : pc'[s] = pc[s] /\ seen'[s] = seen[s]
    BY <1>1, RoomsFrame DEF TypeInv, TypeOK, RoomsTypeOK
  <2>1. CASE WriteEdit(t)
    BY <1>1, <2>0, <2>1, WriteEditStep
  <2>2. CASE Decide(t)
    BY <1>1, <2>0, <2>2, DecideStep
  <2>3. CASE InsertRoom(t)
    BY <1>1, <2>0, <2>3, InsertRoomStep
  <2>4. CASE ReadStored(t)
    BY <1>1, <2>0, <2>4, ReadStoredStep
  <2>5. CASE DeleteRoom(t)
    <3>1. pc[t] = "write" /\ pc'[t] = "done" /\ ~Open'
      BY <2>0, <2>5 DEF DeleteRoom, End, Goto, Open
    <3> QED BY <1>1, <2>0, <3>1, SameTexts DEF Activates, Creating
  <2>6. CASE WritePublicity(t)
    <3>1. pc[t] = "write" /\ pc'[t] = "done"
      BY <2>0, <2>6 DEF WritePublicity, End, Goto
    <3>2. Open' => /\ Open /\ room'.title = room.title /\ room'.topic = room.topic
                   /\ (room'.status = "active" => room.status = "active")
      BY <2>0, <2>6 DEF WritePublicity, Open, RoomsTypeOK, RoomRow
    <3> QED BY <1>1, <2>0, <3>1, <3>2, SameTexts DEF Activates, Creating
  <2>7. CASE Details(t)
    <3>1. /\ pc[t] = "details" /\ room' = room /\ pc'[t] \in {"stored", "write"}
          /\ (req[t].op = "edit" => pc'[t] = "stored")
      BY <2>0, <2>7 DEF Details, Read, Goto
    <3> QED BY <1>1, <2>0, <3>1, SameTexts DEF Activates, Creating, Open
  <2>8. CASE Begin(t) \/ CheckCreator(t)
    <3>1. room' = room /\ pc'[t] # "write" /\ pc[t] \in {"idle", "user"}
      BY <1>1, <2>0, <2>8, RequestsAreValid
      DEF Begin, CheckCreator, Read, Goto, Start, Request, Operation, Decisions, Fortunes
    <3> QED BY <1>1, <2>0, <3>1, SameTexts DEF Activates, Creating, Open
  <2>9. CASE CreateRefused(t) \/ OwnRoom(t) \/ DetailsRefused(t) \/ EditRefused(t)
             \/ DoorRefused(t) \/ GrantAccess(t) \/ DecideRefused(t) \/ RewardOwner(t) \/ Befall(t)
             \/ ReadDoor(t)
    <3>1. /\ room' = room /\ pc'[t] \in {"done", "grant"}
          /\ (pc[t] = "decide" => ~Open)
      BY <2>0, <2>9 DEF CreateRefused, OwnRoom, DetailsRefused, EditRefused, DoorRefused,
         GrantAccess, DecideRefused, RewardOwner, Befall, ReadDoor, Read, Refuse, End, Goto
    <3> QED BY <1>1, <2>0, <3>1, SameTexts DEF Activates, Creating, Open
  <2> QED BY <1>1, <2>1, <2>2, <2>3, <2>4, <2>5, <2>6, <2>7, <2>8, <2>9 DEF RoomsNext
<1>2. ASSUME TypeInv, EditInv, Review, NEW t \in Txn, ChatNext(t)
      PROVE  EditInv'
  <2>0. /\ RoomsTypeOK /\ pc \in [Txn -> Labels] /\ req' = req /\ room' = room
        /\ pc[t] \notin {"idle", "done"}
        /\ \A s \in Txn \ {t} : pc'[s] = pc[s] /\ seen'[s] = seen[s]
    BY <1>2, ChatFrame DEF TypeInv, TypeOK, RoomsTypeOK
  <2>1. /\ pc'[t] \notin {"write", "idle", "user", "insert"}
        /\ (pc[t] = "decide" => req[t].op \notin Decisions)
    BY <1>2, <2>0 DEF ChatNext, Goto, End, Refuse, Read, ReadAuthor, ReadRoom, ReadAccess, PassGate,
       SendRefused, JoinChannel, Upload, UploadFails, SaveMessage, CountMessage, Dress, DressFails,
       CleanUp, Broadcast, DeleteMessage, OnFailure, Decisions
  <2> QED BY <1>2, <2>0, <2>1, SameTexts DEF Activates, Creating, Open
<1>3. ASSUME TypeInv, EditInv, Review, Restart
      PROVE  EditInv'
  <2>1. /\ req' = req /\ room' = room
        /\ \A t \in Txn : pc'[t] \in {"done", "idle"} /\ (pc'[t] = "idle" => pc[t] = "idle")
        /\ crashed' # crashed
    BY <1>3 DEF Restart, Running
  <2> QED BY <1>3, <2>1, SameTexts DEF Activates, Creating, Open
<1>4. ASSUME EditInv, UNCHANGED vars
      PROVE  EditInv'
  BY <1>4 DEF EditInv, BlockedTextReviewed, Creating, Editing, Knows, Live, Open
<1> QED BY <1>1, <1>2, <1>3, <1>4 DEF Next

(* A live room shows no blocked text but what a moderator let through, unless
   an edit that had read the room before the moderator decided was written
   afterwards. *)
THEOREM BlockedTextsAreReviewed == Spec => []BlockedTextReviewed
<1>1. EditInv => BlockedTextReviewed
  BY DEF EditInv
<1> QED BY <1>1, TypeInit, TypeStep, EditInit, EditStep, PTL DEF Spec

(* The status of the room changes by a moderator's decision, or to "checkout"
   by an edit of a room that was live when the edit read it. *)
THEOREM ModeratorsReopen == Spec => OnlyModeratorsReopen
<1> DEFINE Moves ==
      room # None /\ room' # None /\ room'.status # room.status =>
        \E t \in Txn :
          Decides(t) \/ (Sends(t) /\ room'.status = "checkout" /\ "live" \in held[t])
<1>1. TypeInv /\ HeldInv /\ EditInv /\ [Next]_vars => [Moves]_vars
  <2> SUFFICES ASSUME TypeInv, HeldInv, EditInv, Next, room # None, room' # None,
                      room'.status # room.status
               PROVE  \E t \in Txn :
                        Decides(t) \/ (Sends(t) /\ room'.status = "checkout" /\ "live" \in held[t])
    OBVIOUS
  <2>0. RoomsTypeOK /\ pc \in [Txn -> Labels] /\ room \in RoomRow /\ req' = req
    BY StagesStep DEF TypeInv, TypeOK, RoomsTypeOK
  <2>1. PICK t \in Txn : RoomsNext(t)
    BY <2>0, ChatFrame DEF Next, Restart
  <2>2. CASE WriteEdit(t)
    <3>1. /\ Flagged(req[t], seen[t]) /\ room'.status = "checkout"
          /\ pc[t] = "write" /\ req[t].op = "edit" /\ pc'[t] = "done"
      BY <2>0, <2>2 DEF WriteEdit, Edited, End, Goto, Open
    <3> QED BY <3>1 DEF Sends, Flagged, HeldInv, Checked
  <2>3. CASE Decide(t)
    BY <2>0, <2>3 DEF Decide, Decides, Goto
  <2>4. CASE InsertRoom(t)
    BY <2>0, <2>4, InsertRoomStep DEF Open
  <2>5. CASE WritePublicity(t) \/ DeleteRoom(t)
    BY <2>0, <2>5 DEF WritePublicity, DeleteRoom, RoomRow
  <2>6. CASE ~(WriteEdit(t) \/ Decide(t) \/ InsertRoom(t) \/ WritePublicity(t) \/ DeleteRoom(t))
    BY <2>1, <2>6 DEF RoomsNext, Read, Refuse, Begin, CheckCreator, CreateRefused, OwnRoom, Details,
       DetailsRefused, ReadStored, EditRefused, ReadDoor, DoorRefused, GrantAccess, DecideRefused,
       RewardOwner, Befall
  <2> QED BY <2>1, <2>2, <2>3, <2>4, <2>5, <2>6
<1> QED BY <1>1, TypeInit, TypeStep, HeldInit, HeldStep, EditInit, EditStep, PTL
        DEF Spec, OnlyModeratorsReopen
=============================================================================
