-------------------------------- MODULE Chat --------------------------------
(***************************************************************************)
(* Messages in the room of module Rooms: sending one with its files        *)
(* (messages.service.ts, storage.service.ts), deleting one, listening to   *)
(* the room (messages.gateway.ts), and the restart of the process in the   *)
(* middle of it all.                                                       *)
(***************************************************************************)
EXTENDS Rooms

VARIABLES
  messages,       \* the rows of messages, with the number of their attachments
  objects,        \* the files in the bucket: the request, and which of its files
  written,        \* users.messagesCount
  channel,        \* the requests whose socket joined the room's channel
  heard,          \* history: which message was heard by which socket
  crashed,        \* bound: the process restarts at most once
  held,           \* history: the rules that held at some moment of a request
  committed,      \* history: the requests that wrote a message
  late,           \* history: those of them that failed afterwards
  leaked,         \* history: the files whose removal failed or never ran
  reviewed,       \* history: the texts when a moderator last made the room active
  stale,          \* history: the edits that had read the room before that
  overtaken       \* history: whether one of them has been written since

chatState == <<messages, objects, written, channel, heard>>
history == <<committed, late, leaked>>
review == <<reviewed, stale, overtaken>>
vars == <<roomVars, chatState, crashed, held, history, review>>

Message == [req : Txn, files : 0..5, deleted : BOOLEAN]
Files(t) == {t} \X (1..req[t].files)
Uploaded(t) == {f \in Files(t) : f \in objects}

Init ==
  /\ RoomsInit
  /\ messages = {} /\ objects = {} /\ channel = {} /\ heard = {}
  /\ written = [u \in User |-> Written]
  /\ crashed = FALSE
  /\ held = [t \in Txn |-> {}]
  /\ committed = {} /\ late = {} /\ leaked = {}
  /\ reviewed = IF Open THEN <<room.title, room.topic>> ELSE None
  /\ stale = {} /\ overtaken = FALSE

rowsOfRoom == <<room, accesses, medals>>

-----------------------------------------------------------------------------
(* sendMessage: the author and the room are read first. *)
ReadAuthor(t) ==
  /\ pc[t] = "user" /\ req[t].op = "send" /\ req[t].by \notin banned \cup muted
  /\ seen' = [seen EXCEPT ![t].solvent = req[t].by \notin indebted]
  /\ Read(t, "room")
  /\ UNCHANGED <<chatState, history>>

ReadRoom(t) ==
  /\ pc[t] = "room" /\ req[t].op = "send" /\ Open
  /\ seen' = [seen EXCEPT ![t].status = room.status]
  /\ Read(t, "access")
  /\ UNCHANGED <<chatState, history>>

(* assertCanAccess, of a message and of joinRoom: the room is read again, then
   the access row and the age. *)
ReadAccess(t) ==
  /\ pc[t] = "access" /\ Open
  /\ seen' = [seen EXCEPT ![t].secret = room.publicity = "private" /\ req[t].by # Owner,
                          ![t].nsfw = room.nsfw]
  /\ Read(t, "gate")
  /\ UNCHANGED <<chatState, history>>

CanAccess(t) ==
  /\ seen[t].secret => req[t].by \in accesses
  /\ seen[t].nsfw => req[t].by \in grown
(* Faulty: the room that was read is not looked at. *)
MaySendAnywhere(t) == CanAccess(t) /\ seen[t].solvent
MaySend(t) == CanAccess(t) /\ seen[t].solvent /\ seen[t].status \notin Shut

PassGate(t) ==
  /\ pc[t] = "gate"
  /\ \/ req[t].op = "send" /\ MaySend(t) /\ Read(t, "upload")
     \/ req[t].op = "joinRoom" /\ CanAccess(t) /\ Read(t, "join")
  /\ UNCHANGED <<seen, chatState, history>>

SendRefused(t) ==
  /\ \/ pc[t] = "user" /\ req[t].op = "send" /\ req[t].by \in banned \cup muted
     \/ pc[t] = "room" /\ req[t].op = "send" /\ ~Open
     \/ pc[t] = "access" /\ ~Open
     \/ pc[t] = "gate" /\ ~CanAccess(t)
     \/ pc[t] = "gate" /\ req[t].op = "send" /\ ~MaySend(t)
  /\ Refuse(t) /\ UNCHANGED <<chatState, history>>

JoinChannel(t) ==
  /\ pc[t] = "join"
  /\ channel' = channel \cup {t}
  /\ End(t)
  /\ UNCHANGED <<rowsOfRoom, messages, objects, written, heard, history>>

-----------------------------------------------------------------------------
(* The files are uploaded one after the other, and what fails before the
   COMMIT or after it is cleaned up after.  Faulty: it is not. *)
Uncleaned == "done"
OnFailure == "cleanup"

Upload(t) ==
  /\ pc[t] = "upload"
  /\ \E f \in Files(t) :
       /\ f \notin objects /\ f[2] = Cardinality(Uploaded(t)) + 1
       /\ objects' = objects \cup {f}
  /\ UNCHANGED <<rowsOfRoom, people, req, pc, seen, messages, written, channel, heard, history>>

(* assertAllowed rejects a file, the bucket fails, or a statement does. *)
UploadFails(t) ==
  /\ pc[t] = "upload" /\ Goto(t, OnFailure)
  /\ UNCHANGED <<rowsOfRoom, seen, chatState, history>>

(* The transaction of the message and its attachments; its room must exist. *)
SaveMessage(t) ==
  /\ pc[t] = "upload" /\ Files(t) \subseteq objects /\ Open
  /\ messages' = messages \cup {[req |-> t, files |-> req[t].files, deleted |-> FALSE]}
  /\ committed' = committed \cup {t}
  /\ Goto(t, "count")
  /\ UNCHANGED <<rowsOfRoom, seen, objects, written, channel, heard, late, leaked>>

(* incrementMessageCount and the medals of a message: what fails is logged. *)
CountMessage(t) ==
  LET u == req[t].by IN
  /\ pc[t] = "count"
  /\ \/ UNCHANGED <<written, medals>>
     \/ /\ written' = [written EXCEPT ![u] = @ + 1]
        /\ \E keys \in SUBSET EarnedByMessages(written[u] + 1) :
             medals' = medals \cup ({u} \X keys)
  /\ Goto(t, "dress")
  /\ UNCHANGED <<room, accesses, seen, messages, objects, channel, heard, history>>

(* The cosmetics and the effects of the author are read for the answer. *)
Dress(t) ==
  /\ pc[t] = "dress" /\ Goto(t, "broadcast")
  /\ UNCHANGED <<rowsOfRoom, seen, chatState, history>>

DressFails(t) ==
  /\ pc[t] = "dress" /\ Goto(t, OnFailure)
  /\ late' = late \cup {t}
  /\ UNCHANGED <<rowsOfRoom, seen, chatState, committed, leaked>>

(* removeUploadedFile of each; a file that cannot be removed is logged. *)
CleanUp(t) ==
  /\ pc[t] = "cleanup"
  /\ \E kept \in SUBSET Uploaded(t) :
       /\ objects' = objects \ (Uploaded(t) \ kept)
       /\ leaked' = leaked \cup kept
  /\ End(t)
  /\ UNCHANGED <<rowsOfRoom, messages, written, channel, heard, committed, late>>

Broadcast(t) ==
  /\ pc[t] = "broadcast"
  /\ heard' = heard \cup ({t} \X channel)
  /\ End(t)
  /\ UNCHANGED <<rowsOfRoom, messages, objects, written, channel, history>>

(* deleteMessage: the attachments' rows go, a tombstone stays, the files stay
   in the bucket. *)
DeleteMessage(t) ==
  /\ pc[t] = "decide" /\ req[t].op = "deleteMessage"
  /\ \/ messages = {} /\ UNCHANGED messages
     \/ \E m \in messages :
          messages' = (messages \ {m}) \cup {[m EXCEPT !.files = 0, !.deleted = TRUE]}
  /\ End(t)
  /\ UNCHANGED <<rowsOfRoom, objects, written, channel, heard, history>>

ChatNext(t) ==
  \/ ReadAuthor(t) \/ ReadRoom(t) \/ ReadAccess(t) \/ PassGate(t) \/ SendRefused(t)
  \/ JoinChannel(t)
  \/ Upload(t) \/ UploadFails(t) \/ SaveMessage(t) \/ CountMessage(t)
  \/ Dress(t) \/ DressFails(t) \/ CleanUp(t) \/ Broadcast(t) \/ DeleteMessage(t)

(* The process is restarted: no request goes on, and no socket is left. *)
Restart ==
  /\ ~crashed /\ crashed' = TRUE
  /\ \E t \in Txn : Running(t)
  /\ pc' = [t \in Txn |-> IF Running(t) THEN "done" ELSE pc[t]]
  /\ seen' = [t \in Txn |-> Blank]
  /\ channel' = {}
  /\ leaked' = leaked \cup UNION {Uploaded(t) : t \in {s \in Txn \ committed : Running(s)}}
  /\ UNCHANGED <<rowsOfRoom, people, req, messages, objects, written, heard, committed, late>>

-----------------------------------------------------------------------------
(* What belongs to the room goes with its row.  Faulty: it does not. *)
Uncascaded(rows) == rows
Cascaded(rows) == IF room' = None THEN {} ELSE rows

(* The rules that requests are to obey, as far as they hold in a state. *)
Holding(t) ==
  LET r == req[t] IN
  When(r.by \notin banned \cup muted, "unbarred") \cup When(r.by \notin indebted, "solvent")
    \cup When(Open /\ room.status \notin Shut, "open")
    \cup When(Open /\ room.status = "active", "live")
    \cup When(Open /\ (room.publicity = "public" \/ r.by \in accesses \cup {Owner}), "access")
    \cup When((Open /\ ~room.nsfw) \/ r.by \in grown, "grown")
    \cup When(Open /\ room.publicity = "private" /\ room.password = r.password, "password")

Remember ==
  held' = [t \in Txn |-> IF pc'[t] = "idle" THEN {} ELSE held[t] \cup Holding(t)']

Activates(t) ==
  /\ pc[t] = "decide" /\ req[t].op \in Decisions /\ Decided(req[t]) = "active"
  /\ Open /\ pc'[t] # "decide" /\ crashed' = crashed
Review ==
  \/ /\ \E t \in Txn : Activates(t)
     /\ reviewed' = <<room.title, room.topic>>
     /\ stale' = {t \in Txn : req[t].op = "edit" /\ pc[t] = "write"}
     /\ overtaken' = FALSE
  \/ /\ \A t \in Txn : ~Activates(t)
     /\ reviewed' = reviewed
     /\ stale' = {t \in stale : pc'[t] = "write"}
     /\ overtaken' = (overtaken \/ (room' # room /\ stale' # stale))

Next ==
  /\ \/ /\ UNCHANGED crashed
        /\ \E t \in Txn :
             \/ /\ RoomsNext(t)
                /\ messages' = Cascaded(messages)
                /\ UNCHANGED <<objects, written, channel, heard, history>>
             \/ ChatNext(t)
     \/ Restart
  /\ Remember /\ Review

Spec == Init /\ [][Next]_vars

-----------------------------------------------------------------------------
TypeOK ==
  /\ RoomsTypeOK
  /\ messages \subseteq Message
  /\ objects \subseteq Txn \X (1..5)
  /\ written \in [User -> Nat]
  /\ channel \subseteq Txn /\ heard \subseteq Txn \X Txn
  /\ committed \subseteq Txn /\ late \subseteq committed
  /\ overtaken \in BOOLEAN
  /\ ~Open => accesses = {} /\ messages = {}

(* A message is in the room, a socket hears it, and a user has access, only
   if each rule held at some moment of the request that brought it about: the
   handlers check them one by one, and rows change in between, but no rule is
   skipped and none is taken from before the request. *)
ToSend  == {"unbarred", "solvent", "open", "access", "grown"}
ToListen == {"access", "grown"}
EveryRuleHeld ==
  /\ \A m \in messages : ToSend \subseteq held[m.req]
  /\ \A t \in channel : ToListen \subseteq held[t]
  /\ \A h \in heard : ToSend \subseteq held[h[1]] /\ ToListen \subseteq held[h[2]]
  /\ \A u \in accesses \ {Owner} :
       \E t \in Txn : req[t].op = "enter" /\ req[t].by = u /\ "password" \in held[t]

(* The owner's edit never reopens what moderators have shut: the status of
   the room changes by a moderator's decision, or it becomes "checkout" by an
   edit during which the room was live.  (An edit that read the room before
   a quarantine does replace the quarantine by the review.) *)
Decides(t) == pc[t] = "decide" /\ req[t].op \in Decisions /\ pc'[t] # "decide"
Sends(t) == pc[t] = "write" /\ req[t].op = "edit" /\ pc'[t] = "done"
OnlyModeratorsReopen ==
  [][room # None /\ room' # None /\ room'.status # room.status =>
       \E t \in Txn :
         Decides(t) \/ (Sends(t) /\ room'.status = "checkout" /\ "live" \in held[t])]_vars

(* A room that is live shows no blocked text that no moderator let through:
   it shows what it showed when one last made it active, unless an edit that
   had read the room before that moment was written after it. *)
BlockedTextReviewed ==
  Open /\ room.status = "active" /\ Verdict(room.title, room.topic) = "blocked" =>
    overtaken \/ reviewed = <<room.title, room.topic>>

(* The files in the bucket are those of the messages: a message shows no file
   that is gone, unless its request failed after the COMMIT; and no file is
   left of a request that wrote no message, unless its removal failed or the
   process was restarted first. *)
FilesMatchMessages ==
  /\ \A m \in messages : m.req \notin late => {m.req} \X (1..m.files) \subseteq objects
  /\ \A f \in objects : Running(f[1]) \/ f[1] \in committed \/ f \in leaked
=============================================================================
