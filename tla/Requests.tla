------------------------------ MODULE Requests ------------------------------
(***************************************************************************)
(* Requests of users in flight at the database: each runs the statements   *)
(* of its handler one after the other, waits for the row locks they want,  *)
(* and what a transaction writes is seen at its COMMIT.  Module Shop and   *)
(* module Profile are the handlers.                                        *)
(***************************************************************************)
EXTENDS Till, RowLocks, Deadlocks

CONSTANT Crowds         \* bound: the requests that are sent together

Operation == {"buy", "use", "equip", "claim", "farm", "payDebt", "respect", "view",
              "layout", "feature", "discover", "quarantine", "deleteMessage"}
Usable == Curses \cup Boosts \cup {"spotlight", "debt_forgiveness"}

(* Who asks for what: the item, the user or slot it is for, and the widgets
   or medals picked. *)
Request == [op : Operation, by : User, item : Wearable, on : User \cup Slots \cup {Nothing},
            pick : Layouts \cup Showcases]
(* What the DTOs and the lookups in the catalogue let through. *)
Valid(r) ==
  /\ r.op = "buy" => r.item \in Goods
  /\ r.op = "use" => r.item \in Goods \cap Usable
  /\ r.op = "use" /\ r.item \in Curses => r.on \in User
  /\ r.op \in {"respect", "view"} => r.on \in User
  /\ r.op = "equip" => r.on \in Slots
  /\ r.op \in {"quarantine", "deleteMessage"} => r.by \in Admin
  /\ r.op = "layout" => r.pick \in Layouts
  /\ r.op = "feature" => r.pick \in Showcases
  /\ r.op = "discover" => \E key \in Medals : r.pick = {key}

ASSUME CrowdsAssumption ==
  Crowds \subseteq [Txn -> Request] /\ \A crowd \in Crowds, t \in Txn : Valid(crowd[t])

VARIABLES
  req,        \* the requests
  pc,         \* the statement a request is at
  seen        \* what its earlier statements have read or decided

requestVars == <<req, pc, seen, locks>>
vars == <<tillVars, requestVars>>

(* aura: the balance after the charge; at: the moment of the request, then of
   the charge; until: the end of the time bought so far; new: whether a row
   was inserted; keys: the medals to hand out. *)
Blank == [aura |-> 0, at |-> 0, until |-> 0, new |-> FALSE, keys |-> {}]
Seen == [aura : Int, at : Nat, until : Nat, new : BOOLEAN, keys : SUBSET Medals]

Labels == {"idle", "lock", "charge", "grant", "read", "consume", "apply", "announce", "claim",
           "update", "wear", "insert", "count", "evaluate", "unlock", "write", "moderate",
           "done"}

UserLock(u, mode) == Lock(<<"user", u>>, mode)
RoomLock(mode) == Lock(<<"room">>, mode)
(* Faulty: the decrement does not wait for another one. *)
ItemShared(u, i) == Lock(<<"item", u, i>>, "share")
ItemLock(u, i) == Lock(<<"item", u, i>>, "nokey")

(* A curse locks its target, what is done to a room locks the room, and a
   purchase and a claim lock the user's own row.  Faulty: two boosts of a room
   read its time at once, and a curse does not lock its target. *)
LockedFirstShared(r) ==
  IF r.op = "use" /\ r.item \in Boosts THEN RoomLock("share") ELSE UserLock(r.by, "update")
LockedFirst(r) ==
  CASE r.op = "use" /\ r.item \in Curses    -> UserLock(r.on, "update")
    [] r.op = "use" /\ r.item \notin Curses -> RoomLock("update")
    [] OTHER                                -> UserLock(r.by, "update")

(* The rows an item's effect updates or refers to. *)
AppliedTo(r) ==
  CASE r.item = "debt_forgiveness" -> {UserLock(r.by, "nokey")}
    [] r.item \in Curses           -> {UserLock(r.by, "share"), UserLock(r.on, "share")}
    [] OTHER                       -> {UserLock(r.by, "share")}

(* The row of a respect or of a view, and the users it refers to: who looks
   at a profile is a plain key. *)
Inserted(r, day) ==
  IF r.op = "respect"
  THEN {Lock(<<"respect", r.on, r.by>>, "update"), UserLock(r.on, "share"), UserLock(r.by, "share")}
  ELSE {Lock(<<"view", r.on, r.by, day>>, "update"), UserLock(r.on, "share")}

(* The counter of who is respected or looked at; faulty: his row is locked
   for update first. *)
CountedForUpdate(r) == UserLock(r.on, "update")
Counted(r) == UserLock(r.on, "nokey")

Subject(r) == IF r.op = "respect" THEN r.on ELSE r.by

(* The locks that the statement a request is at wants. *)
Wants(t) ==
  LET r == req[t] IN
  CASE pc[t] = "lock"                            -> {LockedFirst(r)}
    [] pc[t] \in {"charge", "claim", "update", "write"} -> {UserLock(r.by, "nokey")}
    [] pc[t] = "grant" /\ r.item # "mystery_soap" -> {ItemLock(r.by, r.item)}
    [] pc[t] = "consume"                         -> {ItemLock(r.by, r.item)}
    [] pc[t] = "apply"                           -> AppliedTo(r)
    [] pc[t] = "wear"                            -> {UserLock(r.by, "share")}
    [] pc[t] = "insert"                          -> Inserted(r, Day(seen[t].at))
    [] pc[t] = "count" /\ seen[t].new            -> {Counted(r)}
    [] pc[t] = "unlock"                          -> {UserLock(Subject(r), "share")}
    [] pc[t] = "moderate" /\ r.op = "quarantine" -> {RoomLock("nokey")}
    [] OTHER                                     -> {}

Goto(t, l) == pc' = [pc EXCEPT ![t] = l] /\ UNCHANGED req

(* A statement inside a transaction. *)
Step(t, l) == Take(t, Wants(t)) /\ Goto(t, l)
(* The statement before the COMMIT, or one that is a transaction of its own. *)
Commit(t, l) == Release(t, Wants(t)) /\ Goto(t, l)
Forget(t) == seen' = [seen EXCEPT ![t] = Blank]
(* The answer of the request. *)
Finish(t) == Commit(t, "done") /\ Forget(t)
(* An error: the transaction is rolled back, and nothing of it is ever seen. *)
Abort(t) ==
  /\ Goto(t, "done") /\ Forget(t)
  /\ locks' = {l \in locks : l.txn # t}
  /\ UNCHANGED tillVars

RequestsInit ==
  /\ req \in Crowds
  /\ pc = [t \in Txn |-> "idle"]
  /\ seen = [t \in Txn |-> Blank]
  /\ locks = {}

Start(r) ==
  CASE r.op \in {"buy", "claim"}                          -> "lock"
    [] r.op = "use" /\ r.item = "debt_forgiveness"        -> "consume"
    [] r.op = "use" /\ r.item = "spotlight"               -> "read"
    [] r.op = "use" /\ r.item \in Curses \cup Boosts      -> "lock"
    [] r.op \in {"equip", "layout", "feature"}            -> "read"
    [] r.op \in {"farm", "payDebt"}                       -> "update"
    [] r.op \in {"respect", "view"}                       -> "insert"
    [] r.op = "discover"                                  -> "unlock"
    [] r.op \in {"quarantine", "deleteMessage"}           -> "moderate"

(* A request arrives; discover hands out secret medals only. *)
Begin(t) ==
  /\ pc[t] = "idle"
  /\ Goto(t, Start(req[t]))
  /\ seen' = [seen EXCEPT ![t] =
       [Blank EXCEPT !.at = clock,
          !.keys = IF req[t].op = "discover" THEN req[t].pick \cap SecretMedals ELSE {}]]
  /\ UNCHANGED <<tillVars, locks>>

(* A statement of a transaction fails. *)
Fail(t) == (\E l \in locks : l.txn = t) /\ Abort(t)

(* PostgreSQL aborts a transaction that waits for itself. *)
WaitsFor(t) == UNION {Holders(t, w) : w \in Wants(t)}
Deadlocked(t) == OnCycle(t, [s \in Txn |-> WaitsFor(s)])
DetectDeadlock(t) == Deadlocked(t) /\ Abort(t)
=============================================================================
