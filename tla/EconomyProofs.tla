--------------------------- MODULE EconomyProofs ---------------------------
(***************************************************************************)
(* Proofs about Economy for any number of users and requests: the locks    *)
(* that the handlers take are enough for their statements to amount to the *)
(* operations of Till, and what Till keeps holds of the code's rows.       *)
(***************************************************************************)
EXTENDS Economy, TillProofs

USE DEF tillVars, goods, social, requestVars, vars, shopHistory, economyVars

(* A step of the handler of one request. *)
RequestNext(t) ==
  Begin(t) \/ Fail(t) \/ DetectDeadlock(t) \/ Moderate(t) \/ ShopNext(t) \/ ProfileNext(t)

Holds(t, w) == [txn |-> t, row |-> w.row, mode |-> w.mode] \in locks

LEMMA RequestsAreValid ==
  ASSUME req \in Crowds, NEW t \in Txn
  PROVE  req[t] \in Request /\ Valid(req[t])
  BY CrowdsAssumption

LEMMA StartType ==
  ASSUME NEW r \in Request, Valid(r)
  PROVE  Start(r) \in Labels
  BY DEF Start, Labels, Request, Operation, Valid, Usable

LEMMA BlankType == Blank \in Seen
  BY DEF Blank, Seen

-----------------------------------------------------------------------------
(* The locks: who takes one waits for those it conflicts with, and leaves  *)
(* those of the others alone.                                              *)
OthersKeep(t) == \A l : l.txn # t => (l \in locks' <=> l \in locks)
LocksOK == Exclusive /\ \A l \in locks : l.txn \in Txn

LEMMA TakeKeeps ==
  ASSUME LocksOK, NEW t \in Txn, NEW ws, Take(t, ws)
  PROVE  LocksOK' /\ OthersKeep(t) /\ \A w \in ws : Holds(t, w)'
<1>1. \A l \in locks' : l \in locks \/ \E w \in ws : l = [txn |-> t, row |-> w.row, mode |-> w.mode]
  BY DEF Take
<1>2. ASSUME NEW l \in locks', NEW k \in locks', l.txn # k.txn, l.row = k.row
      PROVE  ~Conflicts(l.mode, k.mode)
  <2>1. CASE l \in locks /\ k \in locks
    BY <1>2, <2>1 DEF LocksOK, Exclusive
  <2>2. ASSUME NEW w \in ws, l = [txn |-> t, row |-> w.row, mode |-> w.mode], k \in locks
        PROVE  ~Conflicts(l.mode, k.mode)
    <3>1. Holders(t, w) = {} /\ k.txn \in Txn \ {t} /\ k.row = w.row /\ l.mode = w.mode
      BY <1>2, <2>2 DEF Take, LocksOK
    <3>2. ~Conflicts(k.mode, w.mode)
      BY <2>2, <3>1 DEF Holders
    <3> QED BY <3>1, <3>2 DEF Conflicts
  <2>3. ASSUME NEW w \in ws, k = [txn |-> t, row |-> w.row, mode |-> w.mode], l \in locks
        PROVE  ~Conflicts(l.mode, k.mode)
    <3>1. Holders(t, w) = {} /\ l.txn \in Txn \ {t} /\ l.row = w.row /\ k.mode = w.mode
      BY <1>2, <2>3 DEF Take, LocksOK
    <3> QED BY <2>3, <3>1 DEF Holders
  <2> QED BY <1>1, <1>2, <2>1, <2>2, <2>3
<1>3. \A l \in locks' : l.txn \in Txn
  BY <1>1 DEF LocksOK
<1>4. OthersKeep(t)
  BY DEF Take, OthersKeep
<1>5. \A w \in ws : Holds(t, w)'
  BY DEF Take, Holds
<1> QED BY <1>2, <1>3, <1>4, <1>5 DEF LocksOK, Exclusive

LEMMA DropKeeps ==
  ASSUME LocksOK, NEW t \in Txn, locks' = {l \in locks : l.txn # t}
  PROVE  LocksOK' /\ OthersKeep(t)
  BY DEF LocksOK, Exclusive, OthersKeep

LEMMA SameKeeps ==
  ASSUME LocksOK, NEW t \in Txn, locks' = locks
  PROVE  LocksOK' /\ OthersKeep(t)
  BY DEF LocksOK, Exclusive, OthersKeep

LEMMA OthersHold ==
  ASSUME NEW t \in Txn, OthersKeep(t), NEW s \in Txn \ {t}, NEW w, Holds(s, w)
  PROVE  Holds(s, w)'
  BY DEF OthersKeep, Holds

(* Two requests do not hold conflicting locks, and none gets what another  *)
(* one's lock conflicts with.                                              *)
LEMMA HeldApart ==
  ASSUME LocksOK, NEW t, NEW s, NEW w, NEW v, Holds(t, w), Holds(s, v), s # t, w.row = v.row
  PROVE  ~Conflicts(w.mode, v.mode)
<1>1. [txn |-> t, row |-> w.row, mode |-> w.mode] \in locks
      /\ [txn |-> s, row |-> v.row, mode |-> v.mode] \in locks
  BY DEF Holds
<1> QED BY <1>1 DEF LocksOK, Exclusive

LEMMA HeldBlocks ==
  ASSUME NEW t \in Txn, NEW s \in Txn \ {t}, NEW w, NEW v, Holders(t, w) = {}, Holds(s, v),
         v.row = w.row
  PROVE  ~Conflicts(v.mode, w.mode)
  BY DEF Holds, Holders

-----------------------------------------------------------------------------
(* One step of a request: the others stay where they are.                  *)
RequestsOK ==
  /\ req \in Crowds
  /\ pc \in [Txn -> Labels]
  /\ seen \in [Txn -> Seen]
  /\ LocksOK

Frame(t) ==
  /\ req' = req
  /\ \A s \in Txn \ {t} : pc'[s] = pc[s] /\ seen'[s] = seen[s]
  /\ OthersKeep(t)

LEMMA GotoKeeps ==
  ASSUME RequestsOK, NEW t \in Txn, NEW l \in Labels, Goto(t, l)
  PROVE  /\ req' = req /\ req' \in Crowds /\ pc' \in [Txn -> Labels] /\ pc'[t] = l
         /\ \A s \in Txn \ {t} : pc'[s] = pc[s]
  BY DEF RequestsOK, Goto

LEMMA SeenKeeps ==
  ASSUME RequestsOK, NEW t \in Txn, NEW x \in Seen, seen' = [seen EXCEPT ![t] = x]
  PROVE  seen' \in [Txn -> Seen] /\ seen'[t] = x /\ \A s \in Txn \ {t} : seen'[s] = seen[s]
  BY DEF RequestsOK

LEMMA AbortKeeps ==
  ASSUME RequestsOK, NEW t \in Txn, Abort(t)
  PROVE  /\ RequestsOK' /\ Frame(t) /\ pc'[t] = "done" /\ UNCHANGED tillVars
<1>1. "done" \in Labels
  BY DEF Labels
<1>2. LocksOK' /\ OthersKeep(t)
  BY DropKeeps DEF RequestsOK, Abort
<1>3. Goto(t, "done") /\ seen' = [seen EXCEPT ![t] = Blank]
  BY DEF Abort, Forget
<1>4. req' = req /\ pc' \in [Txn -> Labels] /\ pc'[t] = "done"
      /\ \A s \in Txn \ {t} : pc'[s] = pc[s]
  BY <1>1, <1>3, GotoKeeps
<1>5. seen' \in [Txn -> Seen] /\ \A s \in Txn \ {t} : seen'[s] = seen[s]
  BY <1>3, BlankType, SeenKeeps
<1> QED BY <1>2, <1>4, <1>5 DEF RequestsOK, Frame, Abort

LEMMA StepKeeps ==
  ASSUME RequestsOK, NEW t \in Txn, NEW l \in Labels, Step(t, l),
         NEW x \in Seen, seen' = [seen EXCEPT ![t] = x]
  PROVE  /\ RequestsOK' /\ Frame(t) /\ pc'[t] = l /\ seen'[t] = x
         /\ \A w \in Wants(t) : Holders(t, w) = {} /\ Holds(t, w)'
         /\ \A w : Holds(t, w) => Holds(t, w)'
<1>1. LocksOK' /\ OthersKeep(t) /\ \A w \in Wants(t) : Holds(t, w)'
  BY TakeKeeps DEF RequestsOK, Step
<1>2. Goto(t, l)
  BY DEF Step
<1>3. req' = req /\ pc' \in [Txn -> Labels] /\ pc'[t] = l /\ \A s \in Txn \ {t} : pc'[s] = pc[s]
  BY <1>2, GotoKeeps
<1>4. seen' \in [Txn -> Seen] /\ seen'[t] = x /\ \A s \in Txn \ {t} : seen'[s] = seen[s]
  BY SeenKeeps
<1>5. \A w \in Wants(t) : Holders(t, w) = {}
  BY DEF Step, Take
<1>6. \A w : Holds(t, w) => Holds(t, w)'
  BY DEF Step, Take, Holds
<1> QED BY <1>1, <1>3, <1>4, <1>5, <1>6 DEF RequestsOK, Frame

LEMMA CommitKeeps ==
  ASSUME RequestsOK, NEW t \in Txn, NEW l \in Labels, Commit(t, l),
         NEW x \in Seen, seen' = [seen EXCEPT ![t] = x]
  PROVE  /\ RequestsOK' /\ Frame(t) /\ pc'[t] = l /\ seen'[t] = x
         /\ \A w \in Wants(t) : Holders(t, w) = {}
<1>1. LocksOK' /\ OthersKeep(t)
  BY DropKeeps DEF RequestsOK, Commit, Release
<1>2. Goto(t, l)
  BY DEF Commit
<1>3. req' = req /\ pc' \in [Txn -> Labels] /\ pc'[t] = l /\ \A s \in Txn \ {t} : pc'[s] = pc[s]
  BY <1>2, GotoKeeps
<1>4. seen' \in [Txn -> Seen] /\ seen'[t] = x /\ \A s \in Txn \ {t} : seen'[s] = seen[s]
  BY SeenKeeps
<1>5. \A w \in Wants(t) : Holders(t, w) = {}
  BY DEF Commit, Release
<1> QED BY <1>1, <1>3, <1>4, <1>5 DEF RequestsOK, Frame

LEMMA FinishKeeps ==
  ASSUME RequestsOK, NEW t \in Txn, Finish(t)
  PROVE  /\ RequestsOK' /\ Frame(t) /\ pc'[t] = "done"
         /\ \A w \in Wants(t) : Holders(t, w) = {}
<1>1. Commit(t, "done") /\ seen' = [seen EXCEPT ![t] = Blank] /\ "done" \in Labels
  BY DEF Finish, Forget, Labels
<1> QED BY <1>1, BlankType, CommitKeeps

(* The seen record of a statement that leaves it alone. *)
LEMMA SeenSame ==
  ASSUME RequestsOK, NEW t \in Txn, seen' = seen
  PROVE  seen[t] \in Seen /\ seen' = [seen EXCEPT ![t] = seen[t]]
  BY DEF RequestsOK

-----------------------------------------------------------------------------
(* What a request relies on at the statement it is at: the operation it is *)
(* of, the locks it holds, and that what it has read still holds.          *)
Under == Boosts \cup {"spotlight"}

Began(t) == pc[t] \notin {"idle", "done"} => seen[t].at \in Instants /\ seen[t].at <= clock

Stage(t) ==
  LET r == req[t] IN
  /\ pc[t] = "lock" => r.op \in {"buy", "claim", "use"}
  /\ pc[t] \in {"charge", "grant"} => r.op = "buy"
  /\ pc[t] = "claim" => r.op = "claim"
  /\ pc[t] = "read" => r.op \in {"use", "equip", "layout", "feature"}
  /\ pc[t] \in {"consume", "apply"} => r.op = "use" /\ (r.item \in Curses => r.on # r.by)
  /\ pc[t] \in {"lock", "consume", "apply"} /\ r.item = "spotlight" /\ r.op = "use" =>
       r.by = Creator
  /\ pc[t] = "announce" => r.op = "use" /\ r.item \in Under
  /\ pc[t] = "wear" => r.op = "equip"
  /\ pc[t] \in {"insert", "count"} => r.op \in {"respect", "view"}
  /\ pc[t] = "count" => r.on # r.by
  /\ pc[t] = "evaluate" => r.op \in {"farm", "payDebt", "respect"}
  /\ pc[t] = "unlock" => r.op \in {"farm", "payDebt", "respect", "discover"}
  /\ pc[t] = "write" => r.op \in {"layout", "feature"}

RowOf(t) == Lock(IF req[t].op = "respect" THEN <<"respect", req[t].on, req[t].by>>
                 ELSE <<"view", req[t].on, req[t].by, Day(seen[t].at)>>, "update")

Locked(t) ==
  LET r == req[t] IN
  /\ pc[t] \in {"charge", "grant"} => Holds(t, UserLock(r.by, "update"))
  /\ pc[t] \in {"consume", "apply"} /\ r.item \in Curses => Holds(t, UserLock(r.on, "update"))
  /\ pc[t] \in {"consume", "apply"} /\ r.item \in Under => Holds(t, RoomLock("update"))
  /\ pc[t] = "apply" => Holds(t, ItemLock(r.by, r.item))
  /\ pc[t] = "count" => Holds(t, RowOf(t))

Fresh(t) ==
  LET r == req[t] IN
  /\ pc[t] = "grant" => /\ CanBuy(r.by, r.item)
                        /\ seen[t].aura = users[r.by].aura - Price(r.item)
  /\ pc[t] \in {"consume", "apply"} /\ r.item \in Boosts => seen[t].until = room[r.item]
  /\ pc[t] = "apply" => Owns(r.by, r.item) /\ ~UseRefused(r)
  /\ pc[t] = "wear" => r.item = Nothing \/ CanWear(r.by, r.on, r.item)
  /\ pc[t] = "count" => /\ seen[t].new => IsNew(r, Day(seen[t].at))
                        /\ IsNew(r, Day(seen[t].at)) => seen[t].new
  /\ pc[t] = "write" => MayPick(r)

At(t) == Began(t) /\ Stage(t) /\ Locked(t) /\ Fresh(t)

EconomyInv == TillInv /\ RequestsOK /\ \A t \in Txn : At(t)

(* What a step of a request comes to. *)
Moves(t) == RequestsOK' /\ Frame(t) /\ At(t)' /\ [TillNext]_tillVars /\ clock' = clock

LEMMA DoneIsFine ==
  ASSUME NEW t \in Txn, pc'[t] = "done"
  PROVE  At(t)'
  BY DEF At, Began, Stage, Locked, Fresh

LEMMA AbortsMove ==
  ASSUME EconomyInv, NEW t \in Txn, Abort(t)
  PROVE  Moves(t)
<1>1. RequestsOK' /\ Frame(t) /\ pc'[t] = "done" /\ UNCHANGED tillVars
  BY AbortKeeps DEF EconomyInv
<1> QED BY <1>1, DoneIsFine DEF Moves

LEMMA FinishMoves ==
  ASSUME EconomyInv, NEW t \in Txn, Finish(t), [TillNext]_tillVars, clock' = clock
  PROVE  Moves(t)
  BY FinishKeeps, DoneIsFine DEF EconomyInv, Moves

(* What the steps of a request know of it. *)
LEMMA Known ==
  ASSUME EconomyInv, NEW t \in Txn
  PROVE  /\ req[t] \in Request /\ Valid(req[t]) /\ req[t].by \in User /\ req[t].item \in Wearable
         /\ req[t].op = "use" => req[t].item \in Goods /\ req[t].item \in Usable
         /\ req[t].op = "buy" => req[t].item \in Goods
         /\ seen[t] \in Seen /\ pc[t] \in Labels /\ At(t) /\ RequestsOK /\ TillTypeOK
         /\ clock \in Instants /\ clock \in Nat /\ Day(clock) \in Nat
  BY RequestsAreValid, GoodsType, DayType
  DEF EconomyInv, RequestsOK, Request, Valid, TillInv, TillTypeOK

LEMMA DayGrows ==
  ASSUME NEW s \in Instants, NEW t \in Instants, s <= t
  PROVE  Day(s) \in 0..Day(t)
  BY GoodsType DEF Day, Minutes

-----------------------------------------------------------------------------
(* The statements, one after the other.                                    *)
LEMMA BeginMoves ==
  ASSUME EconomyInv, NEW t \in Txn, Begin(t)
  PROVE  Moves(t)
<1> DEFINE x == [Blank EXCEPT !.at = clock,
                   !.keys = IF req[t].op = "discover" THEN req[t].pick \cap SecretMedals ELSE {}]
<1>1. x \in Seen /\ x.at = clock
  <2> DEFINE k == IF req[t].op = "discover" THEN req[t].pick \cap SecretMedals ELSE {}
  <2>1. k \in SUBSET Medals /\ clock \in Nat
    BY Known DEF Medals
  <2> HIDE DEF k
  <2> DEFINE b == [Blank EXCEPT !.at = clock]
  <2>2. b \in Seen /\ b.at = clock
    BY <2>1, BlankType DEF Seen
  <2>3. x = [b EXCEPT !.keys = k]
    BY <2>2 DEF Blank, k
  <2> HIDE DEF b, x
  <2> QED BY <2>1, <2>2, <2>3 DEF Seen
<1>2. seen' = [seen EXCEPT ![t] = x] /\ Goto(t, Start(req[t])) /\ UNCHANGED <<tillVars, locks>>
  BY DEF Begin
<1>3. Start(req[t]) \in Labels
  BY Known, StartType
<1> HIDE DEF x
<1>4. /\ req' = req /\ req' \in Crowds /\ pc' \in [Txn -> Labels] /\ pc'[t] = Start(req[t])
      /\ \A s \in Txn \ {t} : pc'[s] = pc[s]
  BY <1>2, <1>3, Known, GotoKeeps
<1>5. seen' \in [Txn -> Seen] /\ seen'[t] = x /\ \A s \in Txn \ {t} : seen'[s] = seen[s]
  BY <1>1, <1>2, Known, SeenKeeps
<1>6. LocksOK' /\ OthersKeep(t)
  BY <1>2, SameKeeps DEF EconomyInv, RequestsOK
<1>7. Began(t)'
  BY <1>1, <1>2, <1>5, Known, GoodsType DEF Began
<1>8. Stage(t)' /\ Locked(t)' /\ Fresh(t)'
  BY <1>4, Known DEF Stage, Locked, Fresh, Start, Request, Operation, Valid, Usable, Curses,
     Boosts, Under
<1> QED BY <1>2, <1>4, <1>5, <1>6, <1>7, <1>8 DEF Moves, RequestsOK, Frame, At

LEMMA LockRowMoves ==
  ASSUME EconomyInv, NEW t \in Txn, LockRow(t)
  PROVE  Moves(t)
<1> DEFINE l == CASE req[t].op = "buy" -> "charge" [] req[t].op = "claim" -> "claim"
                  [] OTHER -> "consume"
           n == IF req[t].op = "use" /\ req[t].item \in Boosts THEN room[req[t].item] ELSE 0
           x == [seen[t] EXCEPT !.until = n]
<1>1. n \in Nat /\ l \in Labels
  BY Known DEF TillTypeOK, RoomRow, Boosts, Labels
<1>2. x \in Seen /\ x.at = seen[t].at /\ x.until = n
  BY <1>1, Known DEF Seen
<1>3. seen' = [seen EXCEPT ![t] = x] /\ Step(t, l) /\ UNCHANGED tillVars
  BY Known DEF LockRow, RequestsOK
<1>4. pc[t] = "lock" /\ req[t].op \in {"buy", "claim", "use"}
      /\ ~(req[t].op = "use" /\ req[t].on = req[t].by) /\ Began(t)
  BY Known DEF LockRow, At, Stage
<1>5. Wants(t) = {LockedFirst(req[t])}
  BY <1>4 DEF Wants
<1>6. l = "charge" \/ l = "claim" \/ (l = "consume" /\ req[t].op = "use")
  BY <1>4
<1>7. l = "charge" => req[t].op = "buy"
  BY <1>4
<1>8. l = "claim" => req[t].op = "claim"
  BY <1>4
<1>9. req[t].op = "use" /\ req[t].item \in Boosts => x.until = room[req[t].item]
  BY <1>2
<1> HIDE DEF l, x, n
<1>10. RequestsOK' /\ Frame(t) /\ pc'[t] = l /\ seen'[t] = x
       /\ \A w \in Wants(t) : Holders(t, w) = {} /\ Holds(t, w)'
  BY <1>1, <1>2, <1>3, Known, StepKeeps
<1>11. req' = req
  BY <1>10 DEF Frame
<1>12. Began(t)'
  BY <1>2, <1>3, <1>4, <1>10 DEF Began
<1>a. req[t].item = "spotlight" /\ req[t].op = "use" => req[t].by = Creator
  BY <1>4, Known DEF At, Stage
<1>13. Stage(t)'
  BY <1>4, <1>6, <1>7, <1>8, <1>10, <1>11, <1>a DEF Stage
<1> DEFINE w == LockedFirst(req[t])
<1>14. [txn |-> t, row |-> w.row, mode |-> w.mode] \in locks'
  BY <1>5, <1>10 DEF Holds
<1>15. Locked(t)'
  <2>1. CASE l = "charge"
    <3>1. req[t].op = "buy"
      BY <1>7, <2>1
    <3>2. w = UserLock(req[t].by, "update")
      BY <3>1 DEF LockedFirst
    <3> HIDE DEF w
    <3> QED BY <1>10, <1>11, <1>14, <2>1, <3>2 DEF Locked, Holds
  <2>2. CASE l = "claim"
    BY <1>10, <2>2 DEF Locked
  <2>3. CASE l = "consume" /\ req[t].op = "use"
    <3>1. req[t].item \in Curses => w = UserLock(req[t].on, "update")
      BY <2>3 DEF LockedFirst
    <3>2. req[t].item \in Under => req[t].item \notin Curses
      BY DEF Under, Curses, Boosts
    <3>3. req[t].item \in Under => w = RoomLock("update")
      BY <2>3, <3>2 DEF LockedFirst
    <3> HIDE DEF w
    <3> QED BY <1>10, <1>11, <1>14, <2>3, <3>1, <3>3 DEF Locked, Holds
  <2> QED BY <1>6, <2>1, <2>2, <2>3
<1>16. Fresh(t)'
  BY <1>3, <1>6, <1>9, <1>10, <1>11 DEF Fresh
<1> QED BY <1>3, <1>10, <1>12, <1>13, <1>15, <1>16 DEF Moves, At

LEMMA ChargeMoves ==
  ASSUME EconomyInv, NEW t \in Txn, Charge(t)
  PROVE  Moves(t)
<1> DEFINE a == users[req[t].by].aura - Price(req[t].item)
           b == [seen[t] EXCEPT !.aura = a]
           x == [b EXCEPT !.at = clock]
<1>1. pc[t] = "charge" /\ req[t].op = "buy" /\ CanBuy(req[t].by, req[t].item)
      /\ Holds(t, UserLock(req[t].by, "update"))
  BY Known DEF Charge, CannotBuy, At, Stage, Locked
<1>2. a \in Int
  BY <1>1, Known, GoodsType, PriceIsNat DEF TillTypeOK, UserRow
<1>3. seen' = [seen EXCEPT ![t] = x] /\ Step(t, "grant") /\ UNCHANGED tillVars
  BY Known DEF Charge, RequestsOK
<1> HIDE DEF a
<1>4. b \in Seen /\ b.aura = a
  BY <1>2, Known DEF Seen
<1> HIDE DEF b
<1>5. x \in Seen /\ x.at = clock /\ x.aura = a
  BY <1>4, Known DEF Seen
<1> HIDE DEF x
<1>6. RequestsOK' /\ Frame(t) /\ pc'[t] = "grant" /\ seen'[t] = x
      /\ \A w : Holds(t, w) => Holds(t, w)'
  BY <1>3, <1>5, Known, StepKeeps DEF Labels
<1>7. req' = req /\ clock' = clock /\ users' = users
  BY <1>3, <1>6 DEF Frame
<1>8. Began(t)' /\ Stage(t)' /\ Locked(t)'
  BY <1>1, <1>5, <1>6, <1>7, Known DEF Began, Stage, Locked
<1>9. CanBuy(req[t].by, req[t].item)'
  BY <1>1, <1>3, <1>7 DEF CanBuy, Owns
<1>10. Fresh(t)'
  BY <1>5, <1>6, <1>7, <1>9 DEF Fresh, a
<1> QED BY <1>3, <1>6, <1>8, <1>10 DEF Moves, At

LEMMA GrantMoves ==
  ASSUME EconomyInv, NEW t \in Txn, Grant(t)
  PROVE  Moves(t)
<1> DEFINE u == req[t].by
           i == req[t].item
<1>1. pc[t] = "grant" /\ req[t].op = "buy" /\ i # "mystery_soap" /\ u \in User /\ i \in Goods
      /\ CanBuy(u, i) /\ seen[t].aura = users[u].aura - Price(i)
      /\ seen[t].at \in Instants /\ seen[t].at <= clock
  BY Known DEF Grant, At, Stage, Began, Fresh
<1>2. Day(seen[t].at) \in 0..Day(clock)
  BY <1>1, Known, DayGrows
<1>3. Buy(u, i)
  BY <1>1, <1>2 DEF Grant, Buy
<1>4. Finish(t) /\ clock' = clock
  BY DEF Grant
<1> QED BY <1>1, <1>3, <1>4, FinishMoves DEF TillNext

LEMMA SoapMoves ==
  ASSUME EconomyInv, NEW t \in Txn, OpenMysterySoap(t)
  PROVE  Moves(t)
<1> DEFINE u == req[t].by
           paid == users[u].aura - Price("mystery_soap")
<1>1. pc[t] = "grant" /\ req[t].op = "buy" /\ req[t].item = "mystery_soap" /\ u \in User
      /\ "mystery_soap" \in Goods
      /\ CanBuy(u, "mystery_soap") /\ seen[t].aura = paid
      /\ seen[t].at \in Instants /\ seen[t].at <= clock
  BY Known DEF OpenMysterySoap, At, Stage, Began, Fresh
<1>2. Day(seen[t].at) \in 0..Day(clock)
  BY <1>1, Known, DayGrows
<1>3. PICK i \in Rolls :
        /\ users' = WithAura(u, paid + SoapRefund(u, i))
        /\ chart' = IF Owns(u, i)
                    THEN Recorded(Recorded(chart, u, Day(seen[t].at), paid), u, Day(clock),
                                  paid + SoapRefund(u, i))
                    ELSE Recorded(chart, u, Day(seen[t].at), paid)
        /\ inventory' = IF Owns(u, i) THEN inventory ELSE Granted(u, i)
        /\ purchases' = Bought(u, "mystery_soap")
        /\ Finish(t)
        /\ UNCHANGED <<equipped, effects, room, posts, social, clock, shopHistory>>
  BY <1>1 DEF OpenMysterySoap
<1>4. i \in SoapPool \cap Goods /\ i \in Permanents
  BY RollsAssumption, SoapHoldsPermanents
<1>5. paid \in Int
  BY <1>1, Known, RefundIsNat, PriceIsNat DEF TillTypeOK, UserRow
<1>6. OpenSoap(u)
  <2> HIDE DEF paid
  <2>1. CASE Owns(u, i)
    <3>1. SoapRefund(u, i) = Refund
      BY <1>4, <2>1 DEF SoapRefund, Permanent
    <3> QED BY <1>1, <1>2, <1>3, <1>4, <2>1, <3>1 DEF OpenSoap, paid
  <2>2. CASE ~Owns(u, i)
    <3>1. SoapRefund(u, i) = 0
      BY <2>2 DEF SoapRefund
    <3>2. paid + SoapRefund(u, i) = paid
      BY <1>5, <3>1
    <3> QED BY <1>1, <1>2, <1>3, <1>4, <2>2, <3>2 DEF OpenSoap, paid
  <2> QED BY <2>1, <2>2
<1> QED BY <1>1, <1>3, <1>6, FinishMoves DEF TillNext

LEMMA RefusalsMove ==
  ASSUME EconomyInv, NEW t \in Txn,
         \/ Fail(t) \/ DetectDeadlock(t) \/ ChargeRefused(t) \/ RefuseUse(t) \/ WearRefused(t)
         \/ InsertRefused(t) \/ PickRefused(t)
  PROVE  Moves(t)
  BY AbortsMove DEF Fail, DetectDeadlock, ChargeRefused, RefuseUse, WearRefused, InsertRefused,
     PickRefused

LEMMA PlainStep ==
  ASSUME EconomyInv, NEW t \in Txn, NEW l \in Labels, Step(t, l), UNCHANGED <<tillVars, seen>>
  PROVE  /\ RequestsOK' /\ Frame(t) /\ req' = req /\ pc'[t] = l /\ seen'[t] = seen[t]
         /\ \A w \in Wants(t) : Holders(t, w) = {} /\ Holds(t, w)'
         /\ \A w : Holds(t, w) => Holds(t, w)'
<1>1. seen[t] \in Seen /\ seen' = [seen EXCEPT ![t] = seen[t]]
  BY Known, SeenSame
<1> QED BY <1>1, Known, StepKeeps DEF Frame

LEMMA ReadMessageMoves ==
  ASSUME EconomyInv, NEW t \in Txn, ReadMessage(t)
  PROVE  Moves(t)
<1>1. pc[t] = "read" /\ req[t].op = "use" /\ Step(t, "lock") /\ UNCHANGED <<tillVars, seen>>
      /\ Began(t) /\ req[t].by = Creator
  BY Known DEF ReadMessage, At
<1>2. RequestsOK' /\ Frame(t) /\ req' = req /\ pc'[t] = "lock" /\ seen'[t] = seen[t]
  BY <1>1, PlainStep DEF Labels
<1>3. At(t)'
  BY <1>1, <1>2 DEF At, Began, Stage, Locked, Fresh
<1> QED BY <1>1, <1>2, <1>3 DEF Moves

LEMMA ConsumeMoves ==
  ASSUME EconomyInv, NEW t \in Txn, Consume(t)
  PROVE  Moves(t)
<1>1. pc[t] = "consume" /\ Step(t, "apply") /\ UNCHANGED <<tillVars, seen>>
      /\ ~UseRefused(req[t]) /\ Owns(req[t].by, req[t].item) /\ At(t)
  BY Known DEF Consume
<1>2. /\ RequestsOK' /\ Frame(t) /\ req' = req /\ pc'[t] = "apply" /\ seen'[t] = seen[t]
      /\ \A w \in Wants(t) : Holds(t, w)'
      /\ \A w : Holds(t, w) => Holds(t, w)'
  BY <1>1, PlainStep DEF Labels
<1>3. Began(t)' /\ Stage(t)'
  BY <1>1, <1>2 DEF At, Began, Stage
<1>4. Wants(t) = {ItemLock(req[t].by, req[t].item)}
  BY <1>1 DEF Wants
<1> DEFINE w == ItemLock(req[t].by, req[t].item)
<1>5. [txn |-> t, row |-> w.row, mode |-> w.mode] \in locks'
  BY <1>2, <1>4 DEF Holds
<1>6. Holds(t, ItemLock(req[t].by, req[t].item))'
  BY <1>2, <1>5 DEF Holds
<1>7. req[t].item \in Curses => Holds(t, UserLock(req[t].on, "update"))
  BY <1>1 DEF At, Locked
<1>8. req[t].item \in Under => Holds(t, RoomLock("update"))
  BY <1>1 DEF At, Locked
<1> DEFINE v == UserLock(req[t].on, "update")
           q == RoomLock("update")
<1>9. req[t].item \in Curses => [txn |-> t, row |-> v.row, mode |-> v.mode] \in locks'
  BY <1>2, <1>7 DEF Holds
<1>10. req[t].item \in Under => [txn |-> t, row |-> q.row, mode |-> q.mode] \in locks'
  BY <1>2, <1>8 DEF Holds
<1>11. Locked(t)'
  BY <1>2, <1>6, <1>9, <1>10 DEF Locked, Holds
<1>12. Owns(req[t].by, req[t].item)' /\ ~UseRefused(req[t])'
  BY <1>1, <1>2 DEF Owns, UseRefused, Cursed, ActiveEffects
<1>13. Fresh(t)'
  BY <1>1, <1>2, <1>12 DEF At, Fresh
<1> QED BY <1>1, <1>2, <1>3, <1>11, <1>13 DEF Moves, At

(* The effect of an item, with what the request knows of it. *)
LEMMA Applies ==
  ASSUME EconomyInv, NEW t \in Txn, pc[t] = "apply"
  PROVE  /\ req[t].op = "use" /\ req[t].by \in User /\ req[t].item \in Goods
         /\ Owns(req[t].by, req[t].item) /\ ~UseRefused(req[t])
         /\ req[t].item \in Curses => req[t].on # req[t].by /\ req[t].on \in User
         /\ req[t].item \in Boosts => seen[t].until = room[req[t].item]
  BY Known DEF At, Stage, Fresh, Valid

LEMMA CurseMoves ==
  ASSUME EconomyInv, NEW t \in Txn, ApplyCurse(t)
  PROVE  Moves(t)
<1> DEFINE r == req[t]
<1>1. r.item \in Curses /\ r.by \in User /\ r.on \in User /\ r.on # r.by /\ r.item \in Goods
      /\ Owns(r.by, r.item) /\ r.on \notin Admin /\ ~Cursed(r.on, r.item)
  BY Applies DEF ApplyCurse, UseRefused
<1>2. CastCurse(r.by, r.on, r.item)
  BY <1>1 DEF ApplyCurse, CastCurse
<1>3. Finish(t) /\ clock' = clock
  BY DEF ApplyCurse
<1> QED BY <1>1, <1>2, <1>3, FinishMoves DEF TillNext

LEMMA ForgivenessMoves ==
  ASSUME EconomyInv, NEW t \in Txn, ApplyForgiveness(t)
  PROVE  Moves(t)
<1> DEFINE r == req[t]
<1>1. r.item = "debt_forgiveness" /\ r.by \in User /\ r.item \in Goods /\ Owns(r.by, r.item)
  BY Applies DEF ApplyForgiveness
<1>2. Forgive(r.by)
  BY <1>1 DEF ApplyForgiveness, Forgive
<1>3. Finish(t) /\ clock' = clock
  BY DEF ApplyForgiveness
<1> QED BY <1>1, <1>2, <1>3, FinishMoves DEF TillNext

(* A commit after which there is something left to do. *)
LEMMA PlainCommit ==
  ASSUME EconomyInv, NEW t \in Txn, NEW l \in {"announce", "evaluate", "unlock"}, Commit(t, l),
         NEW x \in Seen, seen' = [seen EXCEPT ![t] = x], x.at = seen[t].at, clock' = clock,
         pc[t] \notin {"idle", "done"},
         l = "announce" => req[t].op = "use" /\ req[t].item \in Under,
         l = "evaluate" => req[t].op \in {"farm", "payDebt", "respect"},
         l = "unlock" => req[t].op \in {"farm", "payDebt", "respect", "discover"},
         [TillNext]_tillVars
  PROVE  Moves(t)
<1>0. l \in Labels /\ RequestsOK
  BY Known DEF Labels
<1>1. RequestsOK' /\ Frame(t) /\ pc'[t] = l /\ seen'[t] = x
  BY <1>0, CommitKeeps
<1>2. req' = req
  BY <1>1 DEF Frame
<1>3. Began(t)'
  BY <1>1, Known DEF At, Began
<1>4. Stage(t)' /\ Locked(t)' /\ Fresh(t)'
  BY <1>1, <1>2 DEF Stage, Locked, Fresh
<1> QED BY <1>1, <1>3, <1>4 DEF Moves, At

LEMMA BoostMoves ==
  ASSUME EconomyInv, NEW t \in Txn, ApplyBoost(t)
  PROVE  Moves(t)
<1> DEFINE r == req[t]
<1>1. r.item \in Boosts /\ r.by \in User /\ r.item \in Goods /\ Owns(r.by, r.item)
      /\ r.by = Creator /\ room.live /\ seen[t].until = room[r.item] /\ r.op = "use"
      /\ pc[t] = "apply"
  BY Applies DEF ApplyBoost, UseRefused
<1>2. room' = [room EXCEPT ![r.item] = BoostedUntil(r.item),
                           !.sponsor = IF r.item = "aura_tax" THEN r.by ELSE @]
  BY <1>1 DEF ApplyBoost, BoostedUntil
<1>3. BoostRoom(r.by, r.item)
  BY <1>1, <1>2 DEF ApplyBoost, BoostRoom
<1>4. [TillNext]_tillVars
  BY <1>1, <1>3 DEF TillNext
<1>5. Commit(t, "announce") /\ clock' = clock /\ seen' = seen
  BY DEF ApplyBoost
<1>6. seen[t] \in Seen /\ seen' = [seen EXCEPT ![t] = seen[t]]
  BY <1>5, Known, SeenSame
<1> QED BY <1>1, <1>4, <1>5, <1>6, PlainCommit DEF Under

LEMMA SpotlightMoves ==
  ASSUME EconomyInv, NEW t \in Txn, ApplySpotlight(t)
  PROVE  Moves(t)
<1> DEFINE r == req[t]
<1>1. r.item = "spotlight" /\ r.by \in User /\ r.item \in Goods /\ Owns(r.by, r.item)
      /\ room.live /\ r.by = Creator /\ r.op = "use" /\ pc[t] = "apply"
  BY Applies, Known DEF ApplySpotlight, UseRefused, At, Stage
<1>2. SpotMessage(r.by)
  BY <1>1 DEF ApplySpotlight, SpotMessage
<1>3. [TillNext]_tillVars
  BY <1>1, <1>2 DEF TillNext
<1>4. Commit(t, "announce") /\ clock' = clock /\ seen' = seen
  BY DEF ApplySpotlight
<1>5. seen[t] \in Seen /\ seen' = [seen EXCEPT ![t] = seen[t]]
  BY <1>4, Known, SeenSame
<1> QED BY <1>1, <1>3, <1>4, <1>5, PlainCommit DEF Under

LEMMA AnnounceMoves ==
  ASSUME EconomyInv, NEW t \in Txn, Announce(t)
  PROVE  Moves(t)
  BY FinishMoves DEF Announce

LEMMA ClaimMoves ==
  ASSUME EconomyInv, NEW t \in Txn, Claim(t)
  PROVE  Moves(t)
<1> DEFINE u == req[t].by
           now == seen[t].at
<1>1. pc[t] = "claim" /\ u \in User /\ now \in Instants /\ now <= clock
  BY Known DEF Claim, At, Began
<1>2. [TillNext]_tillVars
  <2>1. CASE CanClaim(u, now)
    <3>1. ClaimStimulus(u)
      BY <1>1, <2>1 DEF Claim, ClaimStimulus
    <3> QED BY <1>1, <3>1 DEF TillNext
  <2>2. CASE ~CanClaim(u, now)
    BY <2>2 DEF Claim
  <2> QED BY <2>1, <2>2
<1>3. Finish(t) /\ clock' = clock
  BY DEF Claim
<1> QED BY <1>2, <1>3, FinishMoves

LEMMA FarmMoves ==
  ASSUME EconomyInv, NEW t \in Txn, Farm(t)
  PROVE  Moves(t)
<1>1. pc[t] = "update" /\ req[t].op = "farm" /\ req[t].by \in User
  BY Known DEF Farm
<1>2. FarmAura(req[t].by)
  BY DEF Farm, FarmAura
<1>3. [TillNext]_tillVars
  BY <1>1, <1>2 DEF TillNext
<1>4. Commit(t, "evaluate") /\ clock' = clock /\ seen' = seen
  BY DEF Farm
<1>5. seen[t] \in Seen /\ seen' = [seen EXCEPT ![t] = seen[t]]
  BY <1>4, Known, SeenSame
<1> QED BY <1>1, <1>3, <1>4, <1>5, PlainCommit

LEMMA PayDebtMoves ==
  ASSUME EconomyInv, NEW t \in Txn, PayDebt(t)
  PROVE  Moves(t)
<1> DEFINE u == req[t].by
           k == When(users[u].paid + 1 >= 100, "debt_free")
           x == [seen[t] EXCEPT !.keys = k]
<1>1. pc[t] = "update" /\ req[t].op = "payDebt" /\ u \in User /\ clock' = clock
  BY Known DEF PayDebt
<1>2. CASE users[u].debt > 0
  <2>1. PayOne(u)
    BY <1>2 DEF PayDebt, PayOne
  <2>2. [TillNext]_tillVars
    BY <1>1, <2>1 DEF TillNext
  <2>3. k \in SUBSET Medals
    BY DEF When, Medals, DebtMedals
  <2> HIDE DEF k
  <2>4. x \in Seen /\ x.at = seen[t].at
    BY <2>3, Known DEF Seen
  <2>5. Commit(t, "evaluate") /\ seen' = [seen EXCEPT ![t] = x]
    BY <1>2, Known DEF PayDebt, RequestsOK, k
  <2> HIDE DEF x
  <2> QED BY <1>1, <2>2, <2>4, <2>5, PlainCommit
<1>3. CASE ~(users[u].debt > 0)
  BY <1>1, <1>3, FinishMoves DEF PayDebt
<1> QED BY <1>2, <1>3

LEMMA CheckWearMoves ==
  ASSUME EconomyInv, NEW t \in Txn, CheckWear(t)
  PROVE  Moves(t)
<1>1. pc[t] = "read" /\ req[t].op = "equip" /\ Step(t, "wear") /\ UNCHANGED <<tillVars, seen>>
      /\ (req[t].item = Nothing \/ CanWear(req[t].by, req[t].on, req[t].item)) /\ Began(t)
  BY Known DEF CheckWear, At
<1>2. RequestsOK' /\ Frame(t) /\ req' = req /\ pc'[t] = "wear" /\ seen'[t] = seen[t]
  BY <1>1, PlainStep DEF Labels
<1>3. req[t].item = Nothing \/ CanWear(req[t].by, req[t].on, req[t].item)'
  BY <1>1, <1>2 DEF CanWear, Owns
<1>4. At(t)'
  BY <1>1, <1>2, <1>3 DEF At, Began, Stage, Locked, Fresh
<1> QED BY <1>1, <1>2, <1>4 DEF Moves

LEMMA WearMoves ==
  ASSUME EconomyInv, NEW t \in Txn, Wear(t)
  PROVE  Moves(t)
<1> DEFINE r == req[t]
<1>1. r.op = "equip" /\ r.by \in User /\ r.on \in Slots /\ r.item \in Wearable
      /\ (r.item = Nothing \/ CanWear(r.by, r.on, r.item))
  BY Known DEF Wear, At, Stage, Fresh, Valid
<1>2. PutOn(r.by, r.on, r.item)
  BY <1>1 DEF Wear, PutOn
<1>3. Finish(t) /\ clock' = clock
  BY DEF Wear
<1> QED BY <1>1, <1>2, <1>3, FinishMoves DEF TillNext

LEMMA InsertMoves ==
  ASSUME EconomyInv, NEW t \in Txn, Insert(t)
  PROVE  Moves(t)
<1> DEFINE new == IsNew(req[t], Day(seen[t].at))
           x == [seen[t] EXCEPT !.new = new]
<1>1. pc[t] = "insert" /\ req[t].op \in {"respect", "view"} /\ req[t].on # req[t].by
      /\ Step(t, "count") /\ UNCHANGED tillVars /\ Began(t)
  BY Known DEF Insert, At, Stage
<1>2. new \in BOOLEAN
  BY DEF IsNew
<1>3. seen' = [seen EXCEPT ![t] = x]
  BY Known DEF Insert, RequestsOK
<1> HIDE DEF new
<1>4. x \in Seen /\ x.at = seen[t].at /\ x.new = new
  BY <1>2, Known DEF Seen
<1> HIDE DEF x
<1>5. /\ RequestsOK' /\ Frame(t) /\ pc'[t] = "count" /\ seen'[t] = x
      /\ \A w \in Wants(t) : Holds(t, w)'
  BY <1>1, <1>3, <1>4, Known, StepKeeps DEF Labels
<1>6. req' = req
  BY <1>5 DEF Frame
<1> DEFINE w == RowOf(t)
<1>7. Wants(t) = Inserted(req[t], Day(seen[t].at)) /\ w \in Inserted(req[t], Day(seen[t].at))
  BY <1>1 DEF Wants, Inserted, RowOf
<1>8. [txn |-> t, row |-> w.row, mode |-> w.mode] \in locks'
  BY <1>5, <1>7 DEF Holds
<1>9. RowOf(t)' = w
  BY <1>4, <1>5, <1>6 DEF RowOf
<1>10. Locked(t)'
  BY <1>5, <1>8, <1>9 DEF Locked, Holds
<1>11. (new => IsNew(req[t], Day(seen[t].at))) /\ (IsNew(req[t], Day(seen[t].at)) => new)
  BY DEF new
<1>12. Fresh(t)'
  BY <1>1, <1>4, <1>5, <1>6, <1>11 DEF Fresh, IsNew
<1>13. Began(t)' /\ Stage(t)'
  BY <1>1, <1>4, <1>5, <1>6 DEF Began, Stage
<1> QED BY <1>1, <1>5, <1>10, <1>12, <1>13 DEF Moves, At

LEMMA CountRespectMoves ==
  ASSUME EconomyInv, NEW t \in Txn, CountRespect(t)
  PROVE  Moves(t)
<1> DEFINE r == req[t]
<1>1. pc[t] = "count" /\ r.op = "respect" /\ r.on \in User /\ r.by \in User /\ r.on # r.by
      /\ clock' = clock
      /\ (seen[t].new => IsNew(r, Day(seen[t].at))) /\ (IsNew(r, Day(seen[t].at)) => seen[t].new)
  BY Known DEF CountRespect, At, Stage, Fresh, Valid
<1>2. [TillNext]_tillVars
  <2>1. CASE seen[t].new
    <3>1. RespectOnce(r.on, r.by)
      BY <1>1, <2>1 DEF CountRespect, RespectOnce, IsNew
    <3> QED BY <1>1, <3>1 DEF TillNext
  <2>2. CASE ~seen[t].new
    <3>1. <<r.on, r.by>> \in respects
      BY <1>1, <2>2 DEF IsNew
    <3> QED BY <2>2, <3>1 DEF CountRespect
  <2> QED BY <2>1, <2>2
<1>3. Commit(t, "evaluate") /\ seen' = seen
  BY DEF CountRespect
<1>4. seen[t] \in Seen /\ seen' = [seen EXCEPT ![t] = seen[t]]
  BY <1>3, Known, SeenSame
<1> QED BY <1>1, <1>2, <1>3, <1>4, PlainCommit

LEMMA CountViewMoves ==
  ASSUME EconomyInv, NEW t \in Txn, CountView(t)
  PROVE  Moves(t)
<1> DEFINE r == req[t]
           view == [profile |-> r.on, viewer |-> r.by, day |-> Day(seen[t].at)]
<1>1. pc[t] = "count" /\ r.op = "view" /\ r.on \in User /\ r.by \in User /\ r.on # r.by
      /\ clock' = clock /\ Began(t)
      /\ (seen[t].new => IsNew(r, Day(seen[t].at))) /\ (IsNew(r, Day(seen[t].at)) => seen[t].new)
  BY Known DEF CountView, At, Stage, Fresh, Valid
<1>2. Day(seen[t].at) \in 0..Day(clock)
  BY <1>1, Known, DayGrows DEF Began
<1>3. [TillNext]_tillVars
  <2>1. CASE seen[t].new
    <3>1. view \notin views
      BY <1>1, <2>1 DEF IsNew
    <3>2. ViewOnce(r.on, r.by)
      BY <1>1, <1>2, <2>1, <3>1 DEF CountView, ViewOnce
    <3> QED BY <1>1, <3>2 DEF TillNext
  <2>2. CASE ~seen[t].new
    <3>1. view \in views
      BY <1>1, <2>2 DEF IsNew
    <3>2. views' = views \cup {view}
      BY DEF CountView
    <3>3. views' = views
      BY <3>1, <3>2
    <3> QED BY <2>2, <3>3 DEF CountView
  <2> QED BY <2>1, <2>2
<1>4. Finish(t)
  BY DEF CountView
<1> QED BY <1>1, <1>3, <1>4, FinishMoves

LEMMA CheckPickMoves ==
  ASSUME EconomyInv, NEW t \in Txn, CheckPick(t)
  PROVE  Moves(t)
<1>1. pc[t] = "read" /\ req[t].op \in {"layout", "feature"} /\ Step(t, "write")
      /\ UNCHANGED <<tillVars, seen>> /\ MayPick(req[t]) /\ Began(t)
  BY Known DEF CheckPick, MayPick, At
<1>2. RequestsOK' /\ Frame(t) /\ req' = req /\ pc'[t] = "write" /\ seen'[t] = seen[t]
  BY <1>1, PlainStep DEF Labels
<1>3. MayPick(req[t])'
  BY <1>1, <1>2 DEF MayPick, Unlocked, Owns
<1>4. At(t)'
  BY <1>1, <1>2, <1>3 DEF At, Began, Stage, Locked, Fresh
<1> QED BY <1>1, <1>2, <1>4 DEF Moves

LEMMA WritePickMoves ==
  ASSUME EconomyInv, NEW t \in Txn, WritePick(t)
  PROVE  Moves(t)
<1> DEFINE r == req[t]
<1>1. r.op \in {"layout", "feature"} /\ MayPick(r) /\ r.by \in User /\ Valid(r)
      /\ Finish(t) /\ clock' = clock
  BY Known DEF WritePick, At, Stage, Fresh
<1>2. CASE r.op = "layout"
  <2>1. Arrange(r.by, r.pick) /\ r.pick \in Layouts
    BY <1>1, <1>2 DEF WritePick, Arrange, MayPick, Valid
  <2> QED BY <1>1, <2>1, FinishMoves DEF TillNext
<1>3. CASE r.op = "feature"
  <2>1. Show(r.by, r.pick) /\ r.pick \in Showcases
    BY <1>1, <1>3 DEF WritePick, Show, MayPick, Valid
  <2> QED BY <1>1, <2>1, FinishMoves DEF TillNext
<1> QED BY <1>1, <1>2, <1>3

LEMMA EarnedType ==
  ASSUME EconomyInv, NEW t \in Txn, req[t].op \in {"farm", "payDebt", "respect"}
  PROVE  Earned(req[t]) \subseteq Medals
  BY DEF Earned, EarnedByAura, EarnedByDebt, EarnedByRespect, When, Medals, AuraMedals, DebtMedals,
     SocialMedals

LEMMA EvaluateMoves ==
  ASSUME EconomyInv, NEW t \in Txn, Evaluate(t)
  PROVE  Moves(t)
<1> DEFINE k == seen[t].keys \cup Earned(req[t])
           x == [seen[t] EXCEPT !.keys = k]
<1>1. pc[t] = "evaluate" /\ req[t].op \in {"farm", "payDebt", "respect"} /\ Began(t)
      /\ Step(t, "unlock") /\ UNCHANGED tillVars
  BY Known DEF Evaluate, At, Stage
<1>2. k \in SUBSET Medals
  BY <1>1, EarnedType, Known DEF Seen
<1>3. seen' = [seen EXCEPT ![t] = x]
  BY Known DEF Evaluate, RequestsOK
<1> HIDE DEF k
<1>4. x \in Seen /\ x.at = seen[t].at
  BY <1>2, Known DEF Seen
<1> HIDE DEF x
<1>5. RequestsOK' /\ Frame(t) /\ pc'[t] = "unlock" /\ seen'[t] = x
  BY <1>1, <1>3, <1>4, Known, StepKeeps DEF Labels
<1>6. req' = req
  BY <1>5 DEF Frame
<1>7. At(t)'
  BY <1>1, <1>4, <1>5, <1>6 DEF At, Began, Stage, Locked, Fresh
<1> QED BY <1>1, <1>5, <1>7 DEF Moves

LEMMA SubjectType ==
  ASSUME EconomyInv, NEW t \in Txn
  PROVE  Subject(req[t]) \in User
  BY Known DEF Subject, Valid

LEMMA UnlockMedalMoves ==
  ASSUME EconomyInv, NEW t \in Txn, UnlockMedal(t)
  PROVE  Moves(t)
<1>1. PICK key \in seen[t].keys :
        /\ pc[t] = "unlock"
        /\ medals' = [medals EXCEPT ![Subject(req[t])] = @ \cup {key}]
        /\ seen' = [seen EXCEPT ![t].keys = @ \ {key}]
        /\ Commit(t, "unlock")
        /\ UNCHANGED <<users, goods, chart, respects, views, clock>>
  BY DEF UnlockMedal
<1> DEFINE x == [seen[t] EXCEPT !.keys = seen[t].keys \ {key}]
<1>2. key \in Medals /\ x \in Seen /\ x.at = seen[t].at
  BY Known DEF Seen
<1>3. seen' = [seen EXCEPT ![t] = x]
  BY <1>1, Known DEF RequestsOK
<1> HIDE DEF x
<1>4. Unlock(Subject(req[t]), key)
  BY <1>1 DEF Unlock
<1>5. [TillNext]_tillVars
  BY <1>2, <1>4, SubjectType DEF TillNext
<1>6. req[t].op \in {"farm", "payDebt", "respect", "discover"}
  BY <1>1, Known DEF At, Stage
<1> QED BY <1>1, <1>2, <1>3, <1>5, <1>6, PlainCommit

LEMMA MedalLostMoves ==
  ASSUME EconomyInv, NEW t \in Txn, MedalLost(t)
  PROVE  Moves(t)
<1>1. PICK key \in seen[t].keys :
        /\ pc[t] = "unlock"
        /\ seen' = [seen EXCEPT ![t].keys = @ \ {key}]
        /\ UNCHANGED <<tillVars, pc, req, locks>>
  BY DEF MedalLost
<1> DEFINE x == [seen[t] EXCEPT !.keys = seen[t].keys \ {key}]
<1>2. x \in Seen /\ x.at = seen[t].at
  BY Known DEF Seen
<1>3. seen' = [seen EXCEPT ![t] = x]
  BY <1>1, Known DEF RequestsOK
<1> HIDE DEF x
<1>4. seen' \in [Txn -> Seen] /\ seen'[t] = x /\ \A s \in Txn \ {t} : seen'[s] = seen[s]
  BY <1>2, <1>3, Known, SeenKeeps
<1>5. LocksOK' /\ OthersKeep(t)
  BY <1>1, SameKeeps DEF EconomyInv, RequestsOK
<1>6. RequestsOK' /\ Frame(t)
  BY <1>1, <1>4, <1>5, Known DEF RequestsOK, Frame
<1>7. At(t)
  BY Known
<1>8. At(t)'
  BY <1>1, <1>2, <1>4, <1>7 DEF At, Began, Stage, Locked, Fresh
<1> QED BY <1>1, <1>6, <1>8 DEF Moves

LEMMA AnswerMoves ==
  ASSUME EconomyInv, NEW t \in Txn, Answer(t)
  PROVE  Moves(t)
<1>1. Goto(t, "done") /\ seen' = [seen EXCEPT ![t] = Blank] /\ UNCHANGED <<tillVars, locks>>
  BY DEF Answer, Forget
<1>2. req' = req /\ pc' \in [Txn -> Labels] /\ pc'[t] = "done"
      /\ \A s \in Txn \ {t} : pc'[s] = pc[s]
  BY <1>1, Known, GotoKeeps DEF Labels
<1>3. seen' \in [Txn -> Seen] /\ \A s \in Txn \ {t} : seen'[s] = seen[s]
  BY <1>1, BlankType, Known, SeenKeeps
<1>4. LocksOK' /\ OthersKeep(t)
  BY <1>1, SameKeeps DEF EconomyInv, RequestsOK
<1>5. RequestsOK' /\ Frame(t)
  BY <1>2, <1>3, <1>4, Known DEF RequestsOK, Frame
<1> QED BY <1>1, <1>2, <1>5, DoneIsFine DEF Moves

LEMMA ModerateMoves ==
  ASSUME EconomyInv, NEW t \in Txn, Moderate(t)
  PROVE  Moves(t)
<1>1. Moderated /\ Finish(t) /\ clock' = clock
  BY DEF Moderate, Moderated
<1> QED BY <1>1, FinishMoves DEF TillNext

(* Every step of a request is an operation of Till, or none.               *)
LEMMA RequestsMove ==
  ASSUME EconomyInv, NEW t \in Txn, RequestNext(t)
  PROVE  Moves(t)
<1>1. CASE ShopNext(t)
  BY <1>1, LockRowMoves, ChargeMoves, RefusalsMove, GrantMoves, SoapMoves, ReadMessageMoves,
     ConsumeMoves, CurseMoves, BoostMoves, SpotlightMoves, ForgivenessMoves, AnnounceMoves,
     ClaimMoves, FarmMoves, PayDebtMoves, CheckWearMoves, WearMoves DEF ShopNext
<1>2. CASE ProfileNext(t)
  BY <1>2, InsertMoves, RefusalsMove, CountRespectMoves, CountViewMoves, CheckPickMoves,
     WritePickMoves, EvaluateMoves, UnlockMedalMoves, MedalLostMoves, AnswerMoves
  DEF ProfileNext
<1> QED BY <1>1, <1>2, BeginMoves, RefusalsMove, ModerateMoves DEF RequestNext

-----------------------------------------------------------------------------
(* What a step of one request may change of what another one relies on.    *)
LEMMA Writers ==
  ASSUME NEW t \in Txn, RequestNext(t)
  PROVE  \/ UNCHANGED tillVars
         \/ Grant(t) \/ OpenMysterySoap(t)
         \/ ApplyCurse(t) \/ ApplyBoost(t) \/ ApplySpotlight(t) \/ ApplyForgiveness(t)
         \/ Claim(t) \/ Farm(t) \/ PayDebt(t) \/ Wear(t)
         \/ CountRespect(t) \/ CountView(t) \/ WritePick(t) \/ UnlockMedal(t) \/ Moderate(t)
<1>1. CASE ShopNext(t)
  BY <1>1 DEF ShopNext, LockRow, Charge, ChargeRefused, ReadMessage, RefuseUse, Consume, Announce,
     CheckWear, WearRefused, Abort
<1>2. CASE ProfileNext(t)
  BY <1>2 DEF ProfileNext, Insert, InsertRefused, CheckPick, PickRefused, Evaluate, MedalLost,
     Answer, Abort
<1> QED BY <1>1, <1>2 DEF RequestNext, Begin, Fail, DetectDeadlock, Abort

LEMMA InventoryChanges ==
  ASSUME EconomyInv, NEW t \in Txn, RequestNext(t), NEW u \in User, NEW i \in Goods,
         inventory'[u][i] # inventory[u][i]
  PROVE  /\ u = req[t].by
         /\ \/ pc[t] = "grant"
            \/ pc[t] = "apply" /\ i = req[t].item /\ inventory'[u][i] <= inventory[u][i]
<1>0. inventory \in [User -> [Goods -> Nat]] /\ inventory[u][i] \in Nat
  BY Known DEF TillTypeOK
<1>1. CASE Grant(t)
  BY <1>0, <1>1 DEF Grant, Granted
<1>2. CASE OpenMysterySoap(t)
  BY <1>0, <1>2 DEF OpenMysterySoap, Granted
<1>3. CASE ApplyCurse(t) \/ ApplyBoost(t) \/ ApplySpotlight(t) \/ ApplyForgiveness(t)
  <2>1. pc[t] = "apply" /\ inventory' = Consumed(req[t].by, req[t].item)
    BY <1>3 DEF ApplyCurse, ApplyBoost, ApplySpotlight, ApplyForgiveness
  <2>2. inventory'[u][i] = IF u = req[t].by /\ i = req[t].item THEN inventory[u][i] - 1
                           ELSE inventory[u][i]
    BY <1>0, <2>1 DEF Consumed
  <2> QED BY <1>0, <2>1, <2>2
<1> QED BY <1>1, <1>2, <1>3, Writers DEF Claim, Farm, PayDebt, Wear, CountRespect, CountView,
           WritePick, UnlockMedal, Moderate

LEMMA AuraChanges ==
  ASSUME EconomyInv, NEW t \in Txn, RequestNext(t), NEW u \in User,
         users'[u].aura # users[u].aura
  PROVE  u = req[t].by /\ (pc[t] = "grant" \/ Holders(t, UserLock(u, "nokey")) = {})
<1>0. users \in [User -> UserRow]
  BY Known DEF TillTypeOK
<1>1. CASE Grant(t)
  BY <1>0, <1>1 DEF Grant, WithAura, UserRow
<1>2. CASE OpenMysterySoap(t)
  BY <1>0, <1>2 DEF OpenMysterySoap, WithAura, UserRow
<1>3. CASE Claim(t)
  <2>1. Wants(t) = {UserLock(req[t].by, "nokey")} /\ Holders(t, UserLock(req[t].by, "nokey")) = {}
    BY <1>3 DEF Claim, Wants, Finish, Commit, Release
  <2>2. u = req[t].by
    BY <1>0, <1>3 DEF Claim, Claimed, UserRow
  <2> QED BY <2>1, <2>2
<1>4. CASE Farm(t)
  <2>1. Wants(t) = {UserLock(req[t].by, "nokey")} /\ Holders(t, UserLock(req[t].by, "nokey")) = {}
    BY <1>4 DEF Farm, Wants, Commit, Release
  <2>2. u = req[t].by
    BY <1>0, <1>4 DEF Farm, UserRow
  <2> QED BY <2>1, <2>2
<1>5. CASE ApplyForgiveness(t)
  BY <1>0, <1>5 DEF ApplyForgiveness, UserRow
<1>6. CASE PayDebt(t)
  BY <1>0, <1>6 DEF PayDebt, UserRow
<1>7. CASE CountRespect(t)
  BY <1>0, <1>7 DEF CountRespect, UserRow
<1>8. CASE CountView(t)
  BY <1>0, <1>8 DEF CountView, UserRow
<1>9. CASE WritePick(t)
  BY <1>0, <1>9 DEF WritePick, UserRow
<1> QED BY <1>1, <1>2, <1>3, <1>4, <1>5, <1>6, <1>7, <1>8, <1>9, Writers DEF ApplyCurse,
           ApplyBoost, ApplySpotlight, Wear, UnlockMedal, Moderate

LEMMA RoomChanges ==
  ASSUME EconomyInv, NEW t \in Txn, RequestNext(t)
  PROVE  \/ room'.live = room.live /\ \A k \in Boosts : room'[k] = room[k]
         \/ pc[t] = "apply" /\ req[t].item \in Under
         \/ Holders(t, RoomLock("nokey")) = {}
<1>0. room \in RoomRow
  BY Known DEF TillTypeOK
<1>1. CASE ApplyBoost(t) \/ ApplySpotlight(t)
  BY <1>1 DEF ApplyBoost, ApplySpotlight, Under
<1>2. CASE Moderate(t)
  <2>1. CASE req[t].op = "quarantine"
    BY <1>2, <2>1 DEF Moderate, Wants, Finish, Commit, Release
  <2>2. CASE req[t].op # "quarantine"
    BY <1>0, <1>2, <2>2 DEF Moderate, RoomRow, Boosts
  <2> QED BY <2>1, <2>2
<1>3. CASE UNCHANGED room
  BY <1>3
<1> QED BY <1>1, <1>2, <1>3, Writers DEF Grant, OpenMysterySoap, ApplyCurse, ApplyForgiveness, Claim,
           Farm, PayDebt, Wear, CountRespect, CountView, WritePick, UnlockMedal

LEMMA EffectsChange ==
  ASSUME NEW t \in Txn, RequestNext(t)
  PROVE  \/ effects' = effects
         \/ /\ pc[t] = "apply" /\ req[t].item \in Curses
            /\ \A e \in effects' : e \in effects \/ e.target = req[t].on
<1>1. CASE ApplyCurse(t)
  BY <1>1 DEF ApplyCurse, Curse
<1> QED BY <1>1, Writers DEF Grant, OpenMysterySoap, ApplyBoost, ApplySpotlight, ApplyForgiveness, Claim,
           Farm, PayDebt, Wear, CountRespect, CountView, WritePick, UnlockMedal, Moderate

LEMMA CountsChange ==
  ASSUME NEW t \in Txn, RequestNext(t)
  PROVE  /\ \/ respects' = respects
            \/ /\ pc[t] = "count" /\ req[t].op = "respect"
               /\ respects' = respects \cup {<<req[t].on, req[t].by>>}
         /\ \/ views' = views
            \/ /\ pc[t] = "count" /\ req[t].op = "view"
               /\ views' = views \cup {[profile |-> req[t].on, viewer |-> req[t].by,
                                        day |-> Day(seen[t].at)]}
<1>1. CASE CountRespect(t)
  BY <1>1 DEF CountRespect
<1>2. CASE CountView(t)
  BY <1>2 DEF CountView
<1> QED BY <1>1, <1>2, Writers DEF Grant, OpenMysterySoap, ApplyCurse, ApplyBoost, ApplySpotlight,
           ApplyForgiveness, Claim, Farm, PayDebt, Wear, WritePick, UnlockMedal, Moderate

-----------------------------------------------------------------------------
(* The locks keep what a request has read as it was.                       *)
LEMMA OneHolds ==
  ASSUME EconomyInv, NEW t \in Txn, NEW s \in Txn \ {t}, NEW w, NEW v,
         Holds(t, w), Holds(s, v), w.row = v.row, Conflicts(w.mode, v.mode)
  PROVE  FALSE
  BY HeldApart, Known DEF RequestsOK

LEMMA NoneTakes ==
  ASSUME NEW t \in Txn, NEW s \in Txn \ {t}, NEW w, NEW v, Holders(t, w) = {}, Holds(s, v),
         w.row = v.row, Conflicts(v.mode, w.mode)
  PROVE  FALSE
  BY HeldBlocks

LEMMA LockedUserStays ==
  ASSUME EconomyInv, NEW t \in Txn, NEW s \in Txn \ {t}, RequestNext(t), NEW u \in User,
         Holds(s, UserLock(u, "update"))
  PROVE  /\ users'[u].aura = users[u].aura
         /\ \A i \in Goods : Owns(u, i)' => Owns(u, i)
         /\ \A k : Cursed(u, k)' => Cursed(u, k)
<1>0. inventory \in [User -> [Goods -> Nat]] /\ inventory' \in [User -> [Goods -> Nat]]
  BY Known, RequestsMove, TillTypeStep DEF TillTypeOK, Moves
<1>1. ASSUME u = req[t].by, pc[t] = "grant"
      PROVE  FALSE
  <2>1. Holds(t, UserLock(u, "update"))
    BY <1>1, Known DEF At, Locked
  <2> QED BY <2>1, OneHolds DEF UserLock, Lock, Conflicts
<1>2. Holders(t, UserLock(u, "nokey")) # {}
  <2> SUFFICES ASSUME Holders(t, UserLock(u, "nokey")) = {} PROVE FALSE
    OBVIOUS
  <2> QED BY NoneTakes DEF UserLock, Lock, Conflicts
<1>3. users'[u].aura = users[u].aura
  BY <1>1, <1>2, AuraChanges
<1>4. ASSUME NEW i \in Goods, Owns(u, i)'
      PROVE  Owns(u, i)
  <2>1. inventory'[u][i] > 0 /\ inventory'[u][i] \in Nat /\ inventory[u][i] \in Nat
    BY <1>0, <1>4 DEF Owns
  <2>2. inventory'[u][i] <= inventory[u][i]
    BY <1>1, <2>1, InventoryChanges
  <2> QED BY <2>1, <2>2 DEF Owns
<1>5. ASSUME NEW k, Cursed(u, k)'
      PROVE  Cursed(u, k)
  <2>1. clock' = clock
    BY RequestsMove DEF Moves
  <2>2. PICK e \in effects' : e.target = u /\ e.until > clock /\ e.kind = k
    BY <1>5, <2>1 DEF Cursed, ActiveEffects
  <2>3. ASSUME pc[t] = "apply", req[t].item \in Curses, req[t].on = u
        PROVE  FALSE
    <3>1. Holds(t, UserLock(u, "update"))
      BY <2>3, Known DEF At, Locked
    <3> QED BY <3>1, OneHolds DEF UserLock, Lock, Conflicts
  <2>4. e \in effects
    BY <2>2, <2>3, EffectsChange
  <2> QED BY <2>2, <2>4 DEF Cursed, ActiveEffects
<1> QED BY <1>3, <1>4, <1>5

LEMMA LockedItemStays ==
  ASSUME EconomyInv, NEW t \in Txn, NEW s \in Txn \ {t}, RequestNext(t), NEW u \in User,
         NEW i \in Goods, Holds(s, ItemLock(u, i)), Owns(u, i)
  PROVE  Owns(u, i)'
<1>0. /\ inventory[u][i] \in Nat /\ inventory'[u][i] \in Nat
      /\ [TillNext]_tillVars
  BY Known, RequestsMove, TillTypeStep DEF TillTypeOK, Moves
<1>1. ASSUME u = req[t].by, i = req[t].item, pc[t] = "apply"
      PROVE  FALSE
  <2>1. Holds(t, ItemLock(u, i))
    BY <1>1, Known DEF At, Locked
  <2> QED BY <2>1, OneHolds DEF ItemLock, Lock, Conflicts
<1>2. CASE inventory'[u][i] = inventory[u][i]
  BY <1>2 DEF Owns
<1>3. CASE inventory'[u][i] # inventory[u][i]
  <2>1. u = req[t].by /\ pc[t] = "grant"
    BY <1>1, <1>3, InventoryChanges
  <2>2. Grant(t) \/ OpenMysterySoap(t)
    BY <1>3, <2>1, Writers DEF ApplyCurse, ApplyBoost, ApplySpotlight, ApplyForgiveness, Claim,
       Farm, PayDebt, Wear, CountRespect, CountView, WritePick, UnlockMedal, Moderate
  <2>3. \E j \in Goods : inventory' = Granted(u, j)
    BY <1>3, <2>1, <2>2, Known, RollsAssumption DEF Grant, OpenMysterySoap, At, Stage
  <2>4. inventory'[u][i] >= inventory[u][i]
    BY <1>0, <2>3, Known DEF Granted, TillTypeOK
  <2> QED BY <1>0, <2>4 DEF Owns
<1> QED BY <1>2, <1>3

LEMMA LockedRoomStays ==
  ASSUME EconomyInv, NEW t \in Txn, NEW s \in Txn \ {t}, RequestNext(t),
         Holds(s, RoomLock("update"))
  PROVE  room'.live = room.live /\ \A k \in Boosts : room'[k] = room[k]
<1>1. ASSUME pc[t] = "apply", req[t].item \in Under
      PROVE  FALSE
  <2>1. Holds(t, RoomLock("update"))
    BY <1>1, Known DEF At, Locked
  <2> QED BY <2>1, OneHolds DEF RoomLock, Lock, Conflicts
<1>2. ASSUME Holders(t, RoomLock("nokey")) = {}
      PROVE  FALSE
  BY <1>2, NoneTakes DEF RoomLock, Lock, Conflicts
<1> QED BY <1>1, <1>2, RoomChanges

LEMMA LockedCountStays ==
  ASSUME EconomyInv, NEW t \in Txn, NEW s \in Txn \ {t}, RequestNext(t), pc[s] = "count"
  PROVE  LET r == req[s]
             day == Day(seen[s].at)
         IN  (IsNew(r, day) => IsNew(r, day)') /\ (IsNew(r, day)' => IsNew(r, day))
<1>1. req[s].op \in {"respect", "view"} /\ Holds(s, RowOf(s)) /\ Frame(t)
  BY Known, RequestsMove DEF At, Stage, Locked, Moves
<1>2. req' = req /\ seen'[s] = seen[s]
  BY <1>1 DEF Frame
<1>3. pc[t] = "count" => Holds(t, RowOf(t))
  BY Known DEF At, Locked
<1>4. CASE req[s].op = "respect"
  <2>1. <<req[s].on, req[s].by>> \in respects' <=> <<req[s].on, req[s].by>> \in respects
    <3>1. CASE respects' = respects
      BY <3>1
    <3>2. CASE /\ pc[t] = "count" /\ req[t].op = "respect"
               /\ respects' = respects \cup {<<req[t].on, req[t].by>>}
      <4>1. ASSUME <<req[s].on, req[s].by>> = <<req[t].on, req[t].by>>
            PROVE  FALSE
        <5>1. RowOf(t).row = RowOf(s).row /\ RowOf(t).mode = "update" /\ RowOf(s).mode = "update"
          BY <1>4, <3>2, <4>1 DEF RowOf, Lock
        <5> QED BY <1>1, <1>3, <3>2, <5>1, OneHolds DEF Conflicts
      <4> QED BY <3>2, <4>1
    <3> QED BY <3>1, <3>2, CountsChange
  <2> QED BY <1>2, <1>4, <2>1 DEF IsNew
<1>5. CASE req[s].op = "view"
  <2> DEFINE view(q) == [profile |-> req[q].on, viewer |-> req[q].by, day |-> Day(seen[q].at)]
  <2>1. view(s) \in views' <=> view(s) \in views
    <3>1. CASE views' = views
      BY <3>1
    <3>2. CASE pc[t] = "count" /\ req[t].op = "view" /\ views' = views \cup {view(t)}
      <4>1. ASSUME view(s) = view(t)
            PROVE  FALSE
        <5>1. req[s].on = req[t].on /\ req[s].by = req[t].by /\ Day(seen[s].at) = Day(seen[t].at)
          BY <4>1
        <5>2. RowOf(t).row = RowOf(s).row /\ RowOf(t).mode = "update" /\ RowOf(s).mode = "update"
          BY <1>5, <3>2, <5>1 DEF RowOf, Lock
        <5> QED BY <1>1, <1>3, <3>2, <5>2, OneHolds DEF Conflicts
      <4> HIDE DEF view
      <4> QED BY <3>2, <4>1
    <3> QED BY <3>1, <3>2, CountsChange
  <2> QED BY <1>2, <1>5, <2>1 DEF IsNew
<1> QED BY <1>1, <1>4, <1>5

LEMMA OthersStay ==
  ASSUME EconomyInv, NEW t \in Txn, NEW s \in Txn \ {t}, RequestNext(t)
  PROVE  At(s)'
<1> DEFINE r == req[s]
<1>0. /\ Frame(t) /\ [TillNext]_tillVars /\ clock' = clock /\ TillTypeOK
      /\ req' = req /\ pc'[s] = pc[s] /\ seen'[s] = seen[s]
  BY RequestsMove, Known DEF Moves, Frame
<1>1. Began(s) /\ Stage(s) /\ Locked(s) /\ Fresh(s) /\ r.by \in User /\ Valid(r)
  BY Known DEF At
<1>2. Began(s)' /\ Stage(s)'
  BY <1>0, <1>1 DEF Began, Stage
<1>3. Locked(s)'
  <2> DEFINE Keeps(w) == Holds(s, w) => [txn |-> s, row |-> w.row, mode |-> w.mode] \in locks'
  <2>1. \A w : Keeps(w)
    BY <1>0 DEF Frame, OthersKeep, Holds
  <2>2. /\ Keeps(UserLock(r.by, "update")) /\ Keeps(UserLock(r.on, "update"))
        /\ Keeps(RoomLock("update")) /\ Keeps(ItemLock(r.by, r.item)) /\ Keeps(RowOf(s))
    <3> HIDE DEF Keeps
    <3> QED BY <2>1
  <2>3. RowOf(s)' = RowOf(s)
    BY <1>0 DEF RowOf
  <2> QED BY <1>0, <1>1, <2>2, <2>3 DEF Locked, Holds
<1>4. ASSUME pc[s] = "grant"
      PROVE  CanBuy(r.by, r.item)' /\ seen'[s].aura = users'[r.by].aura - Price(r.item)
  <2>1. CanBuy(r.by, r.item) /\ seen[s].aura = users[r.by].aura - Price(r.item)
        /\ Holds(s, UserLock(r.by, "update")) /\ r.item \in Goods
    BY <1>1, <1>4 DEF Fresh, Locked, Stage, Valid
  <2>2. users'[r.by].aura = users[r.by].aura /\ (Owns(r.by, r.item)' => Owns(r.by, r.item))
    BY <1>0, <1>1, <2>1, LockedUserStays
  <2>3. medals[r.by] \subseteq medals'[r.by]
    BY <1>0, <1>1, AllGrow
  <2> QED BY <1>0, <2>1, <2>2, <2>3 DEF CanBuy
<1>5. ASSUME pc[s] \in {"consume", "apply"}, r.item \in Boosts
      PROVE  seen'[s].until = room'[r.item]
  <2>1. seen[s].until = room[r.item] /\ Holds(s, RoomLock("update"))
    BY <1>1, <1>5 DEF Fresh, Locked, Under
  <2> QED BY <1>0, <1>5, <2>1, LockedRoomStays
<1>6. ASSUME pc[s] = "apply"
      PROVE  Owns(r.by, r.item)' /\ ~UseRefused(r)'
  <2>1. Owns(r.by, r.item) /\ ~UseRefused(r) /\ r.item \in Goods
        /\ Holds(s, ItemLock(r.by, r.item))
    BY <1>1, <1>6 DEF Fresh, Locked, Stage, Valid
  <2>2. Owns(r.by, r.item)'
    BY <1>0, <1>1, <2>1, LockedItemStays
  <2>3. ASSUME r.item \in Curses
        PROVE  Cursed(r.on, r.item)' => Cursed(r.on, r.item)
    <3>1. r.on \in User /\ Holds(s, UserLock(r.on, "update"))
      BY <1>1, <1>6, <2>3 DEF Locked, Stage, Valid
    <3> QED BY <1>0, <3>1, LockedUserStays
  <2>4. ASSUME r.item \in Under
        PROVE  room'.live = room.live
    <3>1. Holds(s, RoomLock("update"))
      BY <1>1, <1>6, <2>4 DEF Locked
    <3> QED BY <3>1, LockedRoomStays
  <2> QED BY <1>0, <2>1, <2>2, <2>3, <2>4 DEF UseRefused, Under
<1>7. ASSUME pc[s] = "wear"
      PROVE  r.item = Nothing \/ CanWear(r.by, r.on, r.item)'
  <2>1. r.item = Nothing \/ CanWear(r.by, r.on, r.item)
    BY <1>1, <1>7 DEF Fresh
  <2>2. ASSUME CanWear(r.by, r.on, r.item), r.item # Nothing, r.item \notin FreeItems
        PROVE  Owns(r.by, r.item)'
    <3>1. r.on \in Slots /\ r.item \in SlotAccepts[r.on] /\ Owns(r.by, r.item)
      BY <1>1, <1>7, <2>2 DEF CanWear, Stage, Valid
    <3>2. r.item \in Goods \cap Permanents
      BY <2>2, <3>1, SlotsTakePermanents, Known DEF Wearable
    <3> QED BY <1>0, <1>1, <3>1, <3>2, OwnershipStays
  <2> QED BY <1>0, <2>1, <2>2 DEF CanWear
<1>8. ASSUME pc[s] = "count"
      PROVE  /\ seen'[s].new => IsNew(r, Day(seen[s].at))'
             /\ IsNew(r, Day(seen[s].at))' => seen'[s].new
  BY <1>0, <1>1, <1>8, LockedCountStays DEF Fresh
<1>9. ASSUME pc[s] = "write"
      PROVE  MayPick(r)'
  <2>1. MayPick(r)
    BY <1>1, <1>9 DEF Fresh
  <2>2. medals[r.by] \subseteq medals'[r.by] /\ \A w : Unlocked(r.by, w) => Unlocked(r.by, w)'
    BY <1>0, <1>1, AllGrow, OwnershipStays
  <2> QED BY <1>0, <2>1, <2>2 DEF MayPick
<1>10. Fresh(s)'
  BY <1>0, <1>4, <1>5, <1>6, <1>7, <1>8, <1>9 DEF Fresh
<1> QED BY <1>2, <1>3, <1>10 DEF At

LEMMA TimeStays ==
  ASSUME EconomyInv, NEW s \in Txn, TimePasses
  PROVE  At(s)'
<1>1. /\ clock' \in Instants /\ clock' > clock /\ clock \in Nat /\ clock' \in Nat
      /\ UNCHANGED <<users, goods, chart, social, requestVars>>
  BY Known, GoodsType DEF TimePasses, Tick
<1>2. At(s)
  BY Known
<1>3. Began(s)'
  <2>1. pc[s] \notin {"idle", "done"} => seen[s].at \in Nat /\ seen[s].at <= clock
                                        /\ seen[s].at \in Instants
    BY <1>2, GoodsType DEF At, Began
  <2>2. pc' = pc /\ seen' = seen
    BY <1>1
  <2> QED BY <1>1, <2>1, <2>2 DEF Began
<1>4. Stage(s)' /\ Locked(s)'
  BY <1>1, <1>2 DEF At, Stage, Locked, Holds, RowOf
<1>5. ASSUME NEW u, NEW k, Cursed(u, k)'
      PROVE  Cursed(u, k)
  <2>1. PICK e \in effects' : e.target = u /\ e.until > clock' /\ e.kind = k
    BY <1>5 DEF Cursed, ActiveEffects
  <2>2. e \in effects /\ e.until \in Nat
    BY <1>1, <2>1, Known DEF TillTypeOK, Effect
  <2> QED BY <1>1, <2>1, <2>2 DEF Cursed, ActiveEffects
<1>6. UseRefused(req[s])' => UseRefused(req[s])
  BY <1>1, <1>5 DEF UseRefused
<1>7. Fresh(s)'
  BY <1>1, <1>2, <1>6 DEF At, Fresh, CanBuy, Owns, CanWear, IsNew, MayPick, Unlocked
<1> QED BY <1>3, <1>4, <1>7 DEF At

-----------------------------------------------------------------------------
(* All of it together.                                                     *)
LEMMA EconomyInit == Init => EconomyInv
<1> SUFFICES ASSUME Init PROVE EconomyInv
  OBVIOUS
<1>1. TillInv
  BY TillInvInit DEF Init
<1>2. RequestsOK
  BY CrowdsAssumption, BlankType DEF Init, RequestsInit, RequestsOK, LocksOK, Exclusive, Labels
<1>3. \A t \in Txn : pc[t] = "idle"
  BY DEF Init, RequestsInit
<1>4. \A t \in Txn : At(t)
  BY <1>3 DEF At, Began, Stage, Locked, Fresh
<1> QED BY <1>1, <1>2, <1>4 DEF EconomyInv

LEMMA EconomyStep ==
  ASSUME EconomyInv, [Next]_economyVars
  PROVE  EconomyInv' /\ [TillNext]_tillVars
<1>0. TillInv /\ RequestsOK /\ \A s \in Txn : At(s)
  BY DEF EconomyInv
<1>1. ASSUME NEW t \in Txn, RequestNext(t)
      PROVE  EconomyInv' /\ [TillNext]_tillVars
  <2>1. RequestsOK' /\ Frame(t) /\ At(t)' /\ [TillNext]_tillVars
    BY <1>1, RequestsMove DEF Moves
  <2>2. TillInv'
    BY <1>0, <2>1, TillInvStep
  <2>3. \A s \in Txn \ {t} : At(s)'
    BY <1>1, OthersStay
  <2> QED BY <2>1, <2>2, <2>3 DEF EconomyInv
<1>2. CASE TimePasses
  <2>1. TillNext /\ UNCHANGED requestVars
    BY <1>2 DEF TimePasses, TillNext
  <2>2. TillInv'
    BY <1>0, <2>1, TillInvStep
  <2>3. RequestsOK'
    BY <1>0, <2>1 DEF RequestsOK, LocksOK, Exclusive
  <2>4. \A s \in Txn : At(s)'
    BY <1>2, TimeStays
  <2> QED BY <2>1, <2>2, <2>3, <2>4 DEF EconomyInv
<1>3. CASE UNCHANGED economyVars
  <2>1. UNCHANGED <<tillVars, requestVars>>
    BY <1>3
  <2>2. TillInv'
    BY <1>0, <2>1, TillInvStep
  <2>3. RequestsOK'
    BY <1>0, <2>1 DEF RequestsOK, LocksOK, Exclusive
  <2>4. ASSUME NEW s \in Txn PROVE At(s)'
    <3>1. At(s)
      BY <1>0
    <3> QED BY <2>1, <3>1 DEF At, Began, Stage, Locked, Holds, RowOf, Fresh, CanBuy, Owns, CanWear,
               IsNew, MayPick, Unlocked, UseRefused, Cursed, ActiveEffects
  <2> QED BY <2>1, <2>2, <2>3, <2>4 DEF EconomyInv
<1> QED BY <1>1, <1>2, <1>3 DEF Next, RequestNext

(* What a request has read or decided before an await still holds at the
   statement that acts on it: the buyer can still pay and may still own one
   more, the boost still ends when it was seen to, the item is still owned and
   its use not refused since, a picture or title is still unlocked, and a
   respect or view is new exactly if its insert found no row. *)
DecisionsStillHold == \A t \in Txn : Fresh(t)
THEOREM DecisionsHold == Spec => []DecisionsStillHold
<1>1. EconomyInv => DecisionsStillHold
  BY DEF EconomyInv, At, DecisionsStillHold
<1>2. EconomyInv /\ [Next]_economyVars => EconomyInv'
  BY EconomyStep
<1> QED BY <1>1, <1>2, EconomyInit, PTL DEF Spec

(* The statements of the requests, however they interleave, wait, fail and
   are rolled back, change the rows as the operations of Till would, one at a
   time: a purchase, a use, a claim, a respect or a pick is atomic. *)
THEOREM RequestsAreAtomic == Spec => ImplementsTill
<1>1. Init => TillInit
  BY DEF Init
<1>2. EconomyInv /\ [Next]_economyVars => EconomyInv'
  BY EconomyStep
<1>3. EconomyInv /\ [Next]_economyVars => [TillNext]_tillVars
  BY EconomyStep
<1> QED BY <1>1, <1>2, <1>3, EconomyInit, PTL DEF Spec, ImplementsTill, TillSpec

(* Nobody shows what is not his: what the profile, the chat and the room show
   is owned, unlocked or paid for, however long after the check. *)
LEMMA InvShowsOwned == TillInv => NothingUnowned
<1> SUFFICES ASSUME TillInv PROVE NothingUnowned
  OBVIOUS
<1>0. TillTypeOK /\ Owned /\ Dressed /\ Paid
  BY DEF TillInv
<1>1. ShownSponsor # Nothing => Used(ShownSponsor, "aura_tax") > 0
  BY <1>0 DEF ShownSponsor, Paid
<1>2. ShowsSpotlight => \E u \in User : Used(u, "spotlight") > 0
  <2>1. clock \in Nat /\ room.spotlight \in Nat
    BY <1>0, GoodsType DEF TillTypeOK, RoomRow
  <2> QED BY <1>0, <2>1 DEF ShowsSpotlight, Paid
<1>3. ASSUME NEW u \in User, NEW i \in ShownCosmetics(u)
      PROVE  Owns(u, i)
  BY <1>0 DEF ShownCosmetics, Dressed, Worn
<1>4. ASSUME NEW u \in User, NEW w \in ShownWidgets(u)
      PROVE  Unlocked(u, w)
  <2>1. WidgetUnlocks("wanted_poster") = {}
    BY DEF WidgetUnlocks
  <2>2. Unlocked(u, "wanted_poster")
    BY <2>1 DEF Unlocked
  <2>3. w \in users[u].layout \/ w = "wanted_poster"
    BY <1>4 DEF ShownWidgets, When
  <2> QED BY <1>0, <2>2, <2>3 DEF Dressed
<1>5. \A u \in User : ShownMedals(u) \subseteq medals[u]
  BY <1>0 DEF ShownMedals, Dressed
<1> QED BY <1>0, <1>1, <1>2, <1>3, <1>4, <1>5 DEF NothingUnowned, Owned

(* What is worn, laid out, featured, sponsored or spotlit is owned, unlocked or
   paid for, however long after the check that let it through. *)
THEOREM NothingIsUnowned == Spec => []NothingUnowned
<1>1. EconomyInv => NothingUnowned
  BY InvShowsOwned DEF EconomyInv
<1>2. EconomyInv /\ [Next]_economyVars => EconomyInv'
  BY EconomyStep
<1> QED BY <1>1, <1>2, EconomyInit, PTL DEF Spec

-----------------------------------------------------------------------------
(* The histories: a streak is the run of the days granted, and who is told  *)
(* of a medal has it.                                                       *)
Run(S, d, n) == (d - n + 1)..d \subseteq S /\ d - n \notin S

LEMMA RunIsRun ==
  ASSUME NEW S \in SUBSET Nat, NEW d \in Nat, NEW n \in Nat \ {0}, Run(S, d, n)
  PROVE  RunTo(S, d) = n
<1>1. n \in 1..(d + 1)
  <2>1. ASSUME n > d + 1 PROVE FALSE
    <3>1. -1 \in (d - n + 1)..d
      BY <2>1
    <3> QED BY <3>1 DEF Run
  <2> QED BY <2>1
<1>2. ASSUME NEW m \in 1..(d + 1), Run(S, d, m)
      PROVE  m = n
  <2>1. m \in Nat
    OBVIOUS
  <2>2. ASSUME m < n PROVE FALSE
    <3>1. d - m \in (d - n + 1)..d
      BY <2>1, <2>2
    <3> QED BY <3>1, <1>2 DEF Run
  <2>3. ASSUME n < m PROVE FALSE
    <3>1. d - n \in (d - m + 1)..d
      BY <2>1, <2>3
    <3> QED BY <3>1, <1>2 DEF Run
  <2> QED BY <2>1, <2>2, <2>3
<1> HIDE DEF Run
<1>3. RunsTo(S, d) = {m \in 1..(d + 1) : Run(S, d, m)}
  BY DEF RunsTo, Run
<1>4. RunsTo(S, d) = {n}
  BY <1>1, <1>2, <1>3
<1> QED BY <1>4 DEF RunTo

StreakOf(u) ==
  /\ stipends[u] \subseteq Nat /\ IsFiniteSet(stipends[u])
  /\ stipends[u] = {} => users[u].claimed = Never
  /\ users[u].claimed = Never => stipends[u] = {}
  /\ stipends[u] # {} =>
       LET d == Day(users[u].claimed) IN
       /\ users[u].streak \in Nat \ {0}
       /\ \A e \in stipends[u] : e <= d
       /\ d \in Nat /\ Run(stipends[u], d, users[u].streak)

Told ==
  /\ unlocks \subseteq Txn \X User \X Medals
  /\ \A x \in unlocks : x[3] \in medals[x[2]]
  /\ ToldOnce

Histories ==
  /\ announced \in [Boosts \cup {"spotlight"} -> Nat]
  /\ stipends \in [User -> SUBSET Nat]
  /\ \A u \in User : StreakOf(u)
  /\ Told

LEMMA HistoriesInit == Init => Histories
<1> SUFFICES ASSUME Init PROVE Histories
  OBVIOUS
<1>1. DOMAIN posts = Boosts \cup {"spotlight"}
  BY DEF Init, TillInit
<1>2. announced \in [Boosts \cup {"spotlight"} -> Nat] /\ stipends \in [User -> SUBSET Nat]
  BY <1>1 DEF Init
<1>3. \A u \in User : stipends[u] = {} /\ users[u].claimed = Never
  BY DEF Init, TillInit
<1>4. \A u \in User : StreakOf(u)
  BY <1>3, FS_EmptySet DEF StreakOf
<1>5. Told
  BY DEF Init, Told, ToldOnce
<1> QED BY <1>2, <1>4, <1>5 DEF Histories

(* Only a claim touches what a streak is about. *)
LEMMA StreakChanges ==
  ASSUME EconomyInv, NEW t \in Txn, RequestNext(t), ~Claim(t)
  PROVE  \A u \in User :
           users'[u].claimed = users[u].claimed /\ users'[u].streak = users[u].streak
<1>0. users \in [User -> UserRow]
  BY Known DEF TillTypeOK
<1>1. CASE Grant(t)
  BY <1>0, <1>1 DEF Grant, WithAura, UserRow
<1>2. CASE OpenMysterySoap(t)
  BY <1>0, <1>2 DEF OpenMysterySoap, WithAura, UserRow
<1>3. CASE Farm(t) \/ PayDebt(t)
  BY <1>0, <1>3 DEF Farm, PayDebt, UserRow
<1>5. CASE ApplyForgiveness(t)
  BY <1>0, <1>5 DEF ApplyForgiveness, UserRow
<1>7. CASE CountRespect(t) \/ CountView(t)
  BY <1>0, <1>7 DEF CountRespect, CountView, UserRow
<1>9. CASE WritePick(t)
  BY <1>0, <1>9 DEF WritePick, UserRow
<1> QED BY <1>1, <1>2, <1>3, <1>5, <1>7, <1>9, Writers DEF ApplyCurse, ApplyBoost,
           ApplySpotlight, Wear, UnlockMedal, Moderate

LEMMA StreakGrows ==
  ASSUME NEW S \in SUBSET Nat, IsFiniteSet(S), NEW c \in Nat, NEW n \in Nat \ {0}, NEW d \in Nat,
         \A e \in S : e <= c, Run(S, c, n), c < d
  PROVE  /\ IsFiniteSet(S \cup {d}) /\ \A e \in S \cup {d} : e <= d
         /\ c >= d - 1 => Run(S \cup {d}, d, n + 1)
         /\ ~(c >= d - 1) => Run(S \cup {d}, d, 1)
<1>1. IsFiniteSet(S \cup {d}) /\ \A e \in S \cup {d} : e <= d
  BY FS_AddElement
<1>2. ASSUME c >= d - 1
      PROVE  Run(S \cup {d}, d, n + 1)
  <2>1. c = d - 1 /\ d - (n + 1) = c - n /\ d - (n + 1) # d
    BY <1>2
  <2>2. ASSUME NEW e \in (d - (n + 1) + 1)..d
        PROVE  e \in S \cup {d}
    <3>1. e = d \/ e \in (c - n + 1)..c
      BY <2>1
    <3> QED BY <3>1 DEF Run
  <2> QED BY <2>1, <2>2 DEF Run
<1>3. ASSUME ~(c >= d - 1)
      PROVE  Run(S \cup {d}, d, 1)
  <2>1. d - 1 \notin S /\ d - 1 # d /\ \A e \in (d - 1 + 1)..d : e = d
    BY <1>3
  <2> QED BY <2>1 DEF Run
<1> QED BY <1>1, <1>2, <1>3

LEMMA ClaimStreaks ==
  ASSUME EconomyInv, Histories, NEW t \in Txn, Claim(t), NEW u \in User
  PROVE  StreakOf(u)' /\ stipends' \in [User -> SUBSET Nat]
<1> DEFINE v == req[t].by
           now == seen[t].at
           d == Day(now)
           s == users[u].streak
           c == users[u].claimed
<1>0. users \in [User -> UserRow] /\ stipends \in [User -> SUBSET Nat] /\ StreakOf(u)
  BY Known DEF TillTypeOK, Histories
<1>1. now \in Instants /\ now \in Nat /\ d \in Nat /\ v \in User
  BY Known, GoodsType, DayType DEF Claim, At, Began
<1>2. stipends' \in [User -> SUBSET Nat]
  BY <1>0, <1>1 DEF Claim
<1>3. CASE CanClaim(v, now) /\ u = v
  <2>1. users'[u].claimed = now /\ users'[u].streak = StreakAt(u, now)
    BY <1>0, <1>3 DEF Claim, Claimed, UserRow
  <2>2. stipends'[u] = stipends[u] \cup {d}
    BY <1>0, <1>3 DEF Claim
  <2>3. now # Never
    BY <1>1 DEF Never
  <2>4. CASE c = Never
    <3>1. stipends[u] = {} /\ StreakAt(u, now) = 1
      BY <1>0, <2>4 DEF StreakOf, StreakAt
    <3>2. stipends'[u] = {d} /\ IsFiniteSet({d})
      BY <2>2, <3>1, FS_EmptySet, FS_AddElement
    <3>3. Run({d}, d, 1)
      BY <1>1 DEF Run
    <3> QED BY <1>1, <1>2, <2>1, <2>3, <3>1, <3>2, <3>3 DEF StreakOf
  <2>5. CASE c # Never
    <3>1. /\ Day(c) \in Nat /\ s \in Nat \ {0} /\ Run(stipends[u], Day(c), s)
          /\ \A e \in stipends[u] : e <= Day(c)
          /\ stipends[u] \in SUBSET Nat /\ IsFiniteSet(stipends[u])
      BY <1>0, <2>5 DEF StreakOf
    <3>2. Day(c) < d
      BY <1>3, <2>5 DEF CanClaim
    <3>3. StreakAt(u, now) = IF Day(c) >= d - 1 THEN s + 1 ELSE 1
      BY <2>5 DEF StreakAt
    <3> DEFINE S == stipends[u]
               m == Day(c)
    <3>4. /\ IsFiniteSet(S \cup {d}) /\ \A e \in S \cup {d} : e <= d
          /\ m >= d - 1 => Run(S \cup {d}, d, s + 1)
          /\ ~(m >= d - 1) => Run(S \cup {d}, d, 1)
      <4> HIDE DEF S, m, d, s
      <4> QED BY <1>1, <3>1, <3>2, StreakGrows DEF S, m
    <3>5. Run(stipends'[u], d, users'[u].streak) /\ users'[u].streak \in Nat \ {0}
      BY <2>1, <2>2, <3>1, <3>3, <3>4
    <3> QED BY <1>1, <1>2, <2>1, <2>2, <2>3, <3>4, <3>5 DEF StreakOf
  <2> QED BY <2>4, <2>5
<1>4. CASE ~(CanClaim(v, now) /\ u = v)
  <2>1. stipends'[u] = stipends[u] /\ users'[u].claimed = users[u].claimed
        /\ users'[u].streak = users[u].streak
    BY <1>0, <1>4 DEF Claim, Claimed, UserRow
  <2> QED BY <1>0, <1>2, <2>1 DEF StreakOf
<1> QED BY <1>2, <1>3, <1>4

(* The histories of the shop, after a step of one request. *)
LEMMA ShopHistories ==
  ASSUME EconomyInv, Histories, NEW t \in Txn, RequestNext(t),
         ShopNext(t) \/ UNCHANGED shopHistory
  PROVE  /\ announced' \in [Boosts \cup {"spotlight"} -> Nat]
         /\ stipends' \in [User -> SUBSET Nat]
         /\ \A u \in User : StreakOf(u)'
<1>0. announced \in [Boosts \cup {"spotlight"} -> Nat] /\ stipends \in [User -> SUBSET Nat]
      /\ \A u \in User : StreakOf(u)
  BY DEF Histories
<1>1. CASE Claim(t)
  <2>1. announced' = announced
    BY <1>1 DEF Claim
  <2>2. stipends' \in [User -> SUBSET Nat]
    BY <1>1, ClaimStreaks, PeopleAssumption
  <2> QED BY <1>0, <1>1, <2>1, <2>2, ClaimStreaks
<1>2. CASE Announce(t)
  <2>1. req[t].item \in Boosts \cup {"spotlight"} /\ stipends' = stipends /\ ~Claim(t)
        /\ announced' = [announced EXCEPT ![req[t].item] = @ + 1]
    BY <1>2, Known DEF Announce, Claim, At, Stage, Under
  <2>2. \A u \in User : StreakOf(u)'
    BY <1>0, <2>1, StreakChanges DEF StreakOf
  <2> QED BY <1>0, <2>1, <2>2
<1>3. CASE ~Claim(t) /\ UNCHANGED shopHistory
  <2>1. \A u \in User : StreakOf(u)'
    BY <1>0, <1>3, StreakChanges DEF StreakOf
  <2> QED BY <1>0, <1>3, <2>1
<1>4. ShopNext(t) => Claim(t) \/ Announce(t) \/ UNCHANGED shopHistory
  BY DEF ShopNext, LockRow, Charge, ChargeRefused, Grant, OpenMysterySoap, ReadMessage, RefuseUse,
     Consume, ApplyCurse, ApplyBoost, ApplySpotlight, ApplyForgiveness, Farm, PayDebt,
     CheckWear, WearRefused, Wear
<1> QED BY <1>1, <1>2, <1>3, <1>4

(* The unlock events, after a step of one request. *)
LEMMA ToldStays ==
  ASSUME EconomyInv, Histories, NEW t \in Txn, RequestNext(t),
         ProfileNext(t) \/ UNCHANGED unlocks
  PROVE  Told'
<1>0. Told /\ TillTypeOK /\ TillTypeOK'
  BY RequestsMove, TillTypeStep, Known DEF Moves, Histories
<1>1. \A u \in User : medals[u] \subseteq medals'[u]
  BY <1>0, RequestsMove, AllGrow DEF Moves
<1>2. CASE UNCHANGED unlocks
  BY <1>0, <1>1, <1>2 DEF Told, ToldOnce
<1>3. CASE UnlockMedal(t)
  <2>1. PICK key \in seen[t].keys :
          /\ medals' = [medals EXCEPT ![Subject(req[t])] = @ \cup {key}]
          /\ unlocks' = IF key \in medals[Subject(req[t])] THEN unlocks
                        ELSE unlocks \cup {<<t, Subject(req[t]), key>>}
    BY <1>3 DEF UnlockMedal
  <2> DEFINE u == Subject(req[t])
  <2>2. u \in User /\ key \in Medals
    BY SubjectType, Known DEF Seen
  <2>3. CASE key \in medals[u]
    BY <1>2, <2>1, <2>3
  <2>4. CASE key \notin medals[u]
    <3> DEFINE new == <<t, u, key>>
    <3>1. unlocks' = unlocks \cup {new} /\ key \in medals'[u]
      BY <1>0, <2>1, <2>2, <2>4 DEF TillTypeOK
    <3>2. new \in Txn \X User \X Medals /\ new[1] = t /\ new[2] = u /\ new[3] = key
      BY <2>2
    <3>3. \A x \in unlocks : ~(x[2] = u /\ x[3] = key)
      BY <1>0, <2>4 DEF Told
    <3> HIDE DEF new, u
    <3>4. unlocks' \subseteq Txn \X User \X Medals
      BY <1>0, <3>1, <3>2 DEF Told
    <3>5. \A x \in unlocks : x[2] \in User
      BY <1>0 DEF Told
    <3>6. \A x \in unlocks' : x[3] \in medals'[x[2]]
      BY <1>0, <1>1, <3>1, <3>2, <3>5 DEF Told
    <3>7. ToldOnce'
      BY <1>0, <3>1, <3>2, <3>3 DEF Told, ToldOnce
    <3> QED BY <3>4, <3>6, <3>7 DEF Told
  <2> QED BY <2>3, <2>4
<1>4. ProfileNext(t) => UnlockMedal(t) \/ UNCHANGED unlocks
  BY DEF ProfileNext, Insert, InsertRefused, CountRespect, CountView, CheckPick, PickRefused,
     WritePick, Evaluate, MedalLost, Answer
<1> QED BY <1>2, <1>3, <1>4

LEMMA HistoriesStep ==
  ASSUME EconomyInv, Histories, [Next]_economyVars
  PROVE  Histories'
<1>1. ASSUME NEW t \in Txn,
             RequestNext(t), ShopNext(t) \/ UNCHANGED shopHistory, ProfileNext(t) \/ UNCHANGED unlocks
      PROVE  Histories'
  BY <1>1, ShopHistories, ToldStays DEF Histories
<1>2. CASE TimePasses \/ UNCHANGED economyVars
  <2>1. UNCHANGED <<users, medals, announced, stipends, unlocks>>
    BY <1>2 DEF TimePasses, Tick
  <2> QED BY <2>1 DEF Histories, StreakOf, Told, ToldOnce
<1> QED BY <1>1, <1>2 DEF Next, RequestNext

LEMMA FullInv ==
  /\ Init => EconomyInv /\ Histories
  /\ (EconomyInv /\ Histories) /\ [Next]_economyVars => (EconomyInv /\ Histories)'
  BY EconomyInit, HistoriesInit, EconomyStep, HistoriesStep

(* Every column, request, lock and history stays in its type. *)
THEOREM TypeCorrect == Spec => []TypeOK
<1>1. EconomyInv /\ Histories => TypeOK
  BY DEF EconomyInv, TillInv, RequestsOK, Histories, Told, TypeOK
<1> QED BY <1>1, FullInv, PTL DEF Spec

(* A permanent item is owned once, curses of a kind do not overlap, respects
   and views are counted once, a streak is a run of days, and a user is told
   of a medal by one request, whoever asks at the same time. *)
LEMMA InvKeepsOnce == EconomyInv /\ Histories => NothingTwice
<1> SUFFICES ASSUME EconomyInv, Histories PROVE NothingTwice
  OBVIOUS
<1>1. OwnedOnce /\ CursesApart /\ CountedOnce /\ ToldOnce
  BY DEF EconomyInv, TillInv, Owned, Countable, Histories, Told
<1>2. ASSUME NEW u \in User, stipends[u] # {}
      PROVE  users[u].streak = RunTo(stipends[u], Day(users[u].claimed))
  <2> DEFINE S == stipends[u]
             d == Day(users[u].claimed)
             n == users[u].streak
  <2>1. S \in SUBSET Nat /\ IsFiniteSet(S) /\ d \in Nat /\ n \in Nat \ {0} /\ Run(S, d, n)
    BY <1>2 DEF Histories, StreakOf
  <2> HIDE DEF S, d, n
  <2>2. RunTo(S, d) = n
    BY <2>1, RunIsRun
  <2> QED BY <2>2 DEF S, d, n
<1> QED BY <1>1, <1>2 DEF NothingTwice, StreaksAreRuns

(* What happens once happens once: permanent items, curses of a kind, the days
   of a streak, respects, views and the news of a medal. *)
THEOREM NothingIsDoneTwice == Spec => []NothingTwice
  BY FullInv, InvKeepsOnce, PTL DEF Spec

-----------------------------------------------------------------------------
(* The books: a stimulus is what its claim gave, and a room hears of what   *)
(* was posted.                                                              *)
LEMMA EarlierRun ==
  ASSUME NEW S \in SUBSET Nat, NEW d \in Nat, NEW e \in Nat, e < d
  PROVE  RunTo(S \cup {d}, e) = RunTo(S, e)
<1>1. \A n \in 1..(e + 1) : d \notin (e - n + 1)..e /\ d # e - n
  OBVIOUS
<1>2. \A n \in 1..(e + 1) : (e - n + 1)..e \subseteq S \cup {d} <=> (e - n + 1)..e \subseteq S
  BY <1>1
<1>3. RunsTo(S \cup {d}, e) = RunsTo(S, e)
  BY <1>1, <1>2 DEF RunsTo
<1> QED BY <1>3 DEF RunTo

Stimuli(u) == [d \in stipends[u] |-> Stimulus(RunTo(stipends[u], d))]
CreditOf(u) ==
  /\ Income(u) = StartAura + StimuliOf(u)
  /\ \A d \in stipends[u] : RunTo(stipends[u], d) \in Nat

LEMMA StimulusType == \A n \in Nat : Stimulus(n) \in Int
  BY DEF Stimulus

LEMMA StimuliAre ==
  ASSUME Histories, NEW u \in User, CreditOf(u)
  PROVE  /\ IntsOn(Stimuli(u), stipends[u]) /\ StimuliOf(u) \in Int
         /\ StimuliOf(u) = SumFunctionOnSet(Stimuli(u), stipends[u])
<1>1. IsFiniteSet(stipends[u])
  BY DEF Histories, StreakOf
<1>2. \A d \in stipends[u] : Stimuli(u)[d] \in Int
  BY StimulusType DEF Stimuli, CreditOf
<1>3. IntsOn(Stimuli(u), stipends[u])
  BY <1>1, <1>2 DEF IntsOn
<1>4. StimuliOf(u) = SumFunctionOnSet(Stimuli(u), stipends[u])
  BY DEF StimuliOf, Stimuli, SumFunction
<1> QED BY <1>3, <1>4, SumOfSame

LEMMA CreditInit == Init => \A u \in User : CreditOf(u)
<1> SUFFICES ASSUME Init, NEW u \in User PROVE CreditOf(u)
  OBVIOUS
<1>0. TillInit /\ TillTypeOK
  BY TillTypeInit DEF Init
<1>1. stipends[u] = {} /\ purchases = Stock /\ inventory = Stock
      /\ users[u].aura = StartAura /\ users[u].farmed = 0
  BY DEF Init, TillInit
<1>2. StimuliOf(u) = 0
  <2>1. StimuliOf(u) = SumFunctionOnSet(Stimuli(u), {})
    BY <1>1 DEF StimuliOf, Stimuli, SumFunction
  <2> QED BY <2>1, SumOfNone
<1>3. \A i \in Goods : Stock[u][i] \in Nat /\ Price(i) \in Nat
  BY StockAssumption, GoodsType, PriceIsNat
<1>4. Spent(u) = 0
  <2>1. \A i \in Goods : Cost(u)[i] = 0
    BY <1>1, <1>3 DEF Cost
  <2>2. IntsOn(Cost(u), Goods) /\ Spent(u) = SumFunctionOnSet(Cost(u), Goods)
    BY <1>0, SpentType
  <2> DEFINE f == Cost(u)
  <2>3. SumFunctionOnSet(f, Goods) = 0
    <3>1. IntsOn(f, Goods) /\ \A i \in Goods : f[i] = 0
      BY <2>1, <2>2
    <3> HIDE DEF f
    <3> QED BY <3>1, SumOfZeros
  <2> QED BY <2>2, <2>3
<1>5. SoapsRefunded(u) = 0
  <2>1. FromSoaps(u) = {}
    BY <1>1, <1>3 DEF FromSoaps
  <2>2. Cardinality(FromSoaps(u)) = 0
    BY <2>1, FS_EmptySet
  <2> QED BY <1>1, <1>3, <2>2 DEF SoapsRefunded
<1> QED BY <1>1, <1>2, <1>4, <1>5, StartAssumption, RefundIsNat DEF CreditOf, Income

(* The sum of the stimuli after a claim. *)
LEMMA OneMoreStimulus ==
  ASSUME Histories, Histories', NEW u \in User, CreditOf(u), NEW d \in Nat,
         stipends'[u] = stipends[u] \cup {d}, \A e \in stipends[u] : e < d,
         Run(stipends'[u], d, users'[u].streak), users'[u].streak \in Nat \ {0}
  PROVE  /\ StimuliOf(u)' = StimuliOf(u) + Stimulus(users'[u].streak)
         /\ \A e \in stipends'[u] : RunTo(stipends'[u], e) \in Nat
<1> DEFINE S == stipends[u]
           T == stipends'[u]
           f == Stimuli(u)
           g == Stimuli(u)'
<1>1. S \in SUBSET Nat /\ T \in SUBSET Nat /\ T = S \cup {d} /\ d \notin S
  BY DEF Histories
<1>2. RunTo(T, d) = users'[u].streak
  <2> HIDE DEF T
  <2>1. T \in SUBSET Nat /\ Run(T, d, users'[u].streak)
    BY <1>1 DEF T
  <2> QED BY <2>1, RunIsRun
<1>3. \A e \in S : RunTo(T, e) = RunTo(S, e)
  BY <1>1, EarlierRun
<1>4. \A e \in T : RunTo(T, e) \in Nat
  BY <1>1, <1>2, <1>3 DEF CreditOf
<1>5. g = [e \in T |-> Stimulus(RunTo(T, e))] /\ f = [e \in S |-> Stimulus(RunTo(S, e))]
  BY DEF Stimuli
<1>6. g[d] = Stimulus(users'[u].streak) /\ g[d] \in Int /\ \A e \in S : f[e] = g[e]
  BY <1>1, <1>2, <1>3, <1>4, <1>5, StimulusType
<1>7. IntsOn(f, S) /\ StimuliOf(u) = SumFunctionOnSet(f, S)
  BY StimuliAre
<1>8. StimuliOf(u)' = SumFunctionOnSet(g, T)
  BY DEF StimuliOf, Stimuli, SumFunction
<1>9. SumFunctionOnSet(g, T) = SumFunctionOnSet(f, S) + g[d]
  <2> HIDE DEF f, g, S, T
  <2>1. IntsOn(g, S) /\ SumFunctionOnSet(f, S) = SumFunctionOnSet(g, S)
    BY <1>6, <1>7, SumOfSame DEF IntsOn
  <2>2. SumFunctionOnSet(g, S \cup {d}) = SumFunctionOnSet(g, S) + g[d]
    BY <1>1, <1>6, <2>1, SumOfOneMore
  <2> QED BY <1>1, <2>1, <2>2
<1> QED BY <1>4, <1>6, <1>7, <1>8, <1>9

LEMMA CreditStep ==
  ASSUME EconomyInv, Histories, Histories', NEW u \in User, CreditOf(u),
         [TillNext]_tillVars,
         \/ \E t \in Txn : Claim(t)
         \/ stipends' = stipends /\ users'[u].claimed = users[u].claimed
  PROVE  CreditOf(u)'
<1>1. Income(u)' = Income(u) + Gift(u)
  BY IncomeStep DEF EconomyInv, TillInv, Kept
<1>2. StimuliOf(u) \in Int /\ Income(u) = StartAura + StimuliOf(u) /\ StartAura \in Int
  BY StimuliAre, StartAssumption DEF CreditOf
<1>3. CASE stipends' = stipends /\ users'[u].claimed = users[u].claimed
  <2>1. Gift(u) = 0 /\ StimuliOf(u)' = StimuliOf(u)
    BY <1>3 DEF Gift, StimuliOf
  <2> QED BY <1>1, <1>2, <1>3, <2>1 DEF CreditOf
<1>4. ASSUME NEW t \in Txn, Claim(t)
      PROVE  CreditOf(u)'
  <2> DEFINE v == req[t].by
             now == seen[t].at
             d == Day(now)
             c == users[u].claimed
  <2>0. users \in [User -> UserRow] /\ StreakOf(u) /\ StreakOf(u)'
    BY Known, <1>4 DEF TillTypeOK, Histories
  <2>1. now \in Nat /\ d \in Nat /\ v \in User
    BY <1>4, Known, GoodsType, DayType DEF Claim, At, Began
  <2>2. CASE CanClaim(v, now) /\ u = v
    <3>a. users \in [User -> UserRow] /\ users' = Claimed(u, now)
      BY <1>4, <2>0, <2>2 DEF Claim
    <3>1. users'[u].claimed = now
      BY <3>a DEF Claimed, UserRow
    <3>2. stipends'[u] = stipends[u] \cup {d}
      BY <1>4, <2>2 DEF Claim, Histories
    <3>3. \A e \in stipends[u] : e < d
      BY <2>0, <2>1, <2>2 DEF StreakOf, CanClaim
    <3>4. users'[u].streak \in Nat \ {0} /\ Run(stipends'[u], d, users'[u].streak)
      BY <2>0, <3>1, <3>2 DEF StreakOf
    <3>5. StimuliOf(u)' = StimuliOf(u) + Stimulus(users'[u].streak)
          /\ \A e \in stipends'[u] : RunTo(stipends'[u], e) \in Nat
      <4> HIDE DEF d
      <4> QED BY <2>1, <3>2, <3>3, <3>4, OneMoreStimulus
    <3>6. c # now
      BY <2>1, <2>2 DEF CanClaim, Never
    <3>7. Gift(u) = Stimulus(users'[u].streak) /\ Gift(u) \in Int
      BY <3>1, <3>4, <3>6, StimulusType DEF Gift
    <3>8. Income(u)' = StartAura + StimuliOf(u)'
      <4> DEFINE x == StimuliOf(u)
                 y == Gift(u)
      <4>1. x \in Int /\ y \in Int /\ Income(u)' = (StartAura + x) + y /\ StimuliOf(u)' = x + y
        BY <1>1, <1>2, <3>5, <3>7
      <4> HIDE DEF x, y
      <4> QED BY <1>2, <4>1
    <3> QED BY <3>5, <3>8 DEF CreditOf
  <2>3. CASE ~(CanClaim(v, now) /\ u = v)
    <3>1. stipends'[u] = stipends[u] /\ users'[u].claimed = users[u].claimed
      BY <1>4, <2>0, <2>3 DEF Claim, Claimed, UserRow, Histories
    <3>2. Gift(u) = 0 /\ StimuliOf(u)' = StimuliOf(u)
      BY <3>1 DEF Gift, StimuliOf
    <3> QED BY <1>1, <1>2, <3>1, <3>2 DEF CreditOf
  <2> QED BY <2>2, <2>3
<1> QED BY <1>3, <1>4

(* The requests that have committed a post and still have to tell the room. *)
Telling == {t \in Txn : pc[t] = "announce"}
TellingOf(k) == {t \in Telling : req[t].item = k}
Heard ==
  /\ IsFiniteSet(Telling)
  /\ \A k \in Under : announced[k] + Cardinality(TellingOf(k)) <= posts[k]

LEMMA TellingType ==
  ASSUME IsFiniteSet(Telling), NEW k
  PROVE  IsFiniteSet(TellingOf(k)) /\ Cardinality(TellingOf(k)) \in Nat
<1>1. TellingOf(k) \subseteq Telling
  BY DEF TellingOf
<1> QED BY <1>1, FS_Subset, FS_CardinalityType

LEMMA HeardInit == Init => Heard
<1> SUFFICES ASSUME Init PROVE Heard
  OBVIOUS
<1>1. Telling = {} /\ \A k : TellingOf(k) = {}
  BY DEF Init, RequestsInit, Telling, TellingOf
<1>2. posts = [k \in Under |-> 0] /\ announced = [k \in Under |-> 0]
  BY DEF Init, TillInit, Under
<1> QED BY <1>1, <1>2, FS_EmptySet DEF Heard

(* A step that tells the room nothing and posts nothing. *)
LEMMA HeardStays ==
  ASSUME Heard, RequestsOK, NEW t \in Txn, Frame(t), pc'[t] # "announce",
         posts' = posts, announced' = announced, announced \in [Under -> Nat], posts \in [Under -> Nat]
  PROVE  Heard'
<1>1. Telling' = Telling \ {t}
  BY DEF Frame, Telling
<1>2. \A k : TellingOf(k)' \subseteq TellingOf(k)
  BY <1>1 DEF Frame, TellingOf
<1>3. IsFiniteSet(Telling) /\ IsFiniteSet(Telling')
  BY <1>1, FS_RemoveElement DEF Heard
<1>4. ASSUME NEW k \in Under
      PROVE  announced'[k] + Cardinality(TellingOf(k)') <= posts'[k]
  <2>1. IsFiniteSet(TellingOf(k)) /\ Cardinality(TellingOf(k)) \in Nat
    BY <1>3, TellingType
  <2>2. Cardinality(TellingOf(k)') \in Nat /\ Cardinality(TellingOf(k)') <= Cardinality(TellingOf(k))
    BY <1>2, <2>1, FS_Subset, FS_CardinalityType
  <2> QED BY <2>1, <2>2 DEF Heard
<1> QED BY <1>3, <1>4 DEF Heard

(* Who posts still has to tell the room. *)
LEMMA PostHeard ==
  ASSUME Heard, RequestsOK, NEW t \in Txn, Frame(t), pc[t] # "announce", pc'[t] = "announce",
         NEW i \in Under, i = req[t].item, posts' = [posts EXCEPT ![i] = @ + 1],
         announced' = announced, announced \in [Under -> Nat], posts \in [Under -> Nat]
  PROVE  Heard'
<1>1. Telling' = Telling \cup {t} /\ t \notin Telling
  BY DEF Frame, Telling
<1>2. IsFiniteSet(Telling) /\ IsFiniteSet(Telling')
  BY <1>1, FS_AddElement DEF Heard
<1>3. ASSUME NEW k \in Under
      PROVE  announced'[k] + Cardinality(TellingOf(k)') <= posts'[k]
  <2>1. IsFiniteSet(TellingOf(k)) /\ Cardinality(TellingOf(k)) \in Nat
    BY <1>2, TellingType
  <2>2. CASE k = i
    <3>1. TellingOf(k)' = TellingOf(k) \cup {t} /\ t \notin TellingOf(k)
      BY <1>1, <2>2 DEF Frame, TellingOf
    <3>2. Cardinality(TellingOf(k)') = Cardinality(TellingOf(k)) + 1
      BY <2>1, <3>1, FS_AddElement
    <3> QED BY <2>1, <2>2, <3>2 DEF Heard
  <2>3. CASE k # i
    <3>1. TellingOf(k)' = TellingOf(k)
      BY <1>1, <2>3 DEF Frame, TellingOf
    <3> QED BY <2>1, <2>3, <3>1 DEF Heard
  <2> QED BY <2>2, <2>3
<1> QED BY <1>2, <1>3 DEF Heard

LEMMA AnnounceHeard ==
  ASSUME Heard, RequestsOK, NEW t \in Txn, Frame(t), pc[t] = "announce", pc'[t] = "done",
         NEW i \in Under, i = req[t].item, announced' = [announced EXCEPT ![i] = @ + 1],
         posts' = posts, announced \in [Under -> Nat], posts \in [Under -> Nat]
  PROVE  Heard'
<1>1. Telling' = Telling \ {t} /\ t \in Telling
  BY DEF Frame, Telling
<1>2. IsFiniteSet(Telling) /\ IsFiniteSet(Telling')
  BY <1>1, FS_RemoveElement DEF Heard
<1>3. ASSUME NEW k \in Under
      PROVE  announced'[k] + Cardinality(TellingOf(k)') <= posts'[k]
  <2>1. IsFiniteSet(TellingOf(k)) /\ Cardinality(TellingOf(k)) \in Nat
    BY <1>2, TellingType
  <2>2. CASE k = i
    <3>1. TellingOf(k)' = TellingOf(k) \ {t} /\ t \in TellingOf(k)
      BY <1>1, <2>2 DEF Frame, TellingOf
    <3>2. Cardinality(TellingOf(k)') = Cardinality(TellingOf(k)) - 1
      BY <2>1, <3>1, FS_RemoveElement
    <3> QED BY <2>1, <2>2, <3>2 DEF Heard
  <2>3. CASE k # i
    <3>1. TellingOf(k)' = TellingOf(k)
      BY <1>1, <2>3 DEF Frame, TellingOf
    <3> QED BY <2>1, <2>3, <3>1 DEF Heard
  <2> QED BY <2>2, <2>3
<1> QED BY <1>2, <1>3 DEF Heard

(* Only a post is announced, and only a boost or a spotlight posts. *)
LEMMA WhoPosts ==
  ASSUME EconomyInv, NEW t \in Txn, RequestNext(t), ~ApplyBoost(t), ~ApplySpotlight(t)
  PROVE  pc'[t] # "announce" /\ posts' = posts
<1>0. pc \in [Txn -> Labels]
  BY DEF EconomyInv, RequestsOK
<1>1. posts' = posts
  BY Writers DEF Grant, OpenMysterySoap, ApplyCurse, ApplyForgiveness, Claim, Farm, PayDebt, Wear,
     CountRespect, CountView, WritePick, UnlockMedal, Moderate
<1>2. \A l : Goto(t, l) => pc'[t] = l
  BY <1>0 DEF Goto
<1>3. ASSUME Begin(t)
      PROVE  pc'[t] # "announce"
  <2>1. Start(req[t]) # "announce"
    BY Known DEF Start, Request, Operation, Valid, Usable
  <2> QED BY <1>2, <1>3, <2>1 DEF Begin
<1>4. ASSUME ShopNext(t)
      PROVE  pc'[t] # "announce"
  BY <1>2, <1>4 DEF ShopNext, LockRow, Charge, ChargeRefused, Grant, OpenMysterySoap, ReadMessage,
     RefuseUse, Consume, ApplyCurse, ApplyForgiveness, Announce, Claim, Farm, PayDebt, CheckWear,
     WearRefused, Wear, Step, Commit, Finish, Abort
<1>5. ASSUME ProfileNext(t)
      PROVE  pc'[t] # "announce"
  BY <1>2, <1>5 DEF ProfileNext, Insert, InsertRefused, CountRespect, CountView, CheckPick,
     PickRefused, WritePick, Evaluate, UnlockMedal, MedalLost, Answer, Step, Commit, Finish, Abort
<1>6. ASSUME Fail(t) \/ DetectDeadlock(t) \/ Moderate(t)
      PROVE  pc'[t] # "announce"
  BY <1>2, <1>6 DEF Fail, DetectDeadlock, Moderate, Commit, Finish, Abort
<1> QED BY <1>1, <1>3, <1>4, <1>5, <1>6 DEF RequestNext

LEMMA HeardStep ==
  ASSUME EconomyInv, Histories, Heard, NEW t \in Txn, RequestNext(t),
         ShopNext(t) \/ UNCHANGED shopHistory
  PROVE  Heard'
<1>0. /\ Frame(t) /\ RequestsOK /\ announced \in [Under -> Nat] /\ posts \in [Under -> Nat]
      /\ At(t)
  BY RequestsMove, Known DEF Moves, Histories, TillTypeOK, Under
<1>1. CASE ApplyBoost(t) \/ ApplySpotlight(t)
  <2>1. pc[t] # "announce" /\ pc'[t] = "announce" /\ announced' = announced
        /\ req[t].item \in Under /\ posts' = [posts EXCEPT ![req[t].item] = @ + 1]
    BY <1>1, <1>0 DEF ApplyBoost, ApplySpotlight, Commit, Goto, Under, RequestsOK
  <2> QED BY <1>0, <2>1, PostHeard
<1>2. CASE Announce(t)
  <2>1. pc[t] = "announce" /\ pc'[t] = "done" /\ req[t].item \in Under /\ posts' = posts
        /\ announced' = [announced EXCEPT ![req[t].item] = @ + 1]
    BY <1>2, <1>0 DEF Announce, Finish, Commit, Goto, RequestsOK, At, Stage
  <2> QED BY <1>0, <2>1, AnnounceHeard
<1>3. CASE ~ApplyBoost(t) /\ ~ApplySpotlight(t) /\ ~Announce(t)
  <2>1. announced' = announced
    BY <1>3 DEF ShopNext, LockRow, Charge, ChargeRefused, Grant, OpenMysterySoap, ReadMessage,
       RefuseUse, Consume, ApplyCurse, ApplyForgiveness, Claim, Farm, PayDebt, CheckWear,
       WearRefused, Wear
  <2>2. pc'[t] # "announce" /\ posts' = posts
    BY <1>3, WhoPosts
  <2> QED BY <1>0, <2>1, <2>2, HeardStays
<1> QED BY <1>1, <1>2, <1>3

Books == (\A u \in User : CreditOf(u)) /\ Heard
FullerInv == EconomyInv /\ Histories /\ Books

LEMMA BooksInit == Init => FullerInv
  BY FullInv, CreditInit, HeardInit DEF FullerInv, Books

LEMMA BooksStep == FullerInv /\ [Next]_economyVars => FullerInv'
<1> SUFFICES ASSUME FullerInv, [Next]_economyVars PROVE FullerInv'
  OBVIOUS
<1>0. EconomyInv /\ Histories /\ EconomyInv' /\ Histories' /\ [TillNext]_tillVars
  BY FullInv, EconomyStep DEF FullerInv
<1>1. ASSUME NEW t \in Txn, RequestNext(t), ShopNext(t) \/ UNCHANGED shopHistory
      PROVE  Books'
  <2>1. Claim(t) \/ (stipends' = stipends /\ ~Claim(t))
    BY <1>1 DEF ShopNext, LockRow, Charge, ChargeRefused, Grant, OpenMysterySoap, ReadMessage,
       RefuseUse, Consume, ApplyCurse, ApplyBoost, ApplySpotlight, ApplyForgiveness, Announce,
       Farm, PayDebt, CheckWear, WearRefused, Wear
  <2>2. \A u \in User : Claim(t) \/ (stipends' = stipends /\ users'[u].claimed = users[u].claimed)
    BY <1>0, <1>1, <2>1, StreakChanges
  <2>3. \A u \in User : CreditOf(u)'
    BY <1>0, <2>2, CreditStep DEF FullerInv, Books
  <2> QED BY <1>0, <1>1, <2>3, HeardStep DEF FullerInv, Books
<1>2. CASE TimePasses \/ UNCHANGED economyVars
  <2>1. UNCHANGED <<users, inventory, purchases, stipends, announced, posts, req, pc>>
    BY <1>2 DEF TimePasses, Tick
  <2>2. \A u \in User : CreditOf(u)'
    BY <1>0, <2>1, CreditStep DEF FullerInv, Books
  <2>3. Heard'
    BY <2>1 DEF FullerInv, Books, Heard, Telling, TellingOf
  <2> QED BY <1>0, <2>2, <2>3 DEF Books, FullerInv
<1> QED BY <1>0, <1>1, <1>2 DEF Next, RequestNext, FullerInv

LEMMA InvBalances == FullerInv => BooksBalance
<1> SUFFICES ASSUME FullerInv PROVE BooksBalance
  OBVIOUS
<1>0. TillTypeOK /\ Kept /\ Histories /\ Books
  BY DEF FullerInv, EconomyInv, TillInv
<1>1. DOMAIN posts = Under
  BY <1>0 DEF TillTypeOK, Under
<1>2. ASSUME NEW u \in User
      PROVE  users[u].aura = StartAura + users[u].farmed + StimuliOf(u) - Spent(u)
                              + Refund * SoapsRefunded(u)
  <2> DEFINE x == Refund * SoapsRefunded(u)
  <2>1. CreditOf(u)
    BY <1>0 DEF Books
  <2>2. users[u].aura - users[u].farmed + Spent(u) - x = StartAura + StimuliOf(u)
    BY <2>1 DEF CreditOf, Income
  <2>3. Spent(u) \in Int /\ SoapsRefunded(u) \in Int /\ StimuliOf(u) \in Int /\ x \in Int
    BY <1>0, <2>1, SpentType, StimuliAre, RefundIsNat
  <2>4. users[u].aura \in Int /\ users[u].farmed \in Nat /\ StartAura \in Int
    BY <1>0, StartAssumption DEF TillTypeOK, UserRow
  <2> HIDE DEF x
  <2>5. users[u].aura = StartAura + users[u].farmed + StimuliOf(u) - Spent(u) + x
    BY <2>2, <2>3, <2>4
  <2> QED BY <2>5 DEF x
<1>3. ASSUME NEW k \in DOMAIN posts
      PROVE  announced[k] <= posts[k]
  <2>1. Cardinality(TellingOf(k)) \in Nat /\ announced[k] \in Nat /\ posts[k] \in Nat
    BY <1>0, <1>1, TellingType DEF Books, Heard, Histories, TillTypeOK, Under
  <2> QED BY <1>0, <1>1, <2>1 DEF Books, Heard
<1> QED BY <1>0, <1>1, <1>2, <1>3
        DEF BooksBalance, Kept, DebtsAreKept, CursesAreKept, PostsAreKept, Under

(* No money and no item is made or lost, whatever fails or is rolled back: the
   balance is what was farmed, granted and refunded less what was paid, what
   was used left its curse, its post or its forgiven debt, and no notice was
   sent of what was not committed. *)
THEOREM BooksAlwaysBalance == Spec => []BooksBalance
  BY BooksInit, BooksStep, InvBalances, PTL DEF Spec

-----------------------------------------------------------------------------
(* Waiting.  Locked says which locks a request has; this is the other half,   *)
(* which ones it may have, at the statement it is at.                         *)
MayHold(t, l) ==
  LET r == req[t] IN
  \/ pc[t] \in {"charge", "claim", "grant"} /\ l.row = <<"user", r.by>>
  \/ pc[t] \in {"consume", "apply"} /\ r.item \in Curses /\ l.row = <<"user", r.on>>
  \/ pc[t] \in {"consume", "apply"} /\ r.item \in Under /\ l.row = <<"room">>
  \/ pc[t] = "apply" /\ l.row = <<"item", r.by, r.item>>
  \/ pc[t] = "count" /\ l.row = RowOf(t).row
  \/ pc[t] = "count" /\ l.mode = "share" /\ l.row \in {<<"user", r.on>>, <<"user", r.by>>}

(* Who locks a row first, and which item forgiveness does not lock one for. *)
Routed(t) ==
  LET r == req[t] IN
  /\ pc[t] = "read" /\ r.op = "use" => r.item = "spotlight"
  /\ pc[t] = "lock" /\ r.op = "use" => r.item \in Curses \cup Under
  /\ pc[t] = "claim" => Holds(t, UserLock(r.by, "update"))

Waiting ==
  /\ \A l \in locks : MayHold(l.txn, l)
  /\ \A t \in Txn : Routed(t)

Holding == {"charge", "claim", "grant", "consume", "apply", "count"}

LEMMA HoldersAreUnderWay ==
  ASSUME Waiting, NEW l \in locks
  PROVE  pc[l.txn] \in Holding
  BY DEF Waiting, MayHold, Holding

LEMMA WaitingInit == Init => Waiting
<1> SUFFICES ASSUME Init PROVE Waiting
  OBVIOUS
<1> QED BY DEF Init, RequestsInit, Waiting, Routed

(* What a request may hold is up to it: nobody else's step changes it.        *)
LEMMA OthersMayHold ==
  ASSUME Waiting, RequestsOK, NEW t \in Txn, Frame(t), RequestsOK'
  PROVE  /\ \A l \in locks' : l.txn # t => MayHold(l.txn, l)'
         /\ \A s \in Txn \ {t} : Routed(s)'
<1>1. ASSUME NEW l \in locks', l.txn # t PROVE MayHold(l.txn, l)'
  <2>1. l \in locks /\ l.txn \in Txn \ {t}
    BY <1>1 DEF Frame, OthersKeep, RequestsOK, LocksOK
  <2> DEFINE s == l.txn
  <2>2. MayHold(s, l)
    BY <2>1 DEF Waiting
  <2>3. req' = req /\ pc'[s] = pc[s] /\ seen'[s] = seen[s]
    BY <2>1 DEF Frame
  <2> HIDE DEF s
  <2> QED BY <2>2, <2>3 DEF MayHold, RowOf, Lock, s
<1>2. ASSUME NEW s \in Txn \ {t} PROVE Routed(s)'
  <2>1. Routed(s) /\ req' = req /\ pc'[s] = pc[s]
    BY DEF Waiting, Frame
  <2>2. ASSUME pc[s] = "claim" PROVE Holds(s, UserLock(req[s].by, "update"))'
    <3>1. Holds(s, UserLock(req[s].by, "update"))
      BY <2>1, <2>2 DEF Routed
    <3> QED BY <2>1, <3>1 DEF Frame, OthersKeep, Holds
  <2> QED BY <2>1, <2>2 DEF Routed
<1> QED BY <1>1, <1>2

(* Who answers or commits holds nothing any more.                             *)
LEMMA NothingHeld ==
  ASSUME EconomyInv, Waiting, NEW t \in Txn, Moves(t),
         \A l \in locks' : l.txn # t, pc'[t] \notin {"read", "lock", "claim"}
  PROVE  Waiting'
<1>1. /\ \A l \in locks' : MayHold(l.txn, l)'
      /\ \A s \in Txn \ {t} : Routed(s)'
  BY OthersMayHold DEF EconomyInv, Moves
<1>2. Routed(t)'
  BY DEF Routed
<1> QED BY <1>1, <1>2 DEF Waiting

LEMMA ReleaseHolds ==
  ASSUME NEW t \in Txn, NEW l, Commit(t, l) \/ Finish(t) \/ Abort(t)
  PROVE  \A k \in locks' : k.txn # t
  BY DEF Commit, Finish, Abort, Release

(* A statement inside a transaction adds what it wants to what was held.      *)
LEMMA StepHolds ==
  ASSUME EconomyInv, Waiting, NEW t \in Txn, NEW l \in Labels, Step(t, l), Moves(t),
         pc'[t] = l, l \notin {"read", "claim"},
         l = "lock" /\ req[t].op = "use" => req[t].item \in Curses \cup Under,
         \A k \in locks : k.txn = t => MayHold(t, k)',
         \A w \in Wants(t) : MayHold(t, [txn |-> t, row |-> w.row, mode |-> w.mode])'
  PROVE  Waiting'
<1>1. \A k \in locks' : k \in locks \/ \E w \in Wants(t) : k = [txn |-> t, row |-> w.row, mode |-> w.mode]
  BY DEF Step, Take
<1>2. \A k \in locks' : k.txn = t => MayHold(k.txn, k)'
  BY <1>1
<1>3. /\ \A k \in locks' : k.txn # t => MayHold(k.txn, k)'
      /\ \A s \in Txn \ {t} : Routed(s)'
  BY OthersMayHold DEF EconomyInv, Moves
<1>4. req' = req
  BY DEF Moves, Frame
<1>5. Routed(t)'
  BY <1>4 DEF Routed
<1> QED BY <1>2, <1>3, <1>5 DEF Waiting

(* Where a request goes.                                                      *)
LEMMA StepGoes ==
  ASSUME EconomyInv, NEW t \in Txn, NEW l \in Labels, Step(t, l) \/ Commit(t, l)
  PROVE  pc'[t] = l /\ req' = req
  BY Known, GotoKeeps DEF Step, Commit

LEMMA LockRowHolds ==
  ASSUME EconomyInv, Waiting, NEW t \in Txn, LockRow(t), Moves(t)
  PROVE  Waiting'
<1> DEFINE r == req[t]
           l == CASE r.op = "buy" -> "charge" [] r.op = "claim" -> "claim" [] OTHER -> "consume"
           w == LockedFirst(r)
<1>1. /\ pc[t] = "lock" /\ r.op \in {"buy", "claim", "use"} /\ Step(t, l)
      /\ (r.op = "use" => r.item \in Curses \cup Under)
  BY Known DEF LockRow, At, Stage, Waiting, Routed
<1>2. l \in Labels /\ l \in {"charge", "claim", "consume"}
  BY <1>1 DEF Labels
<1>3. pc'[t] = l /\ req' = req
  BY <1>1, <1>2, StepGoes
<1>4. Wants(t) = {w}
  BY <1>1 DEF Wants
<1>5. \A k \in locks : k.txn # t
  BY <1>1, HoldersAreUnderWay DEF Holding
<1>6. \A k \in locks' : k.txn = t => k = [txn |-> t, row |-> w.row, mode |-> w.mode]
  BY <1>1, <1>4, <1>5 DEF Step, Take
<1>7. CASE r.op \in {"buy", "claim"}
  <2>1. l \in {"charge", "claim"} /\ w = UserLock(r.by, "update")
    BY <1>7 DEF LockedFirst
  <2>2. w.row = <<"user", r.by>>
    BY <2>1 DEF UserLock, Lock
  <2>3. \A k \in locks' : k.txn = t => MayHold(k.txn, k)'
    BY <1>3, <1>6, <2>1, <2>2 DEF MayHold
  <2>4. PICK v : v = w
    OBVIOUS
  <2>5. Holds(t, v)'
    <3>1. v \in Wants(t) /\ Step(t, l) /\ LocksOK
      BY <1>1, <1>4, <2>4 DEF EconomyInv, RequestsOK
    <3> HIDE DEF w, l
    <3> QED BY <3>1, TakeKeeps DEF Step
  <2>6. Holds(t, UserLock(r.by, "update"))'
    BY <1>3, <2>1, <2>4, <2>5 DEF Holds, UserLock, Lock
  <2>7. Routed(t)'
    BY <1>3, <2>1, <2>6 DEF Routed
  <2> QED BY <2>3, <2>7, OthersMayHold DEF EconomyInv, Moves, Waiting
<1>8. CASE r.op = "use"
  <2>1. l = "consume"
    BY <1>8
  <2>2. w = IF r.item \in Curses THEN UserLock(r.on, "update") ELSE RoomLock("update")
    BY <1>8 DEF LockedFirst
  <2>3. /\ r.item \in Curses => w.row = <<"user", r.on>>
        /\ r.item \notin Curses => w.row = <<"room">> /\ r.item \in Under
    BY <1>1, <1>8, <2>2 DEF UserLock, RoomLock, Lock
  <2>4. \A k \in locks' : k.txn = t => MayHold(k.txn, k)'
    BY <1>3, <1>6, <2>1, <2>3 DEF MayHold
  <2>5. Routed(t)'
    BY <1>3, <2>1 DEF Routed
  <2> QED BY <2>4, <2>5, OthersMayHold DEF EconomyInv, Moves, Waiting
<1> QED BY <1>1, <1>7, <1>8

LEMMA ChargeHolds ==
  ASSUME EconomyInv, Waiting, NEW t \in Txn, Charge(t), Moves(t)
  PROVE  Waiting'
<1>1. pc[t] = "charge" /\ Step(t, "grant") /\ "grant" \in Labels
  BY DEF Charge, Labels
<1>2. pc'[t] = "grant" /\ req' = req
  BY <1>1, StepGoes
<1>3. \A k \in locks : k.txn = t => MayHold(t, k)'
  <2>1. ASSUME NEW k \in locks, k.txn = t PROVE k.row = <<"user", req[t].by>>
    BY <1>1, <2>1 DEF Waiting, MayHold
  <2> QED BY <1>2, <2>1 DEF MayHold
<1>4. \A w \in Wants(t) : w.row = <<"user", req[t].by>>
  BY <1>1 DEF Wants, UserLock, Lock
<1>5. \A w \in Wants(t) : MayHold(t, [txn |-> t, row |-> w.row, mode |-> w.mode])'
  BY <1>2, <1>4 DEF MayHold
<1> QED BY <1>1, <1>2, <1>3, <1>5, StepHolds

LEMMA ConsumeHolds ==
  ASSUME EconomyInv, Waiting, NEW t \in Txn, Consume(t), Moves(t)
  PROVE  Waiting'
<1>1. pc[t] = "consume" /\ Step(t, "apply") /\ "apply" \in Labels
  BY DEF Consume, Labels
<1>2. pc'[t] = "apply" /\ req' = req
  BY <1>1, StepGoes
<1>3. \A k \in locks : k.txn = t => MayHold(t, k)'
  <2>1. ASSUME NEW k \in locks, k.txn = t
        PROVE  \/ req[t].item \in Curses /\ k.row = <<"user", req[t].on>>
               \/ req[t].item \in Under /\ k.row = <<"room">>
    BY <1>1, <2>1 DEF Waiting, MayHold
  <2> QED BY <1>2, <2>1 DEF MayHold
<1>4. \A w \in Wants(t) : w.row = <<"item", req[t].by, req[t].item>>
  BY <1>1 DEF Wants, ItemLock, Lock
<1>5. \A w \in Wants(t) : MayHold(t, [txn |-> t, row |-> w.row, mode |-> w.mode])'
  BY <1>2, <1>4 DEF MayHold
<1> QED BY <1>1, <1>2, <1>3, <1>5, StepHolds

LEMMA InsertHolds ==
  ASSUME EconomyInv, Waiting, NEW t \in Txn, Insert(t), Moves(t)
  PROVE  Waiting'
<1>1. pc[t] = "insert" /\ Step(t, "count") /\ "count" \in Labels
  BY DEF Insert, Labels
<1>2. pc'[t] = "count" /\ req' = req
  BY <1>1, StepGoes
<1>3. \A k \in locks : k.txn # t
  BY <1>1, HoldersAreUnderWay DEF Holding
<1>4. seen'[t].at = seen[t].at
  <2>1. seen \in [Txn -> Seen] /\ seen' = [seen EXCEPT ![t].new = IsNew(req[t], Day(seen[t].at))]
    BY DEF Insert, EconomyInv, RequestsOK
  <2> QED BY <2>1 DEF Seen
<1>5. RowOf(t)' = RowOf(t)
  BY <1>2, <1>4 DEF RowOf
<1>6. ASSUME NEW w \in Wants(t)
      PROVE  \/ w.row = RowOf(t).row
             \/ w.mode = "share" /\ w.row \in {<<"user", req[t].on>>, <<"user", req[t].by>>}
  <2>1. w \in Inserted(req[t], Day(seen[t].at))
    BY <1>1, <1>6 DEF Wants
  <2> QED BY <2>1 DEF Inserted, RowOf, UserLock, Lock
<1>7. \A w \in Wants(t) : MayHold(t, [txn |-> t, row |-> w.row, mode |-> w.mode])'
  BY <1>2, <1>5, <1>6 DEF MayHold
<1> QED BY <1>1, <1>2, <1>3, <1>7, StepHolds

(* The statements that want nothing, of requests that hold nothing.           *)
LEMMA LookHolds ==
  ASSUME EconomyInv, Waiting, NEW t \in Txn, Moves(t),
         ReadMessage(t) \/ CheckWear(t) \/ CheckPick(t) \/ Evaluate(t)
  PROVE  Waiting'
<1>1. PICK l \in {"lock", "wear", "write", "unlock"} :
        /\ Step(t, l) /\ pc[t] \in {"read", "evaluate"}
        /\ l = "lock" => pc[t] = "read" /\ req[t].op = "use"
  BY DEF ReadMessage, CheckWear, CheckPick, Evaluate
<1>2. l \in Labels /\ l \notin {"read", "claim"}
  BY DEF Labels
<1>3. pc'[t] = l /\ req' = req
  BY <1>1, <1>2, StepGoes
<1>4. \A k \in locks : k.txn # t
  BY <1>1, HoldersAreUnderWay DEF Holding
<1>5. Wants(t) = {}
  BY <1>1 DEF Wants
<1>6. l = "lock" /\ req[t].op = "use" => req[t].item \in Curses \cup Under
  BY <1>1 DEF Waiting, Routed, Under
<1> QED BY <1>1, <1>2, <1>3, <1>4, <1>5, <1>6, StepHolds

LEMMA BeginHolds ==
  ASSUME EconomyInv, Waiting, NEW t \in Txn, Begin(t), Moves(t)
  PROVE  Waiting'
<1>1. pc[t] = "idle" /\ Goto(t, Start(req[t])) /\ locks' = locks
  BY DEF Begin
<1>2. \A k \in locks : k.txn # t
  BY <1>1, HoldersAreUnderWay DEF Holding
<1>3. pc'[t] = Start(req[t]) /\ req' = req
  BY <1>1, Known, StartType, GotoKeeps
<1>4. Routed(t)'
  BY <1>3, Known DEF Routed, Start, Request, Operation, Valid, Usable, Curses, Boosts, Under
<1> QED BY <1>1, <1>2, <1>4, OthersMayHold DEF EconomyInv, Moves, Waiting

(* Everything else commits, answers or is rolled back.                        *)
LEMMA WaitingStep ==
  ASSUME EconomyInv, Waiting, NEW t \in Txn, RequestNext(t)
  PROVE  Waiting'
<1>0. Moves(t)
  BY RequestsMove
<1>1. CASE LockRow(t) \/ Charge(t) \/ Consume(t) \/ Insert(t) \/ ReadMessage(t) \/ CheckWear(t)
           \/ CheckPick(t) \/ Evaluate(t) \/ Begin(t)
  BY <1>0, <1>1, LockRowHolds, ChargeHolds, ConsumeHolds, InsertHolds, LookHolds, BeginHolds
<1>2. ASSUME NEW l \in {"announce", "evaluate", "unlock"}, Commit(t, l) PROVE Waiting'
  <2>1. pc'[t] = l
    BY <1>2, StepGoes DEF Labels
  <2> QED BY <1>0, <1>2, <2>1, ReleaseHolds, NothingHeld
<1>3. CASE Finish(t) \/ Abort(t)
  <2>1. pc'[t] = "done"
    BY <1>3, FinishKeeps, AbortKeeps DEF EconomyInv
  <2> QED BY <1>0, <1>3, <2>1, ReleaseHolds, NothingHeld
<1>4. CASE MedalLost(t) \/ Answer(t)
  <2>1. locks' = locks /\ pc[t] = "unlock"
    BY <1>4 DEF MedalLost, Answer
  <2>2. pc'[t] \in {"unlock", "done"}
    BY <1>4, <2>1, Known, GotoKeeps DEF MedalLost, Answer, Labels
  <2>3. \A k \in locks' : k.txn # t
    BY <2>1, HoldersAreUnderWay DEF Holding
  <2> QED BY <1>0, <2>2, <2>3, NothingHeld
<1>5. CASE Fail(t) \/ DetectDeadlock(t) \/ Moderate(t)
  BY <1>3, <1>5 DEF Fail, DetectDeadlock, Moderate
<1>6. CASE ShopNext(t)
  <2>1. CASE ApplyBoost(t) \/ ApplySpotlight(t) \/ Farm(t) \/ PayDebt(t)
    <3>1. Commit(t, "announce") \/ Commit(t, "evaluate") \/ Finish(t)
      BY <2>1, Zenon DEF ApplyBoost, ApplySpotlight, Farm, PayDebt
    <3> QED BY <3>1, <1>2, <1>3
  <2>2. CASE Grant(t) \/ OpenMysterySoap(t) \/ ApplyCurse(t) \/ ApplyForgiveness(t)
             \/ Announce(t) \/ Claim(t) \/ Wear(t)
    <3>1. Finish(t)
      BY <2>2, Zenon DEF Grant, OpenMysterySoap, ApplyCurse, ApplyForgiveness, Announce, Claim, Wear
    <3> QED BY <3>1, <1>3
  <2>3. CASE ChargeRefused(t) \/ RefuseUse(t) \/ WearRefused(t)
    BY <2>3, <1>3, Zenon DEF ChargeRefused, RefuseUse, WearRefused
  <2> QED BY <1>1, <1>6, <2>1, <2>2, <2>3 DEF ShopNext
<1>7. CASE ProfileNext(t)
  BY <1>1, <1>2, <1>3, <1>4, <1>7 DEF ProfileNext, InsertRefused, CountRespect, CountView,
     PickRefused, WritePick, UnlockMedal
<1> QED BY <1>1, <1>5, <1>6, <1>7 DEF RequestNext

LEMMA WaitingInvariant == Spec => [](EconomyInv /\ Waiting)
<1> DEFINE I == EconomyInv /\ Waiting
<1>1. Init => I
  BY EconomyInit, WaitingInit
<1>2. I /\ [Next]_economyVars => I'
  <2> SUFFICES ASSUME I, [Next]_economyVars PROVE I'
    OBVIOUS
  <2>1. EconomyInv'
    BY EconomyStep
  <2>2. ASSUME NEW t \in Txn, RequestNext(t) PROVE Waiting'
    BY <2>2, WaitingStep
  <2>3. CASE TimePasses \/ UNCHANGED economyVars
    <3>1. UNCHANGED <<req, pc, seen, locks>>
      BY <2>3 DEF TimePasses
    <3>2. \A l \in locks : MayHold(l.txn, l)'
      BY <3>1 DEF Waiting, MayHold, RowOf, Lock
    <3>3. \A t \in Txn : Routed(t)'
      BY <3>1 DEF Waiting, Routed, Holds, UserLock, Lock
    <3>4. locks' = locks
      BY <3>1
    <3> QED BY <2>1, <3>2, <3>3, <3>4 DEF Waiting
  <2> QED BY <2>1, <2>2, <2>3 DEF Next, RequestNext
<1> QED BY <1>1, <1>2, PTL DEF Spec

(* Rows of different tables are different rows.                               *)
LEMMA RowsApart ==
  \A u, v, i, d :
    /\ <<"user", u>> # <<"room">> /\ <<"user", u>> # <<"item", v, i>>
    /\ <<"user", u>> # <<"respect", v, i>> /\ <<"user", u>> # <<"view", v, i, d>>
    /\ <<"item", v, i>> # <<"room">> /\ <<"item", v, i>> # <<"respect", u, d>>
    /\ \A w : <<"item", v, i>> # <<"view", u, w, d>>
  OBVIOUS

(* Who is waited for holds a lock that conflicts with what is wanted.         *)
LEMMA Blocking ==
  ASSUME EconomyInv, Waiting, NEW s \in Txn, NEW t \in WaitsFor(s)
  PROVE  /\ t \in Txn \ {s} /\ pc[t] \in Holding
         /\ \E w \in Wants(s), l \in locks :
              l.txn = t /\ MayHold(t, l) /\ l.row = w.row /\ Conflicts(l.mode, w.mode)
<1>1. PICK w \in Wants(s) : t \in Holders(s, w)
  BY DEF WaitsFor
<1>2. PICK l \in locks : l.txn = t /\ l.row = w.row /\ Conflicts(l.mode, w.mode)
  BY <1>1 DEF Holders
<1>3. MayHold(t, l)
  BY <1>2 DEF Waiting
<1> QED BY <1>1, <1>2, <1>3, HoldersAreUnderWay DEF Holders

LEMMA Blocked ==
  ASSUME NEW s \in Txn, NEW t \in Txn \ {s}, NEW w \in Wants(s), NEW v, Holds(t, v),
         v.row = w.row, Conflicts(v.mode, w.mode)
  PROVE  t \in WaitsFor(s)
  BY DEF Holds, WaitsFor, Holders

(* Who has locked his own row does not wait for it.                           *)
LEMMA WhoWaits ==
  ASSUME EconomyInv, Waiting, NEW t \in Txn, pc[t] \in Holding, WaitsFor(t) # {}
  PROVE  pc[t] \in {"grant", "consume", "apply", "count"}
<1> SUFFICES ASSUME pc[t] \in {"charge", "claim"} PROVE FALSE
  BY DEF Holding
<1>1. PICK m \in WaitsFor(t) : TRUE
  OBVIOUS
<1>2. PICK w \in Wants(t), l \in locks :
        l.txn = m /\ l.row = w.row /\ m \in Txn \ {t}
  BY <1>1, Blocking
<1>3. w = UserLock(req[t].by, "nokey") /\ Holds(t, UserLock(req[t].by, "update"))
  BY <1>2, Known DEF Wants, At, Locked, Waiting, Routed
<1>4. [txn |-> t, row |-> l.row, mode |-> "update"] \in locks
  BY <1>2, <1>3 DEF Holds, UserLock, Lock
<1>5. LocksOK
  BY DEF EconomyInv, RequestsOK
<1> DEFINE k == [txn |-> t, row |-> l.row, mode |-> "update"]
<1>6. k \in locks /\ k.txn # l.txn /\ k.row = l.row /\ k.mode = "update"
  BY <1>2, <1>4
<1> HIDE DEF k
<1>7. ~Conflicts(k.mode, l.mode)
  BY <1>5, <1>6 DEF LocksOK, Exclusive
<1> QED BY <1>6, <1>7 DEF Conflicts

(* The item a purchase waits for is being used by its buyer, who waits for
   the purchase.                                                              *)
LEMMA PurchaseWaits ==
  ASSUME EconomyInv, Waiting, NEW t \in Txn, pc[t] = "grant", NEW m \in WaitsFor(t)
  PROVE  pc[m] = "apply" /\ BuysWhatIsUsed(t, m) /\ t \in WaitsFor(m)
<1>1. PICK w \in Wants(t), l \in locks :
        l.txn = m /\ MayHold(m, l) /\ l.row = w.row /\ m \in Txn \ {t}
  BY Blocking
<1>2. w.row = <<"item", req[t].by, req[t].item>>
  BY <1>1 DEF Wants, ItemLock, Lock
<1>3. pc[m] = "apply" /\ l.row = <<"item", req[m].by, req[m].item>>
  <2>1. l.row # RowOf(m).row
    BY <1>1, <1>2, RowsApart DEF RowOf, Lock
  <2> QED BY <1>1, <1>2, <2>1, RowsApart DEF MayHold
<1>4. req[m].by = req[t].by /\ req[m].item = req[t].item
  BY <1>1, <1>2, <1>3
<1>5. req[t].op = "buy" /\ req[m].op = "use" /\ Holds(t, UserLock(req[t].by, "update"))
  BY <1>1, <1>3, Known DEF At, Stage, Locked
<1>6. PICK v \in Wants(m) : v.row = <<"user", req[m].by>>
  <2>1. Wants(m) = AppliedTo(req[m])
    BY <1>3 DEF Wants
  <2>2. \E v \in AppliedTo(req[m]) : v.row = <<"user", req[m].by>>
    BY DEF AppliedTo, UserLock, Lock
  <2> QED BY <2>1, <2>2
<1>7. t \in WaitsFor(m)
  <2>1. UserLock(req[t].by, "update").row = v.row /\ UserLock(req[t].by, "update").mode = "update"
    BY <1>4, <1>6 DEF UserLock, Lock
  <2>2. Conflicts(UserLock(req[t].by, "update").mode, v.mode)
    BY <2>1 DEF Conflicts
  <2> QED BY <1>1, <1>5, <1>6, <2>1, <2>2, Blocked
<1> QED BY <1>3, <1>4, <1>5, <1>7 DEF BuysWhatIsUsed

(* Every lock that a request of the rest holds is a share, or of a row that
   nobody who holds a lock wants.                                             *)
LEMMA SharesBlockNobody ==
  ASSUME EconomyInv, Waiting, NEW s \in Txn, NEW t \in WaitsFor(s), pc[s] \in Holding
  PROVE  pc[t] # "count"
<1> SUFFICES ASSUME pc[t] = "count" PROVE FALSE
  OBVIOUS
<1>0. pc[s] \in {"grant", "consume", "apply", "count"}
  BY WhoWaits
<1>1. PICK w \in Wants(s), l \in locks :
        l.txn = t /\ MayHold(t, l) /\ l.row = w.row /\ Conflicts(l.mode, w.mode)
  BY Blocking
<1>2. \/ l.row = RowOf(t).row
      \/ l.mode = "share" /\ l.row \in {<<"user", req[t].on>>, <<"user", req[t].by>>}
  BY <1>1 DEF MayHold
<1>3. \/ w.row = <<"item", req[s].by, req[s].item>>
      \/ \E u : w.row = <<"user", u>> /\ w.mode \in {"nokey", "share"}
  <2>1. CASE pc[s] \in {"grant", "consume"}
    BY <1>1, <2>1 DEF Wants, ItemLock, Lock
  <2>2. CASE pc[s] = "apply"
    <3>1. w \in AppliedTo(req[s])
      BY <1>1, <2>2 DEF Wants
    <3> QED BY <3>1 DEF AppliedTo, UserLock, Lock
  <2>3. CASE pc[s] = "count"
    BY <1>1, <2>3 DEF Wants, Counted, UserLock, Lock
  <2> QED BY <1>0, <2>1, <2>2, <2>3
<1>4. l.row # RowOf(t).row
  BY <1>1, <1>3, RowsApart DEF RowOf, Lock
<1>5. l.mode = "share" /\ \E u : w.row = <<"user", u>> /\ w.mode \in {"nokey", "share"}
  BY <1>1, <1>2, <1>3, <1>4, RowsApart
<1> QED BY <1>1, <1>5 DEF Conflicts

(* Two uses of one item are kept apart before its row.                        *)
LEMMA RoomApart ==
  ASSUME EconomyInv, NEW s \in Txn, NEW t \in Txn \ {s},
         pc[s] \in {"consume", "apply"}, pc[t] \in {"consume", "apply"},
         req[s].item \in Under, req[t].item \in Under
  PROVE  FALSE
<1>1. Holds(s, RoomLock("update")) /\ Holds(t, RoomLock("update")) /\ LocksOK
  BY Known DEF At, Locked, RequestsOK
<1>2. ~Conflicts(RoomLock("update").mode, RoomLock("update").mode)
  BY <1>1, HeldApart
<1> QED BY <1>2 DEF Conflicts, RoomLock, Lock

LEMMA ItemWaits ==
  ASSUME EconomyInv, Waiting, NEW t \in Txn, pc[t] = "consume", req[t].item \in Under,
         NEW m \in WaitsFor(t)
  PROVE  FALSE
<1>1. PICK w \in Wants(t), l \in locks :
        l.txn = m /\ MayHold(m, l) /\ l.row = w.row /\ m \in Txn \ {t}
  BY Blocking
<1>2. w.row = <<"item", req[t].by, req[t].item>>
  BY <1>1 DEF Wants, ItemLock, Lock
<1>3. pc[m] = "apply" /\ l.row = <<"item", req[m].by, req[m].item>>
  <2>1. l.row # RowOf(m).row
    BY <1>1, <1>2, RowsApart DEF RowOf, Lock
  <2> QED BY <1>1, <1>2, <2>1, RowsApart DEF MayHold
<1>4. req[m].item = req[t].item
  BY <1>1, <1>2, <1>3
<1> QED BY <1>1, <1>3, <1>4, RoomApart

(* Who waits for the use of an item that is no curse, and holds a lock,
   purchases the item.                                                        *)
LEMMA UseIsAwaited ==
  ASSUME EconomyInv, Waiting, NEW t \in Txn, pc[t] = "apply", req[t].item \notin Curses,
         NEW s \in Txn, t \in WaitsFor(s), pc[s] \in Holding, \E k \in locks : k.txn = s
  PROVE  pc[s] = "grant"
<1>0. pc[s] \in {"grant", "consume", "apply", "count"}
  BY WhoWaits
<1>1. PICK w \in Wants(s), l \in locks :
        l.txn = t /\ MayHold(t, l) /\ l.row = w.row /\ t \in Txn \ {s}
  BY Blocking
<1>2. l.row = <<"item", req[t].by, req[t].item>> \/ l.row = <<"room">>
  BY <1>1 DEF MayHold
<1>3. CASE pc[s] \in {"apply", "count"}
  <2>1. \E u : w.row = <<"user", u>>
    <3>1. CASE pc[s] = "apply"
      <4>1. w \in AppliedTo(req[s])
        BY <1>1, <3>1 DEF Wants
      <4> QED BY <4>1 DEF AppliedTo, UserLock, Lock
    <3>2. CASE pc[s] = "count"
      BY <1>1, <3>2 DEF Wants, Counted, UserLock, Lock
    <3> QED BY <1>3, <3>1, <3>2
  <2> QED BY <1>1, <1>2, <2>1, RowsApart
<1>4. CASE pc[s] = "consume"
  <2>1. w.row = <<"item", req[s].by, req[s].item>>
    BY <1>1, <1>4 DEF Wants, ItemLock, Lock
  <2>2. req[s].item = req[t].item
    BY <1>1, <1>2, <2>1, RowsApart
  <2>3. PICK k \in locks : k.txn = s /\ MayHold(s, k)
    BY DEF Waiting
  <2>4. req[s].item \in Under
    BY <1>4, <2>2, <2>3 DEF MayHold
  <2> QED BY <1>1, <1>4, <2>2, <2>4, RoomApart
<1> QED BY <1>0, <1>3, <1>4

LEMMA InvDeadlocks == EconomyInv /\ Waiting => DeadlocksAreOfItems
<1> SUFFICES ASSUME EconomyInv, Waiting, NEW t \in Txn, Deadlocked(t),
                    ~(req[t].op = "use" /\ req[t].item \in Curses)
             PROVE  \E m \in WaitsFor(t) : t \in WaitsFor(m) /\ BuysWhatIsUsed(t, m)
  BY DEF DeadlocksAreOfItems
<1> DEFINE W == [s \in Txn |-> WaitsFor(s)]
<1>1. \A s \in DOMAIN W : W[s] \subseteq DOMAIN W \ {s}
  BY DEF WaitsFor, Holders
<1>2. OnCycle(t, W) /\ t \in DOMAIN W
  BY DEF Deadlocked
<1>3. W[t] # {} /\ \E r, s \in DOMAIN W : s \in W[r] /\ t \in W[s]
  <2> HIDE DEF W
  <2> QED BY <1>1, <1>2, CycleNeighbours
<1>4. PICK m \in WaitsFor(t) : TRUE
  BY <1>3
<1>5. PICK r \in Txn, s \in Txn : s \in WaitsFor(r) /\ t \in WaitsFor(s)
  BY <1>3
<1> HIDE DEF W
<1>6. /\ pc[s] \in Holding /\ pc[t] \in Holding /\ pc[t] # "count"
      /\ \E k \in locks : k.txn = s
      /\ \E k \in locks : k.txn = t /\ MayHold(t, k)
  BY <1>5, Blocking, SharesBlockNobody
<1>7. pc[t] \in {"grant", "consume", "apply"}
  BY <1>4, <1>6, WhoWaits
<1>8. CASE pc[t] = "grant"
  BY <1>4, <1>8, PurchaseWaits
<1>9. pc[t] \in {"consume", "apply"} => req[t].op = "use" /\ req[t].item \notin Curses
  BY Known DEF At, Stage
<1>10. CASE pc[t] = "consume"
  <2>1. req[t].item \in Under
    BY <1>6, <1>9, <1>10 DEF MayHold
  <2> QED BY <1>4, <1>10, <2>1, ItemWaits
<1>11. CASE pc[t] = "apply"
  <2>1. pc[s] = "grant"
    BY <1>5, <1>6, <1>9, <1>11, UseIsAwaited
  <2>2. BuysWhatIsUsed(s, t) /\ s \in WaitsFor(t)
    BY <1>5, <2>1, PurchaseWaits
  <2>3. BuysWhatIsUsed(t, s)
    BY <2>2 DEF BuysWhatIsUsed
  <2> QED BY <1>5, <2>2, <2>3
<1> QED BY <1>7, <1>8, <1>10, <1>11

(* No request is ever aborted for a deadlock but the cast of a curse, or one of
   a purchase and a use of one item by one user who wait for each other: not
   for any number of users and requests, however long the cycle of waiting.   *)
THEOREM OnlyItemsDeadlock == Spec => []DeadlocksAreOfItems
<1>1. EconomyInv /\ Waiting => DeadlocksAreOfItems
  BY InvDeadlocks
<1> QED BY <1>1, WaitingInvariant, PTL

(* Waiting ends.  As long as a request is under way, some request under way
   waits for nobody or is on a cycle, so that PostgreSQL runs its statement or
   aborts it.                                                                 *)
UnderWay == {t \in Txn : pc[t] \notin {"idle", "done"}}
NobodyIsStuck ==
  UnderWay # {} => \E t \in UnderWay : WaitsFor(t) = {} \/ Deadlocked(t)

LEMMA SomebodyRuns == ASSUME IsFiniteSet(Txn), EconomyInv, Waiting PROVE NobodyIsStuck
<1> DEFINE W == [s \in Txn |-> WaitsFor(s)]
           T == UnderWay
<1>1. T \in SUBSET DOMAIN W /\ IsFiniteSet(T)
  <2>1. T \subseteq Txn /\ DOMAIN W = Txn
    BY DEF UnderWay
  <2> QED BY <2>1, FS_Subset
<1>2. Closed(T, W)
  <2>1. ASSUME NEW s \in T, NEW t \in WaitsFor(s) PROVE t \in T
    <3>1. s \in Txn
      BY DEF UnderWay
    <3> QED BY <3>1, Blocking DEF Holding, UnderWay
  <2> QED BY <1>1, <2>1 DEF Closed
<1>3. T # {} => \E t \in T : W[t] = {} \/ OnCycle(t, W)
  <2> HIDE DEF T, W
  <2> QED BY <1>1, <1>2, SomebodyMoves
<1>4. \A t \in T : t \in Txn /\ W[t] = WaitsFor(t)
  BY <1>1
<1> QED BY <1>3, <1>4 DEF NobodyIsStuck, Deadlocked

(* No set of requests waits for ever: whoever holds a lock is under way, so
   the finitely many that are would be waiting for one another.               *)
THEOREM WaitingEnds == ASSUME IsFiniteSet(Txn) PROVE Spec => []NobodyIsStuck
<1>1. EconomyInv /\ Waiting => NobodyIsStuck
  BY SomebodyRuns
<1> QED BY <1>1, WaitingInvariant, PTL

(* What Till keeps in every step, the interleaved requests keep: no balance
   falls but by a purchase, or below zero by one; and what was bought or earned
   is not lost to a request that read it earlier.                             *)
THEOREM NothingOverdrawnOrLost == Spec => NoOverdraft /\ NothingBoughtIsLost
  BY RequestsAreAtomic, NobodyOverdraws, BoughtIsKept, PTL DEF ImplementsTill
=============================================================================
