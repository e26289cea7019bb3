-------------------------------- MODULE Shop --------------------------------
(***************************************************************************)
(* The shop (shop.service.ts), the use of items (consumables.service.ts),  *)
(* the daily stimulus (economy/stimulus.service.ts), aura farming and the  *)
(* payment of debts (users.repository.ts), statement by statement.         *)
(***************************************************************************)
EXTENDS Requests

VARIABLES
  announced,      \* the room notices sent: kind -> number
  stipends        \* history: user -> the days whose stimulus was granted

shopHistory == <<announced, stipends>>

CONSTANT Rolls          \* bound: what a soap may hold in this instance

ASSUME RollsAssumption == Rolls \subseteq SoapPool \cap Goods

(* SELECT ... FOR UPDATE.  What a boost adds to is read here. *)
LockRow(t) ==
  /\ pc[t] = "lock"
  /\ ~(req[t].op = "use" /\ req[t].on = req[t].by)
  /\ Step(t, CASE req[t].op = "buy" -> "charge" [] req[t].op = "claim" -> "claim"
               [] OTHER -> "consume")
  /\ seen' = [seen EXCEPT ![t].until =
       IF req[t].op = "use" /\ req[t].item \in Boosts THEN room[req[t].item] ELSE 0]
  /\ UNCHANGED <<tillVars, shopHistory>>

-----------------------------------------------------------------------------
(* purchase.  Faulty: the second purchase of a permanent item is allowed. *)
BrokeOrLocked(t) ==
  \/ ~(Requires(req[t].item) \subseteq medals[req[t].by])
  \/ users[req[t].by].aura < Price(req[t].item)
CannotBuy(t) == ~CanBuy(req[t].by, req[t].item)

(* LOCKED, ALREADY_OWNED and BROKE are checked under the user's lock. *)
Charge(t) ==
  /\ pc[t] = "charge" /\ ~CannotBuy(t)
  /\ Step(t, "grant")
  /\ seen' = [seen EXCEPT ![t].aura = users[req[t].by].aura - Price(req[t].item),
                          ![t].at = clock]
  /\ UNCHANGED <<tillVars, shopHistory>>

ChargeRefused(t) ==
  /\ pc[t] = "charge" /\ CannotBuy(t)
  /\ Abort(t) /\ UNCHANGED shopHistory

(* The upsert into the inventory, the row of the purchase, and the COMMIT. *)
Grant(t) ==
  LET u == req[t].by
      i == req[t].item
  IN  /\ pc[t] = "grant" /\ i # "mystery_soap"
      /\ users' = WithAura(u, seen[t].aura)
      /\ chart' = Recorded(chart, u, Day(seen[t].at), seen[t].aura)
      /\ inventory' = Granted(u, i)
      /\ purchases' = Bought(u, i)
      /\ Finish(t)
      /\ UNCHANGED <<equipped, effects, room, posts, social, clock, shopHistory>>

(* openMysterySoap: half the price comes back for what one owns already.
   Faulty: it comes back for every roll. *)
SoapRefundAlways(u, i) == Refund
SoapRefund(u, i) == IF Permanent(i) /\ Owns(u, i) THEN Refund ELSE 0

OpenMysterySoap(t) ==
  \E i \in Rolls :
    LET u == req[t].by
        back == SoapRefund(u, i)
        rows == Recorded(chart, u, Day(seen[t].at), seen[t].aura)
    IN  /\ pc[t] = "grant" /\ req[t].item = "mystery_soap"
        /\ users' = WithAura(u, seen[t].aura + back)
        /\ chart' = IF Owns(u, i) THEN Recorded(rows, u, Day(clock), seen[t].aura + back)
                    ELSE rows
        /\ inventory' = IF Owns(u, i) THEN inventory ELSE Granted(u, i)
        /\ purchases' = Bought(u, "mystery_soap")
        /\ Finish(t)
        /\ UNCHANGED <<equipped, effects, room, posts, social, clock, shopHistory>>

-----------------------------------------------------------------------------
(* use.  spotlightMessage reads the message without a lock. *)
ReadMessage(t) ==
  /\ pc[t] = "read" /\ req[t].op = "use"
  /\ req[t].by = Creator /\ ~room.deleted
  /\ Step(t, "lock")
  /\ UNCHANGED <<tillVars, seen, shopHistory>>

(* SELF_TARGET, NOT_YOUR_MESSAGE and MESSAGE_DELETED, before any lock; then,
   under the lock of the target or the room, ADMIN_TARGET and ALREADY_CURSED,
   NOT_YOUR_ROOM and ROOM_NOT_LIVE.  Faulty: a curse that is active is not
   looked for. *)
UseRefusedUncursed(r) ==
  \/ r.item \in Curses /\ r.on \in Admin
  \/ r.item \in Boosts /\ (r.by # Creator \/ ~room.live)
  \/ r.item = "spotlight" /\ ~room.live
UseRefused(r) ==
  \/ r.item \in Curses /\ (r.on \in Admin \/ Cursed(r.on, r.item))
  \/ r.item \in Boosts /\ (r.by # Creator \/ ~room.live)
  \/ r.item = "spotlight" /\ ~room.live

RefuseUse(t) ==
  /\ req[t].op = "use"
  /\ \/ pc[t] = "read" /\ (req[t].by # Creator \/ room.deleted)
     \/ pc[t] = "lock" /\ req[t].on = req[t].by
     \/ pc[t] = "consume" /\ UseRefused(req[t])
     \/ /\ pc[t] = "consume" /\ ~Owns(req[t].by, req[t].item)
        /\ \A w \in Wants(t) : Holders(t, w) = {}
  /\ Abort(t) /\ UNCHANGED shopHistory

(* UPDATE ... WHERE quantity >= 1: it waits for who else uses the item. *)
Consume(t) ==
  /\ pc[t] = "consume"
  /\ ~UseRefused(req[t]) /\ Owns(req[t].by, req[t].item)
  /\ Step(t, "apply")
  /\ UNCHANGED <<tillVars, seen, shopHistory>>

ApplyCurse(t) ==
  LET r == req[t] IN
  /\ pc[t] = "apply" /\ r.item \in Curses
  /\ inventory' = Consumed(r.by, r.item)
  /\ effects' = effects \cup {Curse(r.on, r.item, r.by)}
  /\ Finish(t)
  /\ UNCHANGED <<users, purchases, equipped, room, posts, chart, social, clock, shopHistory>>

(* boostRoom: sponsoredUntil or boostedUntil, and a system message. *)
ApplyBoost(t) ==
  LET r == req[t]
      from == IF seen[t].until > clock THEN seen[t].until ELSE clock
  IN
  /\ pc[t] = "apply" /\ r.item \in Boosts
  /\ inventory' = Consumed(r.by, r.item)
  /\ room' = [room EXCEPT ![r.item] = from + Lasts[r.item],
                          !.sponsor = IF r.item = "aura_tax" THEN r.by ELSE @]
  /\ posts' = [posts EXCEPT ![r.item] = @ + 1]
  /\ Commit(t, "announce")
  /\ UNCHANGED <<users, purchases, equipped, effects, chart, social, clock, seen, shopHistory>>

ApplySpotlight(t) ==
  LET r == req[t] IN
  /\ pc[t] = "apply" /\ r.item = "spotlight"
  /\ inventory' = Consumed(r.by, r.item)
  /\ room' = [room EXCEPT !.spotlight = clock + Lasts["spotlight"]]
  /\ posts' = [posts EXCEPT !["spotlight"] = @ + 1]
  /\ Commit(t, "announce")
  /\ UNCHANGED <<users, purchases, equipped, effects, chart, social, clock, seen, shopHistory>>

ApplyForgiveness(t) ==
  LET r == req[t] IN
  /\ pc[t] = "apply" /\ r.item = "debt_forgiveness"
  /\ inventory' = Consumed(r.by, r.item)
  /\ users' = [users EXCEPT ![r.by].debt = @ - Forgiven]
  /\ Finish(t)
  /\ UNCHANGED <<purchases, equipped, effects, room, posts, chart, social, clock, shopHistory>>

(* announce: the room hears of what is committed. *)
Announce(t) ==
  /\ pc[t] = "announce"
  /\ announced' = [announced EXCEPT ![req[t].item] = @ + 1]
  /\ Finish(t)
  /\ UNCHANGED <<tillVars, stipends>>

-----------------------------------------------------------------------------
(* claim: granted unless today's, by the clock of the request, is claimed. *)
Claim(t) ==
  LET u == req[t].by
      now == seen[t].at
  IN  /\ pc[t] = "claim"
      /\ users' = IF CanClaim(u, now) THEN Claimed(u, now) ELSE users
      /\ stipends' = IF CanClaim(u, now) THEN [stipends EXCEPT ![u] = @ \cup {Day(now)}]
                     ELSE stipends
      /\ Finish(t)
      /\ UNCHANGED <<goods, chart, social, clock, announced>>

(* incrementAura and payDebt: one conditional UPDATE each, then the medals. *)
Farm(t) ==
  LET u == req[t].by IN
  /\ pc[t] = "update" /\ req[t].op = "farm"
  /\ users' = [users EXCEPT ![u].aura = @ + 1, ![u].farmed = @ + 1]
  /\ chart' = Recorded(chart, u, Day(clock), users[u].aura + 1)
  /\ Commit(t, "evaluate")
  /\ UNCHANGED <<goods, social, clock, seen, shopHistory>>

PayDebt(t) ==
  LET u == req[t].by
      paid == users[u].debt > 0
  IN  /\ pc[t] = "update" /\ req[t].op = "payDebt"
      /\ users' = IF paid THEN [users EXCEPT ![u].debt = @ - 1, ![u].paid = @ + 1] ELSE users
      /\ IF paid
         THEN /\ Commit(t, "evaluate")
              /\ seen' = [seen EXCEPT ![t].keys = When(users[u].paid + 1 >= 100, "debt_free")]
         ELSE Finish(t)
      /\ UNCHANGED <<goods, chart, social, clock, shopHistory>>

(* equip: a slot takes what belongs there and is free or owned; null empties
   it. *)
CheckWear(t) ==
  /\ pc[t] = "read" /\ req[t].op = "equip"
  /\ req[t].item = Nothing \/ CanWear(req[t].by, req[t].on, req[t].item)
  /\ Step(t, "wear")
  /\ UNCHANGED <<tillVars, seen, shopHistory>>

WearRefused(t) ==
  /\ pc[t] = "read" /\ req[t].op = "equip"
  /\ req[t].item # Nothing /\ ~CanWear(req[t].by, req[t].on, req[t].item)
  /\ Abort(t) /\ UNCHANGED shopHistory

Wear(t) ==
  /\ pc[t] = "wear"
  /\ equipped' = [equipped EXCEPT ![req[t].by][req[t].on] = req[t].item]
  /\ Finish(t)
  /\ UNCHANGED <<users, inventory, purchases, effects, room, posts, chart, social, clock,
                 shopHistory>>

ShopNext(t) ==
  \/ LockRow(t)
  \/ Charge(t) \/ ChargeRefused(t) \/ Grant(t) \/ OpenMysterySoap(t)
  \/ ReadMessage(t) \/ RefuseUse(t) \/ Consume(t)
  \/ ApplyCurse(t) \/ ApplyBoost(t) \/ ApplySpotlight(t) \/ ApplyForgiveness(t) \/ Announce(t)
  \/ Claim(t) \/ Farm(t) \/ PayDebt(t)
  \/ CheckWear(t) \/ WearRefused(t) \/ Wear(t)
=============================================================================
