-------------------------------- MODULE Till --------------------------------
(***************************************************************************)
(* What the economy promises: the committed rows of the database, and      *)
(* every operation of the shop, the stimulus, the profile and the medals   *)
(* as one step on them.  Module Economy shows that the requests of the     *)
(* code, statement by statement and interleaved, amount to this.           *)
(***************************************************************************)
EXTENDS Catalog, FiniteSets, Functions

CONSTANTS
  User,
  Admin,          \* the users whose role is admin
  Creator,        \* the creator of the one room and the author of its message
  Goods,          \* bound: the items of the catalogue that are in play
  Stock,          \* user -> item -> how many were bought before
  StartAura, StartDebt, StartRespects,
  Instants,       \* bound: the moments, in minutes, at which things happen
  Layouts,        \* bound: the widget layouts users ask for
  Showcases,      \* bound: the sets of medals users ask to feature
  Nothing         \* an empty slot, no item

ASSUME PeopleAssumption == Admin \subseteq User /\ Creator \in User
ASSUME GoodsAssumption ==
  Goods \subseteq Items /\ Nothing \notin Items \cup FreeItems \cup User
ASSUME StockAssumption ==
  Stock \in [User -> [Goods -> Nat]]
    /\ \A u \in User, i \in Goods \cap Permanents : Stock[u][i] <= 1
ASSUME PicksAssumption ==
  Layouts \subseteq SUBSET Widgets /\ Showcases \subseteq SUBSET Medals
ASSUME StartAssumption ==
  StartAura \in Int /\ StartDebt \in Int /\ StartRespects \in Nat
ASSUME InstantsAssumption == Instants \subseteq Nat /\ Instants # {}

VARIABLES
  users,          \* the columns of users that are about this
  inventory,      \* user_inventory: user -> item -> quantity (0: no row)
  purchases,      \* shop_purchases: user -> item -> number of rows
  equipped,       \* user_equipped: user -> slot -> item
  effects,        \* profile_effects
  room,           \* the columns of rooms that are about this
  posts,          \* the system messages of the room: kind -> number of rows
  chart,          \* aura_history: its rows
  medals,         \* user_achievements: user -> keys
  respects,       \* profile_respects: pairs of a profile and an admirer
  views,          \* profile_view_log: a profile, a viewer and a day
  clock

goods == <<inventory, purchases, equipped, effects, room, posts>>
social == <<medals, respects, views>>
tillVars == <<users, goods, chart, social, clock>>

Minutes == 1440
Day(t) == t \div Minutes

Curses == {"clown_stamp", "rename_curse"}
Boosts == {"aura_tax", "room_boost"}
Lasts  == [clown_stamp |-> 1440, rename_curse |-> 60, aura_tax |-> 1440,
           room_boost |-> 60, spotlight |-> 10]
Forgiven == 100
Never == -1

UserRow == [aura : Int, debt : Int, paid : Nat, farmed : Nat, streak : Nat,
            claimed : Instants \cup {Never}, respect : Nat, views : Nat,
            layout : SUBSET Widgets, featured : SUBSET Medals]
Effect == [target : User, kind : Curses, by : User, until : Nat]
RoomRow == [live : BOOLEAN, deleted : BOOLEAN, sponsor : User \cup {Nothing},
            aura_tax : Nat, room_boost : Nat, spotlight : Nat]
Snapshot == [user : User, day : Nat, aura : Int]
View == [profile : User, viewer : User, day : Nat]
Wearable == Goods \cup FreeItems \cup {Nothing}

TillInit ==
  /\ users = [u \in User |->
       [aura |-> StartAura, debt |-> StartDebt, paid |-> 0, farmed |-> 0, streak |-> 0,
        claimed |-> Never, respect |-> StartRespects, views |-> 0,
        layout |-> DefaultLayout, featured |-> {}]]
  /\ inventory = Stock
  /\ purchases = Stock
  /\ equipped = [u \in User |-> [s \in Slots |-> Nothing]]
  /\ effects = {}
  /\ room = [live |-> TRUE, deleted |-> FALSE, sponsor |-> Nothing,
             aura_tax |-> 0, room_boost |-> 0, spotlight |-> 0]
  /\ posts = [k \in Boosts \cup {"spotlight"} |-> 0]
  /\ chart = {}
  /\ medals = [u \in User |-> {}]
  /\ respects = {}
  /\ views = {}
  /\ clock \in {t \in Instants : \A s \in Instants : t <= s}

-----------------------------------------------------------------------------
(* The parts of the operations that the transactions share with them. *)
Permanent(i) == i \in Permanents
Owns(u, i) == inventory[u][i] > 0

CanBuy(u, i) ==
  /\ Requires(i) \subseteq medals[u]
  /\ Permanent(i) => ~Owns(u, i)
  /\ users[u].aura >= Price(i)

WithAura(u, aura) == [users EXCEPT ![u].aura = aura]
(* recordAuraSnapshot: one row per user and day, the newest value. *)
Recorded(rows, u, day, aura) ==
  {s \in rows : ~(s.user = u /\ s.day = day)} \cup {[user |-> u, day |-> day, aura |-> aura]}
Granted(u, i) == [inventory EXCEPT ![u][i] = @ + 1]
Consumed(u, i) == [inventory EXCEPT ![u][i] = @ - 1]
Bought(u, i) == [purchases EXCEPT ![u][i] = @ + 1]

ActiveEffects(u) == {e \in effects : e.target = u /\ e.until > clock}
Cursed(u, kind) == \E e \in ActiveEffects(u) : e.kind = kind
Curse(u, kind, by) ==
  [target |-> u, kind |-> kind, by |-> by, until |-> clock + Lasts[kind]]
(* Time bought is added to what is left of the time bought before. *)
BoostedUntil(kind) ==
  (IF room[kind] > clock THEN room[kind] ELSE clock) + Lasts[kind]

StreakAt(u, now) ==
  IF users[u].claimed # Never /\ Day(users[u].claimed) >= Day(now) - 1
  THEN users[u].streak + 1 ELSE 1
Stimulus(streak) == IF 10 + 5 * (streak - 1) < 50 THEN 10 + 5 * (streak - 1) ELSE 50
CanClaim(u, now) == users[u].claimed = Never \/ Day(users[u].claimed) < Day(now)
Claimed(u, now) ==
  [users EXCEPT ![u].streak = StreakAt(u, now), ![u].claimed = now,
                ![u].aura = @ + Stimulus(StreakAt(u, now))]

(* Faulty: whatever fits the slot is worn. *)
CanWearUnowned(u, s, i) == i \in SlotAccepts[s]
CanWear(u, s, i) == i \in SlotAccepts[s] /\ (i \in FreeItems \/ Owns(u, i))
Unlocked(u, w) == WidgetUnlocks(w) # {} => \E i \in WidgetUnlocks(w) \cap Goods : Owns(u, i)

-----------------------------------------------------------------------------
(* The operations, each as if it ran alone.  The day a snapshot is taken for
   and the moment a claim is made at may be a little earlier than the step. *)
Buy(u, i) ==
  /\ i # "mystery_soap" /\ CanBuy(u, i)
  /\ purchases' = Bought(u, i)
  /\ inventory' = Granted(u, i)
  /\ users' = WithAura(u, users[u].aura - Price(i))
  /\ \E day \in 0..Day(clock) : chart' = Recorded(chart, u, day, users[u].aura - Price(i))
  /\ UNCHANGED <<equipped, effects, room, posts, social, clock>>

OpenSoap(u) ==
  LET paid == users[u].aura - Price("mystery_soap") IN
  /\ "mystery_soap" \in Goods /\ CanBuy(u, "mystery_soap")
  /\ purchases' = Bought(u, "mystery_soap")
  /\ \E day \in 0..Day(clock), i \in SoapPool \cap Goods :
       \/ /\ Owns(u, i)
          /\ users' = WithAura(u, paid + Refund)
          /\ chart' = Recorded(Recorded(chart, u, day, paid), u, Day(clock), paid + Refund)
          /\ UNCHANGED inventory
       \/ /\ ~Owns(u, i)
          /\ inventory' = Granted(u, i)
          /\ users' = WithAura(u, paid)
          /\ chart' = Recorded(chart, u, day, paid)
  /\ UNCHANGED <<equipped, effects, room, posts, social, clock>>

CastCurse(u, on, kind) ==
  /\ kind \in Goods /\ Owns(u, kind)
  /\ on \notin Admin \cup {u} /\ ~Cursed(on, kind)
  /\ inventory' = Consumed(u, kind)
  /\ effects' = effects \cup {Curse(on, kind, u)}
  /\ UNCHANGED <<users, purchases, equipped, room, posts, chart, social, clock>>

BoostRoom(u, kind) ==
  /\ kind \in Goods /\ Owns(u, kind)
  /\ u = Creator /\ room.live
  /\ inventory' = Consumed(u, kind)
  /\ room' = [room EXCEPT ![kind] = BoostedUntil(kind),
                          !.sponsor = IF kind = "aura_tax" THEN u ELSE @]
  /\ posts' = [posts EXCEPT ![kind] = @ + 1]
  /\ UNCHANGED <<users, purchases, equipped, effects, chart, social, clock>>

SpotMessage(u) ==
  /\ "spotlight" \in Goods /\ Owns(u, "spotlight")
  /\ u = Creator /\ room.live
  /\ inventory' = Consumed(u, "spotlight")
  /\ room' = [room EXCEPT !.spotlight = clock + Lasts["spotlight"]]
  /\ posts' = [posts EXCEPT !["spotlight"] = @ + 1]
  /\ UNCHANGED <<users, purchases, equipped, effects, chart, social, clock>>

Forgive(u) ==
  /\ "debt_forgiveness" \in Goods /\ Owns(u, "debt_forgiveness")
  /\ inventory' = Consumed(u, "debt_forgiveness")
  /\ users' = [users EXCEPT ![u].debt = @ - Forgiven]
  /\ UNCHANGED <<purchases, equipped, effects, room, posts, chart, social, clock>>

PutOn(u, s, i) ==
  /\ i = Nothing \/ CanWear(u, s, i)
  /\ equipped' = [equipped EXCEPT ![u][s] = i]
  /\ UNCHANGED <<users, inventory, purchases, effects, room, posts, chart, social, clock>>

ClaimStimulus(u) ==
  \E now \in Instants :
    /\ now <= clock /\ CanClaim(u, now)
    /\ users' = Claimed(u, now)
    /\ UNCHANGED <<goods, chart, social, clock>>

FarmAura(u) ==
  /\ users' = [users EXCEPT ![u].aura = @ + 1, ![u].farmed = @ + 1]
  /\ chart' = Recorded(chart, u, Day(clock), users[u].aura + 1)
  /\ UNCHANGED <<goods, social, clock>>

PayOne(u) ==
  /\ users[u].debt > 0
  /\ users' = [users EXCEPT ![u].debt = @ - 1, ![u].paid = @ + 1]
  /\ UNCHANGED <<goods, chart, social, clock>>

RespectOnce(u, by) ==
  /\ <<u, by>> \notin respects /\ u # by
  /\ respects' = respects \cup {<<u, by>>}
  /\ users' = [users EXCEPT ![u].respect = @ + 1]
  /\ UNCHANGED <<goods, chart, medals, views, clock>>

ViewOnce(u, by) ==
  /\ u # by
  /\ users' = [users EXCEPT ![u].views = @ + 1]
  /\ \E day \in 0..Day(clock) :
       LET view == [profile |-> u, viewer |-> by, day |-> day]
       IN  view \notin views /\ views' = views \cup {view}
  /\ UNCHANGED <<goods, chart, medals, respects, clock>>

Arrange(u, layout) ==
  /\ \A w \in layout : Unlocked(u, w)
  /\ users' = [users EXCEPT ![u].layout = layout]
  /\ UNCHANGED <<goods, chart, social, clock>>

Show(u, keys) ==
  /\ keys \subseteq medals[u] /\ Cardinality(keys) <= 3
  /\ users' = [users EXCEPT ![u].featured = keys]
  /\ UNCHANGED <<goods, chart, social, clock>>

Unlock(u, key) ==
  /\ medals' = [medals EXCEPT ![u] = @ \cup {key}]
  /\ UNCHANGED <<users, goods, chart, respects, views, clock>>

(* A moderator takes the room down, or deletes the message. *)
Moderated ==
  /\ room' \in {[room EXCEPT !.live = FALSE], [room EXCEPT !.deleted = TRUE]}
  /\ UNCHANGED <<users, inventory, purchases, equipped, effects, posts, chart, social, clock>>

Tick ==
  /\ clock' \in {t \in Instants : t > clock}
  /\ UNCHANGED <<users, goods, chart, social>>

TillNext ==
  \/ \E u \in User :
       \/ \E i \in Goods : Buy(u, i)
       \/ OpenSoap(u)
       \/ \E on \in User, kind \in Curses : CastCurse(u, on, kind)
       \/ \E kind \in Boosts : BoostRoom(u, kind)
       \/ SpotMessage(u) \/ Forgive(u)
       \/ \E s \in Slots, i \in Wearable : PutOn(u, s, i)
       \/ ClaimStimulus(u) \/ FarmAura(u) \/ PayOne(u)
       \/ \E by \in User : RespectOnce(u, by) \/ ViewOnce(u, by)
       \/ \E layout \in Layouts : Arrange(u, layout)
       \/ \E keys \in Showcases : Show(u, keys)
       \/ \E key \in Medals : Unlock(u, key)
  \/ Moderated \/ Tick

TillSpec == TillInit /\ [][TillNext]_tillVars

-----------------------------------------------------------------------------
TillTypeOK ==
  /\ users \in [User -> UserRow]
  /\ inventory \in [User -> [Goods -> Nat]]
  /\ purchases \in [User -> [Goods -> Nat]]
  /\ equipped \in [User -> [Slots -> Wearable]]
  /\ effects \subseteq Effect
  /\ room \in RoomRow
  /\ posts \in [Boosts \cup {"spotlight"} -> Nat]
  /\ chart \subseteq Snapshot
  /\ medals \in [User -> SUBSET Medals]
  /\ respects \subseteq User \X User
  /\ views \subseteq View
  /\ clock \in Instants

(* How many of what was bought is gone. *)
Used(u, i) == purchases[u][i] - inventory[u][i]

(* What was paid for the purchases on record; the items that came out of a
   soap, which were not bought; and the soaps that held nothing new. *)
Spent(u) ==
  SumFunction([i \in Goods |-> Price(i) * (purchases[u][i] - Stock[u][i])])
FromSoaps(u) == {i \in Goods \cap Permanents : inventory[u][i] > purchases[u][i]}
SoapsRefunded(u) ==
  IF "mystery_soap" \in Goods
  THEN purchases[u]["mystery_soap"] - Stock[u]["mystery_soap"] - Cardinality(FromSoaps(u))
  ELSE 0

(* A permanent item is owned once. *)
OwnedOnce == \A u \in User, i \in Goods \cap Permanents : inventory[u][i] <= 1

(* The times of two curses of one kind on one target do not overlap. *)
CursesApart ==
  \A e, f \in effects :
    e # f /\ e.target = f.target /\ e.kind = f.kind =>
      \/ e.until - Lasts[e.kind] >= f.until
      \/ f.until - Lasts[f.kind] >= e.until

(* Every respect and every view counts one. *)
CountedOnce ==
  \A u \in User :
    /\ users[u].respect = StartRespects + Cardinality({r \in respects : r[1] = u})
    /\ users[u].views = Cardinality({v \in views : v.profile = u})

(* Aura is lost by a purchase only, and a purchase leaves nobody in debt. *)
NoOverdraft ==
  [][\A u \in User :
       users'[u].aura < users[u].aura =>
         users'[u].aura >= 0 /\ \E i \in Goods : purchases'[u][i] > purchases[u][i]]_tillVars

(* What was bought or earned stays: permanent items and medals are never
   lost, a curse is not lifted, and every boost of the room adds the whole of
   its time to what is left of the time bought before. *)
NothingBoughtIsLost ==
  [][/\ \A u \in User, i \in Goods \cap Permanents : Owns(u, i) => Owns(u, i)'
     /\ \A u \in User : medals[u] \subseteq medals'[u]
     /\ effects \subseteq effects'
     /\ \A k \in Boosts :
          room'[k] >= room[k] + (IF posts'[k] > posts[k] THEN Lasts[k] ELSE 0)]_tillVars
=============================================================================
