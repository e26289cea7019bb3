----------------------------- MODULE TillProofs -----------------------------
(***************************************************************************)
(* What the abstract economy keeps, for any number of users, any catalogue *)
(* in play and any moments: module EconomyProofs carries it over to the    *)
(* statements of the code.                                                 *)
(***************************************************************************)
EXTENDS Till, FiniteFacts

USE DEF tillVars, goods, social

(* The tables. *)
LEMMA PriceIsNat ==
  ASSUME NEW i \in Items
  PROVE  Price(i) \in Nat
  BY DEF Price, Items, Permanents, Consumables, Accents, Backgrounds, Titles, NameColors,
     NameIcons, Quotes, Themes

LEMMA RefundIsNat == Refund \in Nat /\ "mystery_soap" \in Items \ Permanents
  BY DEF Refund, Price, Items, Permanents, Consumables, Accents, Backgrounds, Titles, NameColors,
     NameIcons, Quotes, Themes

LEMMA UsedUpIsNotPermanent ==
  (Curses \cup Boosts \cup {"spotlight", "debt_forgiveness"}) \cap Permanents = {}
  BY DEF Curses, Boosts, Permanents, Accents, Backgrounds, Titles, NameColors, NameIcons, Quotes,
     Themes

LEMMA SoapHoldsPermanents == SoapPool \subseteq Permanents /\ \A i \in SoapPool : Requires(i) = {}
<1>1. SoapPool = Quotes \cup Titles \cup Backgrounds \cup NameIcons \cup Accents \cup NameColors
                   \cup {"verified_chud"}
  BY DEF SoapPool, SoapPools
<1>2. "theme_fight_club" \notin SoapPool
  BY <1>1 DEF Accents, Backgrounds, Titles, NameColors, NameIcons, Quotes
<1> QED BY <1>1, <1>2 DEF Permanents, Requires

LEMMA SlotsTakePermanents ==
  ASSUME NEW s \in Slots
  PROVE  SlotAccepts[s] \subseteq Permanents \cup FreeItems
  BY DEF Slots, SlotAccepts, Permanents

LEMMA UnlocksArePermanent ==
  ASSUME NEW w
  PROVE  WidgetUnlocks(w) \subseteq Permanents
  BY DEF WidgetUnlocks, Permanents

LEMMA DefaultLayoutIsFree ==
  DefaultLayout \subseteq Widgets /\ \A w \in DefaultLayout : WidgetUnlocks(w) = {}
  BY DEF DefaultLayout, Widgets, WidgetUnlocks

LEMMA LastsType == \A k \in Curses \cup Boosts \cup {"spotlight"} : Lasts[k] \in Nat \ {0}
  BY DEF Lasts, Curses, Boosts

LEMMA DayType == \A t \in Nat : Day(t) \in Nat
  BY DEF Day, Minutes

LEMMA GoodsType == Goods \subseteq Items /\ Nothing \notin Goods /\ Instants \subseteq Nat
  BY GoodsAssumption, InstantsAssumption

LEMMA StreakType ==
  ASSUME TillTypeOK, NEW u \in User, NEW now \in Instants
  PROVE  StreakAt(u, now) \in Nat /\ Stimulus(StreakAt(u, now)) \in Int
<1>1. users[u].streak \in Nat
  BY DEF TillTypeOK, UserRow
<1>2. StreakAt(u, now) \in Nat
  BY <1>1 DEF StreakAt
<1> QED BY <1>2 DEF Stimulus

(* The rows of a user after an operation. *)
LEMMA UserRowType ==
  ASSUME TillTypeOK, NEW u \in User
  PROVE  /\ \A a \in Int : WithAura(u, a) \in [User -> UserRow]
         /\ \A d \in Int : [users EXCEPT ![u].debt = d] \in [User -> UserRow]
         /\ \A r \in Nat : [users EXCEPT ![u].respect = r] \in [User -> UserRow]
         /\ \A n \in Nat : [users EXCEPT ![u].views = n] \in [User -> UserRow]
         /\ \A l \in SUBSET Widgets : [users EXCEPT ![u].layout = l] \in [User -> UserRow]
         /\ \A k \in SUBSET Medals : [users EXCEPT ![u].featured = k] \in [User -> UserRow]
         /\ \A a \in Int, f \in Nat :
              [users EXCEPT ![u].aura = a, ![u].farmed = f] \in [User -> UserRow]
         /\ \A d \in Int, p \in Nat :
              [users EXCEPT ![u].debt = d, ![u].paid = p] \in [User -> UserRow]
         /\ \A now \in Instants : Claimed(u, now) \in [User -> UserRow]
<1>1. users[u] \in UserRow /\ users \in [User -> UserRow]
  BY DEF TillTypeOK
<1>2. ASSUME NEW now \in Instants
      PROVE  Claimed(u, now) \in [User -> UserRow]
  <2>1. StreakAt(u, now) \in Nat /\ Stimulus(StreakAt(u, now)) \in Int
    BY StreakType
  <2>2. \A f \in [User -> UserRow], n \in Nat : [f EXCEPT ![u].streak = n] \in [User -> UserRow]
    BY DEF UserRow
  <2>3. \A f \in [User -> UserRow] : [f EXCEPT ![u].claimed = now] \in [User -> UserRow]
    BY DEF UserRow
  <2>4. \A f \in [User -> UserRow], a \in Int : [f EXCEPT ![u].aura = @ + a] \in [User -> UserRow]
    BY DEF UserRow
  <2> DEFINE f1 == [users EXCEPT ![u].streak = StreakAt(u, now)]
             f2 == [f1 EXCEPT ![u].claimed = now]
             f3 == [f2 EXCEPT ![u].aura = @ + Stimulus(StreakAt(u, now))]
  <2>5. f1 \in [User -> UserRow]
    BY <1>1, <2>1, <2>2
  <2>6. f2 \in [User -> UserRow]
    BY <2>3, <2>5
  <2>7. f3 \in [User -> UserRow]
    BY <2>1, <2>4, <2>6
  <2>8. Claimed(u, now) = f3
    BY <1>1 DEF Claimed
  <2> QED BY <2>7, <2>8
<1> QED BY <1>1, <1>2 DEF WithAura, UserRow

LEMMA RecordedType ==
  ASSUME NEW rows \in SUBSET Snapshot, NEW u \in User, NEW day \in Nat, NEW aura \in Int
  PROVE  Recorded(rows, u, day, aura) \subseteq Snapshot
  BY DEF Recorded, Snapshot

LEMMA InventoryType ==
  ASSUME TillTypeOK, NEW u \in User, NEW i \in Goods
  PROVE  /\ Granted(u, i) \in [User -> [Goods -> Nat]]
         /\ Owns(u, i) => Consumed(u, i) \in [User -> [Goods -> Nat]]
         /\ Bought(u, i) \in [User -> [Goods -> Nat]]
  BY DEF TillTypeOK, Granted, Consumed, Bought, Owns

LEMMA TillTypeInit == TillInit => TillTypeOK
<1> SUFFICES ASSUME TillInit PROVE TillTypeOK
  OBVIOUS
<1>1. Stock \in [User -> [Goods -> Nat]]
  BY StockAssumption
<1>2. users \in [User -> UserRow]
  BY StartAssumption, DefaultLayoutIsFree DEF TillInit, UserRow
<1> QED BY <1>1, <1>2 DEF TillInit, TillTypeOK, Wearable, RoomRow

-----------------------------------------------------------------------------
LEMMA TillTypeStep == TillTypeOK /\ [TillNext]_tillVars => TillTypeOK'
<1> SUFFICES ASSUME TillTypeOK, [TillNext]_tillVars PROVE TillTypeOK'
  OBVIOUS
<1>0. clock \in Nat /\ Day(clock) \in Nat /\ 0..Day(clock) \subseteq Nat
  BY GoodsType, DayType DEF TillTypeOK
<1>a. \A u \in User : users[u].aura \in Int /\ users[u].debt \in Int /\ users[u].paid \in Nat
        /\ users[u].farmed \in Nat /\ users[u].respect \in Nat /\ users[u].views \in Nat
  BY DEF TillTypeOK, UserRow
<1>1. ASSUME NEW u \in User, NEW i \in Goods, Buy(u, i)
      PROVE  TillTypeOK'
  <2>1. users[u].aura - Price(i) \in Int
    BY <1>a, GoodsType, PriceIsNat
  <2>2. /\ WithAura(u, users[u].aura - Price(i)) \in [User -> UserRow]
        /\ \A day \in 0..Day(clock) :
             Recorded(chart, u, day, users[u].aura - Price(i)) \subseteq Snapshot
    BY <1>0, <2>1, UserRowType, RecordedType DEF TillTypeOK
  <2> QED BY <1>1, <2>2, InventoryType DEF Buy, TillTypeOK
<1>2. ASSUME NEW u \in User, OpenSoap(u)
      PROVE  TillTypeOK'
  <2> DEFINE paid == users[u].aura - Price("mystery_soap")
  <2>1. paid \in Int /\ paid + Refund \in Int
    BY <1>a, PriceIsNat, RefundIsNat
  <2>2. \A a \in {paid, paid + Refund} : WithAura(u, a) \in [User -> UserRow]
    BY <2>1, UserRowType
  <2>3. \A rows \in SUBSET Snapshot, day \in 0..Day(clock), a \in {paid, paid + Refund} :
          Recorded(rows, u, day, a) \in SUBSET Snapshot
    BY <1>0, <2>1, RecordedType
  <2>4. purchases' \in [User -> [Goods -> Nat]] /\ inventory' \in [User -> [Goods -> Nat]]
    BY <1>2, InventoryType DEF OpenSoap, TillTypeOK
  <2>5. Day(clock) \in 0..Day(clock) /\ chart \in SUBSET Snapshot
    BY <1>0 DEF TillTypeOK
  <2>6. chart' \in SUBSET Snapshot /\ users' \in [User -> UserRow]
    <3> HIDE DEF paid
    <3> QED BY <1>2, <2>2, <2>3, <2>5 DEF OpenSoap, paid
  <2> QED BY <1>2, <2>4, <2>6 DEF OpenSoap, TillTypeOK
<1>3. ASSUME NEW u \in User, NEW on \in User, NEW kind \in Curses, CastCurse(u, on, kind)
      PROVE  TillTypeOK'
  <2>1. Curse(on, kind, u) \in Effect
    BY <1>0, LastsType DEF Curse, Effect
  <2> QED BY <1>3, <2>1, InventoryType DEF CastCurse, TillTypeOK
<1>4. ASSUME NEW u \in User, NEW kind \in Boosts, BoostRoom(u, kind)
      PROVE  TillTypeOK'
  <2>1. room[kind] \in Nat
    BY DEF TillTypeOK, RoomRow, Boosts
  <2>2. BoostedUntil(kind) \in Nat
    BY <1>0, <2>1, LastsType DEF BoostedUntil
  <2>3. room' \in RoomRow
    <3>1. \A r \in RoomRow, n \in Nat : [r EXCEPT ![kind] = n] \in RoomRow
      BY DEF RoomRow, Boosts
    <3>2. \A r \in RoomRow, s \in User \cup {Nothing} : [r EXCEPT !.sponsor = s] \in RoomRow
      BY DEF RoomRow
    <3>3. [room EXCEPT ![kind] = BoostedUntil(kind)].sponsor \in User \cup {Nothing}
      BY <2>2, <3>1 DEF TillTypeOK, RoomRow
    <3>4. [room EXCEPT ![kind] = BoostedUntil(kind)] \in RoomRow
      BY <2>2, <3>1 DEF TillTypeOK
    <3> DEFINE boosted == [room EXCEPT ![kind] = BoostedUntil(kind)]
    <3>5. \A s \in User \cup {Nothing} : [boosted EXCEPT !.sponsor = s] \in RoomRow
      <4>1. boosted \in RoomRow
        BY <3>4
      <4> HIDE DEF boosted
      <4> QED BY <3>2, <4>1
    <3>6. room.sponsor \in User \cup {Nothing}
      BY DEF TillTypeOK, RoomRow
    <3>7. \E s \in User \cup {Nothing} :
            room' = [boosted EXCEPT !.sponsor = s]
      <4>1. CASE kind = "aura_tax"
        BY <1>4, <4>1 DEF BoostRoom
      <4>2. CASE kind # "aura_tax"
        <5>1. [room EXCEPT ![kind] = BoostedUntil(kind)].sponsor = room.sponsor
          BY DEF Boosts, RoomRow, TillTypeOK
        <5> QED BY <1>4, <3>6, <4>2, <5>1 DEF BoostRoom
      <4> QED BY <4>1, <4>2
    <3> QED BY <3>5, <3>7
  <2>4. posts' \in [Boosts \cup {"spotlight"} -> Nat]
    <3>1. posts' = [posts EXCEPT ![kind] = posts[kind] + 1]
      BY <1>4 DEF BoostRoom
    <3>2. posts[kind] + 1 \in Nat
      BY DEF TillTypeOK
    <3> QED BY <3>1, <3>2 DEF TillTypeOK
  <2> QED BY <1>4, <2>3, <2>4, InventoryType DEF BoostRoom, TillTypeOK
<1>5. ASSUME NEW u \in User, SpotMessage(u)
      PROVE  TillTypeOK'
  <2>1. room' \in RoomRow
    <3>1. clock + Lasts["spotlight"] \in Nat
      BY <1>0, LastsType
    <3>2. room' = [room EXCEPT !.spotlight = clock + Lasts["spotlight"]]
      BY <1>5 DEF SpotMessage
    <3> QED BY <3>1, <3>2 DEF TillTypeOK, RoomRow
  <2>2. posts' \in [Boosts \cup {"spotlight"} -> Nat]
    BY <1>5 DEF SpotMessage, TillTypeOK
  <2> QED BY <1>5, <2>1, <2>2, InventoryType DEF SpotMessage, TillTypeOK
<1>6. ASSUME NEW u \in User, Forgive(u)
      PROVE  TillTypeOK'
  <2>1. users' \in [User -> UserRow]
    <3>1. users' = [users EXCEPT ![u].debt = users[u].debt - Forgiven]
      BY <1>6 DEF Forgive
    <3>2. users[u].debt - Forgiven \in Int
      BY <1>a DEF Forgiven
    <3> QED BY <3>1, <3>2, UserRowType
  <2> QED BY <1>6, <2>1, InventoryType DEF Forgive, TillTypeOK
<1>7. ASSUME NEW u \in User, NEW s \in Slots, NEW i \in Wearable, PutOn(u, s, i)
      PROVE  TillTypeOK'
  BY <1>7 DEF PutOn, TillTypeOK
<1>8. ASSUME NEW u \in User, ClaimStimulus(u)
      PROVE  TillTypeOK'
  <2>1. users' \in [User -> UserRow] /\ UNCHANGED <<goods, chart, social, clock>>
    BY <1>8, UserRowType DEF ClaimStimulus
  <2> QED BY <2>1 DEF TillTypeOK
<1>9. ASSUME NEW u \in User, FarmAura(u) \/ PayOne(u)
      PROVE  TillTypeOK'
  <2>1. users' \in [User -> UserRow]
    <3>1. CASE FarmAura(u)
      <4>1. users' = [users EXCEPT ![u].aura = users[u].aura + 1, ![u].farmed = users[u].farmed + 1]
        BY <3>1 DEF FarmAura, TillTypeOK, UserRow
      <4>2. users[u].aura + 1 \in Int /\ users[u].farmed + 1 \in Nat
        BY <1>a
      <4> QED BY <4>1, <4>2, UserRowType
    <3>2. CASE PayOne(u)
      <4>1. users' = [users EXCEPT ![u].debt = users[u].debt - 1, ![u].paid = users[u].paid + 1]
        BY <3>2 DEF PayOne, TillTypeOK, UserRow
      <4>2. users[u].debt - 1 \in Int /\ users[u].paid + 1 \in Nat
        BY <1>a
      <4> QED BY <4>1, <4>2, UserRowType
    <3> QED BY <1>9, <3>1, <3>2
  <2>2. chart' \in SUBSET Snapshot
    BY <1>9, <1>0, <1>a, RecordedType DEF FarmAura, PayOne, TillTypeOK
  <2> QED BY <1>9, <2>1, <2>2 DEF FarmAura, PayOne, TillTypeOK
<1>10. ASSUME NEW u \in User, NEW by \in User, RespectOnce(u, by)
       PROVE  TillTypeOK'
  <2>1. users' = [users EXCEPT ![u].respect = users[u].respect + 1] /\ users[u].respect + 1 \in Nat
    BY <1>10, <1>a DEF RespectOnce
  <2>2. users' \in [User -> UserRow]
    BY <2>1, UserRowType
  <2>3. respects' \subseteq User \X User
    BY <1>10 DEF RespectOnce, TillTypeOK
  <2> QED BY <1>10, <2>2, <2>3 DEF RespectOnce, TillTypeOK
<1>17. ASSUME NEW u \in User, NEW by \in User, ViewOnce(u, by)
       PROVE  TillTypeOK'
  <2>1. users' = [users EXCEPT ![u].views = users[u].views + 1] /\ users[u].views + 1 \in Nat
    BY <1>17, <1>a DEF ViewOnce
  <2>2. users' \in [User -> UserRow]
    BY <2>1, UserRowType
  <2>3. PICK day \in 0..Day(clock) :
          views' = views \cup {[profile |-> u, viewer |-> by, day |-> day]}
    BY <1>17 DEF ViewOnce
  <2>4. views' \subseteq View
    BY <1>0, <2>3 DEF TillTypeOK, View
  <2> QED BY <1>17, <2>2, <2>4 DEF ViewOnce, TillTypeOK
<1>11. ASSUME NEW u \in User, NEW layout \in Layouts, Arrange(u, layout)
       PROVE  TillTypeOK'
  BY <1>11, UserRowType, PicksAssumption DEF Arrange, TillTypeOK
<1>12. ASSUME NEW u \in User, NEW keys \in Showcases, Show(u, keys)
       PROVE  TillTypeOK'
  BY <1>12, UserRowType, PicksAssumption DEF Show, TillTypeOK
<1>13. ASSUME NEW u \in User, NEW key \in Medals, Unlock(u, key)
       PROVE  TillTypeOK'
  BY <1>13 DEF Unlock, TillTypeOK
<1>14. CASE Moderated
  BY <1>14 DEF Moderated, TillTypeOK, RoomRow
<1>15. CASE Tick
  BY <1>15 DEF Tick, TillTypeOK
<1>16. CASE UNCHANGED tillVars
  BY <1>16 DEF TillTypeOK
<1> QED
  BY <1>1, <1>2, <1>3, <1>4, <1>5, <1>6, <1>7, <1>8, <1>9, <1>10, <1>11, <1>12, <1>13, <1>14,
     <1>15, <1>16, <1>17 DEF TillNext

-----------------------------------------------------------------------------
(* What an operation does to what one user has of one item. *)
Grows(u, i) ==
  /\ i \in Permanents => /\ inventory'[u][i] >= inventory[u][i]
                         /\ inventory[u][i] <= 1 => inventory'[u][i] <= 1
  /\ i \notin Permanents => Used(u, i)' >= Used(u, i)
  /\ inventory'[u][i] > inventory[u][i] => Requires(i) \subseteq medals[u]

LEMMA Adds ==
  ASSUME TillTypeOK, NEW v \in User, NEW j \in Goods, NEW u \in User, NEW i \in Goods,
         inventory' = Granted(v, j), purchases' = Bought(v, j),
         CanBuy(v, j)
  PROVE  Grows(u, i)
<1>1. inventory[u][i] \in Nat /\ purchases[u][i] \in Nat
  BY DEF TillTypeOK
<1>2. inventory'[u][i] = IF u = v /\ i = j THEN inventory[u][i] + 1 ELSE inventory[u][i]
  BY DEF TillTypeOK, Granted
<1>3. purchases'[u][i] = IF u = v /\ i = j THEN purchases[u][i] + 1 ELSE purchases[u][i]
  BY DEF TillTypeOK, Bought
<1>4. u = v /\ i = j => /\ i \in Permanents => inventory[u][i] = 0
                        /\ Requires(i) \subseteq medals[u]
  BY <1>1 DEF CanBuy, Owns, Permanent
<1> QED BY <1>1, <1>2, <1>3, <1>4 DEF Grows, Used

LEMMA Uses ==
  ASSUME TillTypeOK, NEW v \in User, NEW j \in Goods, NEW u \in User, NEW i \in Goods,
         j \notin Permanents, inventory' = Consumed(v, j), purchases' = purchases
  PROVE  Grows(u, i) /\ Used(v, j)' = Used(v, j) + 1
<1>1. inventory[u][i] \in Nat /\ purchases[u][i] \in Nat /\ inventory[v][j] \in Nat
      /\ purchases[v][j] \in Nat
  BY DEF TillTypeOK
<1>2. /\ inventory'[u][i] = IF u = v /\ i = j THEN inventory[u][i] - 1 ELSE inventory[u][i]
      /\ inventory'[v][j] = inventory[v][j] - 1
  BY DEF TillTypeOK, Consumed
<1> QED BY <1>1, <1>2 DEF Grows, Used

LEMMA OpensSoap ==
  ASSUME TillTypeOK, NEW v \in User, OpenSoap(v), NEW u \in User, NEW i \in Goods
  PROVE  Grows(u, i)
<1>1. inventory[u][i] \in Nat /\ purchases[u][i] \in Nat
  BY DEF TillTypeOK
<1>2. purchases'[u][i] = IF u = v /\ i = "mystery_soap" THEN purchases[u][i] + 1
                         ELSE purchases[u][i]
  BY DEF TillTypeOK, OpenSoap, Bought
<1>3. PICK j \in SoapPool \cap Goods :
        inventory' = inventory \/ (~Owns(v, j) /\ inventory' = Granted(v, j))
  BY DEF OpenSoap
<1>4. j \in Permanents /\ Requires(j) = {}
  BY <1>3, SoapHoldsPermanents
<1>5. CASE inventory' = inventory
  BY <1>1, <1>2, <1>5 DEF Grows, Used
<1>6. CASE ~Owns(v, j) /\ inventory' = Granted(v, j)
  <2>1. inventory'[u][i] = IF u = v /\ i = j THEN inventory[u][i] + 1 ELSE inventory[u][i]
    BY <1>6 DEF TillTypeOK, Granted
  <2>2. u = v /\ i = j => inventory[u][i] = 0
    BY <1>1, <1>6 DEF Owns
  <2> QED BY <1>1, <1>2, <1>4, <2>1, <2>2 DEF Grows, Used
<1> QED BY <1>3, <1>5, <1>6

LEMMA AllGrow ==
  ASSUME TillTypeOK, [TillNext]_tillVars
  PROVE  /\ \A u \in User, i \in Goods : Grows(u, i)
         /\ \A u \in User : medals[u] \subseteq medals'[u]
<1>1. ASSUME NEW u \in User, NEW i \in Goods
      PROVE  Grows(u, i)
  <2>0. inventory[u][i] \in Nat /\ purchases[u][i] \in Nat
    BY DEF TillTypeOK
  <2>1. ASSUME NEW v \in User, NEW j \in Goods, Buy(v, j)
        PROVE  Grows(u, i)
    BY <2>1, Adds DEF Buy
  <2>2. ASSUME NEW v \in User, OpenSoap(v)
        PROVE  Grows(u, i)
    BY <2>2, OpensSoap
  <2>3. ASSUME NEW v \in User, NEW on \in User, NEW kind \in Curses, CastCurse(v, on, kind)
        PROVE  Grows(u, i)
    BY <2>3, Uses, UsedUpIsNotPermanent DEF CastCurse
  <2>4. ASSUME NEW v \in User, NEW kind \in Boosts, BoostRoom(v, kind)
        PROVE  Grows(u, i)
    BY <2>4, Uses, UsedUpIsNotPermanent DEF BoostRoom
  <2>5. ASSUME NEW v \in User, SpotMessage(v) \/ Forgive(v)
        PROVE  Grows(u, i)
    BY <2>5, Uses, UsedUpIsNotPermanent DEF SpotMessage, Forgive
  <2>6. CASE UNCHANGED <<inventory, purchases>>
    BY <2>0, <2>6 DEF Grows, Used
  <2> QED BY <2>1, <2>2, <2>3, <2>4, <2>5, <2>6 DEF TillNext, PutOn, ClaimStimulus, FarmAura,
             PayOne, RespectOnce, ViewOnce, Arrange, Show, Unlock, Moderated, Tick
<1>2. ASSUME NEW u \in User
      PROVE  medals[u] \subseteq medals'[u]
  <2>1. ASSUME NEW v \in User, NEW key \in Medals, Unlock(v, key)
        PROVE  medals[u] \subseteq medals'[u]
    BY <2>1 DEF Unlock, TillTypeOK
  <2> QED BY <2>1 DEF TillNext, Buy, OpenSoap, CastCurse, BoostRoom, SpotMessage, Forgive, PutOn,
             ClaimStimulus, FarmAura, PayOne, RespectOnce, ViewOnce, Arrange, Show, Moderated, Tick
<1> QED BY <1>1, <1>2

-----------------------------------------------------------------------------
(* What is worn, laid out and featured is owned, and what the room shows was
   paid for: one step after another, since what is permanent stays. *)
Owned ==
  /\ OwnedOnce
  /\ \A u \in User, i \in Goods : i \notin Permanents => Used(u, i) >= 0
  /\ \A u \in User, i \in Goods : Owns(u, i) /\ Stock[u][i] = 0 => Requires(i) \subseteq medals[u]

Worn(u, i) == i \in FreeItems \cup {Nothing} \/ (i \in Goods \cap Permanents /\ Owns(u, i))
Dressed ==
  \A u \in User :
    /\ \A s \in Slots : Worn(u, equipped[u][s])
    /\ \A w \in users[u].layout : Unlocked(u, w)
    /\ users[u].featured \subseteq medals[u]

Paid ==
  /\ room.sponsor # Nothing => "aura_tax" \in Goods /\ Used(room.sponsor, "aura_tax") > 0
  /\ room.spotlight > 0 => "spotlight" \in Goods /\ \E u \in User : Used(u, "spotlight") > 0

LEMMA OwnedInit == TillInit => Owned /\ Dressed /\ Paid
<1> SUFFICES ASSUME TillInit PROVE Owned /\ Dressed /\ Paid
  OBVIOUS
<1>1. Stock \in [User -> [Goods -> Nat]] /\ \A u \in User, i \in Goods \cap Permanents : Stock[u][i] <= 1
  BY StockAssumption
<1>2. Owned
  BY <1>1 DEF TillInit, Owned, OwnedOnce, Used, Owns
<1>3. Dressed
  BY DefaultLayoutIsFree DEF TillInit, Dressed, Worn, Unlocked
<1>4. Paid
  BY DEF TillInit, Paid
<1> QED BY <1>2, <1>3, <1>4

LEMMA OwnedStep ==
  ASSUME TillTypeOK, Owned, [TillNext]_tillVars
  PROVE  Owned'
<1>0. TillTypeOK'
  BY TillTypeStep
<1>1. ASSUME NEW u \in User, NEW i \in Goods
      PROVE  /\ inventory[u][i] \in Nat /\ inventory'[u][i] \in Nat
             /\ Used(u, i) \in Int /\ Used(u, i)' \in Int
  BY <1>0 DEF TillTypeOK, Used
<1>2. \A u \in User, i \in Goods : Grows(u, i)
  BY AllGrow
<1>3. OwnedOnce'
  BY <1>1, <1>2 DEF Owned, OwnedOnce, Grows
<1>4. ASSUME NEW u \in User, NEW i \in Goods, i \notin Permanents
      PROVE  Used(u, i)' >= 0
  <2>1. Used(u, i)' >= Used(u, i) /\ Used(u, i) >= 0
    BY <1>2, <1>4 DEF Owned, Grows
  <2> QED BY <1>1, <2>1
<1>5. ASSUME NEW u \in User, NEW i \in Goods, Owns(u, i)', Stock[u][i] = 0
      PROVE  Requires(i) \subseteq medals'[u]
  <2>1. Requires(i) \subseteq medals[u]
    BY <1>1, <1>2, <1>5 DEF Owned, Grows, Owns
  <2> QED BY <2>1, AllGrow
<1> QED BY <1>3, <1>4, <1>5 DEF Owned

(* What is permanent is owned for ever. *)
LEMMA OwnershipStays ==
  ASSUME TillTypeOK, [TillNext]_tillVars, NEW u \in User
  PROVE  /\ \A i \in Goods \cap Permanents : Owns(u, i) => Owns(u, i)'
         /\ \A i : Worn(u, i) => Worn(u, i)'
         /\ \A w : Unlocked(u, w) => Unlocked(u, w)'
<1>1. ASSUME NEW i \in Goods \cap Permanents, Owns(u, i)
      PROVE  Owns(u, i)'
  <2>1. inventory'[u][i] >= inventory[u][i] /\ inventory[u][i] \in Nat /\ inventory'[u][i] \in Nat
    BY AllGrow, TillTypeStep DEF Grows, TillTypeOK
  <2> QED BY <1>1, <2>1 DEF Owns
<1> QED BY <1>1, UnlocksArePermanent DEF Worn, Unlocked

LEMMA DressedStep ==
  ASSUME TillTypeOK, Dressed, [TillNext]_tillVars
  PROVE  Dressed'
<1>1. ASSUME NEW v \in User, NEW s \in Slots, NEW i \in Wearable, PutOn(v, s, i)
      PROVE  Dressed'
  <2>1. Worn(v, i)
    BY <1>1, SlotsTakePermanents DEF PutOn, CanWear, Worn, Wearable
  <2>2. \A u \in User, q \in Slots : Worn(u, equipped'[u][q])
    BY <1>1, <2>1 DEF PutOn, Dressed, TillTypeOK
  <2> QED BY <1>1, <2>2 DEF PutOn, Dressed, Worn, Owns, Unlocked
<1>2. ASSUME NEW v \in User, NEW layout \in Layouts, Arrange(v, layout)
      PROVE  Dressed'
  <2>1. \A u \in User : users'[u].layout = IF u = v THEN layout ELSE users[u].layout
    BY <1>2 DEF Arrange, TillTypeOK, UserRow
  <2>2. \A u \in User : users'[u].featured = users[u].featured
    BY <1>2 DEF Arrange, TillTypeOK, UserRow
  <2> QED BY <1>2, <2>1, <2>2 DEF Arrange, Dressed, Worn, Owns, Unlocked
<1>3. ASSUME NEW v \in User, NEW keys \in Showcases, Show(v, keys)
      PROVE  Dressed'
  <2>1. \A u \in User : users'[u].featured = IF u = v THEN keys ELSE users[u].featured
    BY <1>3 DEF Show, TillTypeOK, UserRow
  <2>2. \A u \in User : users'[u].layout = users[u].layout
    BY <1>3 DEF Show, TillTypeOK, UserRow
  <2> QED BY <1>3, <2>1, <2>2 DEF Show, Dressed, Worn, Owns, Unlocked
<1>4. ASSUME equipped' = equipped,
             \A u \in User : users'[u].layout = users[u].layout /\ users'[u].featured = users[u].featured
      PROVE  Dressed'
  BY <1>4, AllGrow, OwnershipStays DEF Dressed
<1>5. CASE UNCHANGED <<users, equipped>>
  BY <1>4, <1>5
<1>6. ASSUME NEW u \in User,
             \/ \E i \in Goods : Buy(u, i)
             \/ OpenSoap(u) \/ Forgive(u) \/ ClaimStimulus(u) \/ FarmAura(u) \/ PayOne(u)
             \/ \E by \in User : RespectOnce(u, by) \/ ViewOnce(u, by)
      PROVE  Dressed'
  <2>1. equipped' = equipped
    BY <1>6 DEF Buy, OpenSoap, Forgive, ClaimStimulus, FarmAura, PayOne, RespectOnce, ViewOnce
  <2>2. \A v \in User : users'[v].layout = users[v].layout /\ users'[v].featured = users[v].featured
    <3>1. users \in [User -> UserRow]
      BY DEF TillTypeOK
    <3>2. ASSUME NEW i \in Goods, Buy(u, i)
          PROVE  \A v \in User : users'[v].layout = users[v].layout /\ users'[v].featured = users[v].featured
      BY <3>1, <3>2 DEF Buy, WithAura, UserRow
    <3>3. CASE OpenSoap(u)
      BY <3>1, <3>3 DEF OpenSoap, WithAura, UserRow
    <3>4. CASE ClaimStimulus(u)
      BY <3>1, <3>4 DEF ClaimStimulus, Claimed, UserRow
    <3>5. CASE Forgive(u) \/ FarmAura(u) \/ PayOne(u)
      BY <3>1, <3>5 DEF Forgive, FarmAura, PayOne, UserRow
    <3>6. CASE \E by \in User : RespectOnce(u, by) \/ ViewOnce(u, by)
      BY <3>1, <3>6 DEF RespectOnce, ViewOnce, UserRow
    <3> QED BY <1>6, <3>2, <3>3, <3>4, <3>5, <3>6
  <2> QED BY <1>4, <2>1, <2>2
<1> QED BY <1>1, <1>2, <1>3, <1>5, <1>6 DEF TillNext, CastCurse, BoostRoom, SpotMessage, Unlock,
           Moderated, Tick

LEMMA PaidStep ==
  ASSUME TillTypeOK, Owned, Paid, [TillNext]_tillVars
  PROVE  Paid'
<1>0. \A u \in User, i \in Goods : Used(u, i) \in Int /\ Used(u, i)' \in Int
  BY TillTypeStep DEF TillTypeOK, Used
<1>a. \A u \in User, i \in Goods : i \notin Permanents => Used(u, i)' >= Used(u, i) /\ Used(u, i) >= 0
  BY AllGrow DEF Grows, Owned
<1>b. "aura_tax" \notin Permanents /\ "spotlight" \notin Permanents
  BY UsedUpIsNotPermanent DEF Boosts
<1>c. room.sponsor \in User \cup {Nothing} /\ room'.sponsor \in User \cup {Nothing}
  BY TillTypeStep DEF TillTypeOK, RoomRow
<1>1. ASSUME room'.sponsor = room.sponsor, room'.spotlight = room.spotlight
      PROVE  Paid'
  <2>1. ASSUME room'.sponsor # Nothing
        PROVE  "aura_tax" \in Goods /\ Used(room.sponsor, "aura_tax")' > 0
    BY <1>0, <1>1, <1>a, <1>b, <1>c, <2>1 DEF Paid
  <2>2. ASSUME room'.spotlight > 0
        PROVE  "spotlight" \in Goods /\ \E u \in User : Used(u, "spotlight")' > 0
    <3>1. PICK u \in User : "spotlight" \in Goods /\ Used(u, "spotlight") > 0
      BY <1>1, <2>2 DEF Paid
    <3>2. Used(u, "spotlight")' > 0
      BY <1>0, <1>a, <1>b, <3>1
    <3> QED BY <3>1, <3>2
  <2> QED BY <1>1, <2>1, <2>2 DEF Paid, Used
<1>2. ASSUME NEW v \in User, NEW kind \in Boosts, BoostRoom(v, kind)
      PROVE  Paid'
  <2>1. CASE kind = "aura_tax"
    <3>1. room'.sponsor = v /\ room'.spotlight = room.spotlight
      BY <1>2, <2>1 DEF BoostRoom, TillTypeOK, RoomRow
    <3>2. "aura_tax" \in Goods /\ Used(v, "aura_tax")' = Used(v, "aura_tax") + 1
      BY <1>2, <1>b, <2>1, Uses DEF BoostRoom
    <3>3. Used(v, "aura_tax")' > 0
      BY <1>0, <1>a, <1>b, <3>2
    <3>4. room'.spotlight > 0 => "spotlight" \in Goods /\ \E u \in User : Used(u, "spotlight")' > 0
      <4>1. ASSUME NEW u \in User, "spotlight" \in Goods, Used(u, "spotlight") > 0
            PROVE  Used(u, "spotlight")' > 0
        BY <1>0, <1>a, <1>b, <4>1
      <4> QED BY <3>1, <4>1 DEF Paid
    <3> QED BY <3>1, <3>2, <3>3, <3>4 DEF Paid, Used
  <2>2. CASE kind # "aura_tax"
    <3>1. room'.sponsor = room.sponsor /\ room'.spotlight = room.spotlight
      BY <1>2, <2>2 DEF BoostRoom, TillTypeOK, RoomRow, Boosts
    <3> QED BY <1>1, <3>1
  <2> QED BY <2>1, <2>2
<1>3. ASSUME NEW v \in User, SpotMessage(v)
      PROVE  Paid'
  <2>1. room'.sponsor = room.sponsor
    BY <1>3 DEF SpotMessage, TillTypeOK, RoomRow
  <2>2. "spotlight" \in Goods /\ Used(v, "spotlight")' = Used(v, "spotlight") + 1
    BY <1>3, <1>b, Uses DEF SpotMessage
  <2>3. Used(v, "spotlight")' > 0
    BY <1>0, <1>a, <1>b, <2>2
  <2>4. ASSUME room.sponsor # Nothing
        PROVE  "aura_tax" \in Goods /\ Used(room.sponsor, "aura_tax")' > 0
    BY <1>0, <1>a, <1>b, <1>c, <2>1, <2>4 DEF Paid
  <2> QED BY <2>1, <2>2, <2>3, <2>4 DEF Paid, Used
<1>4. CASE Moderated
  <2>1. room'.sponsor = room.sponsor /\ room'.spotlight = room.spotlight
    BY <1>4 DEF Moderated, TillTypeOK, RoomRow
  <2> QED BY <1>1, <2>1
<1> QED BY <1>1, <1>2, <1>3, <1>4 DEF TillNext, Buy, OpenSoap, CastCurse, Forgive, PutOn,
           ClaimStimulus, FarmAura, PayOne, RespectOnce, ViewOnce, Arrange, Show, Unlock, Tick

-----------------------------------------------------------------------------
LEMMA CursesStep ==
  ASSUME TillTypeOK, CursesApart, [TillNext]_tillVars
  PROVE  CursesApart'
<1>1. ASSUME NEW u \in User, NEW on \in User, NEW kind \in Curses, CastCurse(u, on, kind)
      PROVE  CursesApart'
  <2> DEFINE new == Curse(on, kind, u)
  <2>1. effects' = effects \cup {new} /\ new.target = on /\ new.kind = kind
        /\ new.until = clock + Lasts[kind]
    BY <1>1 DEF CastCurse, Curse
  <2>2. clock \in Nat /\ Lasts[kind] \in Nat /\ \A e \in effects : e.until \in Nat
    BY GoodsType, LastsType DEF TillTypeOK, Effect
  <2>3. ASSUME NEW e \in effects, e.target = on, e.kind = kind
        PROVE  new.until - Lasts[new.kind] >= e.until
    <3>1. ~(e.until > clock)
      BY <1>1, <2>3 DEF CastCurse, Cursed, ActiveEffects
    <3> QED BY <2>1, <2>2, <3>1
  <2> HIDE DEF new
  <2> QED BY <2>1, <2>3 DEF CursesApart
<1>2. CASE UNCHANGED effects
  BY <1>2 DEF CursesApart
<1> QED BY <1>1, <1>2 DEF TillNext, Buy, OpenSoap, BoostRoom, SpotMessage, Forgive, PutOn,
           ClaimStimulus, FarmAura, PayOne, RespectOnce, ViewOnce, Arrange, Show, Unlock,
           Moderated, Tick

(* The respects and the views are finitely many: they are counted. *)
Countable == CountedOnce /\ IsFiniteSet(respects) /\ IsFiniteSet(views)

LEMMA CountedInit == TillInit => Countable /\ CursesApart
<1> SUFFICES ASSUME TillInit PROVE Countable /\ CursesApart
  OBVIOUS
<1>1. respects = {} /\ views = {} /\ effects = {}
  BY DEF TillInit
<1>2. \A u \in User : users[u].respect = StartRespects /\ users[u].views = 0
  BY DEF TillInit
<1>3. \A u \in User : {r \in respects : r[1] = u} = {} /\ {v \in views : v.profile = u} = {}
  BY <1>1
<1> QED BY <1>1, <1>2, <1>3, FS_EmptySet, StartAssumption DEF Countable, CountedOnce, CursesApart

LEMMA CountedStep ==
  ASSUME TillTypeOK, Countable, [TillNext]_tillVars
  PROVE  Countable'
<1>0. users \in [User -> UserRow] /\ StartRespects \in Nat
  BY StartAssumption DEF TillTypeOK
<1>a. ASSUME NEW u \in User
      PROVE  /\ IsFiniteSet({r \in respects : r[1] = u}) /\ IsFiniteSet({v \in views : v.profile = u})
             /\ Cardinality({r \in respects : r[1] = u}) \in Nat
             /\ Cardinality({v \in views : v.profile = u}) \in Nat
  <2>1. {r \in respects : r[1] = u} \subseteq respects /\ {v \in views : v.profile = u} \subseteq views
    OBVIOUS
  <2>2. IsFiniteSet({r \in respects : r[1] = u}) /\ IsFiniteSet({v \in views : v.profile = u})
    BY <2>1, FS_Subset DEF Countable
  <2> QED BY <2>2, FS_CardinalityType
<1>1. ASSUME NEW v \in User, NEW by \in User, RespectOnce(v, by)
      PROVE  Countable'
  <2>1. /\ <<v, by>> \notin respects /\ respects' = respects \cup {<<v, by>>} /\ views' = views
        /\ users' = [users EXCEPT ![v].respect = users[v].respect + 1]
    BY <1>1 DEF RespectOnce
  <2>2. IsFiniteSet(respects')
    BY <2>1, FS_AddElement DEF Countable
  <2>3. \A u \in User : /\ users'[u].respect = IF u = v THEN users[u].respect + 1 ELSE users[u].respect
                        /\ users'[u].views = users[u].views
    BY <1>0, <2>1 DEF UserRow
  <2>4. ASSUME NEW u \in User
        PROVE  users'[u].respect = StartRespects + Cardinality({r \in respects' : r[1] = u})
    <3>1. users[u].respect = StartRespects + Cardinality({r \in respects : r[1] = u})
      BY DEF Countable, CountedOnce
    <3>2. CASE u = v
      <4>1. {r \in respects' : r[1] = u} = {r \in respects : r[1] = u} \cup {<<v, by>>}
        BY <2>1, <3>2
      <4>2. <<v, by>> \notin {r \in respects : r[1] = u}
        BY <2>1
      <4>3. Cardinality({r \in respects' : r[1] = u}) = Cardinality({r \in respects : r[1] = u}) + 1
        BY <1>a, <4>1, <4>2, FS_AddElement
      <4>4. users[u].respect = StartRespects + Cardinality({r \in respects : r[1] = u})
            /\ users'[u].respect = users[u].respect + 1
        BY <2>3, <3>1, <3>2
      <4> DEFINE before == Cardinality({r \in respects : r[1] = u})
      <4>5. before \in Nat
        BY <1>a
      <4> HIDE DEF before
      <4>6. users'[u].respect = StartRespects + (before + 1)
        BY <1>0, <4>4, <4>5 DEF before
      <4> QED BY <4>3, <4>6 DEF before
    <3>3. CASE u # v
      <4>1. {r \in respects' : r[1] = u} = {r \in respects : r[1] = u}
        BY <2>1, <3>3
      <4> QED BY <2>3, <3>1, <3>3, <4>1
    <3> QED BY <3>2, <3>3
  <2> QED BY <2>1, <2>2, <2>3, <2>4 DEF Countable, CountedOnce
<1>2. ASSUME NEW v \in User, NEW by \in User, ViewOnce(v, by)
      PROVE  Countable'
  <2>1. PICK day \in 0..Day(clock) :
          LET view == [profile |-> v, viewer |-> by, day |-> day]
          IN  view \notin views /\ views' = views \cup {view}
    BY <1>2 DEF ViewOnce
  <2> DEFINE view == [profile |-> v, viewer |-> by, day |-> day]
  <2>2. /\ respects' = respects
        /\ users' = [users EXCEPT ![v].views = users[v].views + 1]
    BY <1>2 DEF ViewOnce
  <2>3. view \notin views /\ views' = views \cup {view} /\ view.profile = v
    BY <2>1
  <2> HIDE DEF view
  <2>4. IsFiniteSet(views')
    BY <2>3, FS_AddElement DEF Countable
  <2>5. \A u \in User : /\ users'[u].views = IF u = v THEN users[u].views + 1 ELSE users[u].views
                        /\ users'[u].respect = users[u].respect
    BY <1>0, <2>2 DEF UserRow
  <2>6. ASSUME NEW u \in User
        PROVE  users'[u].views = Cardinality({x \in views' : x.profile = u})
    <3>1. users[u].views = Cardinality({x \in views : x.profile = u})
      BY DEF Countable, CountedOnce
    <3>2. CASE u = v
      <4>1. {x \in views' : x.profile = u} = {x \in views : x.profile = u} \cup {view}
        BY <2>3, <3>2
      <4>2. view \notin {x \in views : x.profile = u}
        BY <2>3
      <4>3. Cardinality({x \in views' : x.profile = u}) = Cardinality({x \in views : x.profile = u}) + 1
        BY <1>a, <4>1, <4>2, FS_AddElement
      <4> QED BY <2>5, <3>1, <3>2, <4>3
    <3>3. CASE u # v
      <4>1. {x \in views' : x.profile = u} = {x \in views : x.profile = u}
        BY <2>3, <3>3
      <4> QED BY <2>5, <3>1, <3>3, <4>1
    <3> QED BY <3>2, <3>3
  <2> QED BY <2>2, <2>4, <2>5, <2>6 DEF Countable, CountedOnce
<1>3. ASSUME UNCHANGED <<respects, views>>,
             \A u \in User : users'[u].respect = users[u].respect /\ users'[u].views = users[u].views
      PROVE  Countable'
  BY <1>3 DEF Countable, CountedOnce
<1>4. CASE UNCHANGED <<respects, views, users>>
  BY <1>3, <1>4
<1>5. ASSUME NEW u \in User,
             \/ \E i \in Goods : Buy(u, i)
             \/ OpenSoap(u) \/ Forgive(u) \/ ClaimStimulus(u) \/ FarmAura(u) \/ PayOne(u)
             \/ \E layout \in Layouts : Arrange(u, layout)
             \/ \E keys \in Showcases : Show(u, keys)
      PROVE  Countable'
  <2>1. UNCHANGED <<respects, views>>
    BY <1>5 DEF Buy, OpenSoap, Forgive, ClaimStimulus, FarmAura, PayOne, Arrange, Show
  <2>2. \A v \in User : users'[v].respect = users[v].respect /\ users'[v].views = users[v].views
    <3>2. ASSUME NEW i \in Goods, Buy(u, i)
          PROVE  \A v \in User : users'[v].respect = users[v].respect /\ users'[v].views = users[v].views
      BY <1>0, <3>2 DEF Buy, WithAura, UserRow
    <3>3. CASE OpenSoap(u)
      BY <1>0, <3>3 DEF OpenSoap, WithAura, UserRow
    <3>4. CASE ClaimStimulus(u)
      BY <1>0, <3>4 DEF ClaimStimulus, Claimed, UserRow
    <3>5. CASE Forgive(u) \/ FarmAura(u) \/ PayOne(u)
      BY <1>0, <3>5 DEF Forgive, FarmAura, PayOne, UserRow
    <3>6. CASE \/ \E layout \in Layouts : Arrange(u, layout)
               \/ \E keys \in Showcases : Show(u, keys)
      BY <1>0, <3>6 DEF Arrange, Show, UserRow
    <3> QED BY <1>5, <3>2, <3>3, <3>4, <3>5, <3>6
  <2> QED BY <1>3, <2>1, <2>2
<1> QED BY <1>1, <1>2, <1>4, <1>5 DEF TillNext, CastCurse, BoostRoom, SpotMessage, PutOn, Unlock,
           Moderated, Tick

-----------------------------------------------------------------------------
(* The books: what a user has is what he had, farmed and was given, less    *)
(* what he paid, and what he used left its trace.                           *)
LEMMA SixAreFinite ==
  ASSUME NEW a, NEW b, NEW c, NEW d, NEW e, NEW f
  PROVE  IsFiniteSet({a, b, c, d, e, f})
<1>1. IsFiniteSet({a, b, c})
  <2>1. IsFiniteSet({} \cup {a})
    BY FS_EmptySet, FS_AddElement
  <2>2. IsFiniteSet(({} \cup {a}) \cup {b})
    BY <2>1, FS_AddElement
  <2>3. IsFiniteSet((({} \cup {a}) \cup {b}) \cup {c})
    BY <2>2, FS_AddElement
  <2>4. (({} \cup {a}) \cup {b}) \cup {c} = {a, b, c}
    OBVIOUS
  <2> QED BY <2>3, <2>4
<1>2. IsFiniteSet({a, b, c} \cup {d})
  BY <1>1, FS_AddElement
<1>3. IsFiniteSet(({a, b, c} \cup {d}) \cup {e})
  BY <1>2, FS_AddElement
<1>4. IsFiniteSet((({a, b, c} \cup {d}) \cup {e}) \cup {f})
  BY <1>3, FS_AddElement
<1>5. (({a, b, c} \cup {d}) \cup {e}) \cup {f} = {a, b, c, d, e, f}
  OBVIOUS
<1> QED BY <1>4, <1>5

LEMMA GoodsAreFinite == IsFiniteSet(Goods)
<1>1. IsFiniteSet(Accents)
  <2>1. Accents = {"accent_magenta", "accent_acid_pink", "accent_deep_violet",
                   "accent_cold_red", "accent_rose", "accent_rose"}
    BY DEF Accents
  <2> QED BY <2>1, SixAreFinite
<1>2. IsFiniteSet(Backgrounds)
  <2>1. Backgrounds = {"bg_scanlines", "bg_starfield", "bg_matrix_pink", "bg_static", "bg_grid",
                       "bg_grid"}
    BY DEF Backgrounds
  <2> QED BY <2>1, SixAreFinite
<1>3. IsFiniteSet(Titles)
  <2>1. Titles = {"title_certified_yapper", "title_basement_dweller", "title_debt_collector",
                  "title_touched_grass_once", "title_aura_merchant", "title_aura_merchant"}
    BY DEF Titles
  <2> QED BY <2>1, SixAreFinite
<1>4. IsFiniteSet(NameColors)
  BY SixAreFinite DEF NameColors
<1>5. IsFiniteSet(NameIcons)
  <2>1. NameIcons = {"nameicon_skull", "nameicon_soap", "nameicon_crown", "nameicon_clown",
                     "nameicon_clown", "nameicon_clown"}
    BY DEF NameIcons
  <2> QED BY <2>1, SixAreFinite
<1>6. IsFiniteSet(Quotes)
  <2>1. Quotes = {"quote_neon", "quote_greentext", "quote_redacted", "quote_redacted",
                  "quote_redacted", "quote_redacted"}
    BY DEF Quotes
  <2> QED BY <2>1, SixAreFinite
<1>7. IsFiniteSet(Themes)
  BY SixAreFinite DEF Themes
<1> DEFINE Others == {"verified_chud", "hit_counter", "vine_boom", "spotlight", "aura_tax", "room_boost"}
           Rest == {"clown_stamp", "rename_curse", "fight_insurance", "debt_forgiveness",
                    "mystery_soap", "mystery_soap"}
<1>8. IsFiniteSet(Others) /\ IsFiniteSet(Rest)
  BY SixAreFinite
<1>9. Items \subseteq Accents \cup (Backgrounds \cup (Titles \cup (NameColors \cup (NameIcons
                        \cup (Quotes \cup (Themes \cup (Others \cup Rest)))))))
  BY DEF Items, Consumables, Permanents
<1> HIDE DEF Others, Rest
<1>10. IsFiniteSet(Quotes \cup (Themes \cup (Others \cup Rest)))
  BY <1>6, <1>7, <1>8, FS_Union
<1>11. IsFiniteSet(NameColors \cup (NameIcons \cup (Quotes \cup (Themes \cup (Others \cup Rest)))))
  BY <1>4, <1>5, <1>10, FS_Union
<1>12. IsFiniteSet(Accents \cup (Backgrounds \cup (Titles \cup (NameColors \cup (NameIcons
                        \cup (Quotes \cup (Themes \cup (Others \cup Rest))))))))
  BY <1>1, <1>2, <1>3, <1>11, FS_Union
<1> QED BY <1>9, <1>12, GoodsType, FS_Subset

(* What one purchase, one soap and one use change. *)
UsedUp == Curses \cup Boosts \cup {"spotlight", "debt_forgiveness"}

LEMMA UsedByUse ==
  ASSUME TillTypeOK, NEW v \in User, NEW j \in Goods, inventory' = Consumed(v, j),
         purchases' = purchases
  PROVE  \A u \in User, i \in Goods :
           Used(u, i)' = IF u = v /\ i = j THEN Used(u, i) + 1 ELSE Used(u, i)
<1> SUFFICES ASSUME NEW u \in User, NEW i \in Goods
             PROVE  Used(u, i)' = IF u = v /\ i = j THEN Used(u, i) + 1 ELSE Used(u, i)
  OBVIOUS
<1>1. inventory[u][i] \in Nat /\ purchases[u][i] \in Nat
  BY DEF TillTypeOK
<1>2. inventory'[u][i] = IF u = v /\ i = j THEN inventory[u][i] - 1 ELSE inventory[u][i]
  BY DEF TillTypeOK, Consumed
<1> QED BY <1>1, <1>2 DEF Used

LEMMA UsedStays ==
  ASSUME TillTypeOK, NEW v \in User,
         (\E i \in Goods : Buy(v, i)) \/ OpenSoap(v) \/ UNCHANGED <<inventory, purchases>>,
         NEW u \in User, NEW k \in Goods, k \in UsedUp
  PROVE  Used(u, k)' = Used(u, k)
<1>1. inventory[u][k] \in Nat /\ purchases[u][k] \in Nat
  BY DEF TillTypeOK
<1>2. ASSUME NEW i \in Goods, Buy(v, i)
      PROVE  Used(u, k)' = Used(u, k)
  <2>1. inventory'[u][k] = IF u = v /\ k = i THEN inventory[u][k] + 1 ELSE inventory[u][k]
    BY <1>2 DEF Buy, TillTypeOK, Granted
  <2>2. purchases'[u][k] = IF u = v /\ k = i THEN purchases[u][k] + 1 ELSE purchases[u][k]
    BY <1>2 DEF Buy, TillTypeOK, Bought
  <2> QED BY <1>1, <2>1, <2>2 DEF Used
<1>3. CASE OpenSoap(v)
  <2>1. purchases'[u][k] = purchases[u][k]
    BY <1>3 DEF OpenSoap, TillTypeOK, Bought, UsedUp, Curses, Boosts
  <2>2. PICK j \in SoapPool \cap Goods : inventory' = inventory \/ inventory' = Granted(v, j)
    BY <1>3 DEF OpenSoap
  <2>3. j # k
    BY SoapHoldsPermanents, UsedUpIsNotPermanent DEF UsedUp
  <2>4. ASSUME inventory' = Granted(v, j)
        PROVE  inventory'[u][k] = inventory[u][k]
    BY <2>3, <2>4 DEF TillTypeOK, Granted
  <2>5. inventory'[u][k] = inventory[u][k]
    BY <2>2, <2>4
  <2> QED BY <2>1, <2>5 DEF Used
<1> QED BY <1>2, <1>3 DEF Used

(* What is permanent and was bought is held. *)
BoughtIsHeld == \A u \in User, i \in Goods \cap Permanents : purchases[u][i] <= inventory[u][i]
DebtsAreKept ==
  \A u \in User :
    users[u].debt + users[u].paid
      = StartDebt - (IF "debt_forgiveness" \in Goods
                     THEN Forgiven * Used(u, "debt_forgiveness") ELSE 0)
CursesAreKept ==
  /\ IsFiniteSet(effects)
  /\ \A u \in User, k \in Goods \cap Curses :
       Used(u, k) = Cardinality({e \in effects : e.by = u /\ e.kind = k})
PostsAreKept ==
  \A u \in User, k \in Goods \cap (Boosts \cup {"spotlight"}) :
    Used(u, k) = IF u = Creator THEN posts[k] ELSE 0
Kept == BoughtIsHeld /\ DebtsAreKept /\ CursesAreKept /\ PostsAreKept

LEMMA KeptInit == TillInit => Kept
<1> SUFFICES ASSUME TillInit PROVE Kept
  OBVIOUS
<1>1. Stock \in [User -> [Goods -> Nat]] /\ StartDebt \in Int
  BY StockAssumption, StartAssumption
<1>2. \A u \in User, i \in Goods : Used(u, i) = 0
  BY <1>1 DEF TillInit, Used
<1>3. BoughtIsHeld
  BY <1>1 DEF TillInit, BoughtIsHeld
<1>4. DebtsAreKept
  BY <1>1, <1>2 DEF TillInit, DebtsAreKept, Forgiven
<1>5. CursesAreKept
  <2>1. \A u, k : {e \in effects : e.by = u /\ e.kind = k} = {}
    BY DEF TillInit
  <2>2. effects = {}
    BY DEF TillInit
  <2> QED BY <1>2, <2>1, <2>2, FS_EmptySet DEF CursesAreKept
<1>6. PostsAreKept
  BY <1>2 DEF TillInit, PostsAreKept
<1> QED BY <1>3, <1>4, <1>5, <1>6 DEF Kept

LEMMA BoughtStep ==
  ASSUME TillTypeOK, BoughtIsHeld, [TillNext]_tillVars
  PROVE  BoughtIsHeld'
<1> SUFFICES ASSUME NEW u \in User, NEW i \in Goods \cap Permanents
             PROVE  purchases'[u][i] <= inventory'[u][i]
  BY DEF BoughtIsHeld
<1>0. inventory[u][i] \in Nat /\ purchases[u][i] \in Nat /\ purchases[u][i] <= inventory[u][i]
  BY DEF TillTypeOK, BoughtIsHeld
<1>1. ASSUME NEW v \in User, NEW j \in Goods, Buy(v, j)
      PROVE  purchases'[u][i] <= inventory'[u][i]
  <2>1. inventory'[u][i] = IF u = v /\ i = j THEN inventory[u][i] + 1 ELSE inventory[u][i]
    BY <1>1 DEF Buy, TillTypeOK, Granted
  <2>2. purchases'[u][i] = IF u = v /\ i = j THEN purchases[u][i] + 1 ELSE purchases[u][i]
    BY <1>1 DEF Buy, TillTypeOK, Bought
  <2> QED BY <1>0, <2>1, <2>2
<1>2. ASSUME purchases'[u][i] = purchases[u][i]
      PROVE  purchases'[u][i] <= inventory'[u][i]
  <2>1. inventory'[u][i] >= inventory[u][i] /\ inventory'[u][i] \in Nat
    BY AllGrow, TillTypeStep DEF Grows, TillTypeOK
  <2> QED BY <1>0, <1>2, <2>1
<1>3. ASSUME NEW v \in User, OpenSoap(v)
      PROVE  purchases'[u][i] = purchases[u][i]
  BY <1>3, RefundIsNat DEF OpenSoap, TillTypeOK, Bought
<1>4. (\E v \in User : (\E j \in Goods : Buy(v, j)) \/ OpenSoap(v)) \/ purchases' = purchases
  BY DEF TillNext, CastCurse, BoostRoom, SpotMessage, Forgive, PutOn, ClaimStimulus, FarmAura,
     PayOne, RespectOnce, ViewOnce, Arrange, Show, Unlock, Moderated, Tick
<1> QED BY <1>1, <1>2, <1>3, <1>4

LEMMA DebtsStep ==
  ASSUME TillTypeOK, DebtsAreKept, [TillNext]_tillVars
  PROVE  DebtsAreKept'
<1>0. users \in [User -> UserRow] /\ StartDebt \in Int
  BY StartAssumption DEF TillTypeOK
<1>a. "debt_forgiveness" \in UsedUp /\ \A u \in User : Used(u, "debt_forgiveness")' \in Int
                                        \/ "debt_forgiveness" \notin Goods
  BY TillTypeStep DEF UsedUp, Used, TillTypeOK
<1>1. ASSUME \A u \in User : users'[u].debt + users'[u].paid = users[u].debt + users[u].paid,
             "debt_forgiveness" \in Goods =>
               \A u \in User : Used(u, "debt_forgiveness")' = Used(u, "debt_forgiveness")
      PROVE  DebtsAreKept'
  BY <1>1 DEF DebtsAreKept
<1>2. ASSUME NEW v \in User, Forgive(v)
      PROVE  DebtsAreKept'
  <2>1. "debt_forgiveness" \in Goods /\ inventory' = Consumed(v, "debt_forgiveness")
        /\ purchases' = purchases
    BY <1>2 DEF Forgive
  <2>2. \A u \in User : Used(u, "debt_forgiveness")'
          = IF u = v THEN Used(u, "debt_forgiveness") + 1 ELSE Used(u, "debt_forgiveness")
    BY <2>1, UsedByUse
  <2>3. \A u \in User : /\ users'[u].debt = IF u = v THEN users[u].debt - Forgiven ELSE users[u].debt
                        /\ users'[u].paid = users[u].paid
    BY <1>0, <1>2 DEF Forgive, UserRow
  <2>4. \A u \in User : users[u].debt \in Int /\ users[u].paid \in Nat
                        /\ Used(u, "debt_forgiveness") \in Int
    BY <1>0, <2>1 DEF UserRow, Used, TillTypeOK
  <2> QED BY <1>0, <2>1, <2>2, <2>3, <2>4 DEF DebtsAreKept, Forgiven
<1>3. ASSUME NEW v \in User,
             \/ \E i \in Goods : Buy(v, i)
             \/ OpenSoap(v) \/ ClaimStimulus(v) \/ FarmAura(v) \/ PayOne(v)
             \/ \E by \in User : RespectOnce(v, by) \/ ViewOnce(v, by)
             \/ \E layout \in Layouts : Arrange(v, layout)
             \/ \E keys \in Showcases : Show(v, keys)
      PROVE  DebtsAreKept'
  <2>1. \A u \in User : users[u].debt \in Int /\ users[u].paid \in Nat
    BY <1>0 DEF UserRow
  <2>2. \A u \in User : users'[u].debt + users'[u].paid = users[u].debt + users[u].paid
    <3>1. ASSUME NEW i \in Goods, Buy(v, i)
          PROVE  \A u \in User : users'[u].debt + users'[u].paid = users[u].debt + users[u].paid
      BY <1>0, <3>1 DEF Buy, WithAura, UserRow
    <3>2. CASE OpenSoap(v)
      BY <1>0, <3>2 DEF OpenSoap, WithAura, UserRow
    <3>3. CASE ClaimStimulus(v)
      BY <1>0, <3>3 DEF ClaimStimulus, Claimed, UserRow
    <3>4. CASE FarmAura(v) \/ PayOne(v)
      BY <1>0, <2>1, <3>4 DEF FarmAura, PayOne, UserRow
    <3>5. CASE \E by \in User : RespectOnce(v, by)
      BY <1>0, <3>5 DEF RespectOnce, UserRow
    <3>6. CASE \E by \in User : ViewOnce(v, by)
      BY <1>0, <3>6 DEF ViewOnce, UserRow
    <3>7. CASE (\E layout \in Layouts : Arrange(v, layout)) \/ (\E keys \in Showcases : Show(v, keys))
      BY <1>0, <3>7 DEF Arrange, Show, UserRow
    <3> QED BY <1>3, <3>1, <3>2, <3>3, <3>4, <3>5, <3>6, <3>7
  <2>3. (\E i \in Goods : Buy(v, i)) \/ OpenSoap(v) \/ UNCHANGED <<inventory, purchases>>
    BY <1>3 DEF ClaimStimulus, FarmAura, PayOne, RespectOnce, ViewOnce, Arrange, Show
  <2> QED BY <1>1, <1>a, <2>2, <2>3, UsedStays
<1>4. ASSUME NEW v \in User, NEW k \in Goods, k # "debt_forgiveness",
             inventory' = Consumed(v, k), UNCHANGED <<users, purchases>>
      PROVE  DebtsAreKept'
  <2>1. \A u \in User : "debt_forgiveness" \in Goods =>
          Used(u, "debt_forgiveness")' = Used(u, "debt_forgiveness")
    BY <1>4, UsedByUse
  <2> QED BY <1>1, <1>4, <2>1
<1>5. CASE UNCHANGED <<users, inventory, purchases>>
  BY <1>1, <1>5 DEF Used
<1>6. ASSUME NEW v \in User,
             \/ \E on \in User, kind \in Curses : CastCurse(v, on, kind)
             \/ \E kind \in Boosts : BoostRoom(v, kind)
             \/ SpotMessage(v)
      PROVE  DebtsAreKept'
  BY <1>4, <1>6 DEF CastCurse, BoostRoom, SpotMessage, Curses, Boosts
<1> QED BY <1>2, <1>3, <1>5, <1>6 DEF TillNext, PutOn, Unlock, Moderated, Tick

(* What is used up by an operation that is neither a curse nor a post is a
   debt forgiven. *)
LEMMA OtherUses ==
  ASSUME TillTypeOK, [TillNext]_tillVars,
         NEW k \in Goods \cap (Curses \cup Boosts \cup {"spotlight"}), NEW u \in User
  PROVE  \/ Used(u, k)' = Used(u, k)
         \/ \E on \in User : k \in Curses /\ CastCurse(u, on, k)
         \/ k \in Boosts /\ BoostRoom(u, k)
         \/ k = "spotlight" /\ SpotMessage(u)
<1>0. k \in UsedUp /\ k # "debt_forgiveness"
  BY DEF UsedUp, Curses, Boosts
<1>1. ASSUME NEW v \in User, NEW on \in User, NEW kind \in Curses, CastCurse(v, on, kind),
             ~(v = u /\ kind = k)
      PROVE  Used(u, k)' = Used(u, k)
  BY <1>1, UsedByUse DEF CastCurse
<1>2. ASSUME NEW v \in User, NEW kind \in Boosts, BoostRoom(v, kind), ~(v = u /\ kind = k)
      PROVE  Used(u, k)' = Used(u, k)
  <2>1. kind \in Goods /\ inventory' = Consumed(v, kind) /\ purchases' = purchases
    BY <1>2 DEF BoostRoom
  <2> QED BY <1>2, <2>1, UsedByUse
<1>3. ASSUME NEW v \in User, SpotMessage(v), ~(v = u /\ k = "spotlight")
      PROVE  Used(u, k)' = Used(u, k)
  BY <1>3, UsedByUse DEF SpotMessage
<1>4. ASSUME NEW v \in User, Forgive(v)
      PROVE  Used(u, k)' = Used(u, k)
  BY <1>0, <1>4, UsedByUse DEF Forgive
<1>5. ASSUME NEW v \in User, (\E i \in Goods : Buy(v, i)) \/ OpenSoap(v)
      PROVE  Used(u, k)' = Used(u, k)
  BY <1>0, <1>5, UsedStays
<1>6. CASE UNCHANGED <<inventory, purchases>>
  BY <1>6 DEF Used
<1> QED BY <1>1, <1>2, <1>3, <1>4, <1>5, <1>6 DEF TillNext, PutOn, ClaimStimulus, FarmAura, PayOne,
           RespectOnce, ViewOnce, Arrange, Show, Unlock, Moderated, Tick

LEMMA CursesKeptStep ==
  ASSUME TillTypeOK, CursesAreKept, [TillNext]_tillVars
  PROVE  CursesAreKept'
<1>1. ASSUME NEW v \in User, NEW on \in User, NEW kind \in Curses, CastCurse(v, on, kind)
      PROVE  CursesAreKept'
  <2> DEFINE new == Curse(on, kind, v)
  <2>1. effects' = effects \cup {new} /\ new.target = on /\ new.kind = kind /\ new.by = v
        /\ new.until = clock + Lasts[kind] /\ kind \in Goods
    BY <1>1 DEF CastCurse, Curse
  <2>2. new \notin effects
    <3>1. clock \in Nat /\ Lasts[kind] \in Nat \ {0}
      BY GoodsType, LastsType DEF TillTypeOK
    <3>2. ~(new \in effects /\ new.until > clock)
      BY <1>1, <2>1 DEF CastCurse, Cursed, ActiveEffects
    <3> QED BY <2>1, <3>1, <3>2
  <2>3. inventory' = Consumed(v, kind) /\ purchases' = purchases
    BY <1>1 DEF CastCurse
  <2> HIDE DEF new
  <2>4. IsFiniteSet(effects) /\ IsFiniteSet(effects')
    BY <2>1, FS_AddElement DEF CursesAreKept
  <2>5. ASSUME NEW u \in User, NEW k \in Goods \cap Curses
        PROVE  Used(u, k)' = Cardinality({e \in effects' : e.by = u /\ e.kind = k})
    <3>1. Used(u, k) = Cardinality({e \in effects : e.by = u /\ e.kind = k})
      BY DEF CursesAreKept
    <3>2. Used(u, k)' = IF u = v /\ k = kind THEN Used(u, k) + 1 ELSE Used(u, k)
      BY <2>1, <2>3, UsedByUse
    <3>3. CASE u = v /\ k = kind
      <4>1. {e \in effects' : e.by = u /\ e.kind = k}
              = {e \in effects : e.by = u /\ e.kind = k} \cup {new}
        BY <2>1, <3>3
      <4>2. new \notin {e \in effects : e.by = u /\ e.kind = k}
            /\ IsFiniteSet({e \in effects : e.by = u /\ e.kind = k})
        BY <2>2, <2>4, FS_Subset
      <4>3. Cardinality({e \in effects' : e.by = u /\ e.kind = k})
              = Cardinality({e \in effects : e.by = u /\ e.kind = k}) + 1
        BY <4>1, <4>2, FS_AddElement
      <4> QED BY <3>1, <3>2, <3>3, <4>3
    <3>4. CASE ~(u = v /\ k = kind)
      <4>1. {e \in effects' : e.by = u /\ e.kind = k} = {e \in effects : e.by = u /\ e.kind = k}
        BY <2>1, <3>4
      <4> QED BY <3>1, <3>2, <3>4, <4>1
    <3> QED BY <3>3, <3>4
  <2> QED BY <2>4, <2>5 DEF CursesAreKept
<1>2. CASE ~\E v \in User, on \in User, kind \in Curses : CastCurse(v, on, kind)
  <2>1. effects' = effects
    BY <1>2 DEF TillNext, Buy, OpenSoap, BoostRoom, SpotMessage, Forgive, PutOn, ClaimStimulus,
       FarmAura, PayOne, RespectOnce, ViewOnce, Arrange, Show, Unlock, Moderated, Tick
  <2>2. \A u \in User, k \in Goods \cap Curses : Used(u, k)' = Used(u, k)
    BY <1>2, OtherUses DEF Curses, Boosts
  <2> QED BY <2>1, <2>2 DEF CursesAreKept
<1> QED BY <1>1, <1>2

LEMMA PostsStep ==
  ASSUME TillTypeOK, PostsAreKept, [TillNext]_tillVars
  PROVE  PostsAreKept'
<1> DEFINE K == Boosts \cup {"spotlight"}
<1>0. posts \in [K -> Nat]
  BY DEF TillTypeOK
<1>1. ASSUME NEW v \in User, NEW j \in Goods \cap K, v = Creator, inventory' = Consumed(v, j),
             purchases' = purchases, posts' = [posts EXCEPT ![j] = @ + 1]
      PROVE  PostsAreKept'
  <2>1. \A u \in User, i \in Goods :
          Used(u, i)' = IF u = v /\ i = j THEN Used(u, i) + 1 ELSE Used(u, i)
    BY <1>1, UsedByUse
  <2>2. \A k \in K : posts'[k] = IF k = j THEN posts[k] + 1 ELSE posts[k]
    BY <1>0, <1>1
  <2> QED BY <1>1, <2>1, <2>2 DEF PostsAreKept
<1>2. ASSUME NEW v \in User, NEW kind \in Boosts, BoostRoom(v, kind)
      PROVE  PostsAreKept'
  BY <1>1, <1>2 DEF BoostRoom
<1>3. ASSUME NEW v \in User, SpotMessage(v)
      PROVE  PostsAreKept'
  BY <1>1, <1>3 DEF SpotMessage
<1>4. CASE ~\E v \in User : (\E kind \in Boosts : BoostRoom(v, kind)) \/ SpotMessage(v)
  <2>1. posts' = posts
    BY <1>4 DEF TillNext, Buy, OpenSoap, CastCurse, Forgive, PutOn, ClaimStimulus,
       FarmAura, PayOne, RespectOnce, ViewOnce, Arrange, Show, Unlock, Moderated, Tick
  <2>2. \A u \in User, k \in Goods \cap K : Used(u, k)' = Used(u, k)
    BY <1>4, OtherUses DEF Curses, Boosts
  <2> QED BY <2>1, <2>2 DEF PostsAreKept
<1> QED BY <1>2, <1>3, <1>4

LEMMA KeptStep == TillTypeOK /\ Kept /\ [TillNext]_tillVars => Kept'
  BY BoughtStep, DebtsStep, CursesKeptStep, PostsStep DEF Kept

(* What a user has, apart from what he farmed, paid and got back. *)
Income(u) == users[u].aura - users[u].farmed + Spent(u) - Refund * SoapsRefunded(u)

Cost(u) == [i \in Goods |-> Price(i) * (purchases[u][i] - Stock[u][i])]

LEMMA SpentType ==
  ASSUME TillTypeOK, NEW u \in User
  PROVE  /\ IntsOn(Cost(u), Goods) /\ Spent(u) = SumFunctionOnSet(Cost(u), Goods)
         /\ Spent(u) \in Int /\ SoapsRefunded(u) \in Int
         /\ IsFiniteSet(FromSoaps(u)) /\ Cardinality(FromSoaps(u)) \in Nat
<1>1. \A i \in Goods : purchases[u][i] \in Nat /\ Stock[u][i] \in Nat /\ Price(i) \in Nat
  BY StockAssumption, GoodsType, PriceIsNat DEF TillTypeOK
<1>2. \A i \in Goods : Price(i) * (purchases[u][i] - Stock[u][i]) \in Int
  BY <1>1
<1>3. IntsOn(Cost(u), Goods)
  BY <1>2, GoodsAreFinite DEF IntsOn, Cost
<1>4. Spent(u) = SumFunctionOnSet(Cost(u), Goods)
  BY DEF Spent, SumFunction, Cost
<1>5. SumFunctionOnSet(Cost(u), Goods) \in Int
  BY <1>3, SumOfSame
<1>6. IsFiniteSet(FromSoaps(u)) /\ Cardinality(FromSoaps(u)) \in Nat
  <2>1. FromSoaps(u) \subseteq Goods
    BY DEF FromSoaps
  <2> QED BY <2>1, GoodsAreFinite, FS_Subset, FS_CardinalityType
<1>7. SoapsRefunded(u) \in Int
  <2> DEFINE c == Cardinality(FromSoaps(u))
  <2>1. c \in Nat
    BY <1>6
  <2> HIDE DEF c
  <2>2. "mystery_soap" \in Goods =>
          purchases[u]["mystery_soap"] - Stock[u]["mystery_soap"] - c \in Int
    BY <1>1, <2>1
  <2> QED BY <2>2 DEF SoapsRefunded, c
<1> QED BY <1>3, <1>4, <1>5, <1>6, <1>7

LEMMA SpentOnOne ==
  ASSUME TillTypeOK, TillTypeOK', NEW v \in User, NEW i \in Goods, purchases' = Bought(v, i),
         NEW u \in User
  PROVE  Spent(u)' = IF u = v THEN Spent(u) + Price(i) ELSE Spent(u)
<1>1. /\ IntsOn(Cost(u), Goods) /\ Spent(u) = SumFunctionOnSet(Cost(u), Goods)
      /\ Spent(u)' = SumFunctionOnSet(Cost(u)', Goods)
  BY SpentType DEF Spent, SumFunction, Cost
<1>2. \A k \in Goods : purchases[u][k] \in Nat /\ Stock[u][k] \in Nat /\ Price(k) \in Nat
  BY StockAssumption, GoodsType, PriceIsNat DEF TillTypeOK
<1>3. \A k \in Goods :
        purchases'[u][k] = IF u = v /\ k = i THEN purchases[u][k] + 1 ELSE purchases[u][k]
  BY DEF TillTypeOK, Bought
<1>4. CASE u = v
  <2>1. Price(i) * (purchases'[u][i] - Stock[u][i])
          = Price(i) * (purchases[u][i] - Stock[u][i]) + Price(i)
    <3> DEFINE p == Price(i)
               n == purchases[u][i]
               s == Stock[u][i]
    <3>1. p \in Int /\ n \in Int /\ s \in Int /\ purchases'[u][i] = n + 1
      BY <1>2, <1>3, <1>4
    <3> HIDE DEF p, n, s
    <3>2. p * (n + 1 - s) = p * (n - s) + p
      BY <3>1
    <3> QED BY <3>1, <3>2 DEF p, n, s
  <2>2. (Cost(u)')[i] = Cost(u)[i] + Price(i)
    BY <2>1 DEF Cost
  <2>3. \A k \in Goods \ {i} : (Cost(u)')[k] = Cost(u)[k]
    BY <1>3 DEF Cost
  <2>4. Price(i) \in Int
    BY <1>2
  <2> DEFINE f == Cost(u)
             g == Cost(u)'
             d == Price(i)
  <2>5. IntsOn(f, Goods) /\ g[i] = f[i] + d /\ (\A k \in Goods \ {i} : g[k] = f[k]) /\ d \in Int
    BY <1>1, <2>2, <2>3, <2>4
  <2>6. SumFunctionOnSet(g, Goods) = SumFunctionOnSet(f, Goods) + d
    <3> HIDE DEF f, g, d
    <3> QED BY <2>5, SumOfChanged
  <2> QED BY <1>1, <1>4, <2>6
<1>5. CASE u # v
  <2>1. Cost(u)' = Cost(u)
    BY <1>3, <1>5 DEF Cost
  <2> QED BY <1>1, <1>5, <2>1
<1> QED BY <1>4, <1>5

LEMMA RefundedStays ==
  ASSUME TillTypeOK, NEW u \in User, UNCHANGED <<inventory, purchases>>
  PROVE  Spent(u)' = Spent(u) /\ SoapsRefunded(u)' = SoapsRefunded(u)
  BY DEF Spent, SoapsRefunded, FromSoaps

LEMMA BuyRefundsNothing ==
  ASSUME TillTypeOK, NEW v \in User, NEW i \in Goods, Buy(v, i), NEW u \in User
  PROVE  SoapsRefunded(u)' = SoapsRefunded(u)
<1>1. \A k \in Goods : inventory[u][k] \in Nat /\ purchases[u][k] \in Nat
  BY DEF TillTypeOK
<1>2. \A k \in Goods :
        inventory'[u][k] = IF u = v /\ k = i THEN inventory[u][k] + 1 ELSE inventory[u][k]
  BY DEF Buy, TillTypeOK, Granted
<1>3. \A k \in Goods :
        purchases'[u][k] = IF u = v /\ k = i THEN purchases[u][k] + 1 ELSE purchases[u][k]
  BY DEF Buy, TillTypeOK, Bought
<1>4. \A k \in Goods : inventory'[u][k] > purchases'[u][k] <=> inventory[u][k] > purchases[u][k]
  BY <1>1, <1>2, <1>3
<1>5. FromSoaps(u)' = FromSoaps(u)
  BY <1>4 DEF FromSoaps
<1>6. "mystery_soap" \in Goods => purchases'[u]["mystery_soap"] = purchases[u]["mystery_soap"]
  BY <1>3 DEF Buy
<1> QED BY <1>5, <1>6 DEF SoapsRefunded

(* A soap that holds what one has gives a refund, and one that does not has
   given an item. *)
LEMMA SoapRefunds ==
  ASSUME TillTypeOK, TillTypeOK', BoughtIsHeld, NEW v \in User, OpenSoap(v), NEW u \in User
  PROVE  SoapsRefunded(u)' = IF u = v /\ inventory' = inventory THEN SoapsRefunded(u) + 1
                             ELSE SoapsRefunded(u)
<1>1. \A k \in Goods : inventory[u][k] \in Nat /\ purchases[u][k] \in Nat /\ Stock[u][k] \in Nat
  BY StockAssumption DEF TillTypeOK
<1>2. \A k \in Goods : purchases'[u][k] =
        IF u = v /\ k = "mystery_soap" THEN purchases[u][k] + 1 ELSE purchases[u][k]
  BY DEF OpenSoap, TillTypeOK, Bought
<1>3. \A k \in Goods \cap Permanents : purchases'[u][k] = purchases[u][k]
  BY <1>2, RefundIsNat
<1>4. PICK j \in SoapPool \cap Goods :
        inventory' = inventory \/ (~Owns(v, j) /\ inventory' = Granted(v, j))
  BY DEF OpenSoap
<1>5. "mystery_soap" \in Goods /\ j \in Goods \cap Permanents
  BY SoapHoldsPermanents DEF OpenSoap
<1>6. IsFiniteSet(FromSoaps(u)) /\ Cardinality(FromSoaps(u)) \in Nat
  BY SpentType
<1> DEFINE c == Cardinality(FromSoaps(u))
<1>7. CASE inventory' = inventory
  <2>1. FromSoaps(u)' = FromSoaps(u)
    BY <1>3, <1>7 DEF FromSoaps
  <2>2. c \in Nat /\ c' = c
    BY <1>6, <2>1
  <2>3. SoapsRefunded(u) = purchases[u]["mystery_soap"] - Stock[u]["mystery_soap"] - c
        /\ SoapsRefunded(u)' = purchases'[u]["mystery_soap"] - Stock[u]["mystery_soap"] - c
    BY <1>5, <2>2 DEF SoapsRefunded
  <2> HIDE DEF c
  <2> QED BY <1>1, <1>2, <1>5, <1>7, <2>2, <2>3
<1>8. CASE inventory' # inventory /\ u = v
  <2>1. \A k \in Goods : inventory'[u][k] = IF k = j THEN inventory[u][k] + 1 ELSE inventory[u][k]
    BY <1>4, <1>8 DEF TillTypeOK, Granted
  <2>2. inventory[u][j] = 0 /\ purchases[u][j] = 0
    BY <1>1, <1>4, <1>5, <1>8 DEF Owns, BoughtIsHeld
  <2>3. j \notin FromSoaps(u)
    BY <2>2 DEF FromSoaps
  <2>4. FromSoaps(u)' = FromSoaps(u) \cup {j}
    <3>1. \A k \in Goods \cap Permanents :
            inventory'[u][k] > purchases'[u][k] <=> k = j \/ inventory[u][k] > purchases[u][k]
      BY <1>1, <1>3, <2>1, <2>2
    <3> QED BY <1>5, <3>1 DEF FromSoaps
  <2>5. Cardinality(FromSoaps(u)') = Cardinality(FromSoaps(u)) + 1
    BY <1>6, <2>3, <2>4, FS_AddElement
  <2>6. c \in Nat /\ c' = c + 1
    BY <1>6, <2>5
  <2>7. SoapsRefunded(u) = purchases[u]["mystery_soap"] - Stock[u]["mystery_soap"] - c
        /\ SoapsRefunded(u)' = purchases'[u]["mystery_soap"] - Stock[u]["mystery_soap"] - c'
    BY <1>5 DEF SoapsRefunded
  <2> HIDE DEF c
  <2> QED BY <1>1, <1>2, <1>5, <1>8, <2>6, <2>7
<1>9. CASE inventory' # inventory /\ u # v
  <2>1. \A k \in Goods : inventory'[u][k] = inventory[u][k]
    BY <1>4, <1>9 DEF TillTypeOK, Granted
  <2>2. \A k \in Goods : purchases'[u][k] = purchases[u][k]
    BY <1>2, <1>9
  <2>3. FromSoaps(u)' = FromSoaps(u)
    BY <2>1, <2>2 DEF FromSoaps
  <2> QED BY <1>5, <1>9, <2>2, <2>3 DEF SoapsRefunded
<1> QED BY <1>7, <1>8, <1>9

(* What a step gives a user: the stimulus of the day, if it is a claim. *)
Gift(u) == IF users'[u].claimed = users[u].claimed THEN 0 ELSE Stimulus(users'[u].streak)

LEMMA IncomeStep ==
  ASSUME TillTypeOK, BoughtIsHeld, [TillNext]_tillVars, NEW u \in User
  PROVE  Income(u)' = Income(u) + Gift(u)
<1>0. TillTypeOK' /\ users \in [User -> UserRow] /\ users' \in [User -> UserRow]
  BY TillTypeStep DEF TillTypeOK
<1>a. /\ users[u].aura \in Int /\ users[u].farmed \in Nat
      /\ users'[u].aura \in Int /\ users'[u].farmed \in Nat
      /\ Spent(u) \in Int /\ SoapsRefunded(u) \in Int /\ Refund \in Nat
  BY <1>0, SpentType, RefundIsNat DEF UserRow
<1> DEFINE a == users[u].aura
           s == Spent(u)
           r == SoapsRefunded(u)
           f == users[u].farmed
<1>b. ASSUME users'[u].claimed = users[u].claimed, f' = f,
             NEW d \in Int, NEW p \in Int, NEW n \in Int,
             a' = a + d, s' = s + p, r' = r + n, d + p = Refund * n
      PROVE  Income(u)' = Income(u) + Gift(u)
  <2>1. Gift(u) = 0
    BY <1>b DEF Gift
  <2>2. Refund * (r + n) = Refund * r + Refund * n
    <3> HIDE DEF r
    <3> QED BY <1>a, <1>b DEF r
  <2>3. Income(u) = a - f + s - Refund * r /\ Income(u)' = a' - f' + s' - Refund * r'
    BY DEF Income
  <2>4. a \in Int /\ f \in Int /\ s \in Int /\ r \in Int /\ Refund * r \in Int
    BY <1>a
  <2> HIDE DEF a, f, s, r
  <2> QED BY <1>b, <2>1, <2>2, <2>3, <2>4
<1>1. ASSUME NEW v \in User, NEW i \in Goods, Buy(v, i)
      PROVE  Income(u)' = Income(u) + Gift(u)
  <2>1. users'[u].claimed = users[u].claimed /\ f' = f
        /\ a' = IF u = v THEN a - Price(i) ELSE a
    BY <1>0, <1>1 DEF Buy, WithAura, UserRow
  <2>2. s' = IF u = v THEN s + Price(i) ELSE s
    BY <1>0, <1>1, SpentOnOne DEF Buy
  <2>3. r' = r
    BY <1>1, BuyRefundsNothing
  <2>4. Price(i) \in Int
    BY GoodsType, PriceIsNat
  <2>5. CASE u = v
    BY <1>a, <1>b, <2>1, <2>2, <2>3, <2>4, <2>5
  <2>6. CASE u # v
    BY <1>a, <1>b, <2>1, <2>2, <2>3, <2>6
  <2> QED BY <2>5, <2>6
<1>2. ASSUME NEW v \in User, OpenSoap(v)
      PROVE  Income(u)' = Income(u) + Gift(u)
  <2> DEFINE p == Price("mystery_soap")
  <2>1. users'[u].claimed = users[u].claimed /\ f' = f /\ (u # v => a' = a)
    BY <1>0, <1>2 DEF OpenSoap, WithAura, UserRow
  <2>2. s' = IF u = v THEN s + p ELSE s
    BY <1>0, <1>2, SpentOnOne DEF OpenSoap
  <2>3. r' = IF u = v /\ inventory' = inventory THEN r + 1 ELSE r
    BY <1>0, <1>2, SoapRefunds
  <2>4. p \in Int
    BY RefundIsNat, PriceIsNat
  <2>5. u = v => a' = IF inventory' = inventory THEN a - p + Refund ELSE a - p
    <3>1. PICK i \in SoapPool \cap Goods :
            \/ Owns(v, i) /\ users' = WithAura(v, users[v].aura - p + Refund) /\ inventory' = inventory
            \/ ~Owns(v, i) /\ users' = WithAura(v, users[v].aura - p) /\ inventory' = Granted(v, i)
      BY <1>2 DEF OpenSoap
    <3>2. inventory' = Granted(v, i) => inventory' # inventory
      <4>1. inventory[v][i] \in Nat /\ Granted(v, i)[v][i] = inventory[v][i] + 1
        BY DEF TillTypeOK, Granted
      <4> QED BY <4>1
    <3> QED BY <1>0, <3>1, <3>2 DEF WithAura, UserRow
  <2> HIDE DEF p
  <2>6. CASE u # v
    BY <1>a, <1>b, <2>1, <2>2, <2>3, <2>6
  <2>7. CASE u = v /\ inventory' = inventory
    BY <1>a, <1>b, <2>1, <2>2, <2>3, <2>4, <2>5, <2>7
  <2>8. CASE u = v /\ inventory' # inventory
    BY <1>a, <1>b, <2>1, <2>2, <2>3, <2>4, <2>5, <2>8
  <2> QED BY <2>6, <2>7, <2>8
<1>3. ASSUME s' = s, r' = r, a' - f' = a - f, users'[u].claimed = users[u].claimed
      PROVE  Income(u)' = Income(u) + Gift(u)
  <2>1. Gift(u) = 0 /\ Refund * r \in Int
    BY <1>3, <1>a DEF Gift
  <2>2. Income(u) = a - f + s - Refund * r /\ Income(u)' = a' - f' + s' - Refund * r'
    BY DEF Income
  <2> QED BY <1>3, <1>a, <2>1, <2>2
<1>4. ASSUME NEW v \in User, ClaimStimulus(v)
      PROVE  Income(u)' = Income(u) + Gift(u)
  <2>1. PICK now \in Instants : CanClaim(v, now) /\ users' = Claimed(v, now)
                                /\ UNCHANGED <<inventory, purchases>>
    BY <1>4 DEF ClaimStimulus
  <2>2. s' = s /\ r' = r
    BY <2>1, RefundedStays
  <2>3. CASE u # v
    <3>1. users'[u] = users[u]
      BY <1>0, <2>1, <2>3 DEF Claimed
    <3> QED BY <1>3, <2>2, <3>1
  <2>4. CASE u = v
    <3> DEFINE g == Stimulus(StreakAt(u, now))
    <3>1. users'[u].claimed = now /\ users'[u].streak = StreakAt(u, now) /\ a' = a + g /\ f' = f
      BY <1>0, <2>1, <2>4 DEF Claimed, UserRow
    <3>2. now # users[u].claimed
      <4>1. now \in Nat /\ Day(now) \in Nat
        BY GoodsType, DayType
      <4> QED BY <2>1, <2>4, <4>1 DEF CanClaim, Never
    <3>3. Gift(u) = g /\ g \in Int
      BY <3>1, <3>2, StreakType DEF Gift
    <3>4. Income(u) = a - f + s - Refund * r /\ Income(u)' = a' - f' + s' - Refund * r'
      BY DEF Income
    <3>5. Refund * r \in Int
      BY <1>a
    <3> HIDE DEF g
    <3> QED BY <1>a, <2>2, <3>1, <3>3, <3>4, <3>5
  <2> QED BY <2>3, <2>4
<1>5. ASSUME NEW v \in User, FarmAura(v)
      PROVE  Income(u)' = Income(u) + Gift(u)
  <2>1. a' - f' = a - f /\ users'[u].claimed = users[u].claimed
    BY <1>0, <1>5, <1>a DEF FarmAura, UserRow
  <2>2. s' = s /\ r' = r
    BY <1>5, RefundedStays DEF FarmAura
  <2> QED BY <1>3, <2>1, <2>2
<1>6. ASSUME users'[u].aura = users[u].aura, users'[u].farmed = users[u].farmed,
             users'[u].claimed = users[u].claimed, UNCHANGED <<inventory, purchases>>
      PROVE  Income(u)' = Income(u) + Gift(u)
  BY <1>3, <1>6, RefundedStays
<1>7. ASSUME NEW v \in User,
             \/ PayOne(v)
             \/ \E by \in User : RespectOnce(v, by) \/ ViewOnce(v, by)
             \/ \E layout \in Layouts : Arrange(v, layout)
             \/ \E keys \in Showcases : Show(v, keys)
      PROVE  Income(u)' = Income(u) + Gift(u)
  <2>1. UNCHANGED <<inventory, purchases>>
    BY <1>7 DEF PayOne, RespectOnce, ViewOnce, Arrange, Show
  <2>2. CASE PayOne(v)
    BY <1>0, <1>6, <2>1, <2>2 DEF PayOne, UserRow
  <2>3. ASSUME NEW by \in User, RespectOnce(v, by)
        PROVE  Income(u)' = Income(u) + Gift(u)
    BY <1>0, <1>6, <2>1, <2>3 DEF RespectOnce, UserRow
  <2>4. ASSUME NEW by \in User, ViewOnce(v, by)
        PROVE  Income(u)' = Income(u) + Gift(u)
    BY <1>0, <1>6, <2>1, <2>4 DEF ViewOnce, UserRow
  <2>5. ASSUME NEW layout \in Layouts, Arrange(v, layout)
        PROVE  Income(u)' = Income(u) + Gift(u)
    BY <1>0, <1>6, <2>1, <2>5 DEF Arrange, UserRow
  <2>6. ASSUME NEW keys \in Showcases, Show(v, keys)
        PROVE  Income(u)' = Income(u) + Gift(u)
    BY <1>0, <1>6, <2>1, <2>6 DEF Show, UserRow
  <2> QED BY <1>7, <2>2, <2>3, <2>4, <2>5, <2>6
<1>8. ASSUME users' = users,
             \/ UNCHANGED <<inventory, purchases>>
             \/ \E v \in User, k \in UsedUp \cap Goods :
                  inventory' = Consumed(v, k) /\ purchases' = purchases
      PROVE  Income(u)' = Income(u) + Gift(u)
  <2>1. CASE UNCHANGED <<inventory, purchases>>
    BY <1>6, <1>8, <2>1
  <2>2. ASSUME NEW v \in User, NEW k \in UsedUp \cap Goods,
               inventory' = Consumed(v, k), purchases' = purchases
        PROVE  Income(u)' = Income(u) + Gift(u)
    <3>1. \A i \in Goods \cap Permanents : inventory'[u][i] = inventory[u][i]
      BY <2>2, UsedUpIsNotPermanent DEF Consumed, TillTypeOK, UsedUp
    <3>2. s' = s /\ r' = r
      BY <2>2, <3>1 DEF Spent, SoapsRefunded, FromSoaps
    <3> QED BY <1>3, <1>8, <3>2
  <2> QED BY <1>8, <2>1, <2>2
<1>9. ASSUME NEW v \in User, Forgive(v)
      PROVE  Income(u)' = Income(u) + Gift(u)
  <2>1. \A i \in Goods \cap Permanents : inventory'[u][i] = inventory[u][i]
    BY <1>9, UsedUpIsNotPermanent DEF Forgive, Consumed, TillTypeOK
  <2>2. s' = s /\ r' = r
    BY <1>9, <2>1 DEF Forgive, Spent, SoapsRefunded, FromSoaps
  <2>3. a' = a /\ f' = f /\ users'[u].claimed = users[u].claimed
    BY <1>0, <1>9 DEF Forgive, UserRow
  <2> QED BY <1>3, <2>2, <2>3
<1>10. ASSUME NEW v \in User,
              \/ \E on \in User, kind \in Curses : CastCurse(v, on, kind)
              \/ \E kind \in Boosts : BoostRoom(v, kind)
              \/ SpotMessage(v)
       PROVE  Income(u)' = Income(u) + Gift(u)
  <2>1. users' = users /\ \E k \in UsedUp \cap Goods : inventory' = Consumed(v, k) /\ purchases' = purchases
    BY <1>10 DEF CastCurse, BoostRoom, SpotMessage, UsedUp
  <2> QED BY <1>8, <2>1
<1>11. CASE UNCHANGED <<users, inventory, purchases>>
  BY <1>8, <1>11
<1> QED BY <1>1, <1>2, <1>4, <1>5, <1>7, <1>9, <1>10, <1>11
        DEF TillNext, PutOn, Unlock, Moderated, Tick

-----------------------------------------------------------------------------
(* All of it together. *)
TillInv == TillTypeOK /\ Owned /\ Dressed /\ Paid /\ CursesApart /\ Countable /\ Kept

LEMMA TillInvInit == TillInit => TillInv
  BY TillTypeInit, OwnedInit, CountedInit, KeptInit DEF TillInv

LEMMA TillInvStep == TillInv /\ [TillNext]_tillVars => TillInv'
  BY TillTypeStep, OwnedStep, DressedStep, PaidStep, CursesStep, CountedStep, KeptStep
  DEF TillInv

(* Nothing is owned, suffered or counted twice in the abstract economy. *)
THEOREM TillKeepsOnce == TillSpec => [](OwnedOnce /\ CursesApart /\ CountedOnce)
<1>1. TillInv => OwnedOnce /\ CursesApart /\ CountedOnce
  BY DEF TillInv, Owned, Countable
<1> QED BY <1>1, TillInvInit, TillInvStep, PTL DEF TillSpec

-----------------------------------------------------------------------------
(* What a step does to the balance of one user.                               *)
Overdrawn(v) ==
  users'[v].aura < users[v].aura =>
    users'[v].aura >= 0 /\ \E i \in Goods : purchases'[v][i] > purchases[v][i]

LEMMA PaysOnce ==
  ASSUME TillTypeOK, NEW u \in User, NEW i \in Goods, CanBuy(u, i), purchases' = Bought(u, i),
         NEW back \in Nat, users' = WithAura(u, users[u].aura - Price(i) + back), NEW v \in User
  PROVE  Overdrawn(v)
<1>1. users[u].aura \in Int /\ users[v].aura \in Int /\ Price(i) \in Nat
      /\ purchases[u][i] \in Nat
  BY GoodsType, PriceIsNat DEF TillTypeOK, UserRow
<1>2. users[u].aura >= Price(i) /\ purchases'[u][i] = purchases[u][i] + 1
  BY DEF CanBuy, Bought, TillTypeOK
<1> DEFINE left == users[u].aura - Price(i) + back
<1>3. left \in Int /\ left >= 0
  BY <1>1, <1>2
<1> HIDE DEF left
<1>4. users'[v].aura = IF v = u THEN left ELSE users[v].aura
  BY DEF TillTypeOK, UserRow, WithAura, left
<1> QED BY <1>1, <1>2, <1>3, <1>4 DEF Overdrawn

LEMMA BoostKeeps ==
  ASSUME NEW u, NEW kind, BoostRoom(u, kind)
  PROVE  users' = users /\ effects' = effects /\ posts' = [posts EXCEPT ![kind] = @ + 1]
  BY Zenon DEF BoostRoom

LEMMA OtherColumns ==
  ASSUME TillTypeOK, NEW u \in User, NEW v \in User, NEW x, NEW y
  PROVE  /\ [users EXCEPT ![u].debt = x][v].aura = users[v].aura
         /\ [users EXCEPT ![u].debt = x, ![u].paid = y][v].aura = users[v].aura
         /\ [users EXCEPT ![u].respect = x][v].aura = users[v].aura
         /\ [users EXCEPT ![u].views = x][v].aura = users[v].aura
         /\ [users EXCEPT ![u].layout = x][v].aura = users[v].aura
         /\ [users EXCEPT ![u].featured = x][v].aura = users[v].aura
<1>1. users \in [User -> UserRow] /\ users[u] \in UserRow /\ users[v] \in UserRow
  BY DEF TillTypeOK
<1> QED BY <1>1 DEF UserRow

(* Nobody but a buyer ever loses aura, and no buyer ends below zero.          *)
LEMMA OverdraftStep ==
  ASSUME TillTypeOK, [TillNext]_tillVars, NEW v \in User
  PROVE  Overdrawn(v)
<1>0. \A u \in User : users[u].aura \in Int /\ users[u] \in UserRow
  BY DEF TillTypeOK, UserRow
<1>1. ASSUME NEW u \in User, NEW i \in Goods, Buy(u, i) PROVE Overdrawn(v)
  <2>1. Price(i) \in Nat
    BY GoodsType, PriceIsNat
  <2>2. users[u].aura - Price(i) = users[u].aura - Price(i) + 0
    BY <1>0, <2>1
  <2> QED BY <1>1, <2>2, PaysOnce DEF Buy
<1>2. ASSUME NEW u \in User, OpenSoap(u) PROVE Overdrawn(v)
  <2> DEFINE paid == users[u].aura - Price("mystery_soap")
  <2>1. paid \in Int /\ paid = paid + 0 /\ Refund \in Nat
    BY <1>0, PriceIsNat, RefundIsNat
  <2>2. \E back \in {0, Refund} : users' = WithAura(u, paid + back)
    <3> HIDE DEF paid
    <3> QED BY <1>2, <2>1 DEF OpenSoap, paid
  <2> QED BY <1>2, <2>1, <2>2, PaysOnce DEF OpenSoap
<1>3. ASSUME users'[v].aura >= users[v].aura PROVE Overdrawn(v)
  <2>1. users'[v].aura \in Int
    BY TillTypeStep DEF TillTypeOK, UserRow
  <2> QED BY <1>0, <1>3, <2>1 DEF Overdrawn
<1>4. ASSUME NEW u \in User, ClaimStimulus(u) PROVE Overdrawn(v)
  <2>1. PICK now \in Instants : users' = Claimed(u, now)
    BY <1>4 DEF ClaimStimulus
  <2> DEFINE more == Stimulus(StreakAt(u, now))
  <2>2. more \in Nat
    <3>1. StreakAt(u, now) \in Nat
      BY StreakType
    <3> QED BY <3>1 DEF Stimulus
  <2>3. users'[v].aura = IF v = u THEN users[v].aura + more ELSE users[v].aura
    BY <1>0, <2>1 DEF Claimed, TillTypeOK, UserRow
  <2> HIDE DEF more
  <2> QED BY <1>0, <1>3, <2>2, <2>3
<1>5. ASSUME NEW u \in User, FarmAura(u) PROVE Overdrawn(v)
  <2>1. users'[v].aura = IF v = u THEN users[v].aura + 1 ELSE users[v].aura
    BY <1>0, <1>5 DEF FarmAura, TillTypeOK, UserRow
  <2> QED BY <1>0, <1>3, <2>1
<1>6. ASSUME users'[v].aura = users[v].aura PROVE Overdrawn(v)
  BY <1>0, <1>3, <1>6
<1>7. ASSUME NEW u \in User, NEW x, NEW y,
             \/ users' = [users EXCEPT ![u].debt = x]
             \/ users' = [users EXCEPT ![u].debt = x, ![u].paid = y]
             \/ users' = [users EXCEPT ![u].respect = x]
             \/ users' = [users EXCEPT ![u].views = x]
             \/ users' = [users EXCEPT ![u].layout = x]
             \/ users' = [users EXCEPT ![u].featured = x]
      PROVE  Overdrawn(v)
  <2>1. CASE users' = [users EXCEPT ![u].debt = x]
    BY <1>6, <2>1, OtherColumns
  <2>2. CASE users' = [users EXCEPT ![u].debt = x, ![u].paid = y]
    BY <1>0, <1>6, <2>2 DEF TillTypeOK, UserRow
  <2>3. CASE users' = [users EXCEPT ![u].respect = x]
    BY <1>6, <2>3, OtherColumns
  <2>4. CASE users' = [users EXCEPT ![u].views = x]
    BY <1>6, <2>4, OtherColumns
  <2>5. CASE users' = [users EXCEPT ![u].layout = x]
    BY <1>6, <2>5, OtherColumns
  <2>6. CASE users' = [users EXCEPT ![u].featured = x]
    BY <1>6, <2>6, OtherColumns
  <2> QED BY <1>7, <2>1, <2>2, <2>3, <2>4, <2>5, <2>6
<1>8. ASSUME NEW u \in User, Forgive(u) \/ PayOne(u) PROVE Overdrawn(v)
  BY <1>7, <1>8 DEF Forgive, PayOne
<1>9. ASSUME NEW u \in User, NEW by \in User, RespectOnce(u, by) \/ ViewOnce(u, by)
      PROVE  Overdrawn(v)
  BY <1>7, <1>9 DEF RespectOnce, ViewOnce
<1>10. ASSUME NEW u \in User, NEW x, Arrange(u, x) \/ Show(u, x) PROVE Overdrawn(v)
  BY <1>7, <1>10 DEF Arrange, Show
<1>11. ASSUME users' = users PROVE Overdrawn(v)
  BY <1>6, <1>11
<1> QED BY <1>1, <1>2, <1>4, <1>5, <1>8, <1>9, <1>10, <1>11, BoostKeeps
        DEF TillNext, CastCurse, SpotMessage, PutOn, Unlock, Moderated, Tick

(* A balance falls by a purchase only, and never below zero: whatever is bought,
   farmed, claimed and refunded at the same time, the check under the lock is
   still true when the price is written.                                      *)
THEOREM NobodyOverdraws == TillSpec => NoOverdraft
<1>1. TillTypeOK /\ [TillNext]_tillVars =>
        \A u \in User :
          users'[u].aura < users[u].aura =>
            users'[u].aura >= 0 /\ \E i \in Goods : purchases'[u][i] > purchases[u][i]
  BY OverdraftStep DEF Overdrawn
<1> QED BY <1>1, TillTypeInit, TillTypeStep, PTL DEF TillSpec, NoOverdraft

(* The time a boost buys is added whole.                                      *)
Adding(k) == room'[k] >= room[k] + (IF posts'[k] > posts[k] THEN Lasts[k] ELSE 0)

LEMMA BoostsAdd ==
  ASSUME TillTypeOK, [TillNext]_tillVars, NEW k \in Boosts
  PROVE  Adding(k)
<1>0. room[k] \in Nat /\ posts[k] \in Nat /\ clock \in Nat /\ Lasts[k] \in Nat /\ k # "spotlight"
  BY LastsType, GoodsType DEF TillTypeOK, RoomRow, Boosts
<1>1. ASSUME NEW u \in User, NEW kind \in Boosts, BoostRoom(u, kind)
      PROVE  Adding(k)
  <2>1. kind \in {"aura_tax", "room_boost"} /\ k \in {"aura_tax", "room_boost"}
    BY DEF Boosts
  <2>2. /\ room'[k] = IF k = kind THEN BoostedUntil(kind) ELSE room[k]
        /\ posts'[k] = IF k = kind THEN posts[k] + 1 ELSE posts[k]
    <3> DEFINE boosted == [room EXCEPT ![kind] = BoostedUntil(kind)]
    <3>1. k \in DOMAIN room /\ k # "sponsor" /\ k \in DOMAIN boosted /\ room \in RoomRow
      BY <2>1 DEF TillTypeOK, RoomRow
    <3>2. room' = [boosted EXCEPT !.sponsor = IF kind = "aura_tax" THEN u ELSE room.sponsor]
      BY <1>1, Zenon DEF BoostRoom
    <3>3. room'[k] = boosted[k]
      <4> HIDE DEF boosted
      <4> QED BY <3>1, <3>2
    <3>4. posts'[k] = IF k = kind THEN posts[k] + 1 ELSE posts[k]
      BY <1>1, BoostKeeps DEF TillTypeOK
    <3> QED BY <3>1, <3>3, <3>4
  <2>3. BoostedUntil(k) >= room[k] + Lasts[k]
    BY <1>0 DEF BoostedUntil
  <2> QED BY <1>0, <2>2, <2>3 DEF Adding
<1>2. ASSUME room'[k] = room[k], posts'[k] = posts[k] PROVE Adding(k)
  BY <1>0, <1>2 DEF Adding
<1>3. ASSUME NEW u \in User, SpotMessage(u) PROVE Adding(k)
  BY <1>0, <1>2, <1>3 DEF SpotMessage, TillTypeOK, RoomRow, Boosts
<1>4. CASE Moderated
  <2>1. k = "aura_tax" \/ k = "room_boost"
    BY DEF Boosts
  <2>2. \E x : room' = [room EXCEPT !.live = x] \/ room' = [room EXCEPT !.deleted = x]
    BY <1>4 DEF Moderated
  <2>3. k \in DOMAIN room
    BY <2>1 DEF TillTypeOK, RoomRow
  <2>4. room'[k] = room[k]
    BY <2>1, <2>2, <2>3
  <2> QED BY <1>2, <1>4, <2>4 DEF Moderated
<1>5. ASSUME room' = room, posts' = posts PROVE Adding(k)
  BY <1>2, <1>5
<1>6. CASE \E u \in User :
             \/ \E i \in Goods : Buy(u, i)
             \/ OpenSoap(u) \/ Forgive(u) \/ ClaimStimulus(u) \/ FarmAura(u) \/ PayOne(u)
             \/ \E on \in User, kind \in Curses : CastCurse(u, on, kind)
             \/ \E s \in Slots, i \in Wearable : PutOn(u, s, i)
             \/ \E by \in User : RespectOnce(u, by) \/ ViewOnce(u, by)
             \/ \E layout \in Layouts : Arrange(u, layout)
             \/ \E keys \in Showcases : Show(u, keys)
             \/ \E key \in Medals : Unlock(u, key)
  <2>1. UNCHANGED <<room, posts>>
    BY <1>6, Zenon DEF Buy, OpenSoap, CastCurse, Forgive, PutOn, ClaimStimulus, FarmAura, PayOne,
       RespectOnce, ViewOnce, Arrange, Show, Unlock
  <2> QED BY <1>5, <2>1
<1>7. CASE Tick \/ UNCHANGED tillVars
  BY <1>5, <1>7 DEF Tick
<1> QED BY <1>1, <1>3, <1>4, <1>6, <1>7, Zenon DEF TillNext

(* What was bought or earned is never taken back, and boosts add up, however
   many users boost, buy and are moderated at the same time.                  *)
THEOREM BoughtIsKept == TillSpec => NothingBoughtIsLost
<1>1. ASSUME TillTypeOK, [TillNext]_tillVars
      PROVE  /\ \A u \in User, i \in Goods \cap Permanents : Owns(u, i) => Owns(u, i)'
             /\ \A u \in User : medals[u] \subseteq medals'[u]
             /\ effects \subseteq effects'
             /\ \A k \in Boosts :
                  room'[k] >= room[k] + (IF posts'[k] > posts[k] THEN Lasts[k] ELSE 0)
  <2>1. \A u \in User, i \in Goods \cap Permanents : Owns(u, i) => Owns(u, i)'
    BY <1>1, OwnershipStays
  <2>2. effects \subseteq effects'
    <3>1. ASSUME NEW u \in User, NEW on \in User, NEW kind \in Curses, CastCurse(u, on, kind)
          PROVE  effects \subseteq effects'
      BY <3>1 DEF CastCurse
    <3>2. CASE effects' = effects
      BY <3>2
    <3> QED BY <1>1, <3>1, <3>2, BoostKeeps DEF TillNext, Buy, OpenSoap, SpotMessage, Forgive, PutOn,
               ClaimStimulus, FarmAura, PayOne, RespectOnce, ViewOnce, Arrange, Show, Unlock,
               Moderated, Tick
  <2> QED BY <1>1, <2>1, <2>2, AllGrow, BoostsAdd DEF Adding
<1> QED BY <1>1, TillTypeInit, TillTypeStep, PTL DEF TillSpec, NothingBoughtIsLost
=============================================================================
