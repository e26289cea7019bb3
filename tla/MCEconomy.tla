----------------------------- MODULE MCEconomy -----------------------------
(* Three users and at most three requests at the same time. *)
EXTENDS Economy, TLC

CONSTANTS ana, ben, root

Ask(op, by, item, on, pick) == [op |-> op, by |-> by, item |-> item, on |-> on, pick |-> pick]
MCStock == [u \in User |-> [i \in Goods |->
  IF i \in {"clown_stamp", "debt_forgiveness", "spotlight"}
     \/ (u = ana /\ i \in {"room_boost", "aura_tax"})
  THEN 1 ELSE 0]]
MCGoods == {"clown_stamp", "room_boost", "aura_tax", "spotlight", "debt_forgiveness",
            "mystery_soap", "title_debt_collector", "verified_chud", "theme_fight_club",
            "hit_counter"}
MCRolls == {"title_debt_collector", "verified_chud"}
MCLayout == {"hit_counter", "debt_meter"}
MCLayouts == {MCLayout, {}}
MCShowcases == {{"found_the_basement"}, {"night_owl", "first_farm"}}
Alone(op, by) == Ask(op, by, Nothing, Nothing, MCLayout)
Buy1(by, i) == Ask("buy", by, i, Nothing, MCLayout)
Use1(by, i, on) == Ask("use", by, i, on, MCLayout)
Wear1(i) == Ask("equip", ana, i, "title", MCLayout)
Pick1(op, pick) == Ask(op, ana, Nothing, Nothing, pick)
To1(op, by) == Ask(op, by, Nothing, ana, MCLayout)

Find == Pick1("discover", {"found_the_basement"})
Send(A, B, C) == {<<a, b, c>> : a \in A, b \in B, c \in C}

(* The same and different items, a soap that may hold one of them, and money
   that comes in meanwhile. *)
Shoppers ==
  Send({Buy1(ana, "verified_chud"), Buy1(ana, "mystery_soap")},
       {Buy1(ana, "mystery_soap"), Buy1(ana, "title_debt_collector")},
       {Alone("farm", ana)})
  \cup Send({Find}, {Buy1(ana, "theme_fight_club")}, {Alone("claim", ana)})
  \cup Send({Alone("claim", ana)}, {Alone("claim", ana)}, {Alone("claim", ana)})
(* Curses on each other, on the same target, with the last item. *)
Cursers ==
  Send({Use1(ana, "clown_stamp", ben)},
       {Use1(ben, "clown_stamp", on) : on \in {ana, root}} \cup {Buy1(ana, "clown_stamp")},
       {Use1(root, "clown_stamp", ben), Use1(ana, "clown_stamp", ben)})
Sponsors ==
  Send({Use1(ana, "room_boost", Nothing)}, {Use1(ana, i, Nothing) : i \in {"room_boost", "aura_tax"}},
       {Buy1(ana, "room_boost"), Alone("quarantine", root)})
  \cup Send({Use1(ana, "spotlight", Nothing)}, {Use1(ben, "spotlight", Nothing)},
            {Alone("deleteMessage", root)})
  \cup Send({Use1(ana, "debt_forgiveness", Nothing)}, {Alone("payDebt", ana)},
            {Use1(ana, "debt_forgiveness", Nothing)})
Visitors ==
  Send({To1("respect", ben)}, {To1("respect", by) : by \in {ben, root, ana}}, {Alone("farm", ana)})
  \cup Send({To1("view", ben)}, {To1("view", ben)}, {To1("view", root)})
  \cup Send({Find}, {Pick1("feature", {"found_the_basement"})}, {Find})
  \cup Send({Pick1("layout", MCLayout)}, {Pick1("layout", {})}, {Buy1(ana, "hit_counter")})
Dressers ==
  Send({Wear1("title_debt_collector")}, {Wear1(Nothing), Wear1("verified_chud")},
       {Buy1(ana, "mystery_soap"), Buy1(ana, "title_debt_collector")})
MCCrowds == Shoppers \cup Cursers \cup Sponsors \cup Visitors \cup Dressers
=============================================================================
