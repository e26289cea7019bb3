------------------------------ MODULE Catalog ------------------------------
(***************************************************************************)
(* The constant tables of the economy: the shop's catalogue                *)
(* (shop/catalog.ts), the slots items are worn in (shop/equipment.ts), the *)
(* widgets of a profile (widgets/widget-catalog.ts) and the medals         *)
(* (achievements/catalog.ts), with what earns a medal                      *)
(* (achievements.service.ts).  Names, descriptions, icons and colours are  *)
(* left out.                                                               *)
(***************************************************************************)
EXTENDS Integers

Accents     == {"accent_magenta", "accent_acid_pink", "accent_deep_violet",
                "accent_cold_red", "accent_rose"}
Backgrounds == {"bg_scanlines", "bg_starfield", "bg_matrix_pink", "bg_static", "bg_grid"}
Titles      == {"title_certified_yapper", "title_basement_dweller", "title_debt_collector",
                "title_touched_grass_once", "title_aura_merchant"}
NameColors  == {"namecolor_hot_pink", "namecolor_magenta", "namecolor_acid_pink",
                "namecolor_deep_violet", "namecolor_cold_red", "namecolor_rose"}
NameIcons   == {"nameicon_skull", "nameicon_soap", "nameicon_crown", "nameicon_clown"}
Quotes      == {"quote_neon", "quote_greentext", "quote_redacted"}
Themes      == {"theme_vaporwave", "theme_corpo", "theme_crime_scene", "theme_win98",
                "theme_graveyard", "theme_fight_club"}

(* What is used up by its use, and what is owned once and for ever. *)
Consumables == {"clown_stamp", "rename_curse", "aura_tax", "spotlight", "room_boost",
                "fight_insurance", "debt_forgiveness", "mystery_soap"}
Permanents  == Accents \cup Backgrounds \cup Titles \cup NameColors \cup NameIcons
                 \cup Quotes \cup Themes \cup {"verified_chud", "hit_counter", "vine_boom"}
Items       == Consumables \cup Permanents

Price(i) ==
  CASE i \in Accents     -> 400   [] i \in Backgrounds      -> 600
    [] i \in Titles      -> 300   [] i \in NameColors       -> 300
    [] i \in NameIcons   -> 250   [] i \in Quotes           -> 200
    [] i = "theme_fight_club" -> 1200
    [] i \in Themes \ {"theme_fight_club"} -> 800
    [] i = "verified_chud" -> 1500
    [] i = "hit_counter" -> 200   [] i = "vine_boom"        -> 350
    [] i = "clown_stamp" -> 120   [] i = "rename_curse"     -> 150
    [] i = "aura_tax"    -> 500   [] i = "spotlight"        -> 200
    [] i = "room_boost"  -> 400   [] i = "fight_insurance"  -> 250
    [] i = "debt_forgiveness" -> 300 [] i = "mystery_soap"  -> 180

(* The medal an item cannot be bought without. *)
Requires(i) == IF i = "theme_fight_club" THEN {"found_the_basement"} ELSE {}

(* What a soap may hold: the common, the rare and the legendary pool. *)
SoapPools == <<Quotes \cup Titles,
               Backgrounds \cup NameIcons \cup Accents \cup NameColors,
               {"verified_chud"}>>
SoapPool  == SoapPools[1] \cup SoapPools[2] \cup SoapPools[3]
(* A soap that holds what one owns gives half its price back. *)
Refund == Price("mystery_soap") \div 2

FreeItems == {"accent_hot_pink"}
SlotAccepts ==
  [accent |-> Accents \cup FreeItems, background |-> Backgrounds, title |-> Titles,
   nameColor |-> NameColors, nameIcon |-> NameIcons, quoteStyle |-> Quotes,
   verified |-> {"verified_chud"}]
Slots == DOMAIN SlotAccepts

Widgets == {"now_playing", "medal_rack", "aura_chart", "fight_record", "top_glazers",
            "debt_meter", "yap_stats", "guestbook", "status_line", "rap_sheet",
            "hit_counter", "wanted_poster"}
DefaultLayout == {"medal_rack", "fight_record", "debt_meter", "guestbook"}
WantedPosterDebt == 1000
(* The items any of which unlocks a widget. *)
WidgetUnlocks(w) == IF w = "hit_counter" THEN {"hit_counter"} ELSE {}

-----------------------------------------------------------------------------
AuraMedals       == {"first_farm", "aura_farmer", "aura_god", "in_the_negatives",
                     "bankrupt_vibes"}
DebtMedals       == {"first_debt", "debt_free", "debt_lord", "financial_cushion", "loan_shark"}
FightMedals      == {"first_blood", "basement_regular", "undefeated", "high_roller",
                     "rage_quitter", "professionally_mogged", "the_soap_market",
                     "got_mogged_by_a_clown"}
RoomMedals       == {"landlord", "yapper", "certified_yapper", "ratio_d", "necromancer"}
SocialMedals     == {"respected", "glazed", "clown_certified", "admins_favourite"}
ModerationMedals == {"first_warn", "cooked", "survivor", "actually_went_touch_grass"}
(* The medals a user is told of only after finding them. *)
SecretMedals     == {"found_the_basement", "first_rule", "night_owl", "appeal_denied"}
Medals == AuraMedals \cup DebtMedals \cup FightMedals \cup RoomMedals \cup SocialMedals
            \cup ModerationMedals \cup SecretMedals

(* evaluate: the medals a trigger hands out for the numbers it reads. *)
When(condition, medal) == IF condition THEN {medal} ELSE {}
EarnedByAura(farmed, aura) ==
  When(farmed > 0, "first_farm") \cup When(farmed >= 1000, "aura_farmer")
    \cup When(aura >= 10000, "aura_god") \cup When(aura < 0, "in_the_negatives")
    \cup When(aura <= -1000, "bankrupt_vibes")
EarnedByDebt(debt) ==
  When(debt > 0, "first_debt") \cup When(debt < 0, "financial_cushion")
    \cup When(debt <= -1000, "loan_shark") \cup When(debt >= 1000, "debt_lord")
EarnedByRespect(count) == When(count >= 10, "respected") \cup When(count >= 100, "glazed")
EarnedByMessages(count) == When(count >= 100, "yapper") \cup When(count >= 1000, "certified_yapper")
=============================================================================
