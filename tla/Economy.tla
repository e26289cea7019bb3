------------------------------ MODULE Economy ------------------------------
(***************************************************************************)
(* The shop and the profile together, over the same rows of users: the     *)
(* composition of modules Shop and Profile, a moderator who closes the     *)
(* room or deletes the message, and the passage of time.                   *)
(***************************************************************************)
EXTENDS Shop, Profile

economyVars == <<vars, shopHistory, unlocks>>

Init ==
  /\ TillInit
  /\ RequestsInit
  /\ announced = [k \in DOMAIN posts |-> 0]
  /\ stipends = [u \in User |-> {}]
  /\ unlocks = {}

(* quarantineRoom and deleteMessage, whose own effects are in module Rooms:
   the update of the room waits for its lock. *)
Moderate(t) ==
  /\ pc[t] = "moderate"
  /\ room' = IF req[t].op = "quarantine" THEN [room EXCEPT !.live = FALSE]
             ELSE [room EXCEPT !.deleted = TRUE]
  /\ Finish(t)
  /\ UNCHANGED <<users, inventory, purchases, equipped, effects, posts, chart, social, clock>>

TimePasses == Tick /\ UNCHANGED <<requestVars, shopHistory, unlocks>>

Next ==
  \/ \E t \in Txn :
       \/ (Begin(t) \/ Fail(t) \/ DetectDeadlock(t) \/ Moderate(t))
          /\ UNCHANGED <<shopHistory, unlocks>>
       \/ ShopNext(t) /\ UNCHANGED unlocks
       \/ ProfileNext(t) /\ UNCHANGED shopHistory
  \/ TimePasses

Spec == Init /\ [][Next]_economyVars

-----------------------------------------------------------------------------
TypeOK ==
  /\ TillTypeOK
  /\ pc \in [Txn -> Labels]
  /\ req \in Crowds
  /\ seen \in [Txn -> Seen]
  /\ announced \in [Boosts \cup {"spotlight"} -> Nat]
  /\ stipends \in [User -> SUBSET Nat]
  /\ unlocks \subseteq Txn \X User \X Medals

(* The length of the run of consecutive days of S that ends at d, and what the
   stimulus of every day granted adds up to. *)
RunsTo(S, d) == {n \in 1..(d + 1) : (d - n + 1)..d \subseteq S /\ d - n \notin S}
RunTo(S, d) == CHOOSE n \in RunsTo(S, d) : TRUE
StimuliOf(u) == SumFunction([d \in stipends[u] |-> Stimulus(RunTo(stipends[u], d))])

(* Nothing is paid for twice or for nothing.  The balance of a user is what
   he began with, farmed and was granted, less the price of every purchase on
   record, plus half a soap for each soap that held nothing new; an item that
   was bought and is not held any more is a curse that was cast, a post of
   the room, or a debt forgiven; and the room never heard of an effect that
   was rolled back. *)
BooksBalance ==
  /\ \A u \in User :
       /\ users[u].aura = StartAura + users[u].farmed + StimuliOf(u) - Spent(u)
                           + Refund * SoapsRefunded(u)
       /\ users[u].debt + users[u].paid
            = StartDebt - (IF "debt_forgiveness" \in Goods
                           THEN Forgiven * Used(u, "debt_forgiveness") ELSE 0)
       /\ \A k \in Goods \cap Curses :
            Used(u, k) = Cardinality({e \in effects : e.by = u /\ e.kind = k})
       /\ \A k \in Goods \cap DOMAIN posts :
            Used(u, k) = IF u = Creator THEN posts[k] ELSE 0
  /\ \A k \in DOMAIN posts : announced[k] <= posts[k]

(* What happens once happens once, whoever asks for it at the same time: a
   permanent item is owned once; the times of two curses of one kind on one
   target do not overlap; a streak is the run of days whose stimulus was
   granted; every respect and every view counts one; and a user is told of a
   medal by one request only. *)
StreaksAreRuns ==
  \A u \in User :
    stipends[u] # {} => users[u].streak = RunTo(stipends[u], Day(users[u].claimed))
ToldOnce == \A x, y \in unlocks : x[2] = y[2] /\ x[3] = y[3] => x[1] = y[1]
NothingTwice == OwnedOnce /\ CursesApart /\ CountedOnce /\ StreaksAreRuns /\ ToldOnce

(* Nobody shows what is not his: the items worn, the widgets laid out and
   the medals featured are owned and unlocked long after the check that let
   them through; the locked theme is owned by who found the basement; and a
   room is sponsored, and shows a spotlight, because somebody paid for it. *)
NothingUnowned ==
  /\ ShownSponsor # Nothing => Used(ShownSponsor, "aura_tax") > 0
  /\ ShowsSpotlight => \E u \in User : Used(u, "spotlight") > 0
  /\ \A u \in User :
       /\ \A i \in ShownCosmetics(u) : Owns(u, i)
       /\ \A w \in ShownWidgets(u) : Unlocked(u, w)
       /\ ShownMedals(u) \subseteq medals[u]
       /\ \A i \in Goods : Owns(u, i) /\ Stock[u][i] = 0 => Requires(i) \subseteq medals[u]

(* Only items deadlock.  PostgreSQL aborts a request for a deadlock only if it
   casts a curse, or if the same user buys and uses one item at once, which
   lock his row and the item's in opposite orders: claims, respects, views,
   payments, medals and whatever else moderators and users do at the same
   time never fail that way. *)
BuysWhatIsUsed(t, s) ==
  /\ {req[t].op, req[s].op} = {"buy", "use"}
  /\ req[t].by = req[s].by /\ req[t].item = req[s].item
DeadlocksAreOfItems ==
  \A t \in Txn : Deadlocked(t) =>
    \/ req[t].op = "use" /\ req[t].item \in Curses
    \/ \E s \in WaitsFor(t) : t \in WaitsFor(s) /\ BuysWhatIsUsed(t, s)

(* However the statements of the requests interleave, wait, fail and are
   rolled back, the rows change as if every operation were one step. *)
ImplementsTill == TillSpec
=============================================================================
