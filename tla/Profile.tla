------------------------------ MODULE Profile ------------------------------
(***************************************************************************)
(* The profile: respects (users.repository.ts), views and widgets          *)
(* (widgets.service.ts), and the medals (achievements.service.ts) that are *)
(* handed out after an operation has committed.                            *)
(***************************************************************************)
EXTENDS Requests

VARIABLE unlocks        \* the unlock events sent, by whom: request, user, medal

(* giveProfileRespect and recordProfileView: INSERT ... ON CONFLICT DO
   NOTHING waits for who inserts the same row, and says whether it did.
   Faulty: the counter goes up whatever it says. *)
IsAlwaysNew(r, day) == TRUE
IsNew(r, day) ==
  IF r.op = "respect" THEN <<r.on, r.by>> \notin respects
  ELSE [profile |-> r.on, viewer |-> r.by, day |-> day] \notin views

Insert(t) ==
  /\ pc[t] = "insert" /\ req[t].on # req[t].by
  /\ Step(t, "count")
  /\ seen' = [seen EXCEPT ![t].new = IsNew(req[t], Day(seen[t].at))]
  /\ UNCHANGED <<tillVars, unlocks>>

(* Nobody respects himself, and a visit to one's own profile is no view. *)
InsertRefused(t) ==
  /\ pc[t] = "insert" /\ req[t].on = req[t].by
  /\ Abort(t) /\ UNCHANGED unlocks

CountRespect(t) ==
  LET r == req[t] IN
  /\ pc[t] = "count" /\ r.op = "respect"
  /\ respects' = respects \cup {<<r.on, r.by>>}
  /\ users' = IF seen[t].new THEN [users EXCEPT ![r.on].respect = @ + 1] ELSE users
  /\ Commit(t, "evaluate")
  /\ UNCHANGED <<goods, chart, medals, views, clock, seen, unlocks>>

CountView(t) ==
  LET r == req[t] IN
  /\ pc[t] = "count" /\ r.op = "view"
  /\ views' = views \cup {[profile |-> r.on, viewer |-> r.by, day |-> Day(seen[t].at)]}
  /\ users' = IF seen[t].new THEN [users EXCEPT ![r.on].views = @ + 1] ELSE users
  /\ Finish(t)
  /\ UNCHANGED <<goods, chart, medals, respects, clock, unlocks>>

-----------------------------------------------------------------------------
(* updateLayout and setFeatured: what is asked for is looked up first, and
   written by a statement of its own later. *)
MayPick(r) ==
  \/ r.op = "layout" /\ \A w \in r.pick : Unlocked(r.by, w)
  \/ r.op = "feature" /\ Cardinality(r.pick) <= 3 /\ r.pick \subseteq medals[r.by]

CheckPick(t) ==
  /\ pc[t] = "read" /\ MayPick(req[t])
  /\ Step(t, "write")
  /\ UNCHANGED <<tillVars, seen, unlocks>>

PickRefused(t) ==
  /\ pc[t] = "read" /\ req[t].op \in {"layout", "feature"} /\ ~MayPick(req[t])
  /\ Abort(t) /\ UNCHANGED unlocks

WritePick(t) ==
  LET r == req[t] IN
  /\ pc[t] = "write"
  /\ users' = IF r.op = "layout" THEN [users EXCEPT ![r.by].layout = r.pick]
              ELSE [users EXCEPT ![r.by].featured = r.pick]
  /\ Finish(t)
  /\ UNCHANGED <<goods, chart, social, clock, unlocks>>

(* What the profile shows: the layout, and the poster of who owes too much.
   (The rap sheet that warnings force on is left out.) *)
ShownWidgets(u) ==
  users[u].layout \cup When(users[u].debt >= WantedPosterDebt, "wanted_poster")
(* What chat and profile show of the items worn; the default accent is free. *)
ShownCosmetics(u) ==
  {equipped[u][s] : s \in Slots} \ (FreeItems \cup {Nothing})
ShownMedals(u) == users[u].featured
(* What the room shows to everybody: a sponsor while the tax he paid lasts,
   and a spotlight while it lasts and its message is not deleted. *)
ShownSponsor == IF room.aura_tax > clock THEN room.sponsor ELSE Nothing
ShowsSpotlight == room.spotlight > clock /\ ~room.deleted

-----------------------------------------------------------------------------
(* evaluate: the user's row is read after the commit of what triggered it,
   and may show what others have committed since. *)
Earned(r) ==
  LET u == users[Subject(r)] IN
  CASE r.op = "farm"    -> EarnedByAura(u.farmed, u.aura)
    [] r.op = "payDebt" -> EarnedByDebt(u.debt)
    [] r.op = "respect" -> EarnedByRespect(u.respect)

Evaluate(t) ==
  /\ pc[t] = "evaluate"
  /\ Step(t, "unlock")
  /\ seen' = [seen EXCEPT ![t].keys = @ \cup Earned(req[t])]
  /\ UNCHANGED <<tillVars, unlocks>>

(* grant: the medals are inserted at the same time, each once per user, and
   who inserts one tells the user. *)
UnlockMedal(t) ==
  \E key \in seen[t].keys :
    LET u == Subject(req[t]) IN
    /\ pc[t] = "unlock"
    /\ medals' = [medals EXCEPT ![u] = @ \cup {key}]
    /\ unlocks' = IF key \in medals[u] THEN unlocks ELSE unlocks \cup {<<t, u, key>>}
    /\ seen' = [seen EXCEPT ![t].keys = @ \ {key}]
    /\ Commit(t, "unlock")
    /\ UNCHANGED <<users, goods, chart, respects, views, clock>>

(* grantSafely: an insert that fails is logged, and the others go on. *)
MedalLost(t) ==
  \E key \in seen[t].keys :
    /\ pc[t] = "unlock" /\ req[t].op # "discover"
    /\ seen' = [seen EXCEPT ![t].keys = @ \ {key}]
    /\ UNCHANGED <<tillVars, pc, req, locks, unlocks>>

Answer(t) ==
  /\ pc[t] = "unlock" /\ seen[t].keys = {}
  /\ Goto(t, "done") /\ Forget(t)
  /\ UNCHANGED <<tillVars, locks, unlocks>>

ProfileNext(t) ==
  \/ Insert(t) \/ InsertRefused(t) \/ CountRespect(t) \/ CountView(t)
  \/ CheckPick(t) \/ PickRefused(t) \/ WritePick(t)
  \/ Evaluate(t) \/ UnlockMedal(t) \/ MedalLost(t) \/ Answer(t)
=============================================================================
