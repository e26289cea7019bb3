----------------------------- MODULE Moderation -----------------------------
(***************************************************************************)
(* What the moderators do to one user: warnings with the automatic ban,    *)
(* their revocation, bans, pardons and vaporizing, from                    *)
(* src/admin/admin.repository.ts, admin.service.ts and autoban.ts.         *)
(*                                                                         *)
(* Requests of several moderators interleave statement by statement, under *)
(* READ COMMITTED and without explicit locks: a warning reads the user's   *)
(* ban, inserts its row, counts the active ones and only then updates the  *)
(* user.  That update is the first statement to lock the row and the last  *)
(* one before the commit, so it and the commit are one action.  After a    *)
(* ban the request still awaits other queries before it disconnects the    *)
(* user's sockets.                                                         *)
(***************************************************************************)
EXTENDS Sessions, FiniteSets

CONSTANTS
  Request,          \* bound: the moderators' requests, each once; a warning is
                    \* named after the request that created it
  Until,            \* the ends a moderator gives a ban
  AutobanDuration,  \* AUTOBAN_DURATION_MS (7 days)
  Century           \* the end of a vaporized user's ban (100 years)

ASSUME RequestAssumption == IsFiniteSet(Request)
ASSUME UntilAssumption == Until \subseteq Nat \ {0}
ASSUME DurationAssumption == AutobanDuration \in Nat /\ Century \in Nat

AUTOBAN_THRESHOLD == 3

VARIABLES
  warning,     \* request -> "none", "active", "revoked": its committed row
  warnsCount,  \* users.warnsCount
  pc,          \* request -> the statement it is at
  mem,         \* request -> what it has read
  vaporized,   \* the user has the name and the face of a deleted one
  overtaken    \* history: requests that acted, or will, on what others had
               \* overwritten

modVars == <<warning, warnsCount, pc, mem, vaporized, overtaken>>
vars == <<now, rowVars, sessionVars, modVars>>

Active == {w \in Request : warning[w] = "active"}

(* ban: the user's ban it read, or the one it was asked for; count: the active
   warnings it counted; at: when it decided; of: the warning it revokes. *)
NoMem(r) == [ban |-> 0, count |-> 0, at |-> 0, of |-> r]

Init ==
  /\ SessionsInit
  /\ warning = [r \in Request |-> "none"]
  /\ warnsCount = 0
  /\ pc = [r \in Request |-> "idle"]
  /\ mem = [r \in Request |-> NoMem(r)]
  /\ vaporized = FALSE
  /\ overtaken = {}

Goto(r, l) == pc' = [pc EXCEPT ![r] = l]
End(r, l) == Goto(r, l) /\ mem' = [mem EXCEPT ![r] = NoMem(r)]

(* The requests that will act on a count, or on a ban, they have read. *)
Counted == {q \in Request : pc[q] \in {"counted", "recounted"}}
Warning == {q \in Request : pc[q] \in {"selected", "inserted", "counted"}}

-----------------------------------------------------------------------------
(* createWarning: SELECT the user. *)
SelectUser(r) ==
  /\ pc[r] = "idle"
  /\ Goto(r, "selected")
  /\ mem' = [mem EXCEPT ![r].ban = bannedUntil]
  /\ UNCHANGED <<now, rowVars, sessionVars, warning, warnsCount, vaporized, overtaken>>

(* INSERT the warning, which no one else sees before the commit. *)
InsertWarning(r) ==
  /\ pc[r] = "selected"
  /\ Goto(r, "inserted")
  /\ UNCHANGED <<now, rowVars, sessionVars, warning, warnsCount, mem, vaporized, overtaken>>

(* SELECT count: the committed active warnings and its own; faulty: without
   its own. *)
OthersWarnings(r) == Cardinality(Active)
ActiveWarnings(r) == Cardinality(Active \cup {r})
CountWarnings(r) ==
  /\ pc[r] = "inserted"
  /\ Goto(r, "counted")
  /\ mem' = [mem EXCEPT ![r].count = ActiveWarnings(r), ![r].at = now]
  /\ UNCHANGED <<now, rowVars, sessionVars, warning, warnsCount, vaporized, overtaken>>

Proposed(r) == mem[r].at + AutobanDuration

(* computeAutoban, and the comparison after it: three active warnings, and no
   longer ban; faulty: any ban gives way. *)
BansAnyhow(r) == mem[r].count >= AUTOBAN_THRESHOLD
Autobans(r) == mem[r].count >= AUTOBAN_THRESHOLD /\ Proposed(r) > mem[r].ban

(* UPDATE the user and COMMIT. *)
UpdateUser(r) ==
  /\ pc[r] = "counted"
  /\ warning' = [warning EXCEPT ![r] = "active"]
  /\ warnsCount' = mem[r].count
  /\ IF Autobans(r)
       THEN /\ bannedUntil' = Proposed(r)
            /\ tokenVersion' = tokenVersion + 1
            /\ End(r, "banned")
            /\ overtaken' = overtaken \cup ((Counted \cup Warning) \ {r})
       ELSE /\ End(r, "done")
            /\ overtaken' = overtaken \cup (Counted \ {r})
            /\ UNCHANGED rowVars
  /\ UNCHANGED <<now, sessionVars, vaporized>>

(* revokeWarning: UPDATE the warning, whose row stays locked. *)
RevokeWarning(r) ==
  \E w \in Active :
    /\ pc[r] = "idle"
    /\ \A q \in Request : pc[q] \in {"revoking", "recounted"} => mem[q].of # w
    /\ Goto(r, "revoking")
    /\ mem' = [mem EXCEPT ![r].of = w]
    /\ UNCHANGED <<now, rowVars, sessionVars, warning, warnsCount, vaporized, overtaken>>

(* The warnings without the revoked one; faulty: it is counted as well; the
   column of the user's row is decremented instead. *)
WarningsWithRevoked(r) == Cardinality(Active)
OneLess(r) == warnsCount - 1
WarningsLeft(r) == Cardinality(Active \ {mem[r].of})
CountLeft(r) ==
  /\ pc[r] = "revoking"
  /\ Goto(r, "recounted")
  /\ mem' = [mem EXCEPT ![r].count = WarningsLeft(r)]
  /\ UNCHANGED <<now, rowVars, sessionVars, warning, warnsCount, vaporized, overtaken>>

(* UPDATE the user's warnsCount and COMMIT: a ban stays as it is. *)
CommitRevocation(r) ==
  /\ pc[r] = "recounted"
  /\ warning' = [warning EXCEPT ![mem[r].of] = "revoked"]
  /\ warnsCount' = mem[r].count
  /\ overtaken' = overtaken \cup (Counted \ {r})
  /\ End(r, "done")
  /\ UNCHANGED <<now, rowVars, sessionVars, vaporized>>

(* updateModifiers with a bannedUntil: one in the future ends the sessions;
   faulty: no one does. *)
SameVersion(until) == tokenVersion
VersionAfter(until) == IF until > now THEN tokenVersion + 1 ELSE tokenVersion
Ban(r) ==
  \E until \in Until :
    /\ pc[r] = "idle"
    /\ bannedUntil' = until
    /\ tokenVersion' = VersionAfter(until)
    /\ mem' = [mem EXCEPT ![r].ban = until]
    /\ overtaken' = overtaken \cup Warning
    /\ Goto(r, "announcing")
    /\ UNCHANGED <<now, sessionVars, warning, warnsCount, vaporized>>

(* updateModifiers with bannedUntil null. *)
Pardon(r) ==
  /\ pc[r] = "idle"
  /\ bannedUntil' = 0
  /\ overtaken' = overtaken \cup Warning
  /\ Goto(r, "done")
  /\ UNCHANGED <<now, tokenVersion, sessionVars, warning, warnsCount, mem, vaporized>>

(* vaporizeUser: a ban of a century, and the same tokenVersion. *)
VaporizeUser(r) ==
  /\ pc[r] = "idle"
  /\ bannedUntil' = now + Century
  /\ vaporized' = TRUE
  /\ overtaken' = overtaken \cup Warning
  /\ Goto(r, "banned")
  /\ UNCHANGED <<now, tokenVersion, sessionVars, warning, warnsCount, mem>>

(* The end of createWarning and of vaporizeUser: the sockets are closed. *)
Kick(r) ==
  /\ pc[r] = "banned"
  /\ DisconnectUser
  /\ Goto(r, "done")
  /\ UNCHANGED <<now, rowVars, warning, warnsCount, mem, vaporized, overtaken>>

(* The end of updateModifiers looks at the clock again; faulty: the sockets
   are left to themselves. *)
NoKick(r) == UNCHANGED sessionVars
KickUnlessOver(r) == IF mem[r].ban > now THEN DisconnectUser ELSE UNCHANGED sessionVars
Announce(r) ==
  /\ pc[r] = "announcing"
  /\ KickUnlessOver(r)
  /\ End(r, IF mem[r].ban > now THEN "done" ELSE "unannounced")
  /\ UNCHANGED <<now, rowVars, warning, warnsCount, vaporized, overtaken>>

(* A query fails: before the commit nothing has happened; after it the ban
   stands, but the sockets are not disconnected. *)
Fail(r) ==
  /\ \/ pc[r] \in {"selected", "inserted", "counted", "revoking", "recounted"} /\ End(r, "done")
     \/ pc[r] \in {"banned", "announcing"} /\ End(r, "unannounced")
  /\ UNCHANGED <<now, rowVars, sessionVars, warning, warnsCount, vaporized, overtaken>>

ModerationNext ==
  \E r \in Request :
    \/ SelectUser(r) \/ InsertWarning(r) \/ CountWarnings(r) \/ UpdateUser(r)
    \/ RevokeWarning(r) \/ CountLeft(r) \/ CommitRevocation(r)
    \/ Ban(r) \/ Pardon(r) \/ VaporizeUser(r)
    \/ Kick(r) \/ Announce(r) \/ Fail(r)

Next == ModerationNext \/ (SessionsNext /\ UNCHANGED modVars)

Spec == Init /\ [][Next]_vars

-----------------------------------------------------------------------------
TypeOK ==
  /\ SessionsTypeOK
  /\ warning \in [Request -> {"none", "active", "revoked"}]
  /\ warnsCount \in Nat
  /\ pc \in [Request -> {"idle", "selected", "inserted", "counted", "revoking", "recounted",
                         "banned", "announcing", "done", "unannounced"}]
  /\ mem \in [Request -> [ban : Nat, count : Nat, at : Nat, of : Request]]
  /\ vaporized \in BOOLEAN
  /\ overtaken \subseteq Request

(* A ban ends the sessions it finds for good: a token that was refused once,
   because of a ban or of its version, is refused for ever, also when the ban
   is over or pardoned - and also the token of a login that was on its way
   when the ban was written.  A vaporized user's tokens are the exception. *)
RefusedForGood ==
  [][\A l \in Login :
       session[l].phase = "issued" /\ ~Valid(l) /\ ~vaporized => ~Valid(l)']_vars

(* The same of every user, as the documents have it. *)
RefusedForGoodAlways ==
  [][\A l \in Login : session[l].phase = "issued" /\ ~Valid(l) => ~Valid(l)']_vars

(* A connected socket belongs to a session that is still accepted, or a ban
   is about to close it.  It may be left open only if it was on its way into
   the room while the others were closed, if the announcement of the ban
   failed or came after its end, or if the ban was over. *)
Announcing == {r \in Request : pc[r] \in {"banned", "announcing"}}
Unannounced == {r \in Request : pc[r] = "unannounced"}
SocketsAreAccepted ==
  \A s \in Socket :
    socket[s] = "joined" => \/ Valid(via[s])
                            \/ Announcing \cup Unannounced # {}
                            \/ s \in missed

Warned(r) == warning[r] = "none" /\ warning'[r] = "active"

(* A warning that makes it three bans for seven days, or finds the user banned
   for longer - unless others overtook what it had read. *)
ThirdWarningBans ==
  [][\A r \in Request \ overtaken :
       Warned(r) /\ Cardinality(Active') >= AUTOBAN_THRESHOLD => bannedUntil' >= Proposed(r)]_vars

(* The same of every warning, as the documents have it. *)
ThirdWarningBansAlways ==
  [][\A r \in Request :
       Warned(r) /\ Cardinality(Active') >= AUTOBAN_THRESHOLD => bannedUntil' >= Proposed(r)]_vars

(* No warning shortens a ban, unless others overtook what it had read. *)
BanIsNotShortened ==
  [][\A r \in Request \ overtaken : Warned(r) => bannedUntil' >= bannedUntil]_vars

(* The counter of the user's row is that of the warnings table, as long as no
   two requests overtook each other. *)
WarnsCountIsRight == overtaken = {} => warnsCount = Cardinality(Active)
=============================================================================
