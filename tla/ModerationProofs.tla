-------------------------- MODULE ModerationProofs --------------------------
(***************************************************************************)
(* Proofs about Moderation for any number of requests, logins,             *)
(* connections and instants: tokens that a ban ended stay refused, open    *)
(* sockets are accepted or about to be closed, and a warning that nobody   *)
(* overtook counts right, bans at the third, and shortens no ban.          *)
(***************************************************************************)
EXTENDS Moderation, FiniteSetTheorems, TLAPS

USE DEF vars, rowVars, sessionVars, modVars

(* Counting warnings gives a natural number: there are finitely many requests. *)
LEMMA CountIsNat ==
  ASSUME NEW S \in SUBSET Request
  PROVE  Cardinality(S) \in Nat
  BY RequestAssumption, FS_Subset, FS_CardinalityType

LEMMA CountIsType ==
  /\ \A r \in Request : ActiveWarnings(r) \in Nat /\ WarningsLeft(r) \in Nat
  BY CountIsNat DEF ActiveWarnings, WarningsLeft, Active

-----------------------------------------------------------------------------
LEMMA SessionsType ==
  ASSUME TypeOK, SessionsNext, UNCHANGED modVars
  PROVE  TypeOK'
<1> USE DEF TypeOK, SessionsTypeOK
<1>1. ASSUME NEW l \in Login, FindUser(l) PROVE TypeOK'
  BY <1>1 DEF FindUser
<1>2. ASSUME NEW l \in Login, SignToken(l) PROVE TypeOK'
  BY <1>2 DEF SignToken, SignedVersion
<1>3. ASSUME NEW s \in Socket, NEW l \in Login, Authenticate(s, l) PROVE TypeOK'
  BY <1>3 DEF Authenticate
<1>4. ASSUME NEW s \in Socket, JoinUserRoom(s) PROVE TypeOK'
  BY <1>4 DEF JoinUserRoom
<1>5. ASSUME NEW s \in Socket, Close(s) PROVE TypeOK'
  BY <1>5 DEF Close
<1>6. CASE Tick
  BY <1>6, MaxNowAssumption DEF Tick
<1> QED BY <1>1, <1>2, <1>3, <1>4, <1>5, <1>6 DEF SessionsNext

LEMMA ModerationType ==
  ASSUME TypeOK, NEW r \in Request,
         \/ SelectUser(r) \/ InsertWarning(r) \/ CountWarnings(r) \/ UpdateUser(r)
         \/ RevokeWarning(r) \/ CountLeft(r) \/ CommitRevocation(r)
         \/ Ban(r) \/ Pardon(r) \/ VaporizeUser(r)
         \/ Kick(r) \/ Announce(r) \/ Fail(r)
  PROVE  TypeOK'
<1> USE DEF TypeOK, SessionsTypeOK, Goto, End, NoMem
<1>1. CASE SelectUser(r)        BY <1>1 DEF SelectUser
<1>2. CASE InsertWarning(r)     BY <1>2 DEF InsertWarning
<1>3. CASE CountWarnings(r)     BY <1>3, CountIsType DEF CountWarnings
<1>4. CASE UpdateUser(r)
  <2>1. Proposed(r) \in Nat /\ mem[r].count \in Nat
    BY DurationAssumption DEF Proposed
  <2>2. /\ UNCHANGED <<now, session, socket, via, missed, vaporized>>
        /\ warning' = [warning EXCEPT ![r] = "active"] /\ warnsCount' = mem[r].count
        /\ mem' = [mem EXCEPT ![r] = NoMem(r)]
    BY <1>4 DEF UpdateUser
  <2>3. \E l \in {"banned", "done"} : pc' = [pc EXCEPT ![r] = l]
    BY <1>4 DEF UpdateUser
  <2>4. bannedUntil' \in Nat /\ tokenVersion' \in Nat
    BY <1>4, <2>1 DEF UpdateUser
  <2>5. overtaken' \subseteq Request
    BY <1>4 DEF UpdateUser, Counted, Warning
  <2> QED BY <2>1, <2>2, <2>3, <2>4, <2>5
<1>5. CASE RevokeWarning(r)     BY <1>5 DEF RevokeWarning, Active
<1>6. CASE CountLeft(r)         BY <1>6, CountIsType DEF CountLeft
<1>7. CASE CommitRevocation(r)  BY <1>7 DEF CommitRevocation, Counted
<1>8. CASE Ban(r)
  <2> PICK until \in Until : /\ bannedUntil' = until /\ tokenVersion' = VersionAfter(until)
                             /\ mem' = [mem EXCEPT ![r].ban = until]
    BY <1>8 DEF Ban
  <2> until \in Nat /\ VersionAfter(until) \in Nat
    BY UntilAssumption DEF VersionAfter
  <2> QED BY <1>8 DEF Ban, Warning
<1>9. CASE Pardon(r)            BY <1>9 DEF Pardon, Warning
<1>10. CASE VaporizeUser(r)     BY <1>10, DurationAssumption DEF VaporizeUser, Warning
<1>11. ASSUME Kick(r) \/ Announce(r) PROVE TypeOK'
  <2>1. /\ UNCHANGED <<now, rowVars, session, via, warning, warnsCount, vaporized, overtaken>>
        /\ mem' \in {mem, [mem EXCEPT ![r] = NoMem(r)]}
    BY <1>11 DEF Kick, Announce, KickUnlessOver, DisconnectUser
  <2>2. \E l \in {"done", "unannounced"} : pc' = [pc EXCEPT ![r] = l]
    BY <1>11 DEF Kick, Announce
  <2>3. UNCHANGED <<socket, missed>> \/ DisconnectUser
    BY <1>11 DEF Kick, Announce, KickUnlessOver
  <2>4. /\ socket' \in [Socket -> {"none", "verified", "joined", "closed"}]
        /\ missed' \subseteq Socket
    BY <2>3 DEF DisconnectUser
  <2>5. mem' \in [Request -> [ban : Nat, count : Nat, at : Nat, of : Request]]
    BY <2>1
  <2>6. pc' \in [Request -> {"idle", "selected", "inserted", "counted", "revoking", "recounted",
                            "banned", "announcing", "done", "unannounced"}]
    BY <2>2
  <2> QED BY <2>1, <2>4, <2>5, <2>6
<1>12. CASE Fail(r)
  <2>1. /\ UNCHANGED <<now, rowVars, sessionVars, warning, warnsCount, vaporized, overtaken>>
        /\ mem' = [mem EXCEPT ![r] = NoMem(r)]
    BY <1>12 DEF Fail
  <2>2. \E l \in {"done", "unannounced"} : pc' = [pc EXCEPT ![r] = l]
    BY <1>12 DEF Fail
  <2> QED BY <2>1, <2>2
<1> QED BY <1>1, <1>2, <1>3, <1>4, <1>5, <1>6, <1>7, <1>8, <1>9, <1>10, <1>11, <1>12

(* Every variable of the moderation keeps its type, whatever requests,
   logins and connections there are. *)
THEOREM TypeCorrect == Spec => []TypeOK
<1>1. Init => TypeOK
  <2> SUFFICES ASSUME Init PROVE TypeOK
    OBVIOUS
  <2>1. SessionsTypeOK
    BY DEF Init, SessionsInit, SessionsTypeOK, NoSession
  <2>2. mem \in [Request -> [ban : Nat, count : Nat, at : Nat, of : Request]]
    BY DEF Init, NoMem
  <2> QED BY <2>1, <2>2 DEF Init, TypeOK
<1>2. TypeOK /\ [Next]_vars => TypeOK'
  <2> SUFFICES ASSUME TypeOK, [Next]_vars PROVE TypeOK'
    OBVIOUS
  <2>1. CASE ModerationNext
    BY <2>1, ModerationType DEF ModerationNext
  <2>2. CASE SessionsNext /\ UNCHANGED modVars
    BY <2>2, SessionsType
  <2>3. CASE UNCHANGED vars
    BY <2>3 DEF TypeOK, SessionsTypeOK
  <2> QED BY <2>1, <2>2, <2>3 DEF Next
<1> QED BY <1>1, <1>2, PTL DEF Spec

-----------------------------------------------------------------------------
(* What a login has read of the row: no later version, and if no ban has
   ended its session then the ban it read is the only one that can be in
   force; what it was issued, it was issued after that one. *)
LoginsAreCurrent ==
  \A l \in Login :
    /\ session[l].tv <= tokenVersion
    /\ session[l].phase = "issued" => session[l].until <= now
    /\ session[l].phase \in {"checking", "issued"} /\ session[l].tv = tokenVersion /\ ~vaporized =>
         bannedUntil <= now \/ bannedUntil <= session[l].until

LEMMA LoginsInSessions ==
  ASSUME TypeOK, LoginsAreCurrent, SessionsNext, UNCHANGED modVars
  PROVE  LoginsAreCurrent'
<1> USE DEF TypeOK, SessionsTypeOK, LoginsAreCurrent
<1>1. ASSUME NEW l \in Login, FindUser(l) PROVE LoginsAreCurrent'
  BY <1>1 DEF FindUser
<1>2. ASSUME NEW l \in Login, SignToken(l) PROVE LoginsAreCurrent'
  BY <1>2 DEF SignToken, SignedVersion
<1>3. ASSUME NEW s \in Socket, NEW l \in Login, Authenticate(s, l) PROVE LoginsAreCurrent'
  BY <1>3 DEF Authenticate
<1>4. ASSUME NEW s \in Socket, JoinUserRoom(s) PROVE LoginsAreCurrent'
  BY <1>4 DEF JoinUserRoom
<1>5. ASSUME NEW s \in Socket, Close(s) PROVE LoginsAreCurrent'
  BY <1>5 DEF Close
<1>6. CASE Tick
  BY <1>6 DEF Tick
<1> QED BY <1>1, <1>2, <1>3, <1>4, <1>5, <1>6 DEF SessionsNext

(* A moderator's request either leaves the row as it is, ends the sessions,
   writes a ban that is not in force, or vaporizes. *)
LEMMA RowSteps ==
  ASSUME TypeOK, ModerationNext
  PROVE  /\ UNCHANGED <<now, session>>
         /\ \/ UNCHANGED <<rowVars, vaporized>>
            \/ tokenVersion' = tokenVersion + 1 /\ UNCHANGED vaporized
            \/ tokenVersion' = tokenVersion /\ bannedUntil' <= now /\ UNCHANGED vaporized
            \/ tokenVersion' = tokenVersion /\ vaporized'
<1> USE DEF TypeOK, SessionsTypeOK
<1> PICK r \in Request :
      \/ SelectUser(r) \/ InsertWarning(r) \/ CountWarnings(r) \/ UpdateUser(r)
      \/ RevokeWarning(r) \/ CountLeft(r) \/ CommitRevocation(r)
      \/ Ban(r) \/ Pardon(r) \/ VaporizeUser(r)
      \/ Kick(r) \/ Announce(r) \/ Fail(r)
  BY DEF ModerationNext
<1>1. CASE SelectUser(r) \/ InsertWarning(r) \/ CountWarnings(r) \/ RevokeWarning(r) \/ CountLeft(r)
           \/ CommitRevocation(r) \/ Fail(r)
  BY <1>1 DEF SelectUser, InsertWarning, CountWarnings, RevokeWarning, CountLeft, CommitRevocation, Fail
<1>2. CASE UpdateUser(r)
  BY <1>2 DEF UpdateUser
<1>3. CASE Ban(r)
  <2> PICK until \in Until : bannedUntil' = until /\ tokenVersion' = VersionAfter(until)
    BY <1>3 DEF Ban
  <2> until \in Nat
    BY UntilAssumption
  <2> UNCHANGED <<now, session, vaporized>>
    BY <1>3 DEF Ban
  <2> QED BY DEF VersionAfter
<1>4. CASE Pardon(r)
  BY <1>4 DEF Pardon
<1>5. CASE VaporizeUser(r)
  BY <1>5 DEF VaporizeUser
<1>6. CASE Kick(r) \/ Announce(r)
  BY <1>6 DEF Kick, Announce, KickUnlessOver, DisconnectUser
<1> QED BY <1>1, <1>2, <1>3, <1>4, <1>5, <1>6

LEMMA LoginsStayCurrent == Spec => [](TypeOK /\ LoginsAreCurrent)
<1>1. Init => LoginsAreCurrent
  <2> SUFFICES ASSUME Init, NEW l \in Login
               PROVE  /\ session[l].tv <= tokenVersion
                      /\ session[l].phase = "none"
    BY DEF LoginsAreCurrent
  <2>1. session[l] = NoSession /\ tokenVersion = 0
    BY DEF Init, SessionsInit
  <2> QED BY <2>1 DEF NoSession
<1>2. TypeOK /\ LoginsAreCurrent /\ [Next]_vars => LoginsAreCurrent'
  <2> SUFFICES ASSUME TypeOK, LoginsAreCurrent, [Next]_vars PROVE LoginsAreCurrent'
    OBVIOUS
  <2>1. CASE ModerationNext
    BY <2>1, RowSteps DEF LoginsAreCurrent, TypeOK, SessionsTypeOK
  <2>2. CASE SessionsNext /\ UNCHANGED modVars
    BY <2>2, LoginsInSessions
  <2>3. CASE UNCHANGED vars
    BY <2>3 DEF LoginsAreCurrent
  <2> QED BY <2>1, <2>2, <2>3 DEF Next
<1> QED BY <1>1, <1>2, TypeCorrect, PTL DEF Spec

(* A token that was refused once is refused for ever: a ban in force found no
   token of the current version but a vaporized user's, and versions only
   grow. *)
THEOREM TokensStayRefused == Spec => RefusedForGood
<1> DEFINE Step == \A l \in Login :
      session[l].phase = "issued" /\ ~Valid(l) /\ ~vaporized => ~Valid(l)'
<1>1. TypeOK /\ LoginsAreCurrent /\ [Next]_vars => Step
  <2> SUFFICES ASSUME TypeOK, LoginsAreCurrent, [Next]_vars,
                      NEW l \in Login, session[l].phase = "issued", ~Valid(l), ~vaporized
               PROVE  ~Valid(l)'
    OBVIOUS
  <2>1. session[l].tv < tokenVersion
    <3>1. /\ session[l].tv <= tokenVersion
          /\ session[l].until <= now
          /\ session[l].tv = tokenVersion => bannedUntil <= now \/ bannedUntil <= session[l].until
      BY Zenon DEF LoginsAreCurrent
    <3>2. session[l].tv # tokenVersion \/ bannedUntil > now
      BY DEF Valid, Banned
    <3>3. session[l].tv \in Nat /\ session[l].until \in Nat
          /\ tokenVersion \in Nat /\ bannedUntil \in Nat /\ now \in Nat
      BY DEF TypeOK, SessionsTypeOK
    <3> QED BY <3>1, <3>2, <3>3
  <2>2. CASE ModerationNext
    BY <2>1, <2>2, RowSteps DEF TypeOK, SessionsTypeOK, Valid
  <2>3. CASE SessionsNext /\ UNCHANGED modVars
    <3>1. session'[l] = session[l] /\ tokenVersion' = tokenVersion
      BY <2>3 DEF SessionsNext, FindUser, SignToken, Authenticate, JoinUserRoom, Close, Tick,
                  TypeOK, SessionsTypeOK
    <3> QED BY <2>1, <3>1 DEF TypeOK, SessionsTypeOK, Valid
  <2>4. CASE UNCHANGED vars
    BY <2>1, <2>4 DEF TypeOK, SessionsTypeOK, Valid
  <2> QED BY <2>2, <2>3, <2>4 DEF Next
<1>2. TypeOK /\ LoginsAreCurrent /\ [Next]_vars => [Step]_vars
  BY <1>1
<1> QED BY <1>2, LoginsStayCurrent, PTL DEF Spec, RefusedForGood

-----------------------------------------------------------------------------
(* A connection that was let in, whether it has reached the room or not, is
   accepted, about to be closed, left open by a failure, or was on its way. *)
SocketsInv ==
  \A s \in Socket :
    socket[s] \in {"verified", "joined"} =>
      /\ via[s] \in Login /\ session[via[s]].phase = "issued"
      /\ Valid(via[s]) \/ Announcing \cup Unannounced # {} \/ s \in missed

LEMMA SocketsInSessions ==
  ASSUME TypeOK, SocketsInv, SessionsNext, UNCHANGED modVars
  PROVE  SocketsInv'
<1> USE DEF TypeOK, SessionsTypeOK, SocketsInv, Valid, Banned, Announcing, Unannounced
<1>1. ASSUME NEW l \in Login, FindUser(l) PROVE SocketsInv'
  BY <1>1 DEF FindUser
<1>2. ASSUME NEW l \in Login, SignToken(l) PROVE SocketsInv'
  BY <1>2 DEF SignToken, SignedVersion
<1>3. ASSUME NEW s \in Socket, NEW l \in Login, Authenticate(s, l) PROVE SocketsInv'
  BY <1>3 DEF Authenticate
<1>4. ASSUME NEW s \in Socket, JoinUserRoom(s) PROVE SocketsInv'
  BY <1>4 DEF JoinUserRoom
<1>5. ASSUME NEW s \in Socket, Close(s) PROVE SocketsInv'
  BY <1>5 DEF Close
<1>6. CASE Tick
  BY <1>6 DEF Tick
<1> QED BY <1>1, <1>2, <1>3, <1>4, <1>5, <1>6 DEF SessionsNext

(* After a kick nobody is in the room, and those on their way are missed. *)
LEMMA AfterKick ==
  ASSUME TypeOK, SocketsInv, DisconnectUser
  PROVE  SocketsInv'
  BY DEF TypeOK, SessionsTypeOK, SocketsInv, DisconnectUser

LEMMA SocketsInModeration ==
  ASSUME TypeOK, SocketsInv, NEW r \in Request,
         \/ SelectUser(r) \/ InsertWarning(r) \/ CountWarnings(r) \/ UpdateUser(r)
         \/ RevokeWarning(r) \/ CountLeft(r) \/ CommitRevocation(r)
         \/ Ban(r) \/ Pardon(r) \/ VaporizeUser(r)
         \/ Kick(r) \/ Announce(r) \/ Fail(r)
  PROVE  SocketsInv'
<1> USE DEF TypeOK, SessionsTypeOK, Goto, End, Announcing, Unannounced
<1>1. CASE /\ UNCHANGED <<now, rowVars, sessionVars>>
           /\ Announcing \cup Unannounced # {} => (Announcing \cup Unannounced)' # {}
  BY <1>1 DEF SocketsInv, Valid, Banned
<1>2. CASE /\ UNCHANGED sessionVars
           /\ (Announcing \cup Unannounced)' # {}
  BY <1>2 DEF SocketsInv
<1>3. CASE SelectUser(r) \/ InsertWarning(r) \/ CountWarnings(r) \/ RevokeWarning(r) \/ CountLeft(r)
  <2>1. pc[r] \in {"idle", "selected", "inserted", "revoking"} /\ \E l : pc' = [pc EXCEPT ![r] = l]
    BY <1>3 DEF SelectUser, InsertWarning, CountWarnings, RevokeWarning, CountLeft
  <2>2. Announcing \cup Unannounced # {} => (Announcing \cup Unannounced)' # {}
    BY <2>1
  <2>3. UNCHANGED <<now, rowVars, sessionVars>>
    BY <1>3 DEF SelectUser, InsertWarning, CountWarnings, RevokeWarning, CountLeft
  <2> QED BY <1>1, <2>2, <2>3
<1>4. CASE UpdateUser(r) \/ CommitRevocation(r)
  <2>1. CASE UNCHANGED rowVars
    <3>1. pc[r] \in {"counted", "recounted"} /\ \E l : pc' = [pc EXCEPT ![r] = l]
      BY <1>4 DEF UpdateUser, CommitRevocation
    <3>2. Announcing \cup Unannounced # {} => (Announcing \cup Unannounced)' # {}
      BY <3>1
    <3>3. UNCHANGED <<now, sessionVars>>
      BY <1>4 DEF UpdateUser, CommitRevocation
    <3> QED BY <1>1, <2>1, <3>2, <3>3
  <2>2. CASE ~UNCHANGED rowVars
    <3>1. UNCHANGED sessionVars /\ pc' = [pc EXCEPT ![r] = "banned"]
      BY <1>4, <2>2 DEF UpdateUser, CommitRevocation
    <3>2. r \in Announcing'
      BY <3>1
    <3> QED BY <1>2, <3>1, <3>2
  <2> QED BY <2>1, <2>2
<1>5. CASE Ban(r) \/ VaporizeUser(r)
  <2>1. UNCHANGED sessionVars /\ r \in Announcing'
    BY <1>5 DEF Ban, VaporizeUser
  <2> QED BY <1>2, <2>1
<1>6. CASE Pardon(r)
  <2>1. Announcing \cup Unannounced # {} => (Announcing \cup Unannounced)' # {}
    BY <1>6 DEF Pardon
  <2>2. bannedUntil' = 0 /\ UNCHANGED <<now, tokenVersion, sessionVars>>
    BY <1>6 DEF Pardon
  <2> QED BY <2>1, <2>2 DEF SocketsInv, Valid, Banned
<1>7. CASE Kick(r)
  BY <1>7, AfterKick DEF Kick
<1>8. CASE Announce(r)
  <2>1. CASE mem[r].ban > now
    BY <1>8, <2>1, AfterKick DEF Announce, KickUnlessOver
  <2>2. CASE ~(mem[r].ban > now)
    <3>1. UNCHANGED sessionVars /\ r \in Unannounced'
      BY <1>8, <2>2 DEF Announce, KickUnlessOver
    <3> QED BY <1>2, <3>1
  <2> QED BY <2>1, <2>2
<1>9. CASE Fail(r)
  <2>1. UNCHANGED <<now, rowVars, sessionVars>>
    BY <1>9 DEF Fail
  <2>2. Announcing \cup Unannounced # {} => (Announcing \cup Unannounced)' # {}
    BY <1>9 DEF Fail
  <2> QED BY <1>1, <2>1, <2>2
<1> QED BY <1>3, <1>4, <1>5, <1>6, <1>7, <1>8, <1>9

(* Open sockets are accepted, or about to be closed: every writer of a ban
   still has its announcement to make when the row has changed. *)
THEOREM OpenSocketsAreAccepted == Spec => []SocketsAreAccepted
<1>1. Init => SocketsInv
  BY DEF Init, SessionsInit, SocketsInv
<1>2. TypeOK /\ SocketsInv /\ [Next]_vars => SocketsInv'
  <2> SUFFICES ASSUME TypeOK, SocketsInv, [Next]_vars PROVE SocketsInv'
    OBVIOUS
  <2>1. CASE ModerationNext
    BY <2>1, SocketsInModeration DEF ModerationNext
  <2>2. CASE SessionsNext /\ UNCHANGED modVars
    BY <2>2, SocketsInSessions
  <2>3. CASE UNCHANGED vars
    BY <2>3 DEF SocketsInv, Valid, Banned, Announcing, Unannounced
  <2> QED BY <2>1, <2>2, <2>3 DEF Next
<1>3. SocketsInv => SocketsAreAccepted
  BY DEF SocketsInv, SocketsAreAccepted
<1> QED BY <1>1, <1>2, <1>3, TypeCorrect, PTL DEF Spec

-----------------------------------------------------------------------------
(* What a request that nobody overtook has read is still so. *)
Fresh(r) ==
  /\ pc[r] \in {"selected", "inserted", "counted"} => mem[r].ban = bannedUntil
  /\ pc[r] = "counted" => mem[r].count = ActiveWarnings(r)
  /\ pc[r] = "recounted" => mem[r].count = WarningsLeft(r)
ReadsAreFresh == \A r \in Request \ overtaken : Fresh(r)

(* The requests that act on nothing they have read. *)
LEMMA FreshWhenNew ==
  ASSUME TypeOK, NEW r \in Request, pc'[r] \in {"idle", "revoking", "banned", "announcing", "done", "unannounced"}
  PROVE  Fresh(r)'
  BY DEF Fresh

(* A step of one request leaves the reads of another fresh, or overtakes it. *)
LEMMA OthersStayFresh ==
  ASSUME TypeOK, NEW r \in Request, NEW q \in Request \ {r},
         \/ SelectUser(r) \/ InsertWarning(r) \/ CountWarnings(r) \/ UpdateUser(r)
         \/ RevokeWarning(r) \/ CountLeft(r) \/ CommitRevocation(r)
         \/ Ban(r) \/ Pardon(r) \/ VaporizeUser(r)
         \/ Kick(r) \/ Announce(r) \/ Fail(r),
         q \notin overtaken', Fresh(q)
  PROVE  Fresh(q)'
<1> USE DEF TypeOK, SessionsTypeOK
<1>1. pc'[q] = pc[q] /\ mem'[q] = mem[q]
  BY DEF SelectUser, InsertWarning, CountWarnings, UpdateUser, RevokeWarning, CountLeft, CommitRevocation,
         Ban, Pardon, VaporizeUser, Kick, Announce, Fail, Goto, End
<1>2. pc[q] \in {"counted", "recounted"} => Active' = Active
  BY DEF SelectUser, InsertWarning, CountWarnings, UpdateUser, RevokeWarning, CountLeft, CommitRevocation,
         Ban, Pardon, VaporizeUser, Kick, Announce, Fail, Active, Counted
<1>3. pc[q] \in {"selected", "inserted", "counted"} => bannedUntil' = bannedUntil
  BY DEF SelectUser, InsertWarning, CountWarnings, UpdateUser, RevokeWarning, CountLeft, CommitRevocation,
         Ban, Pardon, VaporizeUser, Kick, Announce, Fail, Warning
<1> QED BY <1>1, <1>2, <1>3 DEF Fresh, ActiveWarnings, WarningsLeft

LEMMA OwnReadsAreFresh ==
  ASSUME TypeOK, NEW r \in Request,
         \/ SelectUser(r) \/ InsertWarning(r) \/ CountWarnings(r) \/ UpdateUser(r)
         \/ RevokeWarning(r) \/ CountLeft(r) \/ CommitRevocation(r)
         \/ Ban(r) \/ Pardon(r) \/ VaporizeUser(r)
         \/ Kick(r) \/ Announce(r) \/ Fail(r),
         Fresh(r)
  PROVE  Fresh(r)'
<1> USE DEF TypeOK, SessionsTypeOK, Goto, End
<1>1. CASE SelectUser(r)
  BY <1>1 DEF SelectUser, Fresh
<1>2. CASE InsertWarning(r)
  BY <1>2 DEF InsertWarning, Fresh
<1>3. CASE CountWarnings(r)
  <2>1. Active' = Active
    BY <1>3 DEF CountWarnings, Active
  <2>2. pc'[r] = "counted" /\ mem'[r].ban = bannedUntil' /\ mem'[r].count = ActiveWarnings(r)
    BY <1>3 DEF CountWarnings, Fresh
  <2> QED BY <2>1, <2>2 DEF Fresh, ActiveWarnings
<1>4. CASE CountLeft(r)
  <2>1. Active' = Active
    BY <1>4 DEF CountLeft, Active
  <2>2. pc'[r] = "recounted" /\ mem'[r].of = mem[r].of /\ mem'[r].count = WarningsLeft(r)
    BY <1>4 DEF CountLeft
  <2> QED BY <2>1, <2>2 DEF Fresh, WarningsLeft
<1>5. CASE UpdateUser(r) \/ RevokeWarning(r) \/ CommitRevocation(r) \/ Ban(r) \/ Pardon(r)
           \/ VaporizeUser(r) \/ Kick(r) \/ Announce(r) \/ Fail(r)
  <2>1. pc'[r] \in {"idle", "revoking", "banned", "announcing", "done", "unannounced"}
    BY <1>5 DEF UpdateUser, RevokeWarning, CommitRevocation, Ban, Pardon, VaporizeUser, Kick, Announce, Fail
  <2> QED BY <2>1, FreshWhenNew
<1> QED BY <1>1, <1>2, <1>3, <1>4, <1>5

LEMMA ReadsStayFresh == Spec => [](TypeOK /\ ReadsAreFresh)
<1>1. Init => ReadsAreFresh
  BY DEF Init, ReadsAreFresh, Fresh
<1>2. TypeOK /\ ReadsAreFresh /\ [Next]_vars => ReadsAreFresh'
  <2> SUFFICES ASSUME TypeOK, ReadsAreFresh, [Next]_vars, NEW q \in Request, q \notin overtaken'
               PROVE  Fresh(q)'
    BY DEF ReadsAreFresh
  <2>1. CASE ModerationNext
    <3>1. PICK r \in Request :
            \/ SelectUser(r) \/ InsertWarning(r) \/ CountWarnings(r) \/ UpdateUser(r)
            \/ RevokeWarning(r) \/ CountLeft(r) \/ CommitRevocation(r)
            \/ Ban(r) \/ Pardon(r) \/ VaporizeUser(r)
            \/ Kick(r) \/ Announce(r) \/ Fail(r)
      BY <2>1 DEF ModerationNext
    <3>2. overtaken \subseteq overtaken'
      BY <3>1 DEF SelectUser, InsertWarning, CountWarnings, UpdateUser, RevokeWarning, CountLeft,
                  CommitRevocation, Ban, Pardon, VaporizeUser, Kick, Announce, Fail
    <3>3. Fresh(q)
      BY <3>2 DEF ReadsAreFresh
    <3> QED BY <3>1, <3>3, OthersStayFresh, OwnReadsAreFresh
  <2>2. CASE (SessionsNext /\ UNCHANGED modVars) \/ UNCHANGED vars
    <3>1. UNCHANGED <<bannedUntil, modVars>>
      BY <2>2 DEF SessionsNext, FindUser, SignToken, Authenticate, JoinUserRoom, Close, Tick
    <3> QED BY <3>1 DEF ReadsAreFresh, Fresh, ActiveWarnings, WarningsLeft, Active
  <2> QED BY <2>1, <2>2 DEF Next
<1> QED BY <1>1, <1>2, TypeCorrect, PTL DEF Spec

(* Only its own commit makes a warning active. *)
LEMMA WarnedByItself ==
  ASSUME TypeOK, [Next]_vars, NEW r \in Request, Warned(r)
  PROVE  UpdateUser(r) /\ Active' = Active \cup {r}
<1> USE DEF TypeOK
<1>1. warning' # warning
  BY DEF Warned
<1>2. PICK q \in Request : UpdateUser(q) \/ CommitRevocation(q)
  BY <1>1 DEF Next, ModerationNext, SelectUser, InsertWarning, CountWarnings, RevokeWarning, CountLeft,
              Ban, Pardon, VaporizeUser, Kick, Announce, Fail
<1>3. UpdateUser(q) /\ q = r
  BY <1>2 DEF Warned, UpdateUser, CommitRevocation
<1> QED BY <1>3 DEF UpdateUser, Active

(* A warning nobody overtook counted every active one and saw the user's ban,
   so the third one bans. *)
THEOREM ThirdWarningsBan == Spec => ThirdWarningBans
<1> DEFINE Step == \A r \in Request \ overtaken :
      Warned(r) /\ Cardinality(Active') >= AUTOBAN_THRESHOLD => bannedUntil' >= Proposed(r)
<1>1. TypeOK /\ ReadsAreFresh /\ [Next]_vars => Step
  <2> SUFFICES ASSUME TypeOK, ReadsAreFresh, [Next]_vars, NEW r \in Request \ overtaken, Warned(r),
                      Cardinality(Active') >= AUTOBAN_THRESHOLD
               PROVE  bannedUntil' >= Proposed(r)
    OBVIOUS
  <2>1. UpdateUser(r) /\ Active' = Active \cup {r}
    BY WarnedByItself
  <2>2. mem[r].count >= AUTOBAN_THRESHOLD /\ mem[r].ban = bannedUntil
    BY <2>1 DEF UpdateUser, ReadsAreFresh, Fresh, ActiveWarnings
  <2>3. Proposed(r) \in Nat /\ bannedUntil \in Nat
    BY DurationAssumption DEF Proposed, TypeOK, SessionsTypeOK
  <2>4. CASE Autobans(r)
    BY <2>1, <2>3, <2>4 DEF UpdateUser
  <2>5. CASE ~Autobans(r)
    BY <2>1, <2>2, <2>3, <2>5 DEF UpdateUser, Autobans
  <2> QED BY <2>4, <2>5
<1>2. TypeOK /\ ReadsAreFresh /\ [Next]_vars => [Step]_vars
  BY <1>1
<1> QED BY <1>2, ReadsStayFresh, PTL DEF Spec, ThirdWarningBans

(* A warning nobody overtook shortens no ban. *)
THEOREM BansAreNotShortened == Spec => BanIsNotShortened
<1> DEFINE Step == \A r \in Request \ overtaken : Warned(r) => bannedUntil' >= bannedUntil
<1>1. TypeOK /\ ReadsAreFresh /\ [Next]_vars => Step
  <2> SUFFICES ASSUME TypeOK, ReadsAreFresh, [Next]_vars, NEW r \in Request \ overtaken, Warned(r)
               PROVE  bannedUntil' >= bannedUntil
    OBVIOUS
  <2>1. UpdateUser(r)
    BY WarnedByItself
  <2>2. mem[r].ban = bannedUntil
    BY <2>1 DEF UpdateUser, ReadsAreFresh, Fresh
  <2>3. Proposed(r) \in Nat /\ bannedUntil \in Nat
    BY DurationAssumption DEF Proposed, TypeOK, SessionsTypeOK
  <2> QED BY <2>1, <2>2, <2>3 DEF UpdateUser, Autobans
<1>2. TypeOK /\ ReadsAreFresh /\ [Next]_vars => [Step]_vars
  BY <1>1
<1> QED BY <1>2, ReadsStayFresh, PTL DEF Spec, BanIsNotShortened

(* The counter of the user's row is the number of active warnings as long as
   no request overtook another. *)
THEOREM WarnsCountsAreRight == Spec => []WarnsCountIsRight
<1>1. Init => WarnsCountIsRight
  <2> SUFFICES ASSUME Init PROVE warnsCount = Cardinality(Active)
    BY DEF WarnsCountIsRight
  <2>1. Active = {} /\ warnsCount = 0
    BY DEF Init, Active
  <2> QED BY <2>1, FS_EmptySet
<1>2. TypeOK /\ ReadsAreFresh /\ WarnsCountIsRight /\ [Next]_vars => WarnsCountIsRight'
  <2> SUFFICES ASSUME TypeOK, ReadsAreFresh, WarnsCountIsRight, [Next]_vars, overtaken' = {}
               PROVE  warnsCount' = Cardinality(Active')
    BY DEF WarnsCountIsRight
  <2> USE DEF TypeOK
  <2>1. ASSUME NEW r \in Request, UpdateUser(r)
        PROVE  warnsCount' = Cardinality(Active')
    <3>1. r \notin overtaken /\ pc[r] = "counted" /\ warnsCount' = mem[r].count
      BY <2>1 DEF UpdateUser
    <3>2. Active' = Active \cup {r}
      BY <2>1 DEF UpdateUser, Active
    <3> QED BY <3>1, <3>2 DEF ReadsAreFresh, Fresh, ActiveWarnings
  <2>2. ASSUME NEW r \in Request, CommitRevocation(r)
        PROVE  warnsCount' = Cardinality(Active')
    <3>1. r \notin overtaken /\ pc[r] = "recounted" /\ warnsCount' = mem[r].count
      BY <2>2 DEF CommitRevocation
    <3>2. Active' = Active \ {mem[r].of}
      BY <2>2 DEF CommitRevocation, Active
    <3> QED BY <3>1, <3>2 DEF ReadsAreFresh, Fresh, WarningsLeft
  <2>3. CASE warning' = warning /\ warnsCount' = warnsCount /\ overtaken \subseteq overtaken'
    BY <2>3 DEF WarnsCountIsRight, Active
  <2>4. ASSUME NEW r \in Request,
               \/ SelectUser(r) \/ InsertWarning(r) \/ CountWarnings(r) \/ RevokeWarning(r) \/ CountLeft(r)
               \/ Ban(r) \/ Pardon(r) \/ VaporizeUser(r) \/ Kick(r) \/ Announce(r) \/ Fail(r)
        PROVE  warning' = warning /\ warnsCount' = warnsCount /\ overtaken \subseteq overtaken'
    BY <2>4 DEF SelectUser, InsertWarning, CountWarnings, RevokeWarning, CountLeft, Ban, Pardon,
                VaporizeUser, Kick, Announce, Fail
  <2> QED BY <2>1, <2>2, <2>3, <2>4 DEF Next, ModerationNext
<1> QED BY <1>1, <1>2, ReadsStayFresh, PTL DEF Spec
=============================================================================
