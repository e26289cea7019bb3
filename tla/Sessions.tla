------------------------------ MODULE Sessions ------------------------------
(***************************************************************************)
(* The sessions of one user: the tokens src/auth signs, the check every    *)
(* request and every socket handshake makes of them against the user's row *)
(* (AuthUserValidator), and the sockets in the room user:<id> that a ban   *)
(* disconnects (src/realtime).  Who writes the row is left to the module   *)
(* that extends this one.                                                  *)
(*                                                                         *)
(* A login or a handshake reads the row, awaits, and goes on with what it  *)
(* has read, so each is two actions.                                       *)
(***************************************************************************)
EXTENDS Integers

CONSTANTS
  Login,       \* bound: the logins, each once
  Socket,      \* bound: the connections, each once
  MaxNow,      \* bound: the last instant of the clock
  NoLogin

ASSUME MaxNowAssumption == MaxNow \in Nat
ASSUME NoLoginAssumption == NoLogin \notin Login

VARIABLES
  now,           \* the wall clock
  bannedUntil,   \* users.bannedUntil; 0 is null
  tokenVersion,  \* users.tokenVersion
  session,       \* login -> what it read of the row, and how far it is
  socket,        \* connection -> "none", "verified", "joined", "closed"
  via,           \* connection -> the login whose token it presented
  missed         \* history: connections verified but not joined during a kick

rowVars     == <<bannedUntil, tokenVersion>>
sessionVars == <<session, socket, via, missed>>

NoSession == [phase |-> "none", tv |-> 0, until |-> 0]
Banned == bannedUntil > now

SessionsInit ==
  /\ now = 0
  /\ bannedUntil = 0 /\ tokenVersion = 0
  /\ session = [l \in Login |-> NoSession]
  /\ socket = [s \in Socket |-> "none"]
  /\ via = [s \in Socket |-> NoLogin]
  /\ missed = {}

(* login, up to the password's comparison: the row is read once. *)
FindUser(l) ==
  /\ session[l].phase = "none"
  /\ session' = [session EXCEPT ![l] =
                   [phase |-> "checking", tv |-> tokenVersion, until |-> bannedUntil]]
  /\ UNCHANGED <<now, rowVars, socket, via, missed>>

(* The rest of login: a wrong password or a ban refuses it, otherwise the
   token carries the version that was read; faulty: the version of now. *)
CurrentVersion(l) == tokenVersion
SignedVersion(l) == session[l].tv
SignToken(l) ==
  /\ session[l].phase = "checking"
  /\ \/ /\ session[l].until <= now
        /\ session' = [session EXCEPT ![l].phase = "issued", ![l].tv = SignedVersion(l)]
     \/ session' = [session EXCEPT ![l].phase = "refused"]
  /\ UNCHANGED <<now, rowVars, socket, via, missed>>

(* AuthUserValidator.validate: is the token of this login accepted now? *)
Valid(l) == session[l].phase = "issued" /\ session[l].tv = tokenVersion /\ ~Banned

(* The middleware of a namespace lets a connection in. *)
Authenticate(s, l) ==
  /\ socket[s] = "none" /\ Valid(l)
  /\ socket' = [socket EXCEPT ![s] = "verified"]
  /\ via' = [via EXCEPT ![s] = l]
  /\ UNCHANGED <<now, rowVars, session, missed>>

(* handleConnection: the connection enters the room user:<id>. *)
JoinUserRoom(s) ==
  /\ socket[s] = "verified"
  /\ socket' = [socket EXCEPT ![s] = "joined"]
  /\ UNCHANGED <<now, rowVars, session, via, missed>>

(* The client goes away. *)
Close(s) ==
  /\ socket[s] \in {"verified", "joined"}
  /\ socket' = [socket EXCEPT ![s] = "closed"]
  /\ UNCHANGED <<now, rowVars, session, via, missed>>

(* disconnectUser closes the members of the room, and only them. *)
DisconnectUser ==
  /\ socket' = [s \in Socket |-> IF socket[s] = "joined" THEN "closed" ELSE socket[s]]
  /\ missed' = missed \cup {s \in Socket : socket[s] = "verified"}
  /\ UNCHANGED <<session, via>>

Tick ==
  /\ now < MaxNow
  /\ now' = now + 1
  /\ UNCHANGED <<rowVars, sessionVars>>

SessionsNext ==
  \/ \E l \in Login : FindUser(l) \/ SignToken(l)
  \/ \E s \in Socket, l \in Login : Authenticate(s, l)
  \/ \E s \in Socket : JoinUserRoom(s) \/ Close(s)
  \/ Tick

SessionsTypeOK ==
  /\ now \in Nat
  /\ bannedUntil \in Nat /\ tokenVersion \in Nat
  /\ session \in [Login -> [phase : {"none", "checking", "issued", "refused"}, tv : Nat, until : Nat]]
  /\ socket \in [Socket -> {"none", "verified", "joined", "closed"}]
  /\ via \in [Socket -> Login \cup {NoLogin}]
  /\ missed \subseteq Socket
=============================================================================
