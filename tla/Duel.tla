-------------------------------- MODULE Duel --------------------------------
(***************************************************************************)
(* One fight of the fight club, from FightClubService.startMatch to the    *)
(* verdict: the keyboard duel of src/fight-club/fight-club.service.ts.     *)
(*                                                                         *)
(* Both players race for one shared prompt (a key to press).  A landed hit *)
(* takes hit points from the enemy, breaks the enemy's combo and issues a  *)
(* fresh prompt; the third hit in a row is a critical one.  A wrong key,   *)
(* or a key pressed faster than a human can, stuns the player.  The duel   *)
(* ends when a player has no hit points left or when the socket a player   *)
(* is recorded with closes.                                                *)
(*                                                                         *)
(* A key is abstracted to whether it is the prompt's key.  The clock is    *)
(* the wall clock the gateway passes to every handler; it is assumed never *)
(* to run backwards.                                                       *)
(***************************************************************************)
EXTENDS Integers, FiniteSets

CONSTANTS
  InitialHp,     \* hit points of a player at the start (30)
  MinReaction,   \* MIN_REACTION_MS (120)
  Cooldown,      \* HIT_COOLDOWN_MS (150)
  Stun,          \* STUN_MS (1000)
  StartedAt,     \* the time startMatch ran at, in the unit of the three above
  Tabs,          \* connections a player may use, each opened once
  MaxNow         \* bound: the last instant the clock reaches

ASSUME DurationsAssumption ==
  /\ InitialHp \in Nat \ {0}
  /\ MinReaction \in Nat
  /\ Cooldown \in Nat
  /\ Stun \in Nat
ASSUME ClockAssumption ==
  /\ StartedAt \in Nat
  /\ MaxNow \in Nat
  \* lastHitAt starts at 0 and the epoch is long past, so the cooldown never
  \* holds back a player's first hit
  /\ StartedAt >= Cooldown

Player == {1, 2}                 \* player1 (the creator) and player2
Enemy(p) == 3 - p

Nobody == 0

VARIABLES
  now,            \* the wall clock
  status,         \* match.status
  hp,             \* player.hp
  combo,          \* player.combo
  stunnedUntil,   \* player.stunnedUntil
  lastHitAt,      \* player.lastHitAt
  socketId,       \* player.socketId: the tab the player joined the match from
  prompt,         \* match.prompt: [id, sentAt]; ids are issued in order
  online,         \* the connections that are open
  winner,         \* the winner finishMatch is called with
  outcome,        \* "ko" or "rage_quit", how finishMatch was called
  \* history: not kept by the code, read by the properties only
  landed,         \* hits a player landed
  crits,          \* how many of them were critical
  streak,         \* hits a player landed since a miss of its own or an enemy hit
  claims          \* the prompt ids that landed a hit, per player

clockVars  == <<now>>
playerVars == <<hp, combo, stunnedUntil, lastHitAt>>
netVars    == <<socketId, online>>
endVars    == <<status, winner, outcome>>
histVars   == <<landed, crits, streak, claims>>
vars == <<clockVars, playerVars, netVars, endVars, prompt, histVars>>

-----------------------------------------------------------------------------
(* createPrompt: a fresh id, sent now. *)
CreatePrompt(id) == [id |-> id, sentAt |-> now]

(* The match as startMatch leaves it: two fresh players with a recorded
   connection each, and the first prompt.  startMatch does not look whether
   that connection is still open: see FightClub for how a fight starts
   against one that is not, so any connections may be open. *)
Init ==
  /\ now = StartedAt
  /\ status = "FIGHTING"
  /\ hp = [p \in Player |-> InitialHp]
  /\ combo = [p \in Player |-> 0]
  /\ stunnedUntil = [p \in Player |-> 0]
  /\ lastHitAt = [p \in Player |-> 0]
  /\ prompt = CreatePrompt(1)
  /\ online \in SUBSET (Player \X Tabs)
  /\ socketId \in [Player -> Tabs]
  /\ winner = Nobody /\ outcome = "none"
  /\ landed = [p \in Player |-> 0]
  /\ crits = [p \in Player |-> 0]
  /\ streak = [p \in Player |-> 0]
  /\ claims = [p \in Player |-> {}]

-----------------------------------------------------------------------------
(* The guards of handleHit.  A faulty variant before one of them is what only
   the mutation runs put in its place. *)
Fighting == status = "FIGHTING"

NotStunnedEver(p) == TRUE
NotStunned(p) == now >= stunnedUntil[p]

CooledDownAlways(p) == TRUE
CooledDown(p) == now - lastHitAt[p] >= Cooldown

CurrentPromptAny(id) == TRUE
CurrentPrompt(id) == id = prompt.id

(* The guards in their order: one that fails rejects the hit (no_match,
   foreign_socket, stunned, cooldown, stale_prompt) and changes nothing. *)
Accepted(p, tab, id) ==
  /\ Fighting
  /\ tab = socketId[p]
  /\ NotStunned(p)
  /\ CooledDown(p)
  /\ CurrentPrompt(id)

TooFast == now - prompt.sentAt < MinReaction

ComboAfterMissKept(p) == combo
ComboAfterMiss(p) == [combo EXCEPT ![p] = 0]

(* An accepted hit with a wrong key, or faster than MIN_REACTION_MS. *)
Miss(p, tab, id, rightKey) ==
  /\ Accepted(p, tab, id)
  /\ TooFast \/ ~rightKey
  /\ stunnedUntil' = [stunnedUntil EXCEPT ![p] = now + Stun]
  /\ combo' = ComboAfterMiss(p)
  /\ streak' = [streak EXCEPT ![p] = 0]
  /\ UNCHANGED <<clockVars, netVars, endVars, hp, lastHitAt, prompt, landed, crits, claims>>

IsCritLate(p) == combo[p] + 1 = 4
IsCrit(p) == combo[p] + 1 = 3

ComboAfterHitKept(p) == [q \in Player |-> IF q = p THEN combo[p] + 1 ELSE 0]
ComboAfterHit(p) == [q \in Player |-> IF q = p /\ ~IsCrit(p) THEN combo[p] + 1 ELSE 0]

Damage(p) == IF IsCrit(p) THEN 5 ELSE 1
HpAfter(p) == IF hp[Enemy(p)] > Damage(p) THEN hp[Enemy(p)] - Damage(p) ELSE 0

(* The verdict finishMatch is called with, in the step that ends the fight. *)
Decide(w, how) == status' = "FIGHT_OVER" /\ winner' = w /\ outcome' = how

(* An accepted hit with the right key: damage, combo, a new prompt, and the
   knockout when the enemy has no hit points left. *)
Land(p, tab, id, rightKey) ==
  /\ Accepted(p, tab, id)
  /\ ~TooFast /\ rightKey
  /\ lastHitAt' = [lastHitAt EXCEPT ![p] = now]
  /\ combo' = ComboAfterHit(p)
  /\ hp' = [hp EXCEPT ![Enemy(p)] = HpAfter(p)]
  /\ prompt' = CreatePrompt(prompt.id + 1)
  /\ IF HpAfter(p) = 0 THEN Decide(p, "ko") ELSE UNCHANGED endVars
  /\ landed' = [landed EXCEPT ![p] = @ + 1]
  /\ crits' = [crits EXCEPT ![p] = IF IsCrit(p) THEN @ + 1 ELSE @]
  /\ streak' = [q \in Player |-> IF q = p THEN streak[p] + 1 ELSE 0]
  /\ claims' = [claims EXCEPT ![p] = @ \cup {id}]
  /\ UNCHANGED <<clockVars, netVars, stunnedUntil>>

(* joinMatch by a seated player: the match follows the player to another tab
   and keeps everything else of the player's state. *)
Rejoin(p, tab) ==
  /\ <<p, tab>> \in online
  /\ socketId' = [socketId EXCEPT ![p] = tab]
  /\ UNCHANGED <<clockVars, playerVars, endVars, histVars, prompt, online>>

LosesByAnyTime(p, tab) == socketId[p] = tab
LosesByAnyTab(p, tab) == Fighting
LosesBy(p, tab) == Fighting /\ socketId[p] = tab

(* handlePlayerDisconnect: only the connection the player is recorded with
   loses the fight. *)
Disconnect(p, tab) ==
  /\ <<p, tab>> \in online
  /\ online' = online \ {<<p, tab>>}
  /\ IF LosesBy(p, tab) THEN Decide(Enemy(p), "rage_quit") ELSE UNCHANGED endVars
  /\ UNCHANGED <<clockVars, playerVars, histVars, prompt, socketId>>

(* Time passes; a duel that is over no longer looks at the clock. *)
Tick ==
  /\ Fighting
  /\ now < MaxNow
  /\ now' = now + 1
  /\ UNCHANGED <<playerVars, netVars, endVars, histVars, prompt>>

(* fight:hit.  A client sends the id of any prompt it has been shown (a late
   message carries an old one) from any of its open connections. *)
HandleHit ==
  \E p \in Player, tab \in Tabs, id \in 1..prompt.id, rightKey \in BOOLEAN :
    /\ <<p, tab>> \in online
    /\ Miss(p, tab, id, rightKey) \/ Land(p, tab, id, rightKey)

Next ==
  \/ HandleHit
  \/ \E p \in Player, tab \in Tabs : Rejoin(p, tab)
  \/ \E p \in Player, tab \in Tabs : Disconnect(p, tab)
  \/ Tick

Spec == Init /\ [][Next]_vars

-----------------------------------------------------------------------------
TypeOK ==
  /\ now \in Nat
  /\ status \in {"FIGHTING", "FIGHT_OVER"}
  /\ hp \in [Player -> 0..InitialHp]
  /\ combo \in [Player -> 0..2]
  /\ stunnedUntil \in [Player -> Nat]
  /\ lastHitAt \in [Player -> Nat]
  /\ socketId \in [Player -> Tabs]
  /\ prompt \in [id : Nat \ {0}, sentAt : Nat]
  /\ online \subseteq Player \X Tabs
  /\ winner \in Player \cup {Nobody}
  /\ outcome \in {"none", "ko", "rage_quit"}
  /\ landed \in [Player -> Nat]
  /\ crits \in [Player -> Nat]
  /\ streak \in [Player -> Nat]
  /\ claims \in [Player -> SUBSET (Nat \ {0})]

(* Two hits that race for the same prompt: only the first one lands, so the
   players' claims are disjoint, every prompt before the current one landed,
   and as many hits landed as prompts were answered. *)
PromptLandsOnce ==
  /\ claims[1] \cap claims[2] = {}
  /\ claims[1] \cup claims[2] = 1..(prompt.id - 1)
  /\ prompt.id = landed[1] + landed[2] + 1

(* Every hit point lost is accounted for by the enemy's landed hits: one each
   and four more for a critical one, and a critical hit ends a run of three,
   so that over the whole duel, whatever the misses, the interruptions and
   the changes of tab, crits are at most a third of the hits. *)
DamageIsEarned ==
  \A p \in Player :
    LET damage == landed[p] + 4 * crits[p]
    IN  /\ hp[Enemy(p)] = IF damage < InitialHp THEN InitialHp - damage ELSE 0
        /\ 3 * crits[p] + combo[p] <= landed[p]

(* A combo is a streak: it counts the hits a player landed since its own last
   miss or the enemy's last hit, three by three, so the players are never both
   on one and a critical hit always ends three landed in a row. *)
ComboIsStreak ==
  /\ streak[1] = 0 \/ streak[2] = 0
  /\ \A p \in Player : combo[p] = streak[p] % 3

(* No player outruns the timing rules over a whole duel: the prompts of n
   landed hits took n reaction times, and n hits of one player are n - 1
   cooldowns apart - also across a change of tab, which sheds neither. *)
PaceIsHuman ==
  /\ prompt.sentAt >= StartedAt + MinReaction * (landed[1] + landed[2])
  /\ \A p \in Player :
       landed[p] > 0 =>
         lastHitAt[p] >= StartedAt + MinReaction + Cooldown * (landed[p] - 1)

(* The verdict is deserved: on a knockout the loser has no hit points and the
   winner has some and landed enough hits for it; on a rage quit nobody was
   knocked out, also when the loser leaves while a knockout is being settled;
   and a fight goes on only while both players are up. *)
VerdictIsDeserved ==
  /\ status = "FIGHTING" => \A p \in Player : hp[p] > 0
  /\ outcome = "none" <=> status = "FIGHTING"
  /\ outcome = "ko" =>
       /\ hp[winner] > 0 /\ hp[Enemy(winner)] = 0
       /\ landed[winner] + 4 * (landed[winner] \div 3) >= InitialHp
  /\ outcome = "rage_quit" => \A p \in Player : hp[p] > 0

(* No hit is landed by a stunned player and no miss lengthens a stun that is
   running: whatever a player sends while stunned, from whichever tab, is
   without effect, and the stun ends when it was announced to end. *)
StunIsServed ==
  [][\A p \in Player :
       now < stunnedUntil[p] =>
         /\ landed'[p] = landed[p]
         /\ stunnedUntil'[p] = stunnedUntil[p]]_vars

(* Leaving is losing by rage quit, and nothing else is: a running fight is
   lost that way in just the step in which the connection the player is
   recorded with closes: not when an earlier tab of the player does, and even
   when another tab of the player is open. *)
RageQuitIsLeaving ==
  [][status = "FIGHTING" =>
       \A p \in Player :
         outcome' = "rage_quit" /\ winner' = Enemy(p)
           <=> <<p, socketId[p]>> \in online \ online']_vars

(* A decided duel stays decided: a hit or a disconnect that arrives after the
   verdict changes neither the winner nor the hit points. *)
VerdictIsFinal ==
  [][status = "FIGHT_OVER" => UNCHANGED <<status, winner, outcome, hp>>]_vars
=============================================================================
