# Verification of chatix-backend

TLA+ models, TLC runs and TLAPS proofs of the server of Chatix (NestJS, PostgreSQL, Socket.IO). Paths below
are relative to the repository; the code is under `src/`.

## 1. The system

One Node.js process serves REST controllers and Socket.IO namespaces over one PostgreSQL database and a MinIO
bucket. A handler runs alone up to its next `await`, so two requests interleave exactly at awaits and, in the
database, at SQL statements. Transactions run under READ COMMITTED with explicit `FOR UPDATE` locks where the code
asks for them. The fight club is the only component with significant state in memory.

| Component | State | Operations | Talks to |
| --- | --- | --- | --- |
| **fight duel** `fight-club/fight-club.service.ts` (`handleHit`) | `MatchState`: hp, combo, stun, last hit, recorded socket of two players; the current prompt | `fight:hit`, rejoin, disconnect | gateway emits; `finishMatch` |
| **fight lobby and match life** same file, gateway | `activeMatches`, `lobbyGraceTimers` in memory | `fight:create`, `fight:join`, disconnect, grace expiry, `finishMatch` | `fetchSockets`, `FightClubRepository`, achievements |
| **fight settlement** `fight-club.repository.ts` | `users` balances, counters, armed flag; `fights` rows | `settle`, `recordCancelled` | shares `users` rows with the shop |
| **moderation** `admin/` | `warnings`, `users.warnsCount`, `bannedUntil`, `tokenVersion`, mutes, flags; `audit_logs` | warn, revoke, modify, room transitions | `RealtimeService.disconnectUser`, achievements |
| **authentication** `auth/`, `realtime/` | `users.tokenVersion`; the `user:<id>` socket rooms | register, login, per-request validation, socket handshake, disconnect a user | every guard and gateway |
| **shop** `shop/` | `user_inventory`, `users.aura`, equipment, `profile_effects`, room boosts and spotlights | purchase, equip, use of consumables | `users` rows, rooms, messages |
| **economy** `economy/` | `users.lastStimulusAt`, streak | claim the daily stimulus, leaderboard (read only) | `users` rows |
| **rooms** `rooms/room/` | `rooms.status`, password, membership | create, update, join by password, moderation, list | messages, admin |
| **messages** `messages/` | `messages`, attachments; socket rooms | send, delete, page through, `joinRoom` | rooms, storage, achievements |
| **users** `users/` | profile, `aura`, `debt`, respects, comments | farm aura, pay debt, respect, comment, vaporize | realtime, achievements |
| **achievements** `achievements/` | `user_achievements`, featured list | evaluate, grant, feature | called by most components |
| **widgets** `widgets/` | layout, daily profile views, aura snapshots | update layout, record a view, read charts | users |
| **storage, config, common, logging, database** | none of their own | file checks and uploads, validation, filters | - |

What is hard in it: two players racing for one prompt; several connections per user; disconnects, timers and
database answers that overtake each other; a decided fight whose result is still on its way to the database; row
locks taken in an order that depends on who won; restarts that wipe the fight table; moderation that must reach
requests and sockets in flight; purchases and consumables that contend for the same balance. `PROJECT.json`
("hazards") lists each at its line.

What makes each component correct, in short:

- *duel*: a prompt lands once; damage, combos and pace follow the rules over the whole duel; the verdict is deserved and final.
- *lobby*: a match is decided at most once and leaves at most one, right, row; in a running fight both sockets are open, but for one known gap;
  abandoned challenges, and only they, are removed; decided fights leave the table.
- *settlement*: transactions are atomic in effect, balances and streaks follow from the fights table, one policy insures one fight, nothing hangs.
- *moderation and authentication*: three active warnings ban; a ban is never shortened by a warning; no request or
  socket of a banned user is served once the ban has taken effect.
- *shop and economy*: no item without payment, no payment without item; balance only debited when covered; one active effect per kind; one stimulus per day.
- *rooms and messages*: no message in a room that does not accept them; a moderator's decision is not overwritten by a concurrent edit.
- *achievements and widgets*: grants and daily views happen once.

## 2. Modules

| Module | Models | Extends / instances |
| --- | --- | --- |
| `Duel` | one running fight: `handleHit`, rejoin, disconnect, clock | |
| `Fight` | abstract: the life of a fight and the row it leaves | |
| `FightClub` | the table of matches, sockets, grace timers, pending promises, restart | `F == INSTANCE Fight` (refinement) |
| `Ledger` | abstract: what a settled fight and an armed policy do to accounts, in one step | |
| `Settlement` | `settle` and `armInsurance` statement by statement, row locks, failures, deadlock detector | EXTENDS `Ledger`, `Deadlocks`; refines the former's specification |
| `Sessions` | the tokens and sockets of one user: login, per-request check, handshake, disconnection | |
| `Moderation` | warnings, autoban, revocation, bans, pardons and vaporize of that user | EXTENDS `Sessions` |
| `Catalog` | the tables of the shop, the widgets and the medals, and what earns a medal | |
| `Deadlocks` | external: when PostgreSQL finds a deadlock: the cycles of a waiting relation | |
| `RowLocks` | external: PostgreSQL's row locks as the transactions of the code meet them | |
| `Till` | abstract: every operation of the economy as one step on the committed rows | EXTENDS `Catalog` |
| `Requests` | requests in flight: the statement each is at, its locks, failure, deadlock | EXTENDS `Till`, `RowLocks`, `Deadlocks` |
| `Shop` | purchases, soaps, use of items, equipment, stimulus, farming, debts, statement by statement | EXTENDS `Requests` |
| `Profile` | respects, views, widgets and medals, statement by statement | EXTENDS `Requests` |
| `Economy` | the composition of `Shop` and `Profile` with moderators and the clock; refines `Till` | EXTENDS both |
| `Rooms` | one room: creation, edits, door, deletion, the moderators' decisions | EXTENDS `Catalog` |
| `Chat` | messages, files, sockets and restarts in that room | EXTENDS `Rooms` |
| `FiniteFacts` | lemmas about finite sets: the community module's `SumFunctionOnSet`, the least number of a set, and waiting relations without cycles | EXTENDS `Deadlocks` and TLAPS; extended by the proofs of `FightClub`, `Settlement` and `Economy` |
| `DuelProofs`, `FightClubProofs`, `SettlementProofs`, `ModerationProofs`, `TillProofs`, `EconomyProofs`, `ChatProofs` | theorems | EXTEND the module and TLAPS (`EconomyProofs` extends `TillProofs`' facts) |
| `MCDuel`, `MCFightClub`, `MCSettlement`, `MCModeration`, `MCEconomy`, `MCChat` | instances for TLC, with symmetry where a run has no liveness | EXTEND the module |

### Duel

State is `MatchState` with its two `PlayerState`s; `landed`, `crits`, `streak`, `claims` are history, read only by
properties. A key is abstracted to "the right one or not"; a prompt id is its number in order of issue, and a client
may send any id it has been shown, which covers repeated, late and crossing messages. The guards of `handleHit` keep
their order only where it matters: a rejected hit changes nothing, so the model says which hits are accepted. The
cadence check (lines 166-180) only writes a log line and is left out. The clock is `Date.now()`; it is assumed not to run
backwards, and it may stand still between any two events. A duel starts with any of the players' connections open, the
recorded ones or not: `startMatch` looks only at the recorded ids, and `GhostFighter` (5) shows that a recorded socket may be closed. So the
module never says that a fighter is connected; it says that a recorded connection which closes during the fight loses it, and
that nothing else does (`RageQuitIsLeaving`).

### FightClub and Fight

`status`, `seat`, `grace` are `activeMatches` and `lobbyGraceTimers`. An action is a handler up to an await, or what
follows it; the continuations that wait are state: `joining` (`await client.join`), `expiring` (`await fetchSockets`),
`settling`, `closing`, `cancelling` (database and achievements). `Disconnect` follows the loop of
`handlePlayerDisconnect` over the Map in creation order with its `return` at the first running fight: lobbies before
it get a grace timer, those behind it are not reached. `fetchSockets` is evaluated in the step that resumes.
Sockets are never reused, as socket ids are. `Restart` clears what lives in memory; a transaction in flight is lost,
or had committed already (`Settle` just before `Restart`). The fight itself is one nondeterministic `KnockOut`, since
the duel is module `Duel`'s subject; both a knockout and a rage quit go through `FinishMatch`. A settlement that
commits and whose answer is then lost on the wire is not modelled.

`leaver` is history: the socket whose closing decided a match. With it `Skipped(s, m)` is exactly the early return in the
disconnect of `s`: it decided an older match than `m`, so `m` was not looked at. A socket is not reused, so a later tab of the same user is
not exempted.

`Fight` is the promise: none, open, fighting, decided, closed, or cancelled on the way, at most one row. `StageOf`
is the refinement mapping.

### Settlement and Ledger

A transaction is a program counter over the statements that lock or decide: `SELECT ... FOR UPDATE` of the loser's
`armed` flag, `UPDATE` of both flags (the first lock on the winner), then the remaining updates, which need no new
lock, with the insert and the commit. Writes are applied at the commit: until then they are invisible to others, and
the row locks keep others from acting on what they would overwrite. A transaction may fail at any statement, and one
that waits in a cycle may be aborted by PostgreSQL. `Ledger` says what each does as one step. Other writers
of the same rows (purchases, farmed aura) do relative updates; they are in `Shop`.

### Sessions and Moderation

One user and the moderators' requests about that user; two users share nothing these properties are about. `Sessions` has the
user's `bannedUntil` and `tokenVersion` and what reads them. A login reads the row, awaits bcrypt and goes on with what
it read (`FindUser`, `SignToken`); a socket is let in by the same check as a request (`Valid`) and joins the room
`user:<id>` later (`Authenticate`, `JoinUserRoom`). `Moderation` adds the writers. `createWarning` is four steps: read the ban, insert, count, update and
commit. The update is its first statement that locks the user's row and its last one, so it is one action with the commit, and an
uncommitted warning is visible to its own count only. `revokeWarning` keeps its warning's row locked from the first statement.
After a commit that bans, the request awaits more queries and then disconnects the sockets (`Kick`, `Announce`); one of
these queries may fail. Mutes, flags, balances and titles are other columns no rule here reads.
`overtaken` and `missed` are history: which requests acted on something others had overwritten, and which connections
were between handshake and room during a disconnection. They name exactly the windows the code leaves open, and the properties say that
outside these windows the promises hold. Without `overtaken`, see run `MissedAutoban`; without `missed`,
`SocketsAreAccepted` fails for a connection verified before the ban that joins after `disconnectUser`.

### Till, Requests, Shop, Profile, Economy

The rows are those of `users`, `user_inventory`, `shop_purchases`, `user_equipped`, `profile_effects`, `aura_history`,
`user_achievements`, `profile_respects` and `profile_view_log`, and one room with one message of its creator. A row of `user_inventory`
that is gone is a quantity of 0. A purchase whose item is in play at the start has its `shop_purchases` row (`Stock`).

A request is a program counter over the statements of its handler that lock, decide or commit: `pc[t]` names the
statement it is at, `Wants(t)` the row locks that statement takes (`FOR UPDATE`, a plain `UPDATE`, and the key share a
foreign key takes on the row it refers to), `seen[t]` what it has read or decided so far. What a transaction writes is seen at
its commit, which is the action of its last statement; a transaction may fail at every statement, and PostgreSQL aborts
one of a cycle of waiting ones. Where the code reads without a lock and writes later (`equip`, `updateLayout`,
`setFeatured`, `evaluate`), these are two steps. `evaluate` and the grants run after the commit; a grant may be lost
(`grantSafely` logs it). The clock moves between given moments (`Instants`); the stimulus keeps the moment its
request began, as the default argument of `claim` does, so a claim that waits for a lock may be of yesterday.

A statement that inserts a row referring to another takes a key share on it (`Requests!Inserted`): a counted view takes one on the
profile only, so it never makes a cycle. Only transactions on a cycle of waiting are aborted (`Deadlocks`), and
`DeadlocksAreOfItems` says whom that can hit: the cast of a curse (two casts lock each other's users), or one of a purchase and
a use of one item by one user who wait for each other, since they lock the user's row and the item's row in opposite orders.

`Till` is the promise: the same operations, each in one step. Its type invariant, uniqueness and non-overlap
statements are over the rows alone. `stipends`, `unlocks` and `announced` are history kept by the detailed modules.
The content of a soap is any item of its pools that is in play (`Rolls`), its probabilities are left out.

### Rooms and Chat

One room from its creation to its deletion, with one owner. A text is what the filter finds in it (fine, mature, blocked); a password is
compared, its hash is an await. Nothing here is locked: `updateRoom` reads the details, the stored room, awaits bcrypt
and writes the fields it was given and the status it concluded; a moderator's decision is one `UPDATE` whatever the status
was. `sendMessage` is the sequence of its awaits: author, room, access, upload of each file, transaction, counters and
medals, cosmetics, broadcast; whatever throws before the end removes the uploaded files, also after the commit. `joinRoom`
checks and then joins. `Befall` stands for what other modules do to the users these checks read (bans, mutes, debts, ages).
A restart ends all requests and sockets.

History: `held[t]` is the set of rules that held at some moment since request `t` began; `late` are requests that failed
after their commit, `leaked` the files whose removal failed or never ran; `reviewed`, `stale` and `overtaken` remember
the texts a moderator last made live and whether an edit that had read the room before was written since. They mark
the windows the code leaves open: without `overtaken`, `BlockedTextReviewed` fails (an edit
that read the room in review is written after a moderator approved it), without `late`, `FilesMatchMessages` does.

## 3. Runs

| Run | Instance | Question | Distinct states |
| --- | --- | --- | --- |
| `Duel` | 8 hit points, reaction 1, cooldown 2, stun 3, clock 2..10, two tabs each, any of them open at the start | do the rules of the duel hold for every order of messages | 991 688 |
| `FightClub` | 3 users, 2 tabs each, 1 match, 1 restart | does one match live the life of `Fight`, and who may cancel it | 682 159 |
| `FightClubTwo` | 2 users, 1 tab, 2 matches | one disconnect concerns two matches; liveness | 161 089 |
| `GhostFighter`, `ChallengerTakesLobby`, `LeakedChallenge` | 2 users | three disagreements with the documents, see 5 | - |
| `Settlement` | 2 users, 3 transactions, stakes 1 and 3, 1 policy each | do interleaved transactions amount to the ledger | 102 941 |
| `Moderation` | 4 requests, 1 login, 1 connection, clock 0..2, bans to 1 or 5, autoban 2 | do moderation and sessions hold when they interleave | about 1.7 million |
| `MissedAutoban`, `VaporizedSession` | 3 and 2 requests | two disagreements with the documents, see 5 | - |
| `Economy` | 3 users, 3 requests at a time from 5 kinds of crowds, 10 items, 3 moments | do the interleaved statements amount to single operations; do the books balance; does nothing happen twice; what can deadlock | 123 429 |
| `Chat` | owner, visitor, moderator, 3 requests at a time, 1 restart | are the rules of a room kept by handlers that check them one by one; do files and messages match | 135 523 |

Bounds. *Duel*: the code's 120, 150 and 1000 ms become 1, 2 and 3 ticks: the order of the three durations is kept,
and all comparisons of the code are of a difference with one of them. Eight hit points allow a critical hit (after three), a fight decided by
crits, one decided without, and misses in between; within eight ticks several hits of both players fit. Tabs are symmetric.
*FightClub*: three users give a creator, an opponent and one who is refused; two tabs give the change of
connection; one restart separates before and after. *FightClubTwo* has two matches because the disconnect loop
relates matches only through its order; sockets are never reused, so `Tab` also bounds the reconnects. No symmetry is
used with liveness. *Settlement*: two users are enough for a lock cycle, three
transactions for a cycle plus a bystander; an odd stake of 1 or 3 makes the rounding of the half visible.
`CHECK_DEADLOCK FALSE` everywhere: every instance runs out of prompts, sockets or transactions.

*Economy*: three requests are two that contend and one that interferes. The crowds are those whose requests meet in some row: purchases and soaps
that may hold the same item, curses on each other and on one target, boosts and spotlights against a moderator, respects and views of
one profile, picks against finds and purchases, three claims. The moments are ten minutes before
midnight, ten after it, and two days later: a curse begun at the first is over at the last, a streak is continued
at the second and broken at the third. Balances start where two of the dearer purchases are affordable and three are not; respects start one below a medal.
*Chat*: 99 messages were written before, so that one earns a medal; two files make a cleanup that half succeeds; a public room, a
private adult one, and one in review begin the behaviours that do not create it.

Fairness. `Economy` and `Chat` state safety only and assume none. `FightClub`: weak fairness of timers and of every continuation, since the event loop drops none and the
driver answers or fails each query; nothing is assumed of users, so liveness is about states users have left for
good. `Settlement`: a statement whose locks are free is executed, and PostgreSQL's deadlock detector aborts a member of a cycle.
`Moderation` states safety only and assumes no fairness. Its four requests are the three warnings of an autoban and
one that interferes, or two warnings and the revocations of both; a ban to 1 ends within the clock, one to 5 outlasts every autoban.

Every property has a mutant in `PROJECT.json`: a definition of the model replaced by the named faulty variant beside
it (a dropped guard, a missing reset, an unlocked read), under which the run finds the property violated.

## 4. Proofs

Proved for all values of the constants, from the named assumptions of the modules (durations and bounds are natural
numbers, stakes are positive, the "no value" constants are outside their sets):

- **DuelProofs**: type correctness, all seven properties of the run, and that a verdict is final (`VerdictIsFinal`, no
  property of a run). The inductive invariant is the conjunction of
  the state properties: `ComboIsStreak` needs `combo <= 2`, `DamageIsEarned` needs the combo and the
  third-of-hits bound, `VerdictIsDeserved` needs both, and `PaceIsHuman` needs that the last prompt is not in the
  future. Each action has one step, and one per conjunct it can disturb. `StartedAt >= Cooldown` is
  used for the first hit (`lastHitAt` starts at 0, the epoch). Nothing is assumed of the connections open at the start. Damage, pace and verdict together bound how short a fight can be
  (`KnockoutsTakeTime`): with the code's numbers, 14 hits and 2.07 seconds.
- **FightClubProofs**: type correctness, `RecordIsRight`, `ImplementsFight`, `CancelledAfterGrace`, `OnlySkippedAreGhosts` and `AbandonedLobbyIsTimed`. The first
  three rest on one invariant that ties a match's status to its verdict, its row and the one pending promise
  that may still write it (a match is in at most one of settling, closing, cancelling, and in which of them says
  whether its row is already there); a second one says that a seat with an armed timer is one whose socket is the timer's.
  The last two rest on a third one, about seats and their sockets: a step takes a seat with an open socket or keeps its player
  and socket, and a disconnect reaches every match of the socket up to the oldest running fight, which exists by `LeastNumber`. `LeaverOK` (a match with a `leaver` is decided, and a decision is final) keeps what was skipped on record. Both
hold for any number of tabs and restarts, and exempt one socket in the matches behind the one its closing decided, not its user.
  *Progress*: ENABLED is out of the prover's reach, so `PromisesSettle` and `TimersFire` say with guards what `Fairness` says with `WF_vars`
  (<>[](guard) implies []<><<action>>_vars); the actions concerned are assignments behind that one guard, so each `WF_vars`
  implies its guarded form. From the first, decided fights close (`FightsClose`). From the second, an abandoned challenge whose clock is not
  lost goes (`ChallengesGo`), and, where users have one connection each, every one the early return did not skip
  (`AbandonedChallengesLeave`); with two connections that is false, see run `LeakedChallenge`.
- **SettlementProofs**: type correctness, `ReadsAreFresh`, `ImplementsLedger` and the three properties of the fights table. `ReadsAreFresh` is the strengthening
  that makes a commit a single ledger step: what was read is protected by a lock held until the end. The table's properties
  then need the ledger's two steps only: a row more adds to a sum (`FiniteFacts`), and to two of the four sets whose sizes are the counters.
  All that fights moved sums to nothing, aura and debt alike (`FightsAreZeroSum`). *Waiting*: some open transaction always can step or is on
  a cycle (`WaitingEnds`): in a finite relation in which everybody waits for somebody there is a cycle (`SomebodyMoves`).
  Whoever is on a cycle settles a fight and waits for its winner, and its loser is the winner of another fight that is being
  settled; the arming of an insurance is never on one (`OnlyFightsDeadlock`). Every step of a transaction decreases its remaining work (`WorkRunsOut`), and as long as one is open, under
  the fairness of the statements and the detector stated with guards, some transaction steps (`TransactionsProgress`).
- **FiniteFacts**: sums over finite sets, by the least counterexample. They exist, do not depend on the order of their terms, and a new
  member adds its value. A member of a cycle waits for one of the cycle and is waited for by one (`CycleNeighbours`).
- **ModerationProofs**: type correctness and all five properties. `RefusedForGood` rests on `LoginsAreCurrent`: a
  login of the current version has seen the only ban that can be in force. `SocketsAreAccepted` is strengthened to
  connections that have not joined yet. The counting properties rest on: what a request that nobody overtook has read is still so.
  Only finitely many requests are assumed.
- **TillProofs**: the abstract economy keeps permanent items unique, curses of a kind on a target apart, and the counters of
  respects and views equal to the number of their rows; and an item used left its curse, its post or its forgiven debt (`Kept`). `TillInv` adds to this the types, that what is worn, laid out and featured is owned
  (`Owned`, `Dressed`), and that what the room shows was paid for (`Paid`). Two action properties of it: a balance
  falls by a purchase only and never below zero by one (`NobodyOverdraws`), and permanent items and medals are not lost, curses not
  lifted, and boosts add up (`BoughtIsKept`); the code inherits both through the refinement (`NothingOverdrawnOrLost`).
- **EconomyProofs**: the refinement `ImplementsTill`, for any users, items and requests; that what a request decided still holds when it acts on it (`DecisionsHold`); type correctness;
  `NothingUnowned`, `NothingTwice` and `BooksBalance`. `EconomyInv` is `TillInv` of the code's rows, exclusive locks, and for each request `At(t)`: it
  is at a statement of its handler, holds the locks taken so far, and what it has read is still so. That last part is
  what the locks are for, and the proof has one lemma per statement (its step is a step of `Till` or none, and keeps `At(t)`) and one
  for all other requests (a step of one leaves the `At` of the others, since it could not take a lock they hold).
  The unlocked checks of `equip`, `updateLayout` and `setFeatured` are fresh for another reason: permanent items and
  medals are never lost. A streak is shown to be a run of granted days by the histories. `BooksBalance` then needs the steps of `Till`
  only: each changes `Income` (the balance less what was farmed, plus what was paid, less the refunds) by the stimulus of a claim
  or not at all (`IncomeStep`, over the sum of all purchases), and a claim adds one stimulus to the sum of the granted days, since
  the runs that end on earlier days stay (`EarlierRun`). Notices sent and requests about to send one never exceed the posts (`Heard`).
  *Waiting*: which rows a request may hold at which of its statements (`Waiting`) is an invariant of its own. From it, who can wait for whom (`WhoWaits` and
  the lemmas per row), and so which requests a cycle can hold (`OnlyItemsDeadlock`). For finitely many requests, somebody always can step or
  is on a cycle (`WaitingEnds`).
- **ChatProofs**: type correctness and all four properties of the run, for any users and requests. `HeldInv` says which rules each
  statement of a handler has behind it; `FilesInv` whose the files in the bucket are; `EditInv` that an edit no activation has
  overtaken still knows the texts it will complete.

Left to TLC: liveness under `WF_vars` itself, since that the guarded fairness follows from it is a fact about ENABLED, and `TransactionsEnd`, whose last step is an induction over
`Work` with a temporal formula in the induction hypothesis: progress and decrease are proved, their combination is checked. `FightersConnected` is not an invariant
(run `GhostFighter`); what is one is `OnlySkippedAreGhosts`.

## 5. Where code and documents disagree

1. `GhostFighter`: `handlePlayerDisconnect` returns at the first running fight; the user's younger lobbies keep the
   closed socket as joined and get no timer, so a fight can start against someone who is not connected.
2. `ChallengerTakesLobby`: the end of the *challenger's* grace period deletes the challenge of a creator who is online.
3. `LeakedChallenge`: a user with another open socket when the grace period ends keeps the challenge, but no timer is
   armed again: when that socket closes too, the challenge stays until a restart.
4. `MissedAutoban`: two warnings issued at once count without seeing each other, and a third active warning does not ban.
5. `VaporizedSession`: `vaporizeUser` bans without a new `tokenVersion`, so a pardon revives old tokens.

Met while modelling, and not given runs of their own:

- `claim` of the stimulus changes a balance without `recordAuraSnapshot`;
  docs/superpowers/plans/2026-10-27-chatix-round2/be-widgets.md:19 asks for one on any aura change. In `Till`, the chart is not touched by a claim.
- An owner's edit that flags a room which was live when it was read writes `checkout` over a quarantine decided
  meanwhile; `Chat` says so in `OnlyModeratorsReopen`. After it, messages are accepted again, since only
  `quarantined` and `banned` rooms refuse them.
- `sendMessage` accepts messages in rooms in review or rejected; docs/superpowers/plans/2026-10-26-chatix-round1/fe-a-core.md:67
  announces "replies paused" for them.
- A failure after the message's transaction removes files that the committed message refers to (`late`).
- README.md:26 says that new rooms start in moderation; `ROOMS_AUTO_APPROVE` is true by default, and `NewRoom` starts fine texts as `active`.
- The cursor of `getRoomHistory` compares a timestamp read with milliseconds to a column with microseconds: messages of
  the cursor's millisecond can be skipped. Paging is not modelled.

## 6. Plan

Done: `Duel`, `Fight`, `FightClub`, `Ledger`, `Settlement`, `Sessions`, `Moderation`, `Catalog`, `RowLocks`, `Till`,
`Requests`, `Shop`, `Profile`, `Economy`, `Rooms`, `Chat` and their proofs. Left, in this order:

1. Moderation: mutes, flags and direct edits of balances as further requests of `Moderation`, with the socket events they send.
2. `Profile`: comments, the track and the status line, if a property relates them to more than their own write.
3. An abstract specification of a room for `Chat`, and its refinement.
4. Paging through messages, with the precision of the cursor, against concurrent inserts.

## 7. Not modelled

- Configuration, filters, pipes, logging, serializers and the declarations of the schema keep no state a property could be about.
- The leaderboard, the achievements' statistics and the charts are queries that only read. The audit log is append-only and read by
  no decision.
- File types and byte signatures (`file-policy.ts`) are validation of one value; the bucket itself is in `Chat`.
- Registration, password rules and cookies; comments, profile texts, track and status line: one write each, read by nothing modelled.
- The case-insensitive uniqueness of room titles is a unique index; with one room it cannot be broken.
- The medals for the hour of a message, for waking an old room, for fights, logins and the status of a user: the grants they go
  through are in `Profile`, their conditions are data of the moment.
- Throttling is left to the library. The network between client and server delivers in any order that Socket.IO allows,
  which the models cover by letting clients send anything they could know at any time.
