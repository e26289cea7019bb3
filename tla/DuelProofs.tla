----------------------------- MODULE DuelProofs -----------------------------
(***************************************************************************)
(* Proofs about Duel, for every value of its constants: the type invariant *)
(* and the invariants about prompts, damage, combos and pace.              *)
(***************************************************************************)
EXTENDS Duel, TLAPS

LEMMA EnemyType ==
  \A p \in Player : Enemy(p) \in Player /\ Enemy(p) # p /\ Enemy(Enemy(p)) = p
BY DEF Player, Enemy

(* The hit points a hit leaves are in range, and so is the next combo. *)
LEMMA HitType ==
  ASSUME TypeOK, NEW p \in Player
  PROVE  /\ HpAfter(p) \in 0..InitialHp
         /\ ComboAfterHit(p) \in [Player -> 0..2]
         /\ ComboAfterMiss(p) \in [Player -> 0..2]
<1>1. HpAfter(p) \in 0..InitialHp
  BY EnemyType, DurationsAssumption DEF TypeOK, HpAfter, Damage
<1>2. ComboAfterHit(p) \in [Player -> 0..2]
  BY DEF TypeOK, ComboAfterHit, IsCrit
<1>3. ComboAfterMiss(p) \in [Player -> 0..2]
  BY DEF TypeOK, ComboAfterMiss
<1>4. QED  BY <1>1, <1>2, <1>3

LEMMA InitTypeOK == Init => TypeOK
BY DurationsAssumption, ClockAssumption
DEF Init, TypeOK, CreatePrompt, Player, Nobody

LEMMA NextTypeOK == TypeOK /\ [Next]_vars => TypeOK'
<1> SUFFICES ASSUME TypeOK, [Next]_vars PROVE TypeOK'
  OBVIOUS
<1> USE DEF clockVars, playerVars, netVars, endVars, histVars
<1>1. ASSUME NEW p \in Player, NEW tab \in Tabs, NEW id \in 1..prompt.id,
             NEW key \in BOOLEAN, Miss(p, tab, id, key)
      PROVE  TypeOK'
  <2>1. combo' \in [Player -> 0..2]
    BY <1>1, HitType DEF Miss
  <2>2. stunnedUntil' \in [Player -> Nat]
    BY <1>1, DurationsAssumption DEF Miss, TypeOK
  <2>3. streak' \in [Player -> Nat]
    BY <1>1 DEF Miss, TypeOK
  <2>4. QED  BY <1>1, <2>1, <2>2, <2>3 DEF Miss, TypeOK
<1>2. ASSUME NEW p \in Player, NEW tab \in Tabs, NEW id \in 1..prompt.id,
             NEW key \in BOOLEAN, Land(p, tab, id, key)
      PROVE  TypeOK'
  <2>1. hp' \in [Player -> 0..InitialHp]
    BY <1>2, HitType, EnemyType DEF Land, TypeOK
  <2>2. combo' \in [Player -> 0..2]
    BY <1>2, HitType DEF Land
  <2>3. lastHitAt' \in [Player -> Nat] /\ landed' \in [Player -> Nat]
    BY <1>2 DEF Land, TypeOK
  <2>4. crits' \in [Player -> Nat] /\ streak' \in [Player -> Nat]
    BY <1>2 DEF Land, TypeOK
  <2>5. prompt' \in [id : Nat \ {0}, sentAt : Nat]
    BY <1>2 DEF Land, TypeOK, CreatePrompt
  <2>6. claims' \in [Player -> SUBSET (Nat \ {0})]
    BY <1>2 DEF Land, TypeOK
  <2>7. /\ status' \in {"FIGHTING", "FIGHT_OVER"}
        /\ winner' \in Player \cup {Nobody}
        /\ outcome' \in {"none", "ko", "rage_quit"}
    BY <1>2 DEF Land, TypeOK, Decide
  <2>8. QED
    BY <1>2, <2>1, <2>2, <2>3, <2>4, <2>5, <2>6, <2>7 DEF Land, TypeOK
<1>3. ASSUME NEW p \in Player, NEW tab \in Tabs, Rejoin(p, tab)
      PROVE  TypeOK'
  BY <1>3 DEF Rejoin, TypeOK
<1>4. ASSUME NEW p \in Player, NEW tab \in Tabs, Disconnect(p, tab)
      PROVE  TypeOK'
  BY <1>4, EnemyType DEF Disconnect, TypeOK, Decide
<1>5. CASE Tick
  BY <1>5 DEF Tick, TypeOK
<1>6. CASE UNCHANGED vars
  BY <1>6 DEF vars, TypeOK
<1>7. QED
  BY <1>1, <1>2, <1>3, <1>4, <1>5, <1>6 DEF Next, HandleHit

(* Type correctness of the duel. *)
THEOREM TypeCorrect == Spec => []TypeOK
BY InitTypeOK, NextTypeOK, PTL DEF Spec

-----------------------------------------------------------------------------
(* The induction step of every invariant below has the same cases.  Misses,
   changes of tab, disconnections and the clock touch none of the variables
   the invariants read, except that a miss resets combo and streak. *)
LEMMA StepCases ==
  ASSUME [Next]_vars
  PROVE  \/ \E p \in Player, tab \in Tabs, id \in 1..prompt.id, key \in BOOLEAN :
              Miss(p, tab, id, key)
         \/ \E p \in Player, tab \in Tabs, id \in 1..prompt.id, key \in BOOLEAN :
              Land(p, tab, id, key)
         \/ \E p \in Player, tab \in Tabs : Rejoin(p, tab) \/ Disconnect(p, tab)
         \/ Tick
         \/ UNCHANGED vars
BY DEF Next, HandleHit

(* A step that lands no hit and breaks no combo leaves the score alone. *)
Quiet == UNCHANGED <<hp, combo, lastHitAt, prompt, landed, crits, streak, claims>>

LEMMA OtherSteps ==
  ASSUME [Next]_vars
  PROVE  \/ \E p \in Player, tab \in Tabs, id \in 1..prompt.id, key \in BOOLEAN :
              Miss(p, tab, id, key)
         \/ \E p \in Player, tab \in Tabs, id \in 1..prompt.id, key \in BOOLEAN :
              Land(p, tab, id, key)
         \/ Quiet
BY StepCases
DEF Quiet, Rejoin, Disconnect, Tick, vars, clockVars, playerVars, netVars, endVars, histVars

-----------------------------------------------------------------------------
LEMMA PromptStep == TypeOK /\ PromptLandsOnce /\ [Next]_vars => PromptLandsOnce'
<1> SUFFICES ASSUME TypeOK, PromptLandsOnce, [Next]_vars
             PROVE  PromptLandsOnce'
  OBVIOUS
<1>1. CASE Quiet
  BY <1>1 DEF Quiet, PromptLandsOnce
<1>2. ASSUME NEW p \in Player, NEW tab \in Tabs, NEW id \in 1..prompt.id,
             NEW key \in BOOLEAN, Miss(p, tab, id, key)
      PROVE  PromptLandsOnce'
  BY <1>2 DEF Miss, PromptLandsOnce
<1>3. ASSUME NEW p \in Player, NEW tab \in Tabs, NEW id \in 1..prompt.id,
             NEW key \in BOOLEAN, Land(p, tab, id, key)
      PROVE  PromptLandsOnce'
  <2>1. /\ prompt'.id = prompt.id + 1
        /\ landed' = [landed EXCEPT ![p] = @ + 1]
        /\ claims' = [claims EXCEPT ![p] = @ \cup {prompt.id}]
    BY <1>3 DEF Land, Accepted, CurrentPrompt, CreatePrompt
  <2>2. prompt.id \in Nat \ {0} /\ prompt.id \notin 1..(prompt.id - 1)
    BY DEF TypeOK
  <2>3. /\ claims'[1] \cap claims'[2] = {}
        /\ claims'[1] \cup claims'[2] = 1..prompt.id
    <3>1. 1..prompt.id = (1..(prompt.id - 1)) \cup {prompt.id}
      BY <2>2
    <3>2. CASE p = 1
      BY <3>1, <3>2, <2>1, <2>2 DEF PromptLandsOnce, TypeOK, Player
    <3>3. CASE p = 2
      BY <3>1, <3>3, <2>1, <2>2 DEF PromptLandsOnce, TypeOK, Player
    <3>4. QED  BY <3>2, <3>3 DEF Player
  <2>4. landed'[1] + landed'[2] = landed[1] + landed[2] + 1
    BY <2>1 DEF TypeOK, Player
  <2>5. QED
    BY <2>1, <2>2, <2>3, <2>4 DEF PromptLandsOnce, TypeOK, Player
<1>4. QED  BY <1>1, <1>2, <1>3, OtherSteps

LEMMA ComboStep == TypeOK /\ ComboIsStreak /\ [Next]_vars => ComboIsStreak'
<1> SUFFICES ASSUME TypeOK, ComboIsStreak, [Next]_vars
             PROVE  ComboIsStreak'
  OBVIOUS
<1>1. CASE Quiet
  BY <1>1 DEF Quiet, ComboIsStreak
<1>2. ASSUME NEW p \in Player, NEW tab \in Tabs, NEW id \in 1..prompt.id,
             NEW key \in BOOLEAN, Miss(p, tab, id, key)
      PROVE  ComboIsStreak'
  BY <1>2 DEF Miss, ComboAfterMiss, ComboIsStreak, TypeOK, Player
<1>3. ASSUME NEW p \in Player, NEW tab \in Tabs, NEW id \in 1..prompt.id,
             NEW key \in BOOLEAN, Land(p, tab, id, key)
      PROVE  ComboIsStreak'
  <2>1. /\ combo' = ComboAfterHit(p)
        /\ streak' = [q \in Player |-> IF q = p THEN streak[p] + 1 ELSE 0]
    BY <1>3 DEF Land
  <2>2. streak[p] \in Nat /\ combo[p] = streak[p] % 3
    BY DEF TypeOK, ComboIsStreak
  <2>3. (streak[p] + 1) % 3 = IF streak[p] % 3 = 2 THEN 0 ELSE (streak[p] % 3) + 1
    BY <2>2
  <2>4. QED
    BY <2>1, <2>2, <2>3 DEF ComboIsStreak, ComboAfterHit, IsCrit, Player
<1>4. QED  BY <1>1, <1>2, <1>3, OtherSteps

LEMMA DamageStep == TypeOK /\ DamageIsEarned /\ [Next]_vars => DamageIsEarned'
<1> SUFFICES ASSUME TypeOK, DamageIsEarned, [Next]_vars
             PROVE  DamageIsEarned'
  OBVIOUS
<1>1. CASE Quiet
  BY <1>1 DEF Quiet, DamageIsEarned, Enemy
<1>2. ASSUME NEW p \in Player, NEW tab \in Tabs, NEW id \in 1..prompt.id,
             NEW key \in BOOLEAN, Miss(p, tab, id, key)
      PROVE  DamageIsEarned'
  BY <1>2 DEF Miss, ComboAfterMiss, DamageIsEarned, TypeOK, Enemy
<1>3. ASSUME NEW p \in Player, NEW tab \in Tabs, NEW id \in 1..prompt.id,
             NEW key \in BOOLEAN, Land(p, tab, id, key)
      PROVE  DamageIsEarned'
  <2>1. /\ combo' = ComboAfterHit(p)
        /\ hp' = [hp EXCEPT ![Enemy(p)] = HpAfter(p)]
        /\ landed' = [landed EXCEPT ![p] = @ + 1]
        /\ crits' = [crits EXCEPT ![p] = IF IsCrit(p) THEN @ + 1 ELSE @]
    BY <1>3 DEF Land
  <2>2. SUFFICES ASSUME NEW q \in Player
                 PROVE  /\ hp'[Enemy(q)] = IF landed'[q] + 4 * crits'[q] < InitialHp
                                             THEN InitialHp - (landed'[q] + 4 * crits'[q])
                                             ELSE 0
                        /\ 3 * crits'[q] + combo'[q] <= landed'[q]
    BY DEF DamageIsEarned, Enemy
  <2>3. CASE q = p
    <3>1. hp'[Enemy(p)] = HpAfter(p)
      BY <2>1, EnemyType DEF TypeOK
    <3>2. landed'[p] = landed[p] + 1 /\ combo'[p] = IF IsCrit(p) THEN 0 ELSE combo[p] + 1
      BY <2>1 DEF TypeOK, ComboAfterHit
    <3>3. crits'[p] = IF IsCrit(p) THEN crits[p] + 1 ELSE crits[p]
      BY <2>1 DEF TypeOK
    <3>4. QED
      BY <2>3, <3>1, <3>2, <3>3, DurationsAssumption
      DEF DamageIsEarned, TypeOK, HpAfter, Damage, IsCrit
  <2>4. CASE q # p
    <3>1. Enemy(q) # Enemy(p)
      BY <2>4 DEF Enemy, Player
    <3>2. /\ hp'[Enemy(q)] = hp[Enemy(q)] /\ landed'[q] = landed[q]
          /\ crits'[q] = crits[q] /\ combo'[q] = 0
      BY <2>1, <2>4, <3>1, EnemyType DEF TypeOK, ComboAfterHit
    <3>3. QED  BY <3>2 DEF DamageIsEarned, TypeOK
  <2>5. QED  BY <2>3, <2>4
<1>4. QED  BY <1>1, <1>2, <1>3, OtherSteps

(* The products the pace invariant speaks of, one hit later. *)
LEMMA Products ==
  ASSUME NEW c \in Nat, NEW n \in Nat
  PROVE  /\ c * n \in Nat
         /\ c * (n + 1) = c * n + c
         /\ n > 0 => c * (n + 1 - 1) = c * (n - 1) + c
         /\ c * 0 = 0
OBVIOUS

LEMMA PaceStep == TypeOK /\ PaceIsHuman /\ [Next]_vars => PaceIsHuman'
<1> SUFFICES ASSUME TypeOK, PaceIsHuman, [Next]_vars
             PROVE  PaceIsHuman'
  OBVIOUS
<1>1. CASE Quiet
  BY <1>1 DEF Quiet, PaceIsHuman
<1>2. ASSUME NEW p \in Player, NEW tab \in Tabs, NEW id \in 1..prompt.id,
             NEW key \in BOOLEAN, Miss(p, tab, id, key)
      PROVE  PaceIsHuman'
  BY <1>2 DEF Miss, PaceIsHuman
<1>3. ASSUME NEW p \in Player, NEW tab \in Tabs, NEW id \in 1..prompt.id,
             NEW key \in BOOLEAN, Land(p, tab, id, key)
      PROVE  PaceIsHuman'
  <2> DEFINE total == landed[1] + landed[2]
  <2>1. /\ lastHitAt' = [lastHitAt EXCEPT ![p] = now]
        /\ landed' = [landed EXCEPT ![p] = @ + 1]
        /\ prompt'.sentAt = now
    BY <1>3 DEF Land, CreatePrompt
  <2>2. now - prompt.sentAt >= MinReaction /\ now - lastHitAt[p] >= Cooldown
    BY <1>3, DurationsAssumption
    DEF Land, TooFast, Accepted, CooledDown, TypeOK
  <2>3. total \in Nat /\ landed'[1] + landed'[2] = total + 1
    BY <2>1 DEF TypeOK, Player
  <2>4. prompt'.sentAt >= StartedAt + MinReaction * (landed'[1] + landed'[2])
    <3>1. prompt.sentAt >= StartedAt + MinReaction * total
      BY DEF PaceIsHuman
    <3>2. MinReaction * (total + 1) = MinReaction * total + MinReaction
      BY <2>3, DurationsAssumption, Products
    <3>3. MinReaction * total \in Nat
      BY <2>3, DurationsAssumption, Products
    <3> HIDE DEF total
    <3>4. QED
      BY <3>1, <3>2, <3>3, <2>1, <2>2, <2>3, DurationsAssumption, ClockAssumption
      DEF TypeOK
  <2>5. ASSUME NEW q \in Player, landed'[q] > 0
        PROVE  lastHitAt'[q] >= StartedAt + MinReaction + Cooldown * (landed'[q] - 1)
    <3>1. CASE q # p
      BY <3>1, <2>1, <2>5 DEF TypeOK, PaceIsHuman
    <3>2. CASE q = p /\ landed[p] = 0
      <4>1. landed'[q] - 1 = 0 /\ lastHitAt'[q] = now
        BY <3>2, <2>1 DEF TypeOK
      <4>2. Cooldown * (landed'[q] - 1) = 0
        BY <4>1, DurationsAssumption, Products
      <4>3. prompt.sentAt >= StartedAt
        <5>1. MinReaction * total \in Nat
          BY <2>3, DurationsAssumption, Products
        <5>2. prompt.sentAt >= StartedAt + MinReaction * total
          BY DEF PaceIsHuman
        <5> HIDE DEF total
        <5>3. QED  BY <5>1, <5>2, ClockAssumption DEF TypeOK
      <4>4. QED
        BY <4>1, <4>2, <4>3, <2>2, DurationsAssumption, ClockAssumption DEF TypeOK
    <3>3. CASE q = p /\ landed[p] > 0
      <4> DEFINE n == landed[p] - 1
      <4>1. n \in Nat /\ landed'[q] - 1 = n + 1 /\ lastHitAt'[q] = now
        BY <3>3, <2>1 DEF TypeOK
      <4>2. /\ Cooldown * (n + 1) = Cooldown * n + Cooldown
            /\ Cooldown * n \in Nat
        BY <4>1, DurationsAssumption, Products
      <4>3. lastHitAt[p] >= StartedAt + MinReaction + Cooldown * n
        BY <3>3 DEF PaceIsHuman
      <4> HIDE DEF n
      <4>4. QED
        BY <4>1, <4>2, <4>3, <2>2, DurationsAssumption, ClockAssumption DEF TypeOK
    <3>4. QED  BY <3>1, <3>2, <3>3 DEF TypeOK
  <2>6. QED  BY <2>4, <2>5 DEF PaceIsHuman
<1>4. QED  BY <1>1, <1>2, <1>3, OtherSteps

-----------------------------------------------------------------------------
(* The score: prompts, combos, damage and pace need only the types. *)
Score == TypeOK /\ PromptLandsOnce /\ ComboIsStreak /\ DamageIsEarned /\ PaceIsHuman

LEMMA InitScore == Init => Score
<1> SUFFICES ASSUME Init PROVE Score
  OBVIOUS
<1>1. TypeOK
  BY InitTypeOK
<1>2. PromptLandsOnce
  BY DEF Init, PromptLandsOnce, CreatePrompt, Player
<1>3. ComboIsStreak
  BY DEF Init, ComboIsStreak, Player
<1>4. DamageIsEarned
  BY DurationsAssumption, EnemyType DEF Init, DamageIsEarned, Player
<1>5. PaceIsHuman
  BY DurationsAssumption, ClockAssumption DEF Init, PaceIsHuman, CreatePrompt, Player
<1>6. QED  BY <1>1, <1>2, <1>3, <1>4, <1>5 DEF Score

(* The score of a duel is right in every reachable state. *)
THEOREM ScoreIsRight == Spec => []Score
<1>1. Score /\ [Next]_vars => Score'
  BY NextTypeOK, PromptStep, ComboStep, DamageStep, PaceStep DEF Score
<1>2. QED  BY InitScore, <1>1, PTL DEF Spec

(* A prompt is won by one of the two players who race for it. *)
THEOREM PromptsLandOnce == Spec => []PromptLandsOnce
<1>1. Score => PromptLandsOnce
  BY DEF Score
<1>2. QED  BY <1>1, ScoreIsRight, PTL

(* Every hit point lost was taken by a landed hit, at most a third of them
   critical. *)
THEOREM DamageEarned == Spec => []DamageIsEarned
<1>1. Score => DamageIsEarned
  BY DEF Score
<1>2. QED  BY <1>1, ScoreIsRight, PTL

(* Combos are streaks. *)
THEOREM CombosAreStreaks == Spec => []ComboIsStreak
<1>1. Score => ComboIsStreak
  BY DEF Score
<1>2. QED  BY <1>1, ScoreIsRight, PTL

(* No sequence of hits beats the reaction time and the cooldown. *)
THEOREM PaceStaysHuman == Spec => []PaceIsHuman
<1>1. Score => PaceIsHuman
  BY DEF Score
<1>2. QED  BY <1>1, ScoreIsRight, PTL

-----------------------------------------------------------------------------
(* What a knockout took: hits of which at most a third were critical. *)
LEMMA KnockoutNeedsHits ==
  ASSUME NEW n \in Nat, NEW c \in Nat, NEW k \in Nat,
         3 * c + k <= n, n + 4 * c >= InitialHp
  PROVE  n + 4 * (n \div 3) >= InitialHp
<1>1. c <= n \div 3
  OBVIOUS
<1>2. QED  BY <1>1, DurationsAssumption

LEMMA InitVerdict == Init => VerdictIsDeserved
BY DurationsAssumption DEF Init, VerdictIsDeserved, Player

LEMMA VerdictStep ==
  Score /\ Score' /\ VerdictIsDeserved /\ [Next]_vars => VerdictIsDeserved'
<1> SUFFICES ASSUME Score, Score', VerdictIsDeserved, [Next]_vars
             PROVE  VerdictIsDeserved'
  OBVIOUS
<1> USE DEF clockVars, playerVars, netVars, endVars, histVars
<1>0. TypeOK /\ TypeOK'
  BY DEF Score
<1>1. ASSUME NEW p \in Player, NEW tab \in Tabs, NEW id \in 1..prompt.id,
             NEW key \in BOOLEAN, Miss(p, tab, id, key)
      PROVE  VerdictIsDeserved'
  BY <1>1 DEF Miss, VerdictIsDeserved, Enemy
<1>2. ASSUME NEW p \in Player, NEW tab \in Tabs, NEW id \in 1..prompt.id,
             NEW key \in BOOLEAN, Land(p, tab, id, key)
      PROVE  VerdictIsDeserved'
  <2>1. /\ status = "FIGHTING" /\ outcome = "none"
        /\ hp[p] > 0
    BY <1>2 DEF Land, Accepted, Fighting, VerdictIsDeserved
  <2>2. hp' = [hp EXCEPT ![Enemy(p)] = HpAfter(p)]
    BY <1>2 DEF Land
  <2>3. hp'[p] = hp[p] /\ hp'[Enemy(p)] = HpAfter(p)
    BY <2>2, EnemyType, <1>0 DEF TypeOK
  <2>4. CASE HpAfter(p) = 0
    <3>1. status' = "FIGHT_OVER" /\ winner' = p /\ outcome' = "ko"
      BY <1>2, <2>4 DEF Land, Decide
    <3>2. hp'[Enemy(p)] = 0 /\ Enemy(winner') = Enemy(p) /\ (Enemy(winner))' = Enemy(p)
      BY <2>3, <2>4, <3>1 DEF Enemy
    <3>3. landed'[p] + 4 * (landed'[p] \div 3) >= InitialHp
      <4>1. /\ 0 = IF landed'[p] + 4 * crits'[p] < InitialHp
                     THEN InitialHp - (landed'[p] + 4 * crits'[p]) ELSE 0
            /\ 3 * crits'[p] + combo'[p] <= landed'[p]
        BY <3>2 DEF Score, DamageIsEarned, Enemy
      <4>2. landed'[p] \in Nat /\ crits'[p] \in Nat /\ combo'[p] \in Nat
        BY <1>0 DEF TypeOK
      <4>3. landed'[p] + 4 * crits'[p] >= InitialHp
        BY <4>1, <4>2, DurationsAssumption
      <4>4. QED  BY <4>1, <4>2, <4>3, KnockoutNeedsHits
    <3>4. QED
      BY <2>1, <2>3, <3>1, <3>2, <3>3 DEF VerdictIsDeserved
  <2>5. CASE HpAfter(p) # 0
    <3>1. UNCHANGED <<status, winner, outcome>>
      BY <1>2, <2>5 DEF Land
    <3>2. \A q \in Player : hp'[q] > 0
      BY <2>3, <2>5, <2>1, HitType, <1>0, EnemyType DEF Player, Enemy, TypeOK
    <3>3. QED
      BY <2>1, <2>2, <3>1, <3>2 DEF VerdictIsDeserved
  <2>6. QED  BY <2>4, <2>5
<1>3. ASSUME NEW p \in Player, NEW tab \in Tabs, Rejoin(p, tab)
      PROVE  VerdictIsDeserved'
  BY <1>3, <1>0 DEF Rejoin, VerdictIsDeserved, Enemy, TypeOK
<1>4. ASSUME NEW p \in Player, NEW tab \in Tabs, Disconnect(p, tab)
      PROVE  VerdictIsDeserved'
  <2>1. CASE LosesBy(p, tab)
    BY <2>1, <1>4 DEF Disconnect, Decide, LosesBy, Fighting, VerdictIsDeserved
  <2>2. CASE ~LosesBy(p, tab)
    <3>1. UNCHANGED <<status, winner, outcome, hp, landed>>
      BY <2>2, <1>4 DEF Disconnect
    <3>2. QED  BY <3>1 DEF VerdictIsDeserved, Enemy
  <2>3. QED  BY <2>1, <2>2
<1>5. CASE Tick
  BY <1>5 DEF Tick, VerdictIsDeserved, Enemy
<1>6. CASE UNCHANGED vars
  BY <1>6 DEF vars, VerdictIsDeserved, Enemy
<1>7. QED
  BY <1>1, <1>2, <1>3, <1>4, <1>5, <1>6 DEF Next, HandleHit

(* The verdict of a duel is deserved. *)
THEOREM VerdictsAreDeserved == Spec => []VerdictIsDeserved
<1>1. Init => VerdictIsDeserved
  BY InitVerdict
<1>2. QED  BY <1>1, VerdictStep, ScoreIsRight, PTL DEF Spec

-----------------------------------------------------------------------------
(* A stunned player lands nothing and is not stunned for longer. *)
THEOREM StunsAreServed == Spec => StunIsServed
<1> DEFINE Served == \A p \in Player :
                       now < stunnedUntil[p] =>
                         /\ landed'[p] = landed[p]
                         /\ stunnedUntil'[p] = stunnedUntil[p]
<1>1. TypeOK /\ [Next]_vars => Served
  <2> SUFFICES ASSUME TypeOK, [Next]_vars, NEW p \in Player, now < stunnedUntil[p]
               PROVE  landed'[p] = landed[p] /\ stunnedUntil'[p] = stunnedUntil[p]
    OBVIOUS
  <2>1. ASSUME NEW q \in Player, NEW tab \in Tabs, NEW id \in 1..prompt.id,
               NEW key \in BOOLEAN, Miss(q, tab, id, key) \/ Land(q, tab, id, key)
        PROVE  landed'[p] = landed[p] /\ stunnedUntil'[p] = stunnedUntil[p]
    <3>1. q # p
      BY <2>1 DEF Miss, Land, Accepted, NotStunned, TypeOK
    <3>2. QED  BY <2>1, <3>1 DEF Miss, Land, TypeOK
  <2>2. ASSUME NEW q \in Player, NEW tab \in Tabs, Rejoin(q, tab) \/ Disconnect(q, tab)
        PROVE  landed'[p] = landed[p] /\ stunnedUntil'[p] = stunnedUntil[p]
    BY <2>2 DEF Rejoin, Disconnect, playerVars, histVars
  <2>3. CASE Tick \/ UNCHANGED vars
    BY <2>3 DEF Tick, vars, playerVars, histVars
  <2>4. QED  BY <2>1, <2>2, <2>3 DEF Next, HandleHit
<1>2. TypeOK /\ [Next]_vars => [Served]_vars
  BY <1>1
<1>3. QED  BY <1>2, TypeCorrect, PTL DEF Spec, StunIsServed

(* After the verdict neither a late hit nor a disconnect changes it. *)
THEOREM VerdictsAreFinal == Spec => VerdictIsFinal
<1>1. [Next]_vars => [status = "FIGHT_OVER" => UNCHANGED <<status, winner, outcome, hp>>]_vars
  <2> SUFFICES ASSUME [Next]_vars, status = "FIGHT_OVER"
               PROVE  UNCHANGED <<status, winner, outcome, hp>>
    OBVIOUS
  <2>1. ~Fighting
    BY DEF Fighting
  <2>2. ASSUME NEW q \in Player, NEW tab \in Tabs, NEW id \in 1..prompt.id,
               NEW key \in BOOLEAN
        PROVE  ~Miss(q, tab, id, key) /\ ~Land(q, tab, id, key)
    BY <2>1 DEF Miss, Land, Accepted
  <2>3. ASSUME NEW q \in Player, NEW tab \in Tabs, Rejoin(q, tab) \/ Disconnect(q, tab)
        PROVE  UNCHANGED <<status, winner, outcome, hp>>
    BY <2>1, <2>3 DEF Rejoin, Disconnect, LosesBy, playerVars, endVars
  <2>4. CASE Tick \/ UNCHANGED vars
    BY <2>1, <2>4 DEF Tick, vars, playerVars, endVars
  <2>5. QED  BY <2>2, <2>3, <2>4 DEF Next, HandleHit
<1>2. QED  BY <1>1, PTL DEF Spec, VerdictIsFinal

(* Who is connected in a running fight loses it by leaving, and only so. *)
THEOREM RageQuitsAreLeavings == Spec => RageQuitIsLeaving
<1> DEFINE Leaving == status = "FIGHTING" =>
             \A p \in Player :
               outcome' = "rage_quit" /\ winner' = Enemy(p)
                 <=> <<p, socketId[p]>> \in online \ online'
<1>1. VerdictIsDeserved /\ [Next]_vars => [Leaving]_vars
  <2> SUFFICES ASSUME VerdictIsDeserved, Next, status = "FIGHTING", NEW p \in Player
               PROVE  outcome' = "rage_quit" /\ winner' = Enemy(p)
                        <=> <<p, socketId[p]>> \in online \ online'
    OBVIOUS
  <2>1. outcome = "none"
    BY DEF VerdictIsDeserved
  <2>2. ASSUME NEW q \in Player, NEW tab \in Tabs, Disconnect(q, tab)
        PROVE  outcome' = "rage_quit" /\ winner' = Enemy(p)
                 <=> <<p, socketId[p]>> \in online \ online'
    <3>1. <<p, socketId[p]>> \in online \ online' <=> p = q /\ socketId[q] = tab
      BY <2>2 DEF Disconnect
    <3>2. CASE socketId[q] = tab
      <4>1. outcome' = "rage_quit" /\ winner' = Enemy(q)
        BY <2>2, <3>2 DEF Disconnect, LosesBy, Fighting, Decide
      <4>2. Enemy(p) = Enemy(q) <=> p = q
        BY DEF Enemy, Player
      <4> QED BY <3>1, <3>2, <4>1, <4>2
    <3>3. CASE socketId[q] # tab
      <4>1. outcome' = "none"
        BY <2>1, <2>2, <3>3 DEF Disconnect, LosesBy, endVars
      <4> QED BY <3>1, <3>3, <4>1
    <3> QED BY <3>2, <3>3
  <2>3. ASSUME UNCHANGED online, outcome' \in {"none", "ko"}
        PROVE  outcome' = "rage_quit" /\ winner' = Enemy(p)
                 <=> <<p, socketId[p]>> \in online \ online'
    BY <2>3
  <2>4. ASSUME NEW q \in Player, NEW tab \in Tabs, NEW id \in 1..prompt.id,
               NEW key \in BOOLEAN, Miss(q, tab, id, key) \/ Land(q, tab, id, key)
        PROVE  UNCHANGED online /\ outcome' \in {"none", "ko"}
    BY <2>1, <2>4 DEF Miss, Land, Decide, netVars, endVars
  <2>5. ASSUME NEW q \in Player, NEW tab \in Tabs, Rejoin(q, tab)
        PROVE  UNCHANGED online /\ outcome' \in {"none", "ko"}
    BY <2>1, <2>5 DEF Rejoin, endVars
  <2>6. CASE Tick
    BY <2>1, <2>3, <2>6 DEF Tick, netVars, endVars
  <2>7. QED  BY <2>2, <2>3, <2>4, <2>5, <2>6 DEF Next, HandleHit
<1>2. QED  BY <1>1, VerdictsAreDeserved, PTL DEF Spec, RageQuitIsLeaving

-----------------------------------------------------------------------------
(* How short a fight can be: it takes as many cooldowns as the hits that the
   knockout needs if every third of them is critical.  With the code's 30 hit
   points, 120 ms and 150 ms: 14 hits, and 2.07 seconds from the start. *)
NoQuickKnockout ==
  outcome = "ko" =>
    \E n \in Nat : /\ n + 4 * (n \div 3) >= InitialHp
                   /\ now >= StartedAt + MinReaction + Cooldown * (n - 1)

(* No hit is later than the clock, and the winner is a player. *)
Timely ==
  /\ \A p \in Player : lastHitAt[p] <= now
  /\ outcome # "none" => winner \in Player

LEMMA TimelyStep == TypeOK /\ Timely /\ [Next]_vars => Timely'
<1> SUFFICES ASSUME TypeOK, Timely, [Next]_vars
             PROVE  Timely'
  OBVIOUS
<1> USE DEF clockVars, playerVars, netVars, endVars, histVars
<1>1. ASSUME NEW p \in Player, NEW tab \in Tabs, NEW id \in 1..prompt.id,
             NEW key \in BOOLEAN, Miss(p, tab, id, key)
      PROVE  Timely'
  BY <1>1 DEF Miss, Timely
<1>2. ASSUME NEW p \in Player, NEW tab \in Tabs, NEW id \in 1..prompt.id,
             NEW key \in BOOLEAN, Land(p, tab, id, key)
      PROVE  Timely'
  <2>1. now' = now /\ lastHitAt' = [lastHitAt EXCEPT ![p] = now]
    BY <1>2 DEF Land
  <2>2. \A q \in Player : lastHitAt'[q] <= now'
    BY <2>1 DEF TypeOK, Timely
  <2>3. outcome' # "none" => winner' \in Player
    BY <1>2 DEF Land, Decide, Timely
  <2> QED BY <2>2, <2>3 DEF Timely
<1>3. ASSUME NEW p \in Player, NEW tab \in Tabs, Rejoin(p, tab) \/ Disconnect(p, tab)
      PROVE  Timely'
  BY <1>3, EnemyType DEF Rejoin, Disconnect, Decide, Timely
<1>4. CASE Tick
  BY <1>4 DEF Tick, Timely, TypeOK
<1>5. CASE UNCHANGED vars
  BY <1>5 DEF vars, Timely
<1> QED BY <1>1, <1>2, <1>3, <1>4, <1>5 DEF Next, HandleHit

(* No sequence of messages, from whichever tabs, knocks a player out sooner
   than the rules of pace and damage allow. *)
THEOREM KnockoutsTakeTime == Spec => []NoQuickKnockout
<1>1. Init => Timely
  BY ClockAssumption DEF Init, Timely
<1>2. Score /\ VerdictIsDeserved /\ Timely => NoQuickKnockout
  <2> SUFFICES ASSUME Score, VerdictIsDeserved, Timely, outcome = "ko"
               PROVE  \E n \in Nat :
                        /\ n + 4 * (n \div 3) >= InitialHp
                        /\ now >= StartedAt + MinReaction + Cooldown * (n - 1)
    BY DEF NoQuickKnockout
  <2>1. winner \in Player /\ landed[winner] \in Nat /\ lastHitAt[winner] <= now
    BY DEF Timely, Score, TypeOK
  <2> DEFINE n == landed[winner]
  <2>2. n + 4 * (n \div 3) >= InitialHp
    BY DEF VerdictIsDeserved
  <2>3. n \in Nat /\ n > 0
    BY <2>1, <2>2, DurationsAssumption
  <2>4. lastHitAt[winner] >= StartedAt + MinReaction + Cooldown * (n - 1)
    BY <2>1, <2>3 DEF Score, PaceIsHuman
  <2> DEFINE earliest == StartedAt + MinReaction + Cooldown * (n - 1)
  <2>5. now >= earliest
    <3>1. earliest \in Int /\ lastHitAt[winner] \in Int /\ now \in Int
      BY <2>1, <2>3, DurationsAssumption, ClockAssumption DEF Score, TypeOK
    <3>2. lastHitAt[winner] >= earliest
      BY <2>4
    <3> HIDE DEF earliest, n
    <3> QED BY <2>1, <3>1, <3>2
  <2> QED BY <2>2, <2>3, <2>5
<1>3. QED
  BY <1>1, <1>2, TimelyStep, TypeCorrect, ScoreIsRight, VerdictsAreDeserved, PTL DEF Spec
=============================================================================
