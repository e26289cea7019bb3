---------------------------- MODULE FiniteFacts ----------------------------
(***************************************************************************)
(* What the proofs need to know of finite sets: the sum of the values that *)
(* a function has on one, in whatever order SumFunctionOnSet of module     *)
(* Functions adds them, which the balances of Settlement and Economy are;  *)
(* and that a finite crowd in which everybody waits has a cycle.           *)
(* Induction is done by the least counterexample.                          *)
(***************************************************************************)
EXTENDS Integers, Deadlocks, FiniteSetTheorems, WellFoundedInduction, Functions, TLAPS

(* Every set of natural numbers that has a member has a least one. *)
LEMMA LeastNumber ==
  ASSUME NEW T \in SUBSET Nat, T # {}
  PROVE  \E n \in T : \A m \in T : n <= m
<1> DEFINE R == {p \in Nat \X Nat : p[1] < p[2]}
<1>1. IsWellFoundedOn(R, Nat)
  BY NatLessThanWellFounded, Zenon DEF OpToRel
<1>2. \A m, n \in Nat : m < n => <<m, n>> \in R
  OBVIOUS
<1> HIDE DEF R
<1>3. \E n \in T : \A m \in T : ~(<<m, n>> \in R)
  BY <1>1, WFMin
<1>4. PICK n \in T : \A m \in T : ~(<<m, n>> \in R)
  BY <1>3
<1>5. ASSUME NEW m \in T PROVE n <= m
  <2>1. m \in Nat /\ n \in Nat /\ ~(<<m, n>> \in R)
    BY <1>4
  <2>2. ~(m < n)
    BY <2>1, <1>2
  <2> QED BY <2>1, <2>2
<1> QED BY <1>5

(* One step of the sum: some member is taken out first. *)
First(s) == CHOOSE x \in s : TRUE
SumStep(f, it, s) == IF s = {} THEN 0 ELSE f[First(s)] + it[s \ {First(s)}]
IsSum(f, S, it) == it = [s \in SUBSET S |-> SumStep(f, it, s)]
IntsOn(f, S) == IsFiniteSet(S) /\ \A x \in S : f[x] \in Int

LEMMA SumIsChosen ==
  ASSUME NEW f, NEW S
  PROVE  SumFunctionOnSet(f, S) = (CHOOSE it : IsSum(f, S, it))[S]
  BY DEF SumFunctionOnSet, FoldFunctionOnSet, MapThenFoldSet, IsSum, SumStep, First

LEMMA FirstIsMember ==
  ASSUME NEW s, s # {}
  PROVE  First(s) \in s
  BY DEF First

(* Taking a member out makes a finite set smaller. *)
LEMMA Smaller ==
  ASSUME NEW s, IsFiniteSet(s), NEW x \in s
  PROVE  /\ IsFiniteSet(s \ {x}) /\ Cardinality(s \ {x}) = Cardinality(s) - 1
         /\ Cardinality(s) \in Nat \ {0}
<1>1. Cardinality(s) \in Nat /\ Cardinality(s) # 0
  BY FS_CardinalityType, FS_EmptySet
<1> QED BY <1>1, FS_RemoveElement

(* There is such a sum: of the subsets with at most n members, for any n. *)
LEMMA SumExists ==
  ASSUME NEW f, NEW S, IntsOn(f, S)
  PROVE  \E it : IsSum(f, S, it)
<1> DEFINE D(n) == {s \in SUBSET S : Cardinality(s) <= n}
           Upto(n, g) == g \in [D(n) -> Int] /\ \A s \in D(n) : g[s] = SumStep(f, g, s)
           Bad == {n \in Nat : ~\E g : Upto(n, g)}
<1>0. \A s \in SUBSET S : IsFiniteSet(s) /\ Cardinality(s) \in Nat /\ Cardinality(s) <= Cardinality(S)
  BY FS_Subset, FS_CardinalityType DEF IntsOn
<1>1. Bad = {}
  <2> SUFFICES ASSUME Bad # {} PROVE FALSE
    OBVIOUS
  <2>1. PICK n \in Bad : \A m \in Bad : n <= m
    <3>1. Bad \in SUBSET Nat
      OBVIOUS
    <3> HIDE DEF Bad
    <3> QED BY <3>1, LeastNumber
  <2>2. CASE n = 0
    <3>1. \A s \in D(0) : s = {}
      BY <1>0, FS_EmptySet
    <3> DEFINE g == [s \in D(0) |-> 0]
    <3>2. Upto(0, g)
      BY <3>1 DEF SumStep
    <3> QED BY <2>1, <2>2, <3>2
  <2>3. CASE n # 0
    <3>0. n \in Nat
      OBVIOUS
    <3>1. n - 1 \in Nat /\ n - 1 \notin Bad
      <4> HIDE DEF Bad
      <4> QED BY <3>0, <2>1, <2>3
    <3>2. PICK g : Upto(n - 1, g)
      BY <3>1
    <3> DEFINE h == [s \in D(n) |-> SumStep(f, g, s)]
    <3>3. ASSUME NEW s \in D(n), s # {}
          PROVE  /\ First(s) \in s /\ s \ {First(s)} \in D(n - 1)
                 /\ f[First(s)] \in Int /\ g[s \ {First(s)}] \in Int
      <4>1. First(s) \in s
        BY <3>3, FirstIsMember
      <4>2. Cardinality(s \ {First(s)}) = Cardinality(s) - 1 /\ Cardinality(s) \in Nat
        BY <4>1, <1>0, Smaller
      <4>3. s \ {First(s)} \in D(n - 1)
        BY <4>2, <2>1
      <4> QED BY <4>1, <4>3, <3>2 DEF IntsOn
    <3>4. h \in [D(n) -> Int]
      BY <3>3 DEF SumStep
    <3>5. \A s \in D(n - 1) : s \in D(n) /\ h[s] = g[s]
      BY <3>2, <1>0, <2>1
    <3>6. \A s \in D(n) : h[s] = SumStep(f, h, s)
      BY <3>3, <3>5 DEF SumStep
    <3>7. Upto(n, h)
      BY <3>4, <3>6
    <3> QED BY <2>1, <3>7
  <2> QED BY <2>2, <2>3
<1>2. PICK g : Upto(Cardinality(S), g)
  BY <1>0, <1>1
<1>3. D(Cardinality(S)) = SUBSET S
  BY <1>0
<1>4. IsSum(f, S, g)
  BY <1>2, <1>3 DEF IsSum
<1> QED BY <1>4

(* Two sums of the same values are the same, and a number. *)
LEMMA SumsAgree ==
  ASSUME NEW f, NEW S, IntsOn(f, S), NEW it, IsSum(f, S, it),
         NEW g, NEW U, NEW jt, IsSum(g, U, jt), S \subseteq U,
         \A x \in S : f[x] = g[x]
  PROVE  \A s \in SUBSET S : it[s] \in Int /\ it[s] = jt[s]
<1> DEFINE Good(s) == it[s] \in Int /\ it[s] = jt[s]
           Bad == {n \in Nat : \E s \in SUBSET S : Cardinality(s) = n /\ ~Good(s)}
<1>0. \A s \in SUBSET S : IsFiniteSet(s) /\ Cardinality(s) \in Nat
  BY FS_Subset, FS_CardinalityType DEF IntsOn
<1>1. Bad = {}
  <2> SUFFICES ASSUME Bad # {} PROVE FALSE
    OBVIOUS
  <2>1. PICK n \in Bad : \A m \in Bad : n <= m
    <3>1. Bad \in SUBSET Nat
      OBVIOUS
    <3> HIDE DEF Bad
    <3> QED BY <3>1, LeastNumber
  <2>2. PICK s \in SUBSET S : Cardinality(s) = n /\ ~Good(s)
    OBVIOUS
  <2>3. it[s] = SumStep(f, it, s) /\ jt[s] = SumStep(g, jt, s)
    BY DEF IsSum
  <2>4. CASE s = {}
    BY <2>2, <2>3, <2>4 DEF SumStep
  <2>5. CASE s # {}
    <3>1. First(s) \in s
      BY <2>5, FirstIsMember
    <3>2. s \ {First(s)} \in SUBSET S /\ Cardinality(s \ {First(s)}) \in Nat
          /\ Cardinality(s \ {First(s)}) < n
      BY <3>1, <1>0, <2>2, Smaller
    <3>3. Cardinality(s \ {First(s)}) \notin Bad
      <4> n \in Nat
        OBVIOUS
      <4> HIDE DEF Bad
      <4> QED BY <3>2, <2>1
    <3>4. Good(s \ {First(s)})
      BY <3>2, <3>3
    <3>5. f[First(s)] \in Int /\ f[First(s)] = g[First(s)]
      BY <3>1 DEF IntsOn
    <3> HIDE DEF Bad
    <3> QED BY <2>2, <2>3, <2>5, <3>4, <3>5 DEF SumStep
  <2> QED BY <2>4, <2>5
<1>2. ASSUME NEW s \in SUBSET S PROVE Good(s)
  BY <1>0, <1>1
<1> QED BY <1>2

(* It does not matter which member is taken out first. *)
LEMMA SumOrder ==
  ASSUME NEW f, NEW S, IntsOn(f, S), NEW it, IsSum(f, S, it)
  PROVE  \A s \in SUBSET S : \A x \in s : it[s] = f[x] + it[s \ {x}]
<1> DEFINE Good(s) == \A x \in s : it[s] = f[x] + it[s \ {x}]
           Bad == {n \in Nat : \E s \in SUBSET S : Cardinality(s) = n /\ ~Good(s)}
<1>0. \A s \in SUBSET S : IsFiniteSet(s) /\ Cardinality(s) \in Nat
  BY FS_Subset, FS_CardinalityType DEF IntsOn
<1>a. \A s \in SUBSET S : it[s] \in Int
  BY SumsAgree
<1>1. Bad = {}
  <2> SUFFICES ASSUME Bad # {} PROVE FALSE
    OBVIOUS
  <2>1. PICK n \in Bad : \A m \in Bad : n <= m
    <3>1. Bad \in SUBSET Nat
      OBVIOUS
    <3> HIDE DEF Bad
    <3> QED BY <3>1, LeastNumber
  <2>n. n \in Nat
    OBVIOUS
  <2>2. PICK s \in SUBSET S : Cardinality(s) = n /\ ~Good(s)
    OBVIOUS
  <2>3. PICK x \in s : it[s] # f[x] + it[s \ {x}]
    BY <2>2
  <2> DEFINE c == First(s)
  <2>4. c \in s /\ it[s] = f[c] + it[s \ {c}]
    <3>1. c \in s
      BY <2>3, FirstIsMember
    <3>2. it[s] = SumStep(f, it, s)
      BY DEF IsSum
    <3> QED BY <3>1, <3>2 DEF SumStep
  <2>5. c # x
    BY <2>3, <2>4
  <2>6. ASSUME NEW y \in s PROVE Good(s \ {y})
    <3>1. s \ {y} \in SUBSET S /\ Cardinality(s \ {y}) \in Nat /\ Cardinality(s \ {y}) < n
      BY <1>0, <2>2, Smaller
    <3>2. Cardinality(s \ {y}) \notin Bad
      <4> HIDE DEF Bad
      <4> QED BY <2>n, <3>1, <2>1
    <3> QED BY <3>1, <3>2
  <2> HIDE DEF Bad, c
  <2>7. it[s \ {c}] = f[x] + it[(s \ {c}) \ {x}]
    BY <2>4, <2>3, <2>5, <2>6
  <2>8. it[s \ {x}] = f[c] + it[(s \ {x}) \ {c}]
    BY <2>4, <2>3, <2>5, <2>6
  <2>9. (s \ {c}) \ {x} = (s \ {x}) \ {c}
    OBVIOUS
  <2>10. f[x] \in Int /\ f[c] \in Int /\ it[(s \ {x}) \ {c}] \in Int
    BY <1>a, <2>4 DEF IntsOn
  <2>11. it[s] = f[c] + (f[x] + it[(s \ {x}) \ {c}])
    BY <2>4, <2>7, <2>9
  <2>12. f[x] + it[s \ {x}] = f[x] + (f[c] + it[(s \ {x}) \ {c}])
    BY <2>8
  <2>13. \A i, j, k \in Int : i + (j + k) = j + (i + k)
    OBVIOUS
  <2> QED BY <2>3, <2>10, <2>11, <2>12, <2>13
<1>2. ASSUME NEW s \in SUBSET S PROVE Good(s)
  BY <1>0, <1>1
<1> QED BY <1>2

LEMMA SumIsSum ==
  ASSUME NEW f, NEW S, IntsOn(f, S)
  PROVE  \E it : IsSum(f, S, it) /\ SumFunctionOnSet(f, S) = it[S]
  BY SumExists, SumIsChosen

-----------------------------------------------------------------------------
(* The sum over nothing is zero. *)
LEMMA SumOfNone == ASSUME NEW f PROVE SumFunctionOnSet(f, {}) = 0
<1>1. IntsOn(f, {})
  BY FS_EmptySet DEF IntsOn
<1>2. PICK it : IsSum(f, {}, it) /\ SumFunctionOnSet(f, {}) = it[{}]
  BY <1>1, SumIsSum
<1> QED BY <1>2 DEF IsSum, SumStep

(* The sum depends on the values that are added only. *)
LEMMA SumOfSame ==
  ASSUME NEW f, NEW g, NEW S, IntsOn(f, S), \A x \in S : f[x] = g[x]
  PROVE  SumFunctionOnSet(f, S) \in Int /\ SumFunctionOnSet(f, S) = SumFunctionOnSet(g, S)
<1>1. IntsOn(g, S)
  BY DEF IntsOn
<1>2. PICK it : IsSum(f, S, it) /\ SumFunctionOnSet(f, S) = it[S]
  BY SumIsSum
<1>3. PICK jt : IsSum(g, S, jt) /\ SumFunctionOnSet(g, S) = jt[S]
  BY <1>1, SumIsSum
<1> QED BY <1>2, <1>3, SumsAgree

(* Zeros add up to zero. *)
LEMMA SumOfZeros ==
  ASSUME NEW f, NEW S, IntsOn(f, S), \A x \in S : f[x] = 0
  PROVE  SumFunctionOnSet(f, S) = 0
<1>1. PICK it : IsSum(f, S, it) /\ SumFunctionOnSet(f, S) = it[S]
  BY SumIsSum
<1> DEFINE Bad == {n \in Nat : \E T \in SUBSET S : Cardinality(T) = n /\ it[T] # 0}
<1>2. Bad = {}
  <2> SUFFICES ASSUME Bad # {} PROVE FALSE
    OBVIOUS
  <2>1. PICK n \in Bad : \A m \in Bad : n <= m
    <3>1. Bad \in SUBSET Nat /\ Bad # {}
      OBVIOUS
    <3> HIDE DEF Bad
    <3> QED BY <3>1, LeastNumber
  <2>2. PICK T \in SUBSET S : Cardinality(T) = n /\ it[T] # 0
    BY <2>1
  <2>3. it[T] = SumStep(f, it, T)
    BY <1>1 DEF IsSum
  <2>4. T # {}
    BY <2>2, <2>3 DEF SumStep
  <2>5. First(T) \in T
    BY <2>4, FirstIsMember
  <2>6. IsFiniteSet(T) /\ n \in Nat
    BY <2>1, FS_Subset DEF IntsOn
  <2>7. Cardinality(T \ {First(T)}) = n - 1 /\ n - 1 \in Nat
    BY <2>2, <2>5, <2>6, Smaller
  <2>8. n - 1 \notin Bad
    BY <2>1, <2>6
  <2>9. it[T \ {First(T)}] = 0
    BY <2>7, <2>8
  <2>10. it[T] = f[First(T)] + it[T \ {First(T)}] /\ f[First(T)] = 0
    BY <2>3, <2>4, <2>5 DEF SumStep
  <2> QED BY <2>2, <2>9, <2>10
<1>3. Cardinality(S) \in Nat
  BY FS_CardinalityType DEF IntsOn
<1>4. it[S] = 0
  BY <1>2, <1>3
<1> QED BY <1>1, <1>4

(* Natural numbers add up to one. *)
LEMMA SumOfNats ==
  ASSUME NEW f, NEW S, IsFiniteSet(S), \A x \in S : f[x] \in Nat
  PROVE  SumFunctionOnSet(f, S) \in Nat
<1>0. IntsOn(f, S)
  BY DEF IntsOn
<1>1. PICK it : IsSum(f, S, it) /\ SumFunctionOnSet(f, S) = it[S]
  BY <1>0, SumIsSum
<1> DEFINE Bad == {n \in Nat : \E T \in SUBSET S : Cardinality(T) = n /\ it[T] \notin Nat}
<1>2. Bad = {}
  <2> SUFFICES ASSUME Bad # {} PROVE FALSE
    OBVIOUS
  <2>1. PICK n \in Bad : \A m \in Bad : n <= m
    <3>1. Bad \in SUBSET Nat /\ Bad # {}
      OBVIOUS
    <3> HIDE DEF Bad
    <3> QED BY <3>1, LeastNumber
  <2>2. PICK T \in SUBSET S : Cardinality(T) = n /\ it[T] \notin Nat
    BY <2>1
  <2>3. it[T] = SumStep(f, it, T)
    BY <1>1 DEF IsSum
  <2>4. T # {}
    BY <2>2, <2>3 DEF SumStep
  <2>5. First(T) \in T
    BY <2>4, FirstIsMember
  <2>6. IsFiniteSet(T) /\ n \in Nat
    BY <2>1, FS_Subset
  <2>7. Cardinality(T \ {First(T)}) = n - 1 /\ n - 1 \in Nat
    BY <2>2, <2>5, <2>6, Smaller
  <2>8. n - 1 \notin Bad
    BY <2>1, <2>6
  <2>9. it[T \ {First(T)}] \in Nat
    BY <2>7, <2>8
  <2>10. it[T] = f[First(T)] + it[T \ {First(T)}] /\ f[First(T)] \in Nat
    BY <2>3, <2>4, <2>5 DEF SumStep
  <2>11. it[T] \in Nat
    <3> DEFINE a == f[First(T)]
               b == it[T \ {First(T)}]
    <3>1. a \in Nat /\ b \in Nat /\ it[T] = a + b
      BY <2>9, <2>10
    <3> HIDE DEF a, b
    <3> QED BY <3>1
  <2> QED BY <2>2, <2>11
<1>3. Cardinality(S) \in Nat
  BY FS_CardinalityType
<1>4. it[S] \in Nat
  BY <1>2, <1>3
<1> QED BY <1>1, <1>4

(* A member that is new adds its value. *)
LEMMA SumOfOneMore ==
  ASSUME NEW f, NEW S, NEW x, x \notin S, IntsOn(f, S), f[x] \in Int
  PROVE  SumFunctionOnSet(f, S \cup {x}) = SumFunctionOnSet(f, S) + f[x]
<1> DEFINE U == S \cup {x}
<1>1. IntsOn(f, U) /\ U \ {x} = S
  BY FS_AddElement DEF IntsOn
<1>2. PICK it : IsSum(f, S, it) /\ SumFunctionOnSet(f, S) = it[S]
  BY SumIsSum
<1>3. PICK jt : IsSum(f, U, jt) /\ SumFunctionOnSet(f, U) = jt[U]
  BY <1>1, SumIsSum
<1>4. it[S] \in Int /\ it[S] = jt[S]
  BY <1>2, <1>3, SumsAgree
<1>5. jt[U] = f[x] + jt[U \ {x}]
  BY <1>1, <1>3, SumOrder
<1>6. SumFunctionOnSet(f, U) = f[x] + it[S]
  BY <1>1, <1>3, <1>4, <1>5
<1>7. SumFunctionOnSet(f, U) = it[S] + f[x]
  BY <1>4, <1>6
<1> QED BY <1>2, <1>7

(* A value that grows makes the sum grow by as much. *)
LEMMA SumOfChanged ==
  ASSUME NEW f, NEW g, NEW S, NEW x \in S, IntsOn(f, S), NEW d \in Int,
         g[x] = f[x] + d, \A y \in S \ {x} : g[y] = f[y]
  PROVE  SumFunctionOnSet(g, S) = SumFunctionOnSet(f, S) + d
<1> DEFINE R == S \ {x}
<1>1. R \cup {x} = S /\ x \notin R /\ IntsOn(f, R) /\ f[x] \in Int
  BY FS_RemoveElement DEF IntsOn
<1>2. IntsOn(g, R) /\ g[x] \in Int
  BY <1>1 DEF IntsOn
<1> HIDE DEF R
<1>3. SumFunctionOnSet(f, S) = SumFunctionOnSet(f, R) + f[x]
  BY <1>1, SumOfOneMore
<1>4. SumFunctionOnSet(g, S) = SumFunctionOnSet(g, R) + g[x]
  BY <1>1, <1>2, SumOfOneMore
<1>5. SumFunctionOnSet(f, R) \in Int /\ SumFunctionOnSet(f, R) = SumFunctionOnSet(g, R)
  BY <1>1, <1>2, SumOfSame DEF R
<1> QED BY <1>1, <1>3, <1>4, <1>5

-----------------------------------------------------------------------------
(* Waiting ends: in a finite crowd that waits for its own members only,       *)
(* somebody waits for nobody or is on a cycle.  The smallest set that holds   *)
(* what its members wait for is such a cycle.                                 *)
LEMMA SomebodyMoves ==
  ASSUME NEW waits, NEW T \in SUBSET DOMAIN waits, IsFiniteSet(T), T # {}, Closed(T, waits)
  PROVE  \E t \in T : waits[t] = {} \/ OnCycle(t, waits)
<1> SUFFICES ASSUME \A t \in T : waits[t] # {} PROVE \E t \in T : OnCycle(t, waits)
  OBVIOUS
<1> DEFINE Crowd(C) == C \in SUBSET T /\ C # {} /\ Closed(C, waits)
           Sizes == {n \in Nat : \E C : Crowd(C) /\ Cardinality(C) = n}
<1>1. \A C \in SUBSET T : IsFiniteSet(C) /\ Cardinality(C) \in Nat
  BY FS_Subset, FS_CardinalityType
<1>2. Sizes \in SUBSET Nat /\ Sizes # {}
  BY <1>1
<1>3. PICK n \in Sizes : \A m \in Sizes : n <= m
  <2> HIDE DEF Sizes
  <2> QED BY <1>2, LeastNumber
<1>4. PICK C : Crowd(C) /\ Cardinality(C) = n
  OBVIOUS
<1>5. \A D : Crowd(D) => Cardinality(C) <= Cardinality(D)
  BY <1>1, <1>3, <1>4
<1> HIDE DEF Sizes
<1>6. PICK t \in C : TRUE
  BY <1>4
<1> DEFINE Follows(ts) == waits[t] \subseteq ts /\ Closed(ts, waits)
           R == {s \in C : \A ts \in SUBSET DOMAIN waits : Follows(ts) => s \in ts}
<1>7. waits[t] \subseteq R /\ Closed(R, waits)
  BY <1>4, <1>6 DEF Closed
<1>8. Crowd(R) /\ R \subseteq C
  BY <1>4, <1>6, <1>7
<1>9. R = C
  <2> HIDE DEF R
  <2> QED BY <1>1, <1>4, <1>5, <1>8, FS_Subset
<1>10. t \in R
  BY <1>6, <1>9
<1> QED BY <1>4, <1>6, <1>10 DEF OnCycle

(* Who is on a cycle waits, and is waited for by somebody whom somebody       *)
(* waits for.                                                                 *)
LEMMA CycleNeighbours ==
  ASSUME NEW waits, NEW t \in DOMAIN waits, OnCycle(t, waits),
         \A s \in DOMAIN waits : waits[s] \subseteq DOMAIN waits \ {s}
  PROVE  /\ waits[t] # {}
         /\ \E r, s \in DOMAIN waits : s \in waits[r] /\ t \in waits[s]
<1>1. waits[t] # {}
  <2>1. {} \in SUBSET DOMAIN waits /\ Closed({}, waits)
    BY DEF Closed
  <2> QED BY <2>1 DEF OnCycle
<1> DEFINE Awaited == {s \in DOMAIN waits : \E r \in DOMAIN waits : s \in waits[r]}
           R == Awaited \ {t}
<1>2. R \in SUBSET DOMAIN waits /\ waits[t] \subseteq R
  OBVIOUS
<1>3. ~Closed(R, waits)
  BY <1>2 DEF OnCycle
<1>4. PICK s \in R : ~(waits[s] \subseteq R)
  BY <1>3 DEF Closed
<1>5. t \in waits[s]
  BY <1>4
<1> QED BY <1>1, <1>4, <1>5
=============================================================================
