----------------------------- MODULE Iteration ------------------------------
(***************************************************************************)
(* Induction over the natural numbers as a fact about sets, and what it    *)
(* says of functions defined step by step: the sum of a plan's cells and   *)
(* the sheet a bundle leaves are such functions.                           *)
(***************************************************************************)
EXTENDS Integers, FiniteSetTheorems, TLAPS

\* The least element of a set of natural numbers.
LEMMA LeastNatural ==
    ASSUME NEW T, T \subseteq Nat, T # {}
    PROVE  \E k \in T : \A m \in T : k <= m
<1> DEFINE Up == {0..k : k \in T}
<1>1. Up \subseteq FiniteSubsetsOf(Nat) /\ Up # {}
  <2>1. ASSUME NEW k \in T PROVE 0..k \subseteq Nat /\ IsFiniteSet(0..k)
    <3>1. k \in Nat /\ 0 \in Int /\ k \in Int
      OBVIOUS
    <3> QED BY <3>1, FS_Interval
  <2> QED BY <2>1 DEF FiniteSubsetsOf
<1>2. PICK x \in Up : \A y \in Up : <<y, x>> \notin StrictSubsetOrdering(Nat)
  BY <1>1, FS_StrictSubsetOrderingWellFounded, WFMin
<1>3. PICK k \in T : x = 0..k
  BY <1>2
<1>4. ASSUME NEW m \in T, m < k PROVE FALSE
  <2>1. 0..m \subseteq 0..k /\ 0..m # 0..k
    <3>1. m \in Nat /\ k \in Nat
      OBVIOUS
    <3>2. k \in 0..k /\ k \notin 0..m
      BY <1>4, <3>1
    <3> QED BY <1>4, <3>1, <3>2
  <2>2. <<0..m, 0..k>> \in StrictSubsetOrdering(Nat)
    BY <2>1 DEF StrictSubsetOrdering
  <2> QED BY <1>2, <1>3, <2>2
<1> QED BY <1>4

\* A set that holds 0 and the successor of each number it holds holds them all.
LEMMA SetInduction ==
    ASSUME NEW S, 0 \in S, \A n \in Nat : n \in S => n + 1 \in S
    PROVE  Nat \subseteq S
<1> DEFINE T == Nat \ S
<1> SUFFICES ASSUME T # {} PROVE FALSE
  OBVIOUS
<1>1. PICK k \in T : \A m \in T : k <= m
  <2>1. T \subseteq Nat
    OBVIOUS
  <2> HIDE DEF T
  <2> QED BY <2>1, LeastNatural
<1>2. k \in Nat /\ k # 0
  OBVIOUS
<1>3. k - 1 \in Nat /\ ~(k <= k - 1)
  BY <1>2
<1>4. k - 1 \in S
  BY <1>1, <1>3
<1> QED BY <1>3, <1>4

\* A bounded set of natural numbers has a greatest element.
LEMMA GreatestNatural ==
    ASSUME NEW T, T \subseteq Nat, T # {}, NEW b \in Nat, \A t \in T : t <= b
    PROVE  \E k \in T : \A t \in T : t <= k
<1> DEFINE U == {u \in Nat : \A t \in T : t <= u}
<1>1. PICK k \in U : \A m \in U : k <= m
  <2>1. U \subseteq Nat /\ b \in U
    OBVIOUS
  <2> HIDE DEF U
  <2> QED BY <2>1, LeastNatural
<1>2. ASSUME k \notin T PROVE FALSE
  <2>1. PICK t \in T : TRUE
    OBVIOUS
  <2>2. \A s \in T : s \in Nat /\ s <= k /\ s # k
    BY <1>2
  <2>3. k - 1 \in U
    BY <2>1, <2>2
  <2> QED BY <1>1, <2>3
<1> QED BY <1>2

\* A sequence of results, each computed from the one before, exists.
LEMMA Iterates ==
    ASSUME NEW D, NEW a \in D, NEW L \in Nat, NEW step \in [1..L -> [D -> D]]
    PROVE  \E f \in [0..L -> D] :
              f[0] = a /\ \A n \in 1..L : f[n] = step[n][f[n - 1]]
<1> DEFINE Up(k, f) == f[0] = a /\ \A n \in 1..k : f[n] = step[n][f[n - 1]]
           T == {k \in 0..L : ~ \E f \in [0..k -> D] : Up(k, f)}
<1>0. SUFFICES ASSUME T # {} PROVE FALSE
  <2>1. L \in 0..L /\ L \notin T
    BY <1>0
  <2> QED BY <2>1
<1>1. PICK k \in T : \A m \in T : k <= m
  <2>1. T \subseteq Nat
    OBVIOUS
  <2> HIDE DEF T
  <2> QED BY <1>0, <2>1, LeastNatural
<1>2. k # 0
  <2>1. Up(0, [n \in 0..0 |-> a])
    OBVIOUS
  <2> QED BY <1>1, <2>1
<1>3. PICK f \in [0..(k - 1) -> D] : Up(k - 1, f)
  <2>0. k \in 0..L
    OBVIOUS
  <2>1. k - 1 \in 0..L /\ ~(k <= k - 1)
    BY <1>2, <2>0
  <2>2. k - 1 \notin T
    BY <1>1, <2>1
  <2>3. ~ ~ \E f \in [0..(k - 1) -> D] : Up(k - 1, f)
    BY <2>1, <2>2
  <2> HIDE DEF Up
  <2> QED BY <2>3
<1> DEFINE g == [n \in 0..k |-> IF n = k THEN step[k][f[k - 1]] ELSE f[n]]
<1>4. f[k - 1] \in D /\ step[k][f[k - 1]] \in D
  BY <1>1, <1>2, <1>3
<1>5. g \in [0..k -> D]
  BY <1>1, <1>2, <1>3, <1>4
<1>6. Up(k, g)
  BY <1>1, <1>2, <1>3
<1> QED BY <1>1, <1>5, <1>6

\* Running sums exist.
LEMMA RunningSums ==
    ASSUME NEW L \in Nat, NEW c \in [1..L -> Nat]
    PROVE  \E f \in [0..L -> Nat] : f[0] = 0 /\ \A n \in 1..L : f[n] = f[n - 1] + c[n]
<1> DEFINE step == [n \in 1..L |-> [x \in Nat |-> x + c[n]]]
<1>1. step \in [1..L -> [Nat -> Nat]]
  OBVIOUS
<1>2. PICK f \in [0..L -> Nat] : f[0] = 0 /\ \A n \in 1..L : f[n] = step[n][f[n - 1]]
  <2> DEFINE D == Nat
             zero == 0
  <2>1. zero \in D /\ step \in [1..L -> [D -> D]]
    BY <1>1
  <2> HIDE DEF D, zero, step
  <2>2. \E f \in [0..L -> D] : f[0] = zero /\ \A n \in 1..L : f[n] = step[n][f[n - 1]]
    BY <2>1, Iterates, SMTT(60)
  <2> QED BY <2>2 DEF D, zero
<1>3. ASSUME NEW n \in 1..L PROVE f[n] = f[n - 1] + c[n]
  <2>1. f[n - 1] \in Nat
    BY <1>2
  <2> QED BY <1>2, <2>1
<1> QED BY <1>2, <1>3
=============================================================================
