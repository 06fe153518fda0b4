------------------------------ MODULE Induction ------------------------------
(***************************************************************************)
(* Induction over the natural numbers for sets instead of predicates, so   *)
(* that it can be cited, and that functions defined by recursion exist.    *)
(***************************************************************************)
EXTENDS Integers, FiniteSets, FiniteSetTheorems, WellFoundedInduction, TLAPS

\* Of a set of finite sets one has none of the others in it.
LEMMA MinimalSet ==
    ASSUME NEW S, S # {}, \A A \in S : IsFiniteSet(A)
    PROVE  \E A \in S : \A B \in S : B \subseteq A => B = A
<1> DEFINE U == UNION S
           R == StrictSubsetOrdering(U)
           F == FiniteSubsetsOf(U)
<1>1. IsWellFoundedOn(R, F)
  BY FS_StrictSubsetOrderingWellFounded
<1>2. S \subseteq F
  BY DEF FiniteSubsetsOf
<1> HIDE DEF R, F
<1>3. PICK A \in S : \A B \in S : ~(<<B, A>> \in R)
  BY <1>1, <1>2, WFMin
<1>4. ASSUME NEW B \in S, B \subseteq A PROVE B = A
  <2>1. <<B, A>> \notin R
    BY <1>3
  <2>2. <<B, A>> \in (SUBSET U) \X (SUBSET U)
    OBVIOUS
  <2> QED
    BY <1>4, <2>1, <2>2 DEF R, StrictSubsetOrdering
<1> QED
  BY <1>4

\* A set of natural numbers has a least one: the interval up to it is minimal.
LEMMA Least ==
    ASSUME NEW S \in SUBSET Nat, S # {}
    PROVE  \E n \in S : \A m \in S : n <= m
<1> DEFINE T == {0..n : n \in S}
<1>1. ASSUME NEW A \in T PROVE IsFiniteSet(A)
  <2>1. PICK n \in S : A = 0..n
    OBVIOUS
  <2> QED
    BY <2>1, FS_Interval
<1>2. T # {}
  <2>1. PICK n : n \in S
    OBVIOUS
  <2>2. 0..n \in T
    BY <2>1
  <2> QED
    BY <2>2
<1>3. PICK A \in T : \A B \in T : B \subseteq A => B = A
  <2> HIDE DEF T
  <2>1. \A A \in T : IsFiniteSet(A)
    BY <1>1
  <2> QED
    BY <1>2, <2>1, MinimalSet
<1>4. PICK n \in S : A = 0..n
  OBVIOUS
<1>5. ASSUME NEW m \in S, m < n PROVE FALSE
  <2>1. 0..m \in T /\ 0..m \subseteq 0..n
    BY <1>5
  <2>2. 0..m = 0..n
    BY <1>3, <1>4, <2>1
  <2> QED
    BY <1>5, <2>2
<1> QED
  BY <1>5

\* A set that holds 0, and with each number the next, holds them all.
LEMMA Induct ==
    ASSUME NEW S, 0 \in S, \A n \in Nat : n \in S => n + 1 \in S
    PROVE  Nat \subseteq S
<1> SUFFICES ASSUME Nat \ S # {} PROVE FALSE
  OBVIOUS
<1>1. PICK n \in Nat \ S : \A m \in Nat \ S : n <= m
  BY Least
<1>2. n # 0 /\ n - 1 \in Nat
  BY <1>1
<1>3. n - 1 \in S
  BY <1>1, <1>2
<1> QED
  BY <1>1, <1>2, <1>3

\* The same up to a bound.
LEMMA InductUpTo ==
    ASSUME NEW m \in Nat, NEW S, 0 \in S, \A n \in 0..(m - 1) : n \in S => n + 1 \in S
    PROVE  0..m \subseteq S
<1> DEFINE R == {n \in Nat : n <= m => n \in S}
<1>1. 0 \in R
  OBVIOUS
<1>2. ASSUME NEW n \in Nat, n \in R PROVE n + 1 \in R
  <2> SUFFICES ASSUME n + 1 <= m PROVE n + 1 \in S
    OBVIOUS
  <2>1. n \in 0..(m - 1) /\ n \in S
    BY <1>2
  <2> QED
    BY <2>1
<1> HIDE DEF R
<1>3. Nat \subseteq R
  BY <1>1, <1>2, Induct
<1> QED
  BY <1>3 DEF R

\* f starts with base and goes on from i - 1 to i by step[i].
Follows(f, m, base, step) == f[0] = base /\ \A i \in 1..m : f[i] = step[i][f[i - 1]]

\* There is such a function.
LEMMA Recursion ==
    ASSUME NEW V, NEW base \in V, NEW m \in Nat, NEW step \in [1..m -> [V -> V]]
    PROVE  \E f \in [0..m -> V] : Follows(f, m, base, step)
<1> USE DEF Follows
<1> DEFINE S == {k \in 0..m : \E f \in [0..k -> V] : Follows(f, k, base, step)}
<1>1. 0 \in S
  <2> DEFINE g == [i \in 0..0 |-> base]
  <2>1. g \in [0..0 -> V] /\ Follows(g, 0, base, step)
    OBVIOUS
  <2> HIDE DEF g
  <2> QED
    BY <2>1
<1>2. ASSUME NEW k \in 0..(m - 1), k \in S PROVE k + 1 \in S
  <2>1. PICK f \in [0..k -> V] : Follows(f, k, base, step)
    BY <1>2
  <2> DEFINE last == step[k + 1][f[k]]
             g == [i \in 0..(k + 1) |-> IF i <= k THEN f[i] ELSE last]
  <2>2. last \in V
    OBVIOUS
  <2> HIDE DEF last
  <2>3. g \in [0..(k + 1) -> V]
    BY <2>2
  <2>4. g[0] = base
    BY <2>1
  <2>5. ASSUME NEW i \in 1..(k + 1) PROVE g[i] = step[i][g[i - 1]]
    <3>1. CASE i <= k
      BY <2>1, <3>1
    <3>2. CASE i = k + 1
      <4>1. g[i - 1] = f[k] /\ g[i] = last
        BY <3>2
      <4> QED
        BY <3>2, <4>1 DEF last
    <3> QED
      BY <3>1, <3>2
  <2> HIDE DEF g
  <2>6. Follows(g, k + 1, base, step)
    BY <2>4, <2>5
  <2>7. k + 1 \in 0..m
    OBVIOUS
  <2> QED
    BY <2>3, <2>6, <2>7
<1>3. m \in S
  <2> HIDE DEF S
  <2>1. 0..m \subseteq S
    BY <1>1, <1>2, InductUpTo
  <2> QED
    BY <2>1
<1> QED
  BY <1>3
=============================================================================
