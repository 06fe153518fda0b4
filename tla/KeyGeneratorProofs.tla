------------------------- MODULE KeyGeneratorProofs -------------------------
(***************************************************************************)
(* For every deployment <<n, t>>: nChoosek counts subsets, the search      *)
(* writes each t-subset of the servers once, in lexicographic order, and   *)
(* the closed form Omega numbers them in the same way.                     *)
(***************************************************************************)
EXTENDS KeyGenerator, Induction

-----------------------------------------------------------------------------
(* Subsets of a size.                                                      *)

\* How many of size k a set of m has.
SubsetCount(m, k) == Cardinality(kSubset(k, 0..(m - 1)))

\* They are finitely many.
LEMMA SubsetsFinite ==
    ASSUME NEW S, IsFiniteSet(S), NEW k
    PROVE  /\ IsFiniteSet(kSubset(k, S)) /\ Cardinality(kSubset(k, S)) \in Nat
           /\ \A c \in kSubset(k, S) : c \subseteq S /\ IsFiniteSet(c) /\ Cardinality(c) = k
<1>1. IsFiniteSet(SUBSET S)
  BY FS_SUBSET
<1>2. kSubset(k, S) \in SUBSET SUBSET S
  BY DEF kSubset
<1>3. IsFiniteSet(kSubset(k, S))
  BY <1>1, <1>2, FS_Subset
<1>4. \A c \in SUBSET S : IsFiniteSet(c)
  BY FS_Subset
<1> QED
  BY <1>3, <1>4, FS_CardinalityType DEF kSubset

\* Those that have x in them are the smaller ones of the rest, with x.
LEMMA WithElement ==
    ASSUME NEW S, IsFiniteSet(S), NEW x \in S, NEW k \in Nat
    PROVE  Cardinality({c \in kSubset(k + 1, S) : x \in c}) = Cardinality(kSubset(k, S \ {x}))
<1> DEFINE A == kSubset(k, S \ {x})
           B == {c \in kSubset(k + 1, S) : x \in c}
           f == [c \in A |-> c \cup {x}]
<1>1. IsFiniteSet(S \ {x})
  BY FS_RemoveElement
<1>2. IsFiniteSet(A)
  BY <1>1, SubsetsFinite
<1>3. ASSUME NEW c \in A PROVE c \cup {x} \in B
  <2>1. c \subseteq S \ {x} /\ IsFiniteSet(c) /\ Cardinality(c) = k
    BY <1>1, SubsetsFinite
  <2>2. Cardinality(c \cup {x}) = k + 1
    BY <2>1, FS_AddElement
  <2> QED
    BY <2>1, <2>2 DEF kSubset
<1>4. ASSUME NEW b \in B PROVE b \ {x} \in A /\ (b \ {x}) \cup {x} = b
  <2>1. b \subseteq S /\ IsFiniteSet(b) /\ Cardinality(b) = k + 1 /\ x \in b
    BY SubsetsFinite
  <2>2. Cardinality(b \ {x}) = k
    <3>1. Cardinality(b \ {x}) = IF x \in b THEN Cardinality(b) - 1 ELSE Cardinality(b)
      BY <2>1, FS_RemoveElement
    <3> QED
      BY <2>1, <3>1
  <2> QED
    BY <2>1, <2>2 DEF kSubset
<1>5. \A c \in A : x \notin c
  BY DEF kSubset
<1> HIDE DEF A, B
<1>6. f \in Injection(A, B)
  <2>1. \A a \in A : (a \cup {x}) \ {x} = a
    BY <1>5
  <2>2. f \in [A -> B] /\ \A a \in A : f[a] = a \cup {x}
    BY <1>3
  <2> HIDE DEF f
  <2>3. ASSUME NEW a \in A, NEW b \in A, f[a] = f[b] PROVE a = b
    <3>1. a \cup {x} = b \cup {x}
      BY <2>2, <2>3
    <3>2. (a \cup {x}) \ {x} = a /\ (b \cup {x}) \ {x} = b
      BY <2>1
    <3> QED
      BY <3>1, <3>2
  <2> QED
    BY <2>2, <2>3 DEF Injection, IsInjective
<1>7. f \in Surjection(A, B)
  BY <1>3, <1>4 DEF Surjection
<1>8. ExistsBijection(A, B)
  BY <1>6, <1>7 DEF ExistsBijection, Bijection
<1> QED
  BY <1>2, <1>8, FS_Bijection DEF A, B

\* Pascal's rule.
LEMMA Pascal ==
    ASSUME NEW S, IsFiniteSet(S), NEW x \in S, NEW k \in Nat
    PROVE  Cardinality(kSubset(k + 1, S)) =
             Cardinality(kSubset(k + 1, S \ {x})) + Cardinality(kSubset(k, S \ {x}))
<1> DEFINE A == kSubset(k + 1, S \ {x})
           B == {c \in kSubset(k + 1, S) : x \in c}
<1>1. IsFiniteSet(S \ {x})
  BY FS_RemoveElement
<1>2. IsFiniteSet(A) /\ Cardinality(A) \in Nat
  BY <1>1, SubsetsFinite
<1>3. IsFiniteSet(B) /\ Cardinality(B) \in Nat
  <2>1. IsFiniteSet(kSubset(k + 1, S))
    BY SubsetsFinite
  <2>2. IsFiniteSet(B)
    BY <2>1, FS_Subset
  <2> QED
    BY <2>2, FS_CardinalityType
<1>4. kSubset(k + 1, S) = A \cup B /\ A \cap B = {}
  BY DEF kSubset
<1> HIDE DEF A, B
<1>5. Cardinality(A \cup B) = Cardinality(A) + Cardinality(B) - Cardinality(A \cap B)
  BY <1>2, <1>3, FS_Union
<1>6. Cardinality(A \cap B) = 0
  BY <1>4, FS_EmptySet
<1>7. Cardinality(B) = Cardinality(kSubset(k, S \ {x}))
  BY WithElement DEF B
<1>8. Cardinality(A \cup B) = Cardinality(A) + Cardinality(B)
  BY <1>2, <1>3, <1>5, <1>6
<1> QED
  BY <1>4, <1>7, <1>8 DEF A

\* The empty set is the only one of size 0.
LEMMA NoneChosen ==
    ASSUME NEW S, IsFiniteSet(S) PROVE Cardinality(kSubset(0, S)) = 1
<1>1. \A c \in SUBSET S : Cardinality(c) = 0 <=> c = {}
  BY FS_Subset, FS_EmptySet
<1>2. kSubset(0, S) = {{}}
  BY <1>1 DEF kSubset
<1> QED
  BY <1>2, FS_Singleton

\* None is larger than the set.
LEMMA TooMany ==
    ASSUME NEW S, IsFiniteSet(S), NEW k \in Nat, k > Cardinality(S)
    PROVE  Cardinality(kSubset(k, S)) = 0
<1>1. Cardinality(S) \in Nat
  BY FS_CardinalityType
<1>2. ASSUME NEW c \in kSubset(k, S) PROVE FALSE
  <2>1. c \in SUBSET S /\ Cardinality(c) = k
    BY DEF kSubset
  <2>2. Cardinality(c) <= Cardinality(S)
    BY <2>1, FS_Subset
  <2> QED
    BY <1>1, <2>1, <2>2
<1>3. kSubset(k, S) = {}
  BY <1>2
<1> QED
  BY <1>3, FS_EmptySet

\* Their number depends on the size of the set alone.
LEMMA ChoicesOfSize ==
    ASSUME NEW S, IsFiniteSet(S), NEW k \in Nat
    PROVE  Cardinality(kSubset(k, S)) = SubsetCount(Cardinality(S), k)
<1> DEFINE Good == {m \in Nat : \A R, Q : IsFiniteSet(R) /\ IsFiniteSet(Q)
                      /\ Cardinality(R) = m /\ Cardinality(Q) = m =>
                        \A j \in Nat : Cardinality(kSubset(j, R)) = Cardinality(kSubset(j, Q))}
<1>1. 0 \in Good
  <2>1. ASSUME NEW R, NEW Q, IsFiniteSet(R), IsFiniteSet(Q), Cardinality(R) = 0, Cardinality(Q) = 0
        PROVE  R = Q
    BY <2>1, FS_EmptySet
  <2> QED
    BY <2>1
<1>2. ASSUME NEW m \in Nat, m \in Good PROVE m + 1 \in Good
  <2> SUFFICES ASSUME NEW R, NEW Q, IsFiniteSet(R), IsFiniteSet(Q),
                      Cardinality(R) = m + 1, Cardinality(Q) = m + 1, NEW j \in Nat
               PROVE  Cardinality(kSubset(j, R)) = Cardinality(kSubset(j, Q))
    BY DEF Good
  <2>1. PICK x : x \in R
    BY FS_EmptySet
  <2>2. PICK y : y \in Q
    BY FS_EmptySet
  <2>3. /\ IsFiniteSet(R \ {x}) /\ Cardinality(R \ {x}) = m
        /\ IsFiniteSet(Q \ {y}) /\ Cardinality(Q \ {y}) = m
    <3>1. /\ IsFiniteSet(R \ {x})
          /\ Cardinality(R \ {x}) = IF x \in R THEN Cardinality(R) - 1 ELSE Cardinality(R)
      BY FS_RemoveElement
    <3>2. /\ IsFiniteSet(Q \ {y})
          /\ Cardinality(Q \ {y}) = IF y \in Q THEN Cardinality(Q) - 1 ELSE Cardinality(Q)
      BY FS_RemoveElement
    <3> QED
      BY <2>1, <2>2, <3>1, <3>2
  <2>4. \A i \in Nat : Cardinality(kSubset(i, R \ {x})) = Cardinality(kSubset(i, Q \ {y}))
    BY <1>2, <2>3
  <2>5. CASE j = 0
    BY <2>5, NoneChosen
  <2>6. CASE j # 0
    <3> DEFINE i == j - 1
    <3>1. i \in Nat /\ i + 1 = j
      BY <2>6
    <3> HIDE DEF i
    <3>2. /\ Cardinality(kSubset(i + 1, R)) =
               Cardinality(kSubset(i + 1, R \ {x})) + Cardinality(kSubset(i, R \ {x}))
          /\ Cardinality(kSubset(i + 1, Q)) =
               Cardinality(kSubset(i + 1, Q \ {y})) + Cardinality(kSubset(i, Q \ {y}))
      BY <2>1, <2>2, <3>1, Pascal
    <3> QED
      BY <2>4, <3>1, <3>2
  <2> QED
    BY <2>5, <2>6
<1> HIDE DEF Good
<1>3. Nat \subseteq Good
  BY <1>1, <1>2, Induct
<1>4. Cardinality(S) \in Nat
  BY FS_CardinalityType
<1> DEFINE Q == 0..(Cardinality(S) - 1)
<1>5. IsFiniteSet(Q) /\ Cardinality(Q) = Cardinality(S)
  BY <1>4, FS_Interval
<1>6. Cardinality(S) \in Good
  BY <1>3, <1>4
<1> HIDE DEF Q
<1>7. Cardinality(kSubset(k, S)) = Cardinality(kSubset(k, Q))
  BY <1>5, <1>6 DEF Good
<1> QED
  BY <1>7 DEF Q, SubsetCount

-----------------------------------------------------------------------------
(* Binomial numbers.                                                       *)

\* The boundary, and Pascal's rule for the numbers.
LEMMA ChoicesRules ==
    ASSUME NEW m \in Nat
    PROVE  /\ \A k \in Nat : SubsetCount(m, k) \in Nat
           /\ SubsetCount(m, 0) = 1
           /\ \A k \in Nat : k > m => SubsetCount(m, k) = 0
           /\ \A k \in Nat : SubsetCount(m + 1, k + 1) = SubsetCount(m, k + 1) + SubsetCount(m, k)
<1> DEFINE S == 0..(m - 1)
           R == 0..((m + 1) - 1)
<1>1. /\ IsFiniteSet(S) /\ Cardinality(S) = m
      /\ IsFiniteSet(R) /\ m \in R /\ R \ {m} = S
  <2>1. IsFiniteSet(S) /\ Cardinality(S) = m /\ IsFiniteSet(R)
    BY FS_Interval
  <2> QED
    BY <2>1
<1> HIDE DEF S, R
<1>2. \A k \in Nat : SubsetCount(m, k) = Cardinality(kSubset(k, S))
                     /\ SubsetCount(m + 1, k) = Cardinality(kSubset(k, R))
  BY DEF SubsetCount, S, R
<1>3. \A k \in Nat : SubsetCount(m, k) \in Nat
  BY <1>1, <1>2, SubsetsFinite
<1>4. SubsetCount(m, 0) = 1
  BY <1>1, <1>2, NoneChosen
<1>5. \A k \in Nat : k > m => SubsetCount(m, k) = 0
  BY <1>1, <1>2, TooMany
<1>6. ASSUME NEW k \in Nat PROVE SubsetCount(m + 1, k + 1) = SubsetCount(m, k + 1) + SubsetCount(m, k)
  <2>1. Cardinality(kSubset(k + 1, R)) =
          Cardinality(kSubset(k + 1, R \ {m})) + Cardinality(kSubset(k, R \ {m}))
    BY <1>1, Pascal
  <2> QED
    BY <1>1, <1>2, <2>1
<1> QED
  BY <1>3, <1>4, <1>5, <1>6

\* A round of nChoosek's loop: from k factors to k + 1.
LEMMA OneMoreFactor ==
    ASSUME NEW m \in Nat, NEW k \in Nat
    PROVE  (k + 1) * SubsetCount(m, k + 1) = (m - k) * SubsetCount(m, k)
<1> DEFINE Good == {q \in Nat : \A j \in Nat :
                      (j + 1) * SubsetCount(q, j + 1) = (q - j) * SubsetCount(q, j)}
<1>1. 0 \in Good
  <2> SUFFICES ASSUME NEW j \in Nat PROVE (j + 1) * SubsetCount(0, j + 1) = (0 - j) * SubsetCount(0, j)
    OBVIOUS
  <2>1. SubsetCount(0, j + 1) = 0 /\ (j # 0 => SubsetCount(0, j) = 0) /\ SubsetCount(0, j) \in Nat
    BY ChoicesRules
  <2> QED
    BY <2>1
<1>2. ASSUME NEW q \in Nat, q \in Good PROVE q + 1 \in Good
  <2> SUFFICES ASSUME NEW j \in Nat
               PROVE  (j + 1) * SubsetCount(q + 1, j + 1) = ((q + 1) - j) * SubsetCount(q + 1, j)
    OBVIOUS
  <2>1. CASE j = 0
    <3>1. SubsetCount(q + 1, 1) = SubsetCount(q, 1) + SubsetCount(q, 0)
      <4>1. SubsetCount(q + 1, 0 + 1) = SubsetCount(q, 0 + 1) + SubsetCount(q, 0)
        BY ChoicesRules
      <4> QED
        BY <4>1
    <3>2. SubsetCount(q, 0) = 1 /\ SubsetCount(q + 1, 0) = 1 /\ SubsetCount(q, 1) \in Nat
      BY ChoicesRules
    <3>3. (0 + 1) * SubsetCount(q, 0 + 1) = (q - 0) * SubsetCount(q, 0)
      BY <1>2
    <3> QED
      BY <2>1, <3>1, <3>2, <3>3
  <2>2. CASE j # 0
    <3> DEFINE i == j - 1
               a == SubsetCount(q, i)
               b == SubsetCount(q, i + 1)
               c == SubsetCount(q, i + 1 + 1)
    <3>1. i \in Nat /\ j = i + 1
      BY <2>2
    <3> HIDE DEF i
    <3>2. a \in Nat /\ b \in Nat /\ c \in Nat
      <4>1. \A l \in Nat : SubsetCount(q, l) \in Nat
        BY ChoicesRules
      <4>2. i \in Nat /\ i + 1 \in Nat /\ i + 1 + 1 \in Nat
        BY <3>1
      <4> QED
        BY <4>1, <4>2
    <3>3. (i + 1) * b = (q - i) * a
      BY <1>2, <3>1
    <3>4. (i + 1 + 1) * c = (q - (i + 1)) * b
      BY <1>2, <3>1
    <3>5. SubsetCount(q + 1, i + 1) = b + a
      BY <3>1, ChoicesRules
    <3>6. SubsetCount(q + 1, i + 1 + 1) = c + b
      <4>1. \A l \in Nat : SubsetCount(q + 1, l + 1) = SubsetCount(q, l + 1) + SubsetCount(q, l)
        BY ChoicesRules
      <4> QED
        BY <3>1, <4>1
    <3> HIDE DEF a, b, c
    <3>7. (i + 1 + 1) * (c + b) = ((q + 1) - (i + 1)) * (b + a)
      BY <3>1, <3>2, <3>3, <3>4
    <3> QED
      BY <3>1, <3>5, <3>6, <3>7
  <2> QED
    BY <2>1, <2>2
<1> HIDE DEF Good
<1>3. Nat \subseteq Good
  BY <1>1, <1>2, Induct
<1> QED
  BY <1>3 DEF Good

\* Choosing is choosing what to leave.
LEMMA ChoicesMirror ==
    ASSUME NEW m \in Nat, NEW k \in 0..m PROVE SubsetCount(m, k) = SubsetCount(m, m - k)
<1> DEFINE Good == {q \in Nat : \A j \in 0..q : SubsetCount(q, j) = SubsetCount(q, q - j)}
<1>1. 0 \in Good
  OBVIOUS
<1>2. ASSUME NEW q \in Nat, q \in Good PROVE q + 1 \in Good
  <2> SUFFICES ASSUME NEW j \in 0..(q + 1) PROVE SubsetCount(q + 1, j) = SubsetCount(q + 1, (q + 1) - j)
    OBVIOUS
  <2>1. SubsetCount(q + 1, 0) = 1 /\ SubsetCount(q + 1, q + 1) = 1
    <3>1. SubsetCount(q, 0) = 1 /\ SubsetCount(q, q + 1) = 0 /\ SubsetCount(q + 1, 0) = 1
      <4>1. q + 1 \in Nat /\ q + 1 > q
        OBVIOUS
      <4>2. \A l \in Nat : l > q => SubsetCount(q, l) = 0
        BY ChoicesRules
      <4> QED
        BY <4>1, <4>2, ChoicesRules
    <3>2. SubsetCount(q, 0) = SubsetCount(q, q - 0)
      BY <1>2
    <3>3. SubsetCount(q + 1, q + 1) = SubsetCount(q, q + 1) + SubsetCount(q, q)
      BY ChoicesRules
    <3> QED
      BY <3>1, <3>2, <3>3
  <2>2. CASE j = 0 \/ j = q + 1
    BY <2>1, <2>2
  <2>3. CASE j \in 1..q
    <3> DEFINE i == j - 1
               l == q - j
    <3>1. i \in Nat /\ l \in Nat /\ j = i + 1 /\ (q + 1) - j = l + 1
          /\ i \in 0..q /\ j \in 0..q /\ q - i = l + 1 /\ q - j = l
      BY <2>3
    <3> HIDE DEF i, l
    <3>2. SubsetCount(q, i) = SubsetCount(q, l + 1) /\ SubsetCount(q, j) = SubsetCount(q, l)
      BY <1>2, <3>1
    <3>3. /\ SubsetCount(q + 1, i + 1) = SubsetCount(q, i + 1) + SubsetCount(q, i)
          /\ SubsetCount(q + 1, l + 1) = SubsetCount(q, l + 1) + SubsetCount(q, l)
      <4>1. \A p \in Nat : SubsetCount(q + 1, p + 1) = SubsetCount(q, p + 1) + SubsetCount(q, p)
        BY ChoicesRules
      <4> QED
        BY <3>1, <4>1
    <3>4. SubsetCount(q, l) \in Nat /\ SubsetCount(q, l + 1) \in Nat
      <4>1. \A p \in Nat : SubsetCount(q, p) \in Nat
        BY ChoicesRules
      <4> QED
        BY <3>1, <4>1
    <3> QED
      BY <3>1, <3>2, <3>3, <3>4
  <2> QED
    BY <2>2, <2>3
<1> HIDE DEF Good
<1>3. Nat \subseteq Good
  BY <1>1, <1>2, Induct
<1> QED
  BY <1>3 DEF Good

\* A number times a positive one, divided by it again.
LEMMA Divided ==
    ASSUME NEW b \in Nat \ {0}, NEW x \in Nat PROVE (b * x) \div b = x
  OBVIOUS

\* After its round i the loop of nChoosek has the number of subsets of size i.
LEMMA LoopCounts ==
    ASSUME NEW m \in Nat, NEW k \in 1..m
    PROVE  LET result[i \in 1..k] == IF i = 1 THEN m ELSE (result[i - 1] * (m - i + 1)) \div i
           IN result[k] = SubsetCount(m, k)
<1> DEFINE round(u, i) == IF i = 1 THEN m ELSE (u[i - 1] * (m - i + 1)) \div i
           Rule(u) == [i \in 1..k |-> round(u, i)]
           f == [i \in 1..k |-> SubsetCount(m, i)]
           g == CHOOSE u : u = Rule(u)
<1>1. SubsetCount(m, 1) = m
  <2>1. (0 + 1) * SubsetCount(m, 0 + 1) = (m - 0) * SubsetCount(m, 0)
    BY OneMoreFactor
  <2>2. SubsetCount(m, 0) = 1 /\ SubsetCount(m, 1) \in Nat
    BY ChoicesRules
  <2> QED
    BY <2>1, <2>2
<1>2. ASSUME NEW i \in 2..k PROVE SubsetCount(m, i) = (SubsetCount(m, i - 1) * (m - i + 1)) \div i
  <2> DEFINE j == i - 1
             a == SubsetCount(m, j)
             b == SubsetCount(m, i)
  <2>1. j \in Nat /\ j + 1 = i /\ m - i + 1 = m - j /\ i \in Nat \ {0} /\ m - j \in Nat
    OBVIOUS
  <2>2. (j + 1) * SubsetCount(m, j + 1) = (m - j) * SubsetCount(m, j)
    BY <2>1, OneMoreFactor
  <2>3. a \in Nat /\ b \in Nat
    BY <2>1, ChoicesRules
  <2> HIDE DEF a, b, j
  <2>4. i * b = (m - j) * a
    BY <2>1, <2>2 DEF a, b
  <2>5. a * (m - j) = i * b
    BY <2>1, <2>3, <2>4
  <2>6. (i * b) \div i = b
    BY <2>1, <2>3, Divided
  <2> QED
    BY <2>1, <2>5, <2>6 DEF a, b, j
<1>3. f = Rule(f)
  <2>1. ASSUME NEW i \in 1..k PROVE f[i] = round(f, i)
    <3>1. CASE i = 1
      BY <1>1, <3>1
    <3>2. CASE i # 1
      <4>1. i \in 2..k /\ i - 1 \in 1..k
        BY <3>2
      <4>2. f[i] = SubsetCount(m, i) /\ f[i - 1] = SubsetCount(m, i - 1)
        BY <4>1
      <4> HIDE DEF f
      <4> QED
        BY <1>2, <3>2, <4>1, <4>2
    <3> QED
      BY <3>1, <3>2
  <2> HIDE DEF round
  <2> QED
    BY <2>1
<1>4. g = Rule(g)
  <2> HIDE DEF Rule
  <2> QED
    BY <1>3
<1> HIDE DEF g
<1>5. \A i \in 1..k : g[i] = round(g, i)
  BY <1>4
<1> DEFINE Good == {i \in 0..k : i # 0 => g[i] = SubsetCount(m, i)}
<1>6. 0 \in Good
  OBVIOUS
<1>7. ASSUME NEW i \in 0..(k - 1), i \in Good PROVE i + 1 \in Good
  <2>1. i + 1 \in 1..k
    OBVIOUS
  <2>2. CASE i = 0
    BY <1>1, <1>5, <2>1, <2>2
  <2>3. CASE i # 0
    <3> DEFINE j == i + 1
    <3>1. j \in 1..k /\ j \in 2..k /\ j - 1 = i /\ j # 1 /\ j \in 0..k
      BY <2>3
    <3>2. g[i] = SubsetCount(m, i)
      BY <1>7, <2>3
    <3> HIDE DEF j
    <3>3. g[j] = (g[j - 1] * (m - j + 1)) \div j
      BY <1>5, <3>1
    <3>4. g[j] = SubsetCount(m, j)
      BY <1>2, <3>1, <3>2, <3>3
    <3> QED
      BY <3>1, <3>4 DEF j
  <2> QED
    BY <2>2, <2>3
<1> HIDE DEF Good
<1>8. k \in Good
  <2>1. k \in Nat
    OBVIOUS
  <2>2. 0..k \subseteq Good
    BY <1>6, <1>7, <2>1, InductUpTo
  <2> QED
    BY <2>1, <2>2
<1>9. g[k] = SubsetCount(m, k)
  BY <1>8 DEF Good
<1> QED
  BY <1>9 DEF g

\* So nChoosek, which multiplies and divides and takes the smaller k, counts subsets.
LEMMA NChooseKCounts ==
    ASSUME NEW m \in Nat, NEW k \in Nat PROVE NChooseK(m, k) = SubsetCount(m, k)
<1> DEFINE q == IF 2 * k > m THEN m - k ELSE k
<1>1. CASE k > m
  <2>1. NChooseK(m, k) = 0
    BY <1>1 DEF NChooseK
  <2> QED
    BY <1>1, <2>1, ChoicesRules
<1>2. CASE k <= m
  <2>1. q \in 0..m /\ SubsetCount(m, q) = SubsetCount(m, k)
    BY <1>2, ChoicesMirror
  <2>2. CASE q = 0
    <3>1. NChooseK(m, k) = 1
      BY <1>2, <2>2 DEF NChooseK
    <3> QED
      BY <2>1, <2>2, <3>1, ChoicesRules
  <2>3. CASE q # 0
    <3> DEFINE value(p) == LET result[i \in 1..p] ==
                                 IF i = 1 THEN m ELSE (result[i - 1] * (m - i + 1)) \div i
                           IN result[p]
    <3>1. NChooseK(m, k) = value(q)
      BY <1>2, <2>3 DEF NChooseK
    <3>2. q \in 1..m
      BY <2>1, <2>3
    <3> HIDE DEF q
    <3>3. value(q) = SubsetCount(m, q)
      BY <3>2, LoopCounts
    <3> QED
      BY <2>1, <3>1, <3>3
  <2> QED
    BY <2>2, <2>3
<1> QED
  BY <1>1, <1>2

\* Every element is in as many subsets of size k as there are of size k - 1 of the rest;
\* together that is k times their number.
LEMMA Absorbed ==
    ASSUME NEW m \in Nat \ {0}, NEW k \in Nat \ {0}
    PROVE  k * SubsetCount(m, k) = m * SubsetCount(m - 1, k - 1)
<1> DEFINE q == m - 1
           j == k - 1
           a == SubsetCount(q, j)
           b == SubsetCount(q, j + 1)
<1>1. q \in Nat /\ j \in Nat /\ m = q + 1 /\ k = j + 1
  OBVIOUS
<1> HIDE DEF q, j
<1>2. a \in Nat /\ b \in Nat
  BY <1>1, ChoicesRules
<1>3. SubsetCount(q + 1, j + 1) = b + a
  BY <1>1, ChoicesRules
<1>4. (j + 1) * b = (q - j) * a
  BY <1>1, OneMoreFactor
<1> HIDE DEF a, b
<1>5. (j + 1) * (b + a) = (q + 1) * a
  BY <1>1, <1>2, <1>4
<1> QED
  BY <1>1, <1>3, <1>5 DEF a, q, j

-----------------------------------------------------------------------------
(* The inductive invariant.                                                *)

\* With the servers of chosen taken and p next, the search has been at all subsets that
\* come before them: where such a one differs first, it has the smaller server.
Seen(c, chosen, p) == \E s \in c \ chosen : s < p /\ \A r \in chosen \ c : s < r

Subsets == kSubset(t, Machines)
Chosen  == {frames[i] : i \in 1..combo_idx}
Done    == {c \in Subsets : frames # <<>> => Seen(c, Chosen, frames[combo_idx + 1])}
Number(c) == Reference(n, t)!KeyOf(c)

Types ==
    /\ <<n, t>> \in Deployments
    /\ key_idx \in Nat
    /\ omega_matrix \in [0..(n * kpm - 1) -> Nat]
    /\ omega_col_idxs \in [Machines -> Nat]
    /\ server_combo \in [0..(t - 1) -> Machines]
    /\ frames \in Seq(0..n)

\* The calls on the stack hold ever larger servers, and the shared array holds them too.
StackInv ==
    /\ Len(frames) <= t + 1
    /\ \A i, j \in 1..Len(frames) : i < j => frames[i] < frames[j]
    /\ frames # <<>> => \A i \in 1..combo_idx : server_combo[i - 1] = frames[i]
    /\ frames # <<>> => Cardinality(Chosen) = combo_idx

\* What has been written: of the subsets seen, each under its number.
WrittenInv ==
    /\ key_idx = Cardinality(Done)
    /\ \A s \in Machines :
         /\ omega_col_idxs[s] = Cardinality({c \in Done : s \in c})
         /\ Row(s) = {Number(c) : c \in {d \in Done : s \in d}}
    /\ \A k \in 0..(key_idx - 1) : \E c \in Done : Number(c) = k
    /\ \A c \in Done : Number(c) \in 0..(key_idx - 1)
    /\ \A c, d \in Done : Number(c) = Number(d) => c = d

SearchInv == Types /\ StackInv /\ WrittenInv

-----------------------------------------------------------------------------
(* Where the search has been.                                              *)

\* To take a server does not add to the subsets seen.
LEMMA SeenTaken ==
    ASSUME NEW chosen \in SUBSET Int, NEW c \in SUBSET Int, NEW p \in Int
    PROVE  Seen(c, chosen \cup {p}, p + 1) <=> Seen(c, chosen, p)
  BY DEF Seen

\* To return from the servers chosen and q to the one after q adds the subsets that hold
\* them all and nothing else before p.
LEMMA SeenReturned ==
    ASSUME NEW chosen \in SUBSET Int, NEW c \in SUBSET Int, NEW q \in Int, NEW p \in Int,
           q < p, \A r \in chosen : r < q
    PROVE  Seen(c, chosen, q + 1) <=>
             \/ Seen(c, chosen \cup {q}, p)
             \/ chosen \cup {q} \subseteq c /\ \A s \in c \ (chosen \cup {q}) : p <= s
<1> DEFINE more == chosen \cup {q}
<1>1. ASSUME Seen(c, chosen, q + 1), ~Seen(c, more, p)
      PROVE  more \subseteq c /\ \A s \in c \ more : p <= s
  <2>1. PICK s \in c \ chosen : s < q + 1 /\ \A r \in chosen \ c : s < r
    BY <1>1 DEF Seen
  <2>2. s = q
    <3>1. s < q => Seen(c, more, p)
      BY <2>1 DEF Seen
    <3> QED
      BY <1>1, <2>1, <3>1
  <2>3. more \subseteq c
    BY <2>1, <2>2
  <2>4. ASSUME NEW r \in c \ more, r < p PROVE FALSE
    BY <1>1, <2>3, <2>4 DEF Seen
  <2> QED
    BY <2>3, <2>4
<1>2. ASSUME more \subseteq c PROVE Seen(c, chosen, q + 1)
  BY <1>2 DEF Seen
<1>3. ASSUME Seen(c, more, p) PROVE Seen(c, chosen, q + 1)
  <2>1. PICK s \in c \ more : s < p /\ \A r \in more \ c : s < r
    BY <1>3 DEF Seen
  <2>2. CASE s < q
    BY <2>1, <2>2 DEF Seen
  <2>3. CASE ~(s < q)
    <3>1. more \subseteq c
      BY <2>1, <2>3
    <3> QED
      BY <1>2, <3>1
  <2> QED
    BY <2>2, <2>3
<1> QED
  BY <1>1, <1>2, <1>3

\* With all servers taken, the subsets seen are those before them in the order.
LEMMA SeenIsBefore ==
    ASSUME NEW chosen \in SUBSET Nat, NEW c \in SUBSET Nat, NEW p \in Int,
           IsFiniteSet(chosen), IsFiniteSet(c), Cardinality(c) = Cardinality(chosen),
           \A r \in chosen : r < p
    PROVE  Seen(c, chosen, p) <=>
             \E s \in c \ chosen : \A r \in (c \ chosen) \cup (chosen \ c) : s <= r
<1>1. ASSUME Seen(c, chosen, p)
      PROVE  \E s \in c \ chosen : \A r \in (c \ chosen) \cup (chosen \ c) : s <= r
  <2>1. PICK s \in c \ chosen : s < p /\ \A r \in chosen \ c : s < r
    BY <1>1 DEF Seen
  <2>2. PICK l \in c \ chosen : \A r \in c \ chosen : l <= r
    <3>1. c \ chosen \in SUBSET Nat /\ c \ chosen # {}
      BY <2>1
    <3> QED
      BY <3>1, Least
  <2> QED
    BY <2>1, <2>2
<1>2. ASSUME NEW s \in c \ chosen, \A r \in (c \ chosen) \cup (chosen \ c) : s <= r
      PROVE  Seen(c, chosen, p)
  <2>1. PICK r \in chosen : r \notin c
    <3>1. chosen \in SUBSET c => c = chosen
      BY FS_Subset
    <3> QED
      BY <1>2, <3>1
  <2>2. \A q \in chosen \ c : s < q
    BY <1>2
  <2>3. s < r /\ r < p /\ s \in Nat /\ r \in Nat
    BY <2>1, <2>2
  <2> QED
    BY <2>2, <2>3 DEF Seen
<1> QED
  BY <1>1, <1>2

-----------------------------------------------------------------------------
(* Sizes and cells.                                                        *)

\* The closed form's subsets and numbers, for a deployment.
LEMMA ReferenceSubsets ==
    ASSUME NEW m, NEW k
    PROVE  /\ Reference(m, k)!Combos = kSubset(k, 0..(m - 1))
           /\ Reference(m, k)!OmegaKeyCount = Cardinality(kSubset(k, 0..(m - 1)))
           /\ \A c : Reference(m, k)!KeyOf(c) =
                Cardinality({d \in kSubset(k, 0..(m - 1)) : Reference(m, k)!LexBefore(d, c)})
<1>1. \A S : Reference(m, k)!Cardinality(S) = Cardinality(S)
  BY DEF Reference!Cardinality, Cardinality
<1>2. Reference(m, k)!Combos = kSubset(k, 0..(m - 1))
  BY <1>1 DEF Reference!Combos, Reference!OmegaServers, Reference!kSubset, kSubset
<1>3. Reference(m, k)!OmegaKeyCount = Cardinality(kSubset(k, 0..(m - 1)))
  BY <1>1, <1>2 DEF Reference!OmegaKeyCount
<1>4. ASSUME NEW c
      PROVE  Reference(m, k)!KeyOf(c) =
               Cardinality({d \in kSubset(k, 0..(m - 1)) : Reference(m, k)!LexBefore(d, c)})
  BY <1>1, <1>2 DEF Reference!KeyOf
<1> QED
  BY <1>2, <1>3, <1>4

\* The first m numbers.
LEMMA FirstNumbers ==
    ASSUME NEW m \in Nat PROVE IsFiniteSet(0..(m - 1)) /\ Cardinality(0..(m - 1)) = m
  BY FS_Interval

\* The deployment, and how many subsets there are to write.
LEMMA Sizes ==
    ASSUME <<n, t>> \in Deployments
    PROVE  /\ n \in Nat /\ t \in Nat /\ 1 <= t /\ t <= n
           /\ IsFiniteSet(Machines) /\ Cardinality(Machines) = n
           /\ IsFiniteSet(Subsets) /\ Cardinality(Subsets) = SubsetCount(n, t)
           /\ \A c \in Subsets : c \subseteq Machines /\ IsFiniteSet(c) /\ Cardinality(c) = t
           /\ kpm = SubsetCount(n - 1, t - 1) /\ kpm \in Nat
           /\ \A s \in Machines : Cardinality({c \in Subsets : s \in c}) = kpm
<1>1. n \in Nat /\ t \in Nat /\ 1 <= t /\ t <= n
  BY DeploymentsAssumption
<1>2. IsFiniteSet(Machines) /\ Cardinality(Machines) = n
  BY <1>1, FirstNumbers DEF Machines
<1>3. IsFiniteSet(Subsets) /\ Cardinality(Subsets) = SubsetCount(n, t)
  BY <1>1, <1>2, SubsetsFinite, ChoicesOfSize DEF Subsets
<1>4. \A c \in Subsets : c \subseteq Machines /\ IsFiniteSet(c) /\ Cardinality(c) = t
  BY <1>2, SubsetsFinite DEF Subsets
<1>5. n - 1 \in Nat /\ t - 1 \in Nat /\ (t - 1) + 1 = t
  BY <1>1
<1>6. kpm = SubsetCount(n - 1, t - 1)
  BY <1>5, NChooseKCounts DEF kpm, KeysPerMachine
<1>7. SubsetCount(n - 1, t - 1) \in Nat
  BY <1>5, ChoicesRules
<1>8. ASSUME NEW s \in Machines PROVE Cardinality({c \in Subsets : s \in c}) = kpm
  <2> DEFINE k == t - 1
  <2>1. k \in Nat /\ k + 1 = t
    BY <1>5
  <2> HIDE DEF k
  <2>2. Cardinality({c \in kSubset(k + 1, Machines) : s \in c})
          = Cardinality(kSubset(k, Machines \ {s}))
    BY <1>2, <2>1, WithElement
  <2>3. /\ IsFiniteSet(Machines \ {s})
        /\ Cardinality(Machines \ {s}) =
             IF s \in Machines THEN Cardinality(Machines) - 1 ELSE Cardinality(Machines)
    BY <1>2, FS_RemoveElement
  <2>4. Cardinality(kSubset(k, Machines \ {s})) = SubsetCount(Cardinality(Machines \ {s}), k)
    BY <2>1, <2>3, ChoicesOfSize
  <2> QED
    BY <1>2, <1>6, <2>1, <2>2, <2>3, <2>4 DEF Subsets, k
<1> QED
  BY <1>1, <1>2, <1>3, <1>4, <1>6, <1>7, <1>8

\* Products of sums.
LEMMA Multiples ==
    ASSUME NEW a \in Nat, NEW b \in Nat, NEW k \in Nat
    PROVE  (a + b) * k = a * k + b * k /\ a * k \in Nat /\ b * k \in Nat
  OBVIOUS

\* The cells of the rows lie in the matrix and do not overlap.
LEMMA Cells ==
    ASSUME NEW m \in Nat, NEW k \in Nat, NEW s \in 0..(m - 1), NEW i \in 0..(k - 1)
    PROVE  /\ s * k + i \in 0..(m * k - 1)
           /\ \A r \in 0..(m - 1), j \in 0..(k - 1) : s * k + i = r * k + j => s = r /\ i = j
<1>1. ASSUME NEW a \in Nat, NEW b \in Nat, a < b, NEW j \in 0..(k - 1)
      PROVE  a * k + j < b * k /\ a * k \in Nat /\ b * k \in Nat
  <2> DEFINE d == b - a - 1
             x == a * k
             y == d * k
             z == b * k
  <2>1. d \in Nat /\ 1 \in Nat /\ a + 1 \in Nat /\ (a + 1) + d = b
    BY <1>1
  <2> HIDE DEF d
  <2>2. (a + 1) * k = a * k + 1 * k /\ ((a + 1) + d) * k = (a + 1) * k + d * k
        /\ a * k \in Nat /\ d * k \in Nat
    BY <2>1, Multiples
  <2>3. x \in Nat /\ y \in Nat /\ z = x + k + y
    BY <2>1, <2>2
  <2> HIDE DEF x, y, z
  <2>4. x + j < z /\ z \in Nat
    BY <2>3
  <2> QED
    BY <2>3, <2>4 DEF x, z
<1>2. s \in Nat /\ m \in Nat /\ s < m
  OBVIOUS
<1>3. s * k + i < m * k /\ s * k \in Nat /\ m * k \in Nat
  BY <1>1, <1>2
<1>4. s * k + i \in 0..(m * k - 1)
  <2> DEFINE x == s * k
             z == m * k
  <2>1. x + i < z /\ x \in Nat /\ z \in Nat
    BY <1>3
  <2> HIDE DEF x, z
  <2>2. x + i \in 0..(z - 1)
    BY <2>1
  <2> QED
    BY <2>2 DEF x, z
<1>5. ASSUME NEW r \in 0..(m - 1), NEW j \in 0..(k - 1), s * k + i = r * k + j
      PROVE  s = r /\ i = j
  <2> DEFINE x == s * k
             z == r * k
  <2>1. s \in Nat /\ r \in Nat
    OBVIOUS
  <2>2. CASE s < r
    <3>1. x + i < z /\ x \in Nat /\ z \in Nat
      BY <1>1, <2>1, <2>2
    <3>2. x + i = z + j
      BY <1>5
    <3> HIDE DEF x, z
    <3> QED
      BY <3>1, <3>2
  <2>3. CASE r < s
    <3>1. z + j < x /\ x \in Nat /\ z \in Nat
      BY <1>1, <2>1, <2>3
    <3>2. x + i = z + j
      BY <1>5
    <3> HIDE DEF x, z
    <3> QED
      BY <3>1, <3>2
  <2>4. CASE s = r
    <3>1. x \in Nat /\ x + i = x + j
      BY <1>3, <1>5, <2>4
    <3> HIDE DEF x
    <3> QED
      BY <2>4, <3>1
  <2> QED
    BY <2>1, <2>2, <2>3, <2>4
<1> QED
  BY <1>4, <1>5

-----------------------------------------------------------------------------
(* The steps.                                                              *)

\* The call stack, in a state of the search that is not over.
LEMMA Stack ==
    ASSUME Types, StackInv, frames # <<>>
    PROVE  /\ combo_idx \in 0..t /\ Len(frames) = combo_idx + 1
           /\ frames \in Seq(0..n) /\ \A i \in 1..(combo_idx + 1) : frames[i] \in 0..n
           /\ Chosen \in SUBSET Machines /\ IsFiniteSet(Chosen)
           /\ Cardinality(Chosen) = combo_idx
           /\ \A r \in Chosen : r < frames[combo_idx + 1]
<1>1. <<n, t>> \in Deployments /\ frames \in Seq(0..n)
  BY DEF Types
<1>2. n \in Nat /\ t \in Nat /\ IsFiniteSet(Machines)
  BY <1>1, Sizes
<1>3. Len(frames) \in Nat \ {0} /\ Len(frames) <= t + 1
  BY <1>1 DEF StackInv
<1>4. combo_idx \in 0..t /\ Len(frames) = combo_idx + 1
  BY <1>2, <1>3 DEF combo_idx
<1>5. \A i \in 1..(combo_idx + 1) : frames[i] \in 0..n
  <2>1. frames \in Seq(0..n)
    BY <1>1
  <2> DEFINE V == 0..n
  <2>2. \A i \in 1..Len(frames) : frames[i] \in V
    <3> HIDE DEF V
    <3>1. frames \in Seq(V)
      BY <2>1 DEF V
    <3> QED
      BY <3>1
  <2> QED
    BY <1>4, <2>2
<1>6. \A i \in 1..combo_idx : frames[i] < frames[combo_idx + 1]
  BY <1>4 DEF StackInv
<1>7. \A i \in 1..combo_idx : frames[i] \in Machines
  <2> SUFFICES ASSUME NEW i \in 1..combo_idx PROVE frames[i] \in Machines
    OBVIOUS
  <2>1. frames[i] \in 0..n /\ frames[combo_idx + 1] \in 0..n /\ frames[i] < frames[combo_idx + 1]
    BY <1>4, <1>5, <1>6
  <2> QED
    BY <1>2, <2>1 DEF Machines
<1>8. Chosen \in SUBSET Machines
  BY <1>7 DEF Chosen
<1>9. IsFiniteSet(Chosen)
  BY <1>2, <1>8, FS_Subset
<1>10. Cardinality(Chosen) = combo_idx
  BY DEF StackInv
<1> QED
  BY <1>1, <1>4, <1>5, <1>6, <1>8, <1>9, <1>10 DEF Chosen

\* n and t do not change, and nothing that depends on them alone.
LEMMA SameDeployment ==
    ASSUME n' = n, t' = t
    PROVE  /\ kpm' = kpm /\ Machines' = Machines /\ Subsets' = Subsets
           /\ \A c : Number(c)' = Number(c)
  BY DEF kpm, Machines, Subsets, Number

\* If no subset is added and nothing written, all is as before.
LEMMA WrittenSame ==
    ASSUME WrittenInv, Done' = Done, n' = n, t' = t,
           UNCHANGED <<key_idx, omega_matrix, omega_col_idxs>>
    PROVE  WrittenInv'
<1>1. /\ kpm' = kpm /\ Machines' = Machines
      /\ \A c : Number(c)' = Number(c)
  BY SameDeployment
<1>2. \A s : Row(s)' = Row(s)
  BY <1>1 DEF Row
<1>3. /\ key_idx' = Cardinality(Done')
      /\ \A k \in 0..(key_idx' - 1) : \E c \in Done' : Number(c)' = k
      /\ \A c \in Done' : Number(c)' \in 0..(key_idx' - 1)
      /\ \A c, d \in Done' : Number(c)' = Number(d)' => c = d
  BY <1>1 DEF WrittenInv
<1>4. ASSUME NEW s \in Machines'
      PROVE  /\ omega_col_idxs'[s] = Cardinality({c \in Done' : s \in c})
             /\ Row(s)' = {Number(c)' : c \in {d \in Done' : s \in d}}
  <2>1. /\ omega_col_idxs[s] = Cardinality({c \in Done : s \in c})
        /\ Row(s) = {Number(c) : c \in {d \in Done : s \in d}}
    BY <1>1 DEF WrittenInv
  <2>2. {Number(c)' : c \in {d \in Done : s \in d}} = {Number(c) : c \in {d \in Done : s \in d}}
    BY <1>1
  <2> QED
    BY <1>2, <2>1, <2>2
<1> QED
  BY <1>3, <1>4 DEF WrittenInv

\* Take server_num: the call on top is for the next one.
LEMMA TakeKeeps == SearchInv /\ TakeServer => SearchInv'
<1> SUFFICES ASSUME SearchInv, TakeServer PROVE SearchInv'
  OBVIOUS
<1> DEFINE k == combo_idx
           p == frames[combo_idx + 1]
<1>1. Types /\ StackInv /\ WrittenInv /\ frames # <<>> /\ <<n, t>> \in Deployments
  BY DEF SearchInv, TakeServer, Types
<1>2. /\ k \in 0..t /\ Len(frames) = k + 1
      /\ frames \in Seq(0..n) /\ \A i \in 1..(k + 1) : frames[i] \in 0..n
      /\ Chosen \in SUBSET Machines /\ IsFiniteSet(Chosen) /\ Cardinality(Chosen) = k
      /\ \A r \in Chosen : r < p
  BY <1>1, Stack
<1>3. n \in Nat /\ t \in Nat
  BY <1>1, Sizes
<1>4. /\ k < t /\ p <= n - 1 /\ frames' = Append(frames, p + 1)
      /\ server_combo' = [server_combo EXCEPT ![k] = p]
      /\ UNCHANGED <<n, t, key_idx, omega_matrix, omega_col_idxs>>
  BY DEF TakeServer, LoopGuard
<1>5. p \in Machines /\ p + 1 \in 0..n /\ p \in Int
  BY <1>2, <1>3, <1>4 DEF Machines
<1>6. /\ frames' \in Seq(0..n) /\ Len(frames') = k + 2 /\ combo_idx' = k + 1
      /\ \A i \in 1..(k + 1) : frames'[i] = frames[i]
      /\ frames'[k + 2] = p + 1 /\ frames' # <<>>
  <2> HIDE DEF k, p
  <2>1. k \in Nat
    BY <1>2, <1>3
  <2>2. /\ frames' \in Seq(0..n) /\ Len(frames') = k + 2
        /\ \A i \in 1..(k + 1) : frames'[i] = frames[i]
        /\ frames'[k + 2] = p + 1
    BY <1>2, <1>4, <1>5, <2>1
  <2>3. frames' # <<>>
    BY <2>1, <2>2
  <2> QED
    BY <2>1, <2>2, <2>3 DEF combo_idx
<1>7. Chosen' = Chosen \cup {p}
  <2>1. Chosen' = {frames'[i] : i \in 1..(k + 1)}
    BY <1>6 DEF Chosen
  <2>2. Chosen = {frames[i] : i \in 1..k}
    BY DEF Chosen
  <2>3. p = frames[k + 1]
    OBVIOUS
  <2> HIDE DEF k, p
  <2> QED
    BY <1>2, <1>3, <1>6, <2>1, <2>2, <2>3
<1>8. Done' = Done
  <2>1. ASSUME NEW c \in Subsets PROVE Seen(c, Chosen \cup {p}, p + 1) <=> Seen(c, Chosen, p)
    <3>1. c \subseteq Machines
      BY <1>1, Sizes
    <3>2. c \in SUBSET Int /\ Chosen \in SUBSET Int
      BY <1>2, <1>3, <3>1 DEF Machines
    <3> HIDE DEF p
    <3> QED
      BY <1>5, <3>2, SeenTaken
  <2>2. Subsets' = Subsets
    BY <1>4, SameDeployment
  <2>3. frames'[combo_idx' + 1] = p + 1
    BY <1>2, <1>3, <1>6
  <2> QED
    BY <1>1, <1>6, <1>7, <2>1, <2>2, <2>3 DEF Done
<1>9. Types'
  <2>1. server_combo' \in [0..(t - 1) -> Machines]
    BY <1>1, <1>4, <1>5 DEF Types
  <2> QED
    BY <1>1, <1>4, <1>6, <2>1, SameDeployment DEF Types
<1>10. StackInv'
  <2>1. Len(frames') <= t' + 1
    BY <1>2, <1>3, <1>4, <1>6
  <2>2. ASSUME NEW i \in 1..Len(frames'), NEW j \in 1..Len(frames'), i < j
        PROVE  frames'[i] < frames'[j]
    <3>1. k \in Nat /\ i \in 1..(k + 2) /\ j \in 1..(k + 2) /\ i \in 1..(k + 1)
      BY <1>2, <1>3, <1>6, <2>2
    <3>2. frames[i] \in 0..n /\ frames'[i] = frames[i]
      BY <1>2, <1>6, <3>1
    <3>3. CASE j = k + 2
      <4>1. frames[i] <= p
        <5>1. i = k + 1 \/ i < k + 1
          BY <3>1
        <5>2. i < k + 1 => frames[i] < frames[k + 1]
          BY <1>1, <1>2, <3>1 DEF StackInv
        <5> HIDE DEF k
        <5> QED
          BY <1>2, <1>5, <3>2, <5>1, <5>2 DEF p, k
      <4> HIDE DEF k, p
      <4> QED
        BY <1>3, <1>5, <1>6, <3>2, <3>3, <4>1
    <3>4. CASE j # k + 2
      <4>1. j \in 1..(k + 1)
        BY <3>1, <3>4
      <4> QED
        BY <1>1, <1>2, <1>6, <2>2, <3>1, <3>2, <4>1 DEF StackInv
    <3> QED
      BY <3>3, <3>4
  <2>3. \A i \in 1..(k + 1) : server_combo'[i - 1] = frames'[i]
    <3> SUFFICES ASSUME NEW i \in 1..(k + 1) PROVE server_combo'[i - 1] = frames'[i]
      OBVIOUS
    <3>1. i - 1 \in 0..(t - 1) /\ k \in 0..(t - 1)
      BY <1>2, <1>3, <1>4
    <3>2. CASE i = k + 1
      <4>1. i - 1 = k /\ frames'[i] = p
        BY <1>2, <1>3, <1>6, <3>2
      <4> HIDE DEF p, k
      <4> QED
        BY <1>1, <1>4, <3>1, <4>1 DEF Types
    <3>3. CASE i # k + 1
      <4>1. i \in 1..k /\ i - 1 # k
        BY <1>2, <1>3, <3>3
      <4>2. server_combo[i - 1] = frames[i]
        BY <1>1, <4>1 DEF StackInv
      <4>3. frames'[i] = frames[i]
        BY <1>6
      <4>4. server_combo'[i - 1] = server_combo[i - 1]
        BY <1>1, <1>4, <3>1, <4>1 DEF Types
      <4> QED
        BY <4>2, <4>3, <4>4
    <3> QED
      BY <3>2, <3>3
  <2>4. Cardinality(Chosen') = k + 1
    <3>1. p \notin Chosen
      BY <1>2, <1>5
    <3>2. Cardinality(Chosen \cup {p}) = IF p \in Chosen THEN Cardinality(Chosen)
                                         ELSE Cardinality(Chosen) + 1
      BY <1>2, FS_AddElement
    <3> QED
      BY <1>2, <1>7, <3>1, <3>2
  <2> QED
    BY <1>6, <2>1, <2>2, <2>3, <2>4 DEF StackInv
<1>11. WrittenInv'
  BY <1>1, <1>4, <1>8, WrittenSame
<1> QED
  BY <1>9, <1>10, <1>11 DEF SearchInv

\* To return is to go on with the next server in the caller's loop.
LEMMA Returned ==
    ASSUME Types, StackInv, frames # <<>>, combo_idx # 0, Return, n' = n, t' = t
    PROVE  /\ frames' # <<>> /\ frames' \in Seq(0..n) /\ combo_idx' = combo_idx - 1
           /\ Len(frames') = combo_idx
           /\ \A i \in 1..(combo_idx - 1) : frames'[i] = frames[i]
           /\ frames'[combo_idx] = frames[combo_idx] + 1
           /\ Chosen = Chosen' \cup {frames[combo_idx]}
           /\ \A r \in Chosen' : r < frames[combo_idx]
           /\ frames[combo_idx] \in Machines
<1> DEFINE k == combo_idx
           q == frames[combo_idx]
<1>1. <<n, t>> \in Deployments
  BY DEF Types
<1>2. n \in Nat /\ t \in Nat
  BY <1>1, Sizes
<1>3. /\ k \in 1..t /\ Len(frames) = k + 1
      /\ frames \in Seq(0..n) /\ \A i \in 1..(k + 1) : frames[i] \in 0..n
  <2>1. k \in 0..t
    BY Stack
  <2> QED
    BY <1>2, <2>1, Stack
<1>4. k \in Nat \ {0} /\ k \in 1..k
  BY <1>2, <1>3
<1>5. q \in Machines /\ q + 1 \in 0..n /\ q \in Int
  <2>1. q \in Chosen
    BY <1>4 DEF Chosen
  <2>2. q \in Machines
    BY <2>1, Stack
  <2> QED
    BY <1>2, <2>2 DEF Machines
<1>6. frames' = [SubSeq(frames, 1, Len(frames) - 1) EXCEPT ![k] = @ + 1]
  BY DEF Return, Front
<1> DEFINE below == SubSeq(frames, 1, k)
<1>7. below \in Seq(0..n) /\ Len(below) = k /\ \A i \in 1..k : below[i] = frames[i]
  <2> HIDE DEF k
  <2> QED
    BY <1>3, <1>4
<1>8. frames' = [below EXCEPT ![k] = q + 1]
  <2>1. Len(frames) - 1 = k
    BY <1>3, <1>4
  <2>2. below[k] = q
    BY <1>4, <1>7
  <2> HIDE DEF k, q
  <2>3. frames' = [below EXCEPT ![k] = below[k] + 1]
    BY <1>6, <2>1
  <2> QED
    BY <2>2, <2>3
<1> HIDE DEF below
<1>9. /\ frames' \in Seq(0..n) /\ Len(frames') = k
      /\ \A i \in 1..(k - 1) : frames'[i] = frames[i]
      /\ frames'[k] = q + 1
  <2> HIDE DEF k, q
  <2> QED
    BY <1>4, <1>5, <1>7, <1>8
<1>10. combo_idx' = k - 1 /\ frames' # <<>>
  <2>1. combo_idx' = k - 1
    BY <1>9 DEF combo_idx
  <2> HIDE DEF k
  <2>2. frames' # <<>>
    BY <1>4, <1>9
  <2> QED
    BY <2>1, <2>2
<1>11. Chosen' = {frames[i] : i \in 1..(k - 1)}
  <2>1. Chosen' = {frames'[i] : i \in 1..(k - 1)}
    BY <1>10 DEF Chosen
  <2> HIDE DEF k
  <2> QED
    BY <1>9, <2>1
<1>12. Chosen = Chosen' \cup {q}
  <2>1. Chosen = {frames[i] : i \in 1..k} /\ q = frames[k]
    BY DEF Chosen
  <2>2. \A i : i \in 1..k <=> i \in 1..(k - 1) \/ i = k
    BY <1>4
  <2> HIDE DEF k, q
  <2> QED
    BY <1>11, <2>1, <2>2
<1>13. \A r \in Chosen' : r < q
  <2>1. ASSUME NEW i \in 1..(k - 1) PROVE frames[i] < q
    <3>1. i \in 1..Len(frames) /\ k \in 1..Len(frames) /\ i < k
      BY <1>3, <1>4
    <3> QED
      BY <3>1 DEF StackInv
  <2> HIDE DEF q, k
  <2> QED
    BY <1>11, <2>1
<1> QED
  BY <1>5, <1>9, <1>10, <1>12, <1>13

\* So the stack stays as it should be; the last return empties it.
LEMMA ReturnKeepsStack ==
    ASSUME Types, StackInv, frames # <<>>, Return, n' = n, t' = t, server_combo' = server_combo
    PROVE  frames' \in Seq(0..n) /\ StackInv'
<1>1. <<n, t>> \in Deployments
  BY DEF Types
<1>2. t \in Nat
  BY <1>1, Sizes
<1>3. CASE combo_idx = 0
  <2>1. frames' = <<>>
    BY <1>3 DEF Return
  <2>2. Len(frames') = 0 /\ frames' \in Seq(0..n)
    BY <2>1
  <2> QED
    BY <1>2, <2>1, <2>2 DEF StackInv
<1>4. CASE combo_idx # 0
  <2> DEFINE k == combo_idx
             q == frames[combo_idx]
  <2>1. /\ frames' # <<>> /\ frames' \in Seq(0..n) /\ combo_idx' = k - 1
        /\ Len(frames') = k
        /\ \A i \in 1..(k - 1) : frames'[i] = frames[i]
        /\ frames'[k] = q + 1
        /\ Chosen = Chosen' \cup {q}
        /\ \A r \in Chosen' : r < q
        /\ q \in Machines
    BY <1>4, Returned
  <2>2. /\ k \in 0..t /\ Len(frames) = k + 1 /\ \A i \in 1..(k + 1) : frames[i] \in 0..n
        /\ IsFiniteSet(Chosen) /\ Cardinality(Chosen) = k
    BY Stack
  <2>3. k \in Nat \ {0} /\ k <= t
    BY <1>2, <1>4, <2>2
  <2>4. Len(frames') <= t' + 1
    BY <1>2, <2>1, <2>3
  <2>5. ASSUME NEW i \in 1..Len(frames'), NEW j \in 1..Len(frames'), i < j
        PROVE  frames'[i] < frames'[j]
    <3>1. i \in 1..(k - 1) /\ j \in 1..k /\ i \in 1..Len(frames) /\ j \in 1..Len(frames)
      BY <2>1, <2>2, <2>3, <2>5
    <3>2. frames'[i] = frames[i] /\ frames[i] < frames[j]
      BY <2>1, <2>5, <3>1 DEF StackInv
    <3>3. frames[i] \in 0..n /\ frames[j] \in 0..n
      BY <2>2, <2>3, <3>1
    <3>4. CASE j = k
      <4>1. frames'[j] = frames[j] + 1
        BY <2>1, <3>4
      <4> QED
        BY <3>2, <3>3, <4>1
    <3>5. CASE j # k
      <4>1. j \in 1..(k - 1)
        BY <2>3, <3>1, <3>5
      <4> QED
        BY <2>1, <3>2, <4>1
    <3> QED
      BY <3>4, <3>5
  <2>6. \A i \in 1..(k - 1) : server_combo'[i - 1] = frames'[i]
    <3>1. \A i \in 1..k : server_combo[i - 1] = frames[i]
      BY DEF StackInv
    <3>2. \A i \in 1..(k - 1) : i \in 1..k
      BY <2>3
    <3> QED
      BY <2>1, <3>1, <3>2
  <2>7. Cardinality(Chosen') = k - 1
    <3>1. Chosen' = Chosen \ {q} /\ q \in Chosen
      <4>1. q \notin Chosen'
        <5>1. <<n, t>> \in Deployments
          BY DEF Types
        <5>2. q \in Int
          BY <2>1, <5>1, Sizes DEF Machines
        <5> QED
          BY <2>1, <5>2
      <4> QED
        BY <2>1, <4>1
    <3>2. Cardinality(Chosen \ {q}) = IF q \in Chosen THEN Cardinality(Chosen) - 1
                                      ELSE Cardinality(Chosen)
      BY <2>2, FS_RemoveElement
    <3> QED
      BY <2>2, <3>1, <3>2
  <2> QED
    BY <2>1, <2>4, <2>5, <2>6, <2>7 DEF StackInv
<1> QED
  BY <1>3, <1>4

\* What a return adds to the subsets seen: those that hold all the chosen servers and no
\* other server before the next.
LEMMA ReturnSees ==
    ASSUME Types, StackInv, frames # <<>>, Return, n' = n, t' = t,
           NEW c \in Subsets
    PROVE  c \in Done' <=>
             \/ c \in Done
             \/ Chosen \subseteq c /\ \A s \in c \ Chosen : frames[combo_idx + 1] <= s
<1> DEFINE p == frames[combo_idx + 1]
<1>1. <<n, t>> \in Deployments
  BY DEF Types
<1>2. /\ n \in Nat /\ t \in Nat /\ c \subseteq Machines
      /\ Subsets' = Subsets
  BY <1>1, Sizes, SameDeployment
<1>3. /\ combo_idx \in 0..t /\ Chosen \in SUBSET Machines
      /\ \A r \in Chosen : r < p
      /\ \A i \in 1..(combo_idx + 1) : frames[i] \in 0..n
  BY Stack
<1>4. p \in Int /\ c \in SUBSET Int /\ Chosen \in SUBSET Int
  <2>1. combo_idx + 1 \in 1..(combo_idx + 1)
    BY <1>2, <1>3
  <2>2. p \in 0..n
    BY <1>3, <2>1
  <2> QED
    BY <1>2, <1>3, <2>2 DEF Machines
<1>5. c \in Done <=> Seen(c, Chosen, p)
  BY DEF Done
<1>6. CASE combo_idx = 0
  <2>1. frames' = <<>>
    BY <1>6 DEF Return
  <2>2. c \in Done'
    BY <1>2, <2>1 DEF Done
  <2>3. Chosen = {}
    BY <1>6 DEF Chosen
  <2>4. Seen(c, Chosen, p) <=> \E s \in c : s < p
    BY <2>3 DEF Seen
  <2> QED
    BY <1>4, <1>5, <2>2, <2>3, <2>4
<1>7. CASE combo_idx # 0
  <2> DEFINE q == frames[combo_idx]
  <2>1. /\ frames' # <<>> /\ combo_idx' = combo_idx - 1
        /\ frames'[combo_idx] = q + 1
        /\ Chosen = Chosen' \cup {q}
        /\ \A r \in Chosen' : r < q
    BY <1>7, Returned
  <2>2. frames'[combo_idx' + 1] = q + 1
    BY <1>2, <1>3, <2>1
  <2>3. c \in Done' <=> Seen(c, Chosen', q + 1)
    BY <1>2, <2>1, <2>2 DEF Done
  <2>4. q \in Int /\ q < p /\ Chosen' \in SUBSET Int
    BY <1>3, <1>4, <2>1
  <2> HIDE DEF p, q
  <2>5. Seen(c, Chosen', q + 1) <=>
          \/ Seen(c, Chosen' \cup {q}, p)
          \/ Chosen' \cup {q} \subseteq c /\ \A s \in c \ (Chosen' \cup {q}) : p <= s
    BY <1>4, <2>1, <2>4, SeenReturned
  <2> QED
    BY <1>5, <2>1, <2>3, <2>5 DEF p
<1> QED
  BY <1>6, <1>7

\* The loop is left when the servers ahead are too few: no subset is passed over.
LEMMA LeaveKeeps == SearchInv /\ LeaveLoop => SearchInv'
<1> SUFFICES ASSUME SearchInv, LeaveLoop PROVE SearchInv'
  OBVIOUS
<1> DEFINE p == frames[combo_idx + 1]
<1>1. /\ Types /\ StackInv /\ WrittenInv /\ <<n, t>> \in Deployments
      /\ frames # <<>> /\ combo_idx < t /\ ~LoopGuard /\ Return
      /\ UNCHANGED <<n, t, key_idx, omega_matrix, omega_col_idxs, server_combo>>
  BY DEF SearchInv, LeaveLoop, Types
<1>2. n \in Nat /\ t \in Nat /\ Subsets' = Subsets
  BY <1>1, Sizes, SameDeployment
<1>3. /\ combo_idx \in 0..t /\ Chosen \in SUBSET Machines /\ IsFiniteSet(Chosen)
      /\ Cardinality(Chosen) = combo_idx
      /\ \A i \in 1..(combo_idx + 1) : frames[i] \in 0..n
  BY <1>1, Stack
<1>4. p \in 0..n
  <2>1. combo_idx + 1 \in 1..(combo_idx + 1)
    BY <1>2, <1>3
  <2> QED
    BY <1>3, <2>1
<1>5. p > n - 1 \/ (n - 1) - p + 1 < t - combo_idx
  BY <1>1, <1>2, <1>3, <1>4 DEF LoopGuard
<1>6. ASSUME NEW c \in Subsets, Chosen \subseteq c, \A s \in c \ Chosen : p <= s PROVE FALSE
  <2> DEFINE rest  == c \ Chosen
             ahead == p..(n - 1)
  <2>1. c \subseteq Machines /\ IsFiniteSet(c) /\ Cardinality(c) = t
    BY <1>1, Sizes
  <2>2. Cardinality(rest) = t - combo_idx
    <3>1. Cardinality(c \ Chosen) = Cardinality(c) - Cardinality(c \cap Chosen)
      BY <2>1, FS_Difference
    <3>2. c \cap Chosen = Chosen
      BY <1>6
    <3> QED
      BY <1>3, <2>1, <3>1, <3>2
  <2> HIDE DEF p
  <2>3. rest \in SUBSET ahead
    BY <1>2, <1>4, <1>6, <2>1 DEF Machines
  <2>4. /\ IsFiniteSet(ahead)
        /\ Cardinality(ahead) = IF p > n - 1 THEN 0 ELSE (n - 1) - p + 1
    BY <1>2, <1>4, FS_Interval
  <2> HIDE DEF rest, ahead
  <2>5. Cardinality(rest) <= Cardinality(ahead)
    BY <2>3, <2>4, FS_Subset
  <2> QED
    BY <1>1, <1>2, <1>3, <1>4, <1>5, <2>2, <2>4, <2>5
<1>7. Done' = Done
  <2>1. \A c \in Subsets : c \in Done' <=> c \in Done
    BY <1>1, <1>6, ReturnSees
  <2>2. Done' \subseteq Subsets /\ Done \subseteq Subsets
    BY <1>2 DEF Done
  <2> QED
    BY <2>1, <2>2
<1>8. frames' \in Seq(0..n) /\ StackInv'
  BY <1>1, ReturnKeepsStack
<1>9. Types'
  BY <1>1, <1>8, SameDeployment DEF Types
<1>10. WrittenInv'
  BY <1>1, <1>7, WrittenSame
<1> QED
  BY <1>8, <1>9, <1>10 DEF SearchInv

\* The columns used in a row are within the row.
LEMMA ColumnsUsed ==
    ASSUME SearchInv, NEW s \in Machines
    PROVE  /\ omega_col_idxs[s] \in Nat /\ omega_col_idxs[s] <= kpm
           /\ \A c \in Subsets \ Done : s \in c => omega_col_idxs[s] < kpm
<1> DEFINE All  == {d \in Subsets : s \in d}
           Seen0 == {d \in Done : s \in d}
<1>1. /\ <<n, t>> \in Deployments /\ omega_col_idxs[s] = Cardinality(Seen0)
      /\ omega_col_idxs[s] \in Nat
  BY DEF SearchInv, Types, WrittenInv
<1>2. IsFiniteSet(Subsets) /\ Cardinality(All) = kpm /\ kpm \in Nat
  BY <1>1, Sizes
<1>3. IsFiniteSet(All) /\ Seen0 \in SUBSET All
  BY <1>2, FS_Subset DEF Done
<1>4. Cardinality(Seen0) <= Cardinality(All) /\ IsFiniteSet(Seen0)
      /\ (Cardinality(All) = Cardinality(Seen0) => All = Seen0)
  BY <1>3, FS_Subset
<1>5. ASSUME NEW c \in Subsets \ Done, s \in c PROVE omega_col_idxs[s] < kpm
  <2>1. c \in All /\ c \notin Seen0
    BY <1>5
  <2>2. Cardinality(All) # Cardinality(Seen0)
    BY <1>4, <2>1
  <2> HIDE DEF All, Seen0
  <2> QED
    BY <1>1, <1>2, <1>4, <2>2
<1> HIDE DEF All, Seen0
<1> QED
  BY <1>1, <1>2, <1>4, <1>5

\* All servers are taken: the subset is the next in the order, and new.
LEMMA NextSubset ==
    ASSUME SearchInv, PopulateOmegaTable
    PROVE  /\ Chosen \in Subsets \ Done /\ Number(Chosen) = key_idx
           /\ Done' = Done \cup {Chosen}
           /\ {server_combo[c] : c \in 0..(t - 1)} = Chosen
<1> DEFINE p == frames[combo_idx + 1]
<1>1. /\ Types /\ StackInv /\ WrittenInv /\ <<n, t>> \in Deployments
      /\ frames # <<>> /\ combo_idx = t /\ Return
      /\ UNCHANGED <<n, t, server_combo>>
  BY DEF SearchInv, PopulateOmegaTable, Types
<1>2. /\ n \in Nat /\ t \in Nat /\ Subsets' = Subsets
      /\ \A c \in Subsets : c \subseteq Machines /\ IsFiniteSet(c) /\ Cardinality(c) = t
  BY <1>1, Sizes, SameDeployment
<1>3. /\ Chosen \in SUBSET Machines /\ IsFiniteSet(Chosen) /\ Cardinality(Chosen) = t
      /\ \A r \in Chosen : r < p
      /\ \A i \in 1..(combo_idx + 1) : frames[i] \in 0..n
  BY <1>1, Stack
<1>4. p \in Int
  BY <1>1, <1>2, <1>3
<1>5. Chosen \in Subsets
  BY <1>3 DEF Subsets, kSubset
<1>6. \A c \in Subsets : c \in Done <=> Seen(c, Chosen, p)
  BY <1>1 DEF Done
<1>7. Chosen \notin Done
  BY <1>5, <1>6 DEF Seen
<1>8. ASSUME NEW c \in Subsets
      PROVE  (Chosen \subseteq c /\ \A s \in c \ Chosen : p <= s) <=> c = Chosen
  <2>1. Chosen \in SUBSET c => Chosen = c
    BY <1>2, <1>3, FS_Subset
  <2> QED
    BY <2>1
<1>9. Done' = Done \cup {Chosen}
  <2>1. \A c \in Subsets : c \in Done' <=> c \in Done \/ c = Chosen
    BY <1>1, <1>8, ReturnSees
  <2>2. Done' \subseteq Subsets /\ Done \subseteq Subsets
    BY <1>2 DEF Done
  <2> QED
    BY <1>5, <2>1, <2>2
<1>10. Number(Chosen) = key_idx
  <2>1. ASSUME NEW c \in Subsets
        PROVE  Seen(c, Chosen, p) <=> Reference(n, t)!LexBefore(c, Chosen)
    <3>1. c \in SUBSET Nat /\ Chosen \in SUBSET Nat
      BY <1>2, <1>3 DEF Machines
    <3>2. IsFiniteSet(c) /\ Cardinality(c) = Cardinality(Chosen)
      BY <1>2, <1>3
    <3> HIDE DEF p
    <3> QED
      BY <1>3, <1>4, <3>1, <3>2, SeenIsBefore DEF Reference!LexBefore
  <2>2. Number(Chosen) = Cardinality({c \in Subsets : Reference(n, t)!LexBefore(c, Chosen)})
    BY ReferenceSubsets DEF Number, Subsets, Machines
  <2>3. {c \in Subsets : Reference(n, t)!LexBefore(c, Chosen)} = Done
    <3>1. Done \subseteq Subsets
      BY DEF Done
    <3> QED
      BY <1>6, <2>1, <3>1
  <2> QED
    BY <1>1, <2>2, <2>3 DEF WrittenInv
<1>11. {server_combo[c] : c \in 0..(t - 1)} = Chosen
  <2>1. \A i \in 1..t : server_combo[i - 1] = frames[i]
    BY <1>1 DEF StackInv
  <2>2. Chosen = {frames[i] : i \in 1..t}
    BY <1>1 DEF Chosen
  <2>3. \A c \in 0..(t - 1) : c + 1 \in 1..t /\ (c + 1) - 1 = c
    BY <1>2
  <2>4. \A i \in 1..t : i - 1 \in 0..(t - 1)
    BY <1>2
  <2>5. \A c \in 0..(t - 1) : server_combo[c] = frames[c + 1]
    BY <2>1, <2>3
  <2> QED
    BY <2>1, <2>2, <2>3, <2>4, <2>5
<1> QED
  BY <1>5, <1>7, <1>9, <1>10, <1>11

\* The key number goes behind what its holders' rows hold, and into no other row.
LEMMA RowsWritten ==
    ASSUME SearchInv, PopulateOmegaTable, NEW s \in Machines
    PROVE  /\ omega_col_idxs'[s] = omega_col_idxs[s] + (IF s \in Chosen THEN 1 ELSE 0)
           /\ Row(s)' = Row(s) \cup (IF s \in Chosen THEN {key_idx} ELSE {})
<1> DEFINE col(r) == omega_col_idxs[r]
           cell(r) == r * kpm + omega_col_idxs[r]
           cells   == 0..(n * kpm - 1)
<1>1. /\ <<n, t>> \in Deployments /\ omega_matrix \in [cells -> Nat]
      /\ omega_col_idxs \in [Machines -> Nat] /\ n' = n /\ t' = t
  BY DEF SearchInv, Types, PopulateOmegaTable
<1>2. n \in Nat /\ kpm \in Nat /\ Machines = 0..(n - 1) /\ kpm' = kpm
  BY <1>1, Sizes, SameDeployment DEF Machines
<1>3. /\ Chosen \in Subsets \ Done /\ Chosen \subseteq Machines
      /\ {server_combo[c] : c \in 0..(t - 1)} = Chosen
  BY <1>1, NextSubset, Sizes
<1>4. /\ omega_matrix' = [c \in cells |->
                            IF \E r \in Chosen : c = cell(r) THEN key_idx ELSE omega_matrix[c]]
      /\ omega_col_idxs' = [r \in Machines |-> col(r) + (IF r \in Chosen THEN 1 ELSE 0)]
  <2>1. DOMAIN omega_matrix = cells
    BY <1>1
  <2> QED
    BY <1>3, <2>1 DEF PopulateOmegaTable
<1>5. \A r \in Chosen : r \in Machines /\ col(r) \in 0..(kpm - 1)
  <2> SUFFICES ASSUME NEW r \in Chosen PROVE r \in Machines /\ col(r) \in 0..(kpm - 1)
    OBVIOUS
  <2>1. r \in Machines
    BY <1>3
  <2>2. col(r) \in Nat /\ col(r) < kpm
    BY <1>3, <2>1, ColumnsUsed
  <2> QED
    BY <1>2, <2>1, <2>2
<1>6. col(s) \in 0..kpm
  BY <1>2, ColumnsUsed
<1>7. ASSUME NEW i \in 0..(col(s) - 1) PROVE omega_matrix'[s * kpm + i] = omega_matrix[s * kpm + i]
  <2>1. i \in 0..(kpm - 1)
    BY <1>2, <1>6
  <2>2. s * kpm + i \in cells
    BY <1>2, <2>1, Cells
  <2>3. ASSUME NEW r \in Chosen, s * kpm + i = cell(r) PROVE FALSE
    <3>1. r \in 0..(n - 1) /\ col(r) \in 0..(kpm - 1) /\ s \in 0..(n - 1)
      BY <1>2, <1>5
    <3>2. s = r /\ i = col(r)
      BY <1>2, <2>1, <2>3, <3>1, Cells
    <3> QED
      BY <1>2, <1>6, <3>1, <3>2
  <2> HIDE DEF cell, cells
  <2> QED
    BY <1>4, <2>2, <2>3
<1>8. ASSUME s \in Chosen PROVE omega_matrix'[s * kpm + col(s)] = key_idx
  <2>1. col(s) \in 0..(kpm - 1)
    BY <1>5, <1>8
  <2>2. cell(s) \in cells
    BY <1>2, <2>1, Cells
  <2>3. omega_matrix'[cell(s)] = key_idx
    <3> HIDE DEF cell, cells
    <3> QED
      BY <1>4, <1>8, <2>2
  <2> QED
    BY <2>3
<1>9. omega_col_idxs'[s] = col(s) + (IF s \in Chosen THEN 1 ELSE 0)
  BY <1>4
<1>10. Row(s)' = {omega_matrix'[s * kpm + i] : i \in 0..(omega_col_idxs'[s] - 1)}
  BY <1>2 DEF Row
<1>11. Row(s) = {omega_matrix[s * kpm + i] : i \in 0..(col(s) - 1)}
  BY DEF Row
<1>12. CASE s \in Chosen
  <2>1. omega_col_idxs'[s] - 1 = col(s)
    BY <1>6, <1>9, <1>12
  <2>2. \A i : i \in 0..col(s) <=> i \in 0..(col(s) - 1) \/ i = col(s)
    BY <1>6
  <2>3. omega_matrix'[s * kpm + col(s)] = key_idx
    BY <1>8, <1>12
  <2> HIDE DEF col, cell, cells
  <2>4. Row(s)' = {omega_matrix'[s * kpm + i] : i \in 0..col(s)}
    BY <1>10, <2>1
  <2>5. Row(s)' = Row(s) \cup {key_idx}
    BY <1>7, <1>11, <2>2, <2>3, <2>4
  <2> QED
    BY <1>9, <1>12, <2>5 DEF col
<1>13. CASE s \notin Chosen
  <2>1. omega_col_idxs'[s] = col(s)
    BY <1>6, <1>9, <1>13
  <2> HIDE DEF col, cell, cells
  <2>2. Row(s)' = Row(s)
    BY <1>7, <1>10, <1>11, <2>1
  <2> QED
    BY <1>9, <1>13, <2>2 DEF col
<1> QED
  BY <1>12, <1>13

\* The next subset is written, under the next number.
LEMMA PopulateKeeps == SearchInv /\ PopulateOmegaTable => SearchInv'
<1> SUFFICES ASSUME SearchInv, PopulateOmegaTable PROVE SearchInv'
  OBVIOUS
<1> DEFINE new == Chosen
<1>1. /\ Types /\ StackInv /\ WrittenInv /\ <<n, t>> \in Deployments
      /\ frames # <<>> /\ Return /\ key_idx' = key_idx + 1
      /\ n' = n /\ t' = t /\ server_combo' = server_combo
  BY DEF SearchInv, PopulateOmegaTable, Types
<1>2. /\ new \in Subsets \ Done /\ Number(new) = key_idx /\ Done' = Done \cup {new}
  BY NextSubset
<1>3. /\ kpm' = kpm /\ Machines' = Machines
      /\ \A c : Number(c)' = Number(c)
  BY <1>1, SameDeployment
<1>4. frames' \in Seq(0..n) /\ StackInv'
  BY <1>1, ReturnKeepsStack
<1>5. key_idx \in Nat /\ IsFiniteSet(Done) /\ Cardinality(Done) = key_idx
  <2>1. IsFiniteSet(Subsets) /\ Done \in SUBSET Subsets
    BY <1>1, Sizes DEF Done
  <2> QED
    BY <1>1, <2>1, FS_Subset DEF Types, WrittenInv
<1>6. ASSUME NEW s \in Machines
      PROVE  /\ omega_col_idxs'[s] = omega_col_idxs[s] + (IF s \in new THEN 1 ELSE 0)
             /\ Row(s)' = Row(s) \cup (IF s \in new THEN {key_idx} ELSE {})
  BY RowsWritten
<1> HIDE DEF new
<1>7. Types'
  <2> DEFINE cells == 0..(n * kpm - 1)
  <2>1. omega_matrix' \in [cells -> Nat]
    <3>1. omega_matrix \in [cells -> Nat]
      BY <1>1 DEF Types
    <3> DEFINE hit(c) == \E s \in {server_combo[i] : i \in 0..(t - 1)} :
                            c = s * kpm + omega_col_idxs[s]
    <3>2. omega_matrix' = [c \in DOMAIN omega_matrix |-> IF hit(c) THEN key_idx ELSE omega_matrix[c]]
      BY DEF PopulateOmegaTable
    <3> HIDE DEF hit, cells
    <3> QED
      BY <1>5, <3>1, <3>2
  <2>2. omega_col_idxs' \in [Machines -> Nat]
    <3>1. omega_col_idxs \in [Machines -> Nat]
      BY <1>1 DEF Types
    <3> DEFINE hit(s) == s \in {server_combo[i] : i \in 0..(t - 1)}
    <3>2. omega_col_idxs' = [s \in Machines |-> omega_col_idxs[s] + (IF hit(s) THEN 1 ELSE 0)]
      BY DEF PopulateOmegaTable
    <3> HIDE DEF hit
    <3> QED
      BY <3>1, <3>2
  <2>3. key_idx' \in Nat
    BY <1>1, <1>5
  <2> QED
    BY <1>1, <1>3, <1>4, <2>1, <2>2, <2>3 DEF Types
<1>8. key_idx' = Cardinality(Done')
  <2>1. Cardinality(Done \cup {new}) = IF new \in Done THEN Cardinality(Done)
                                       ELSE Cardinality(Done) + 1
    BY <1>5, FS_AddElement
  <2> QED
    BY <1>1, <1>2, <1>5, <2>1
<1>9. ASSUME NEW s \in Machines
      PROVE  /\ omega_col_idxs'[s] = Cardinality({c \in Done' : s \in c})
             /\ Row(s)' = {Number(c) : c \in {d \in Done' : s \in d}}
  <2> DEFINE old == {c \in Done : s \in c}
  <2>1. /\ omega_col_idxs[s] = Cardinality(old) /\ Row(s) = {Number(c) : c \in old}
    BY <1>1 DEF WrittenInv
  <2>2. IsFiniteSet(old) /\ new \notin old
    BY <1>2, <1>5, FS_Subset
  <2>3. {c \in Done' : s \in c} = old \cup (IF s \in new THEN {new} ELSE {})
    BY <1>2
  <2> HIDE DEF old
  <2>4. CASE s \in new
    <3>1. Cardinality(old \cup {new}) = IF new \in old THEN Cardinality(old)
                                        ELSE Cardinality(old) + 1
      BY <2>2, FS_AddElement
    <3>2. {c \in Done' : s \in c} = old \cup {new}
      BY <2>3, <2>4
    <3>3. omega_col_idxs'[s] = Cardinality(old) + 1
      BY <1>6, <2>1, <2>4
    <3>4. Row(s)' = Row(s) \cup {key_idx}
      BY <1>6, <2>4
    <3>5. {Number(c) : c \in old \cup {new}} = {Number(c) : c \in old} \cup {key_idx}
      BY <1>2
    <3> QED
      BY <2>1, <2>2, <3>1, <3>2, <3>3, <3>4, <3>5
  <2>5. CASE s \notin new
    <3>1. {c \in Done' : s \in c} = old
      BY <2>3, <2>5
    <3>2. omega_col_idxs[s] \in Nat
      BY <1>1 DEF Types
    <3>3. omega_col_idxs'[s] = omega_col_idxs[s] + 0 /\ Row(s)' = Row(s) \cup {}
      BY <1>6, <2>5
    <3>4. omega_col_idxs'[s] = omega_col_idxs[s] /\ Row(s)' = Row(s)
      BY <3>2, <3>3
    <3> QED
      BY <2>1, <3>1, <3>4
  <2> QED
    BY <2>4, <2>5
<1>10. /\ \A k \in 0..(key_idx - 1) : \E c \in Done : Number(c) = k
       /\ \A c \in Done : Number(c) \in 0..(key_idx - 1)
       /\ \A c, d \in Done : Number(c) = Number(d) => c = d
  BY <1>1 DEF WrittenInv
<1>11. \A k \in 0..(key_idx' - 1) : \E c \in Done' : Number(c) = k
  <2> SUFFICES ASSUME NEW k \in 0..(key_idx' - 1) PROVE \E c \in Done' : Number(c) = k
    OBVIOUS
  <2>1. k \in 0..(key_idx - 1) \/ k = key_idx
    BY <1>1, <1>5
  <2>2. CASE k = key_idx
    BY <1>2, <2>2
  <2>3. CASE k \in 0..(key_idx - 1)
    BY <1>2, <1>10, <2>3
  <2> QED
    BY <2>1, <2>2, <2>3
<1>12. \A c \in Done' : Number(c) \in 0..(key_idx' - 1)
  <2> SUFFICES ASSUME NEW c \in Done' PROVE Number(c) \in 0..(key_idx' - 1)
    OBVIOUS
  <2>1. CASE c = new
    BY <1>1, <1>2, <1>5, <2>1
  <2>2. CASE c # new
    <3>1. Number(c) \in 0..(key_idx - 1)
      BY <1>2, <1>10, <2>2
    <3> QED
      BY <1>1, <1>5, <3>1
  <2> QED
    BY <2>1, <2>2
<1>13. \A c, d \in Done' : Number(c) = Number(d) => c = d
  <2>1. \A c \in Done : Number(c) # Number(new)
    <3>1. key_idx \notin 0..(key_idx - 1)
      BY <1>5
    <3> QED
      BY <1>2, <1>10, <3>1
  <2> QED
    BY <1>2, <1>10, <2>1
<1>14. WrittenInv'
  <2>1. \A s \in Machines' :
          /\ omega_col_idxs'[s] = Cardinality({c \in Done' : s \in c})
          /\ Row(s)' = {Number(c)' : c \in {d \in Done' : s \in d}}
    <3> SUFFICES ASSUME NEW s \in Machines'
                 PROVE  /\ omega_col_idxs'[s] = Cardinality({c \in Done' : s \in c})
                        /\ Row(s)' = {Number(c)' : c \in {d \in Done' : s \in d}}
      OBVIOUS
    <3>1. s \in Machines
      BY <1>3
    <3>2. {Number(c)' : c \in {d \in Done' : s \in d}} = {Number(c) : c \in {d \in Done' : s \in d}}
      BY <1>3
    <3> QED
      BY <1>9, <3>1, <3>2
  <2>2. /\ \A k \in 0..(key_idx' - 1) : \E c \in Done' : Number(c)' = k
        /\ \A c \in Done' : Number(c)' \in 0..(key_idx' - 1)
        /\ \A c, d \in Done' : Number(c)' = Number(d)' => c = d
    BY <1>3, <1>11, <1>12, <1>13
  <2> QED
    BY <1>8, <2>1, <2>2 DEF WrittenInv
<1> QED
  BY <1>4, <1>7, <1>14 DEF SearchInv

\* At the start nothing is seen and nothing written.
LEMMA SearchInit == Init => SearchInv
<1> SUFFICES ASSUME Init PROVE SearchInv
  OBVIOUS
<1>1. /\ key_idx = 0 /\ frames = <<0>>
      /\ omega_matrix = [cell \in 0..(n * kpm - 1) |-> 0]
      /\ omega_col_idxs = [s \in Machines |-> 0]
      /\ server_combo = [c \in 0..(t - 1) |-> 0]
  BY DEF Init
<1>2. <<n, t>> \in Deployments
  <2>1. PICK d \in Deployments : n = d[1] /\ t = d[2]
    BY DEF Init
  <2>2. d = <<d[1], d[2]>>
    BY DeploymentsAssumption
  <2> QED
    BY <2>1, <2>2
<1>3. /\ n \in Nat /\ t \in Nat /\ 1 <= t /\ t <= n
      /\ \A c \in Subsets : c \subseteq Machines
  BY <1>2, Sizes
<1>4. Len(frames) = 1 /\ frames[1] = 0 /\ combo_idx = 0 /\ frames # <<>> /\ frames \in Seq(0..n)
  BY <1>1, <1>3 DEF combo_idx
<1>5. Chosen = {}
  BY <1>4 DEF Chosen
<1>6. Done = {}
  <2>1. ASSUME NEW c \in Subsets PROVE ~Seen(c, Chosen, frames[combo_idx + 1])
    <3>1. \A s \in c : ~(s < 0)
      BY <1>3 DEF Machines
    <3> QED
      BY <1>4, <3>1 DEF Seen
  <2> QED
    BY <1>4, <2>1 DEF Done
<1>7. Types
  <2>1. 0 \in Machines
    BY <1>3 DEF Machines
  <2> QED
    BY <1>1, <1>2, <1>4, <2>1 DEF Types
<1>8. StackInv
  <2>1. Cardinality(Chosen) = 0
    BY <1>5, FS_EmptySet
  <2> QED
    BY <1>3, <1>4, <2>1 DEF StackInv
<1>9. WrittenInv
  <2>1. Cardinality(Done) = 0 /\ \A s : {c \in Done : s \in c} = {} /\ Cardinality({}) = 0
    BY <1>6, FS_EmptySet
  <2>2. \A s \in Machines : omega_col_idxs[s] = 0
    BY <1>1
  <2>3. \A s \in Machines : Row(s) = {}
    BY <2>2 DEF Row
  <2>4. \A s : {Number(c) : c \in {d \in Done : s \in d}} = {}
    BY <1>6
  <2>5. 0..(key_idx - 1) = {}
    BY <1>1
  <2> QED
    BY <1>1, <1>6, <2>1, <2>2, <2>3, <2>4, <2>5 DEF WrittenInv
<1> QED
  BY <1>7, <1>8, <1>9 DEF SearchInv

\* So it holds in every state of the search.
LEMMA SearchInvHolds == Spec => []SearchInv
<1>1. SearchInv /\ [Next]_vars => SearchInv'
  <2> SUFFICES ASSUME SearchInv, [Next]_vars PROVE SearchInv'
    OBVIOUS
  <2>1. CASE UNCHANGED vars
    <3>1. n' = n /\ t' = t /\ UNCHANGED <<key_idx, omega_matrix, omega_col_idxs, server_combo, frames>>
      BY <2>1 DEF vars
    <3>2. /\ kpm' = kpm /\ Machines' = Machines /\ Subsets' = Subsets
      BY <3>1, SameDeployment
    <3>3. Done' = Done
      BY <3>1, <3>2 DEF Done, Chosen, combo_idx
    <3>4. Types' /\ StackInv'
      BY <3>1, <3>2 DEF SearchInv, Types, StackInv, Chosen, combo_idx
    <3>5. WrittenInv'
      BY <3>1, <3>3, WrittenSame DEF SearchInv
    <3> QED
      BY <3>4, <3>5 DEF SearchInv
  <2> QED
    BY <2>1, TakeKeeps, LeaveKeeps, PopulateKeeps DEF Next
<1> QED
  BY <1>1, SearchInit, PTL DEF Spec

-----------------------------------------------------------------------------
(* What the search promises.                                               *)

\* The arrays of the KeyGenerator hold what they are for, and the recursion is never deeper
\* than t calls (KeyGenerator.cpp:89-100).
THEOREM KeyGeneratorTypeCorrect == Spec => []TypeOK
<1>1. SearchInv => TypeOK
  BY DEF SearchInv, Types, StackInv, TypeOK
<1> QED
  BY <1>1, SearchInvHolds, PTL

\* No row runs into the next one, in any deployment: populate_omega_table needs no bound
\* check (KeyGenerator.cpp:83-84).
THEOREM RowsStayApart == Spec => []RowsDoNotOverflow
<1>1. SearchInv => RowsDoNotOverflow
  BY ColumnsUsed DEF RowsDoNotOverflow
<1> QED
  BY <1>1, SearchInvHolds, PTL

\* The machines whose rows hold a subset's number are the subset.
LEMMA HoldersOfNumber ==
    ASSUME SearchInv, NEW c \in Done
    PROVE  {s \in Machines : Number(c) \in Row(s)} = c
<1>1. c \subseteq Machines
  <2>1. <<n, t>> \in Deployments /\ c \in Subsets
    BY DEF SearchInv, Types, Done
  <2> QED
    BY <2>1, Sizes
<1>2. ASSUME NEW s \in Machines PROVE Number(c) \in Row(s) <=> s \in c
  <2>1. Row(s) = {Number(d) : d \in {e \in Done : s \in e}}
    BY DEF SearchInv, WrittenInv
  <2>2. \A d \in Done : Number(d) = Number(c) => d = c
    BY DEF SearchInv, WrittenInv
  <2> QED
    BY <2>1, <2>2
<1> QED
  BY <1>1, <1>2

\* Every key written is in the rows of t machines, and no two keys in the same t
\* (KeyGenerator.cpp:80-100).
THEOREM KeysHaveTHolders == Spec => []EachKeyHasTHolders
<1>1. ASSUME SearchInv PROVE EachKeyHasTHolders
  <2> DEFINE holders(k) == {s \in Machines : k \in Row(s)}
             written    == {holders(k) : k \in 0..(key_idx - 1)}
  <2>1. /\ \A k \in 0..(key_idx - 1) : \E c \in Done : Number(c) = k
        /\ \A c \in Done : Number(c) \in 0..(key_idx - 1)
        /\ key_idx = Cardinality(Done)
    BY <1>1 DEF SearchInv, WrittenInv
  <2>2. \A c \in Done : holders(Number(c)) = c
    BY <1>1, HoldersOfNumber
  <2> HIDE DEF holders
  <2>3. written = Done
    BY <2>1, <2>2
  <2>4. \A c \in Done : Cardinality(c) = t
    BY DEF Done, Subsets, kSubset
  <2>5. /\ \A h \in written : Cardinality(h) = t
        /\ Cardinality(written) = key_idx
    BY <2>1, <2>3, <2>4
  <2> QED
    BY <2>5 DEF EachKeyHasTHolders, holders
<1> QED
  BY <1>1, SearchInvHolds, PTL

\* When the search is over every row is full, as many keys are written as the constructor
\* made, and the matrix is that of the closed form (KeyGenerator.cpp:20-26, 80-100).
THEOREM SearchFillsOmega == Spec => []FinalMatrixIsOmega
<1>1. ASSUME SearchInv, frames = <<>>
      PROVE  /\ key_idx = key_count /\ key_count = Reference(n, t)!OmegaKeyCount
             /\ \A s \in Machines : omega_col_idxs[s] = kpm
             /\ \A combo \in Reference(n, t)!Combos :
                  {s \in Machines : Reference(n, t)!KeyOf(combo) \in Row(s)} = combo
  <2>1. <<n, t>> \in Deployments /\ WrittenInv
    BY <1>1 DEF SearchInv, Types
  <2>2. /\ n \in Nat \ {0} /\ t \in Nat \ {0}
        /\ Cardinality(Subsets) = SubsetCount(n, t) /\ kpm = SubsetCount(n - 1, t - 1) /\ kpm \in Nat
        /\ \A s \in Machines : Cardinality({c \in Subsets : s \in c}) = kpm
    BY <2>1, Sizes
  <2>3. Done = Subsets
    BY <1>1 DEF Done
  <2>4. key_count = SubsetCount(n, t)
    <3> DEFINE x == SubsetCount(n, t)
    <3>1. x \in Nat
      BY <2>2, ChoicesRules
    <3>2. t * x = n * kpm
      BY <2>2, Absorbed
    <3> HIDE DEF x
    <3>3. kpm * n = t * x
      BY <2>2, <3>1, <3>2
    <3>4. (t * x) \div t = x
      BY <2>2, <3>1, Divided
    <3> QED
      BY <3>3, <3>4 DEF key_count, x
  <2>5. key_idx = SubsetCount(n, t) /\ \A s \in Machines : omega_col_idxs[s] = kpm
    BY <2>1, <2>2, <2>3 DEF WrittenInv
  <2>6. Reference(n, t)!Combos = Subsets /\ Reference(n, t)!OmegaKeyCount = SubsetCount(n, t)
    BY <2>2, ReferenceSubsets DEF Subsets, Machines
  <2>7. \A c \in Subsets : {s \in Machines : Number(c) \in Row(s)} = c
    BY <1>1, <2>3, HoldersOfNumber
  <2> QED
    BY <2>4, <2>5, <2>6, <2>7 DEF Number
<1>2. SearchInv => FinalMatrixIsOmega
  BY <1>1 DEF FinalMatrixIsOmega
<1> QED
  BY <1>2, SearchInvHolds, PTL

\* nChoosek counts the subsets, whatever n and k (KeyGenerator.cpp:120-132).
THEOREM NChooseKIsExact == Spec => []NChooseKCountsSubsets
<1>1. SearchInv => NChooseKCountsSubsets
  <2> SUFFICES ASSUME SearchInv, NEW k \in 0..n
               PROVE  NChooseK(n, k) = Cardinality(Reference(n, k)!Combos)
    BY DEF NChooseKCountsSubsets
  <2>1. <<n, t>> \in Deployments
    BY DEF SearchInv, Types
  <2>2. n \in Nat /\ k \in Nat
    BY <2>1, Sizes
  <2>3. NChooseK(n, k) = SubsetCount(n, k)
    BY <2>2, NChooseKCounts
  <2> QED
    BY <2>3, ReferenceSubsets DEF SubsetCount
<1> QED
  BY <1>1, SearchInvHolds, PTL

-----------------------------------------------------------------------------
(* The numbers of the closed form.                                         *)

\* LexBefore, without the constants of Omega, of which it makes no use.
Before(a, b) == \E s \in a \ b : \A r \in (a \ b) \cup (b \ a) : s <= r

\* It orders sets of numbers.
LEMMA BeforeOrders ==
    ASSUME NEW a \in SUBSET Nat, NEW b \in SUBSET Nat
    PROVE  /\ ~Before(a, a)
           /\ a # b => Before(a, b) \/ Before(b, a)
           /\ \A c \in SUBSET Nat : Before(a, b) /\ Before(b, c) => Before(a, c)
<1>1. ~Before(a, a)
  BY DEF Before
<1>2. ASSUME a # b PROVE Before(a, b) \/ Before(b, a)
  <2> DEFINE D == (a \ b) \cup (b \ a)
  <2>1. D \in SUBSET Nat /\ D # {}
    BY <1>2
  <2> HIDE DEF D
  <2>2. PICK s \in D : \A r \in D : s <= r
    BY <2>1, Least
  <2> QED
    BY <2>2 DEF Before, D
<1>3. ASSUME NEW c \in SUBSET Nat, Before(a, b), Before(b, c) PROVE Before(a, c)
  <2>1. PICK s \in a \ b : \A r \in (a \ b) \cup (b \ a) : s <= r
    BY <1>3 DEF Before
  <2>2. PICK q \in b \ c : \A r \in (b \ c) \cup (c \ b) : q <= r
    BY <1>3 DEF Before
  <2>3. s \in Nat /\ q \in Nat /\ s # q
    BY <2>1, <2>2
  <2>4. (a \ c) \cup (c \ a) \in SUBSET ((a \ b) \cup (b \ a) \cup (b \ c) \cup (c \ b))
    OBVIOUS
  <2>5. CASE s < q
    <3>1. s \notin c
      BY <2>1, <2>2, <2>3, <2>5
    <3>2. \A r \in (a \ c) \cup (c \ a) : s <= r
      BY <2>1, <2>2, <2>3, <2>5
    <3> QED
      BY <2>1, <3>1, <3>2 DEF Before
  <2>6. CASE q < s
    <3>1. q \in a
      BY <2>1, <2>2, <2>3, <2>6
    <3>2. \A r \in (a \ c) \cup (c \ a) : q <= r
      BY <2>1, <2>2, <2>3, <2>6
    <3> QED
      BY <2>2, <3>1, <3>2 DEF Before
  <2> QED
    BY <2>3, <2>5, <2>6
<1> QED
  BY <1>1, <1>2, <1>3

\* Numbered by how many come before them, finitely many sets have the first numbers, each
\* set another.
LEMMA NumberedInOrder ==
    ASSUME NEW C \in SUBSET SUBSET Nat, IsFiniteSet(C)
    PROVE  /\ \A c \in C : Cardinality({d \in C : Before(d, c)}) \in 0..(Cardinality(C) - 1)
           /\ \A c, d \in C : Cardinality({e \in C : Before(e, c)})
                                = Cardinality({e \in C : Before(e, d)}) => c = d
           /\ \A k \in 0..(Cardinality(C) - 1) : \E c \in C : Cardinality({d \in C : Before(d, c)}) = k
<1> DEFINE upTo(c) == {d \in C : Before(d, c)}
           num == [c \in C |-> Cardinality(upTo(c))]
           M == Cardinality(C)
<1>1. M \in Nat
  BY FS_CardinalityType
<1>2. ASSUME NEW c \in C
      PROVE  IsFiniteSet(upTo(c)) /\ Cardinality(upTo(c)) \in 0..(M - 1)
  <2>1. upTo(c) \in SUBSET C /\ c \notin upTo(c)
    BY BeforeOrders
  <2>2. IsFiniteSet(upTo(c)) /\ Cardinality(upTo(c)) <= M /\ M # Cardinality(upTo(c))
    BY <2>1, FS_Subset
  <2>3. Cardinality(upTo(c)) \in Nat
    BY <2>2, FS_CardinalityType
  <2> HIDE DEF upTo, M
  <2> QED
    BY <1>1, <2>2, <2>3
<1>3. ASSUME NEW c \in C, NEW d \in C, Before(c, d)
      PROVE  Cardinality(upTo(c)) # Cardinality(upTo(d))
  <2>1. upTo(c) \in SUBSET upTo(d)
    <3>1. \A e \in C : Before(e, c) => Before(e, d)
      BY <1>3, BeforeOrders
    <3> QED
      BY <3>1
  <2>2. c \in upTo(d) /\ c \notin upTo(c)
    BY <1>3, BeforeOrders
  <2> QED
    BY <1>2, <2>1, <2>2, FS_Subset
<1>4. ASSUME NEW c \in C, NEW d \in C, Cardinality(upTo(c)) = Cardinality(upTo(d)) PROVE c = d
  BY <1>3, <1>4, BeforeOrders
<1>5. num \in Injection(C, 0..(M - 1))
  BY <1>2, <1>4 DEF Injection, IsInjective
<1>6. IsFiniteSet(0..(M - 1)) /\ Cardinality(0..(M - 1)) = M
  BY <1>1, FirstNumbers
<1>7. num \in Surjection(C, 0..(M - 1))
  <2> HIDE DEF num
  <2> QED
    BY <1>5, <1>6, FS_Injection
<1>8. \A k \in 0..(M - 1) : \E c \in C : num[c] = k
  BY <1>7 DEF Surjection
<1> QED
  BY <1>2, <1>4, <1>8

\* OmegaOwners is what the other modules take it for: each key number has the subset it is
\* the number of, T servers, and no two have the same.
THEOREM OmegaNumbersSubsets ==
    ASSUME NEW m \in Nat, NEW k \in 0..m
    PROVE  /\ Reference(m, k)!OmegaKeyCount \in Nat
           /\ \A i \in 0..(Reference(m, k)!OmegaKeyCount - 1) :
                /\ Reference(m, k)!OmegaOwners[i] \in Reference(m, k)!Combos
                /\ Reference(m, k)!OmegaOwners[i] \subseteq 0..(m - 1)
                /\ Cardinality(Reference(m, k)!OmegaOwners[i]) = k
                /\ Reference(m, k)!KeyOf(Reference(m, k)!OmegaOwners[i]) = i
           /\ \A c \in Reference(m, k)!Combos :
                /\ Reference(m, k)!KeyOf(c) \in 0..(Reference(m, k)!OmegaKeyCount - 1)
                /\ Reference(m, k)!OmegaOwners[Reference(m, k)!KeyOf(c)] = c
<1> DEFINE C == Reference(m, k)!Combos
           M == Reference(m, k)!OmegaKeyCount
           Owners(i) == CHOOSE c \in C : Reference(m, k)!KeyOf(c) = i
<1>1. IsFiniteSet(0..(m - 1))
  BY FirstNumbers
<1>2. C = kSubset(k, 0..(m - 1)) /\ M = Cardinality(C)
  BY ReferenceSubsets
<1>3. /\ IsFiniteSet(C) /\ M \in Nat /\ C \in SUBSET SUBSET Nat
      /\ \A c \in C : c \subseteq 0..(m - 1) /\ Cardinality(c) = k
  BY <1>1, <1>2, SubsetsFinite
<1>4. \A c : Reference(m, k)!KeyOf(c) = Cardinality({d \in C : Before(d, c)})
  <2>1. \A c, d : Reference(m, k)!LexBefore(d, c) <=> Before(d, c)
    BY DEF Reference!LexBefore, Before
  <2> QED
    BY <1>2, <2>1, ReferenceSubsets
<1>5. \A i \in 0..(M - 1) : Reference(m, k)!OmegaOwners[i] = Owners(i)
  BY DEF Reference!OmegaOwners
<1> HIDE DEF C, M
<1>6. /\ \A c \in C : Reference(m, k)!KeyOf(c) \in 0..(M - 1)
      /\ \A c, d \in C : Reference(m, k)!KeyOf(c) = Reference(m, k)!KeyOf(d) => c = d
      /\ \A i \in 0..(M - 1) : \E c \in C : Reference(m, k)!KeyOf(c) = i
  <2> DEFINE num(c) == Cardinality({d \in C : Before(d, c)})
  <2>1. /\ \A c \in C : num(c) \in 0..(M - 1)
        /\ \A c, d \in C : num(c) = num(d) => c = d
        /\ \A i \in 0..(M - 1) : \E c \in C : num(c) = i
    <3>1. /\ \A c \in C : num(c) \in 0..(Cardinality(C) - 1)
          /\ \A c, d \in C : num(c) = num(d) => c = d
          /\ \A i \in 0..(Cardinality(C) - 1) : \E c \in C : num(c) = i
      BY <1>3, NumberedInOrder, Zenon
    <3>2. M = Cardinality(C)
      BY <1>2
    <3> HIDE DEF num
    <3> QED
      BY <3>1, <3>2
  <2>2. \A c : Reference(m, k)!KeyOf(c) = num(c)
    BY <1>4
  <2> HIDE DEF num
  <2> QED
    BY <2>1, <2>2
<1>7. \A i \in 0..(M - 1) : Owners(i) \in C /\ Reference(m, k)!KeyOf(Owners(i)) = i
  BY <1>6
<1> HIDE DEF Owners
<1>8. \A c \in C : Owners(Reference(m, k)!KeyOf(c)) = c
  BY <1>6, <1>7
<1> QED
  BY <1>3, <1>5, <1>6, <1>7, <1>8 DEF C, M
=============================================================================
