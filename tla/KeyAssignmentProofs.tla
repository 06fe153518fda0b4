------------------------- MODULE KeyAssignmentProofs -------------------------
(***************************************************************************)
(* Proofs about KeyAssignment: for any threshold with 2T > N, and whatever *)
(* the participants drawn, the scan fills both slots for every key the     *)
(* initiator does not own, and every key ends up where it is cross-checked.*)
(***************************************************************************)
EXTENDS KeyAssignment, Induction, SequenceTheorems

\* INT_MIN is no machine number.
LEMMA ServersFinite == IsFiniteSet(Servers) /\ Unset \notin Servers
  BY KeyAssignmentAssumption DEF Unset

\* Each key has T owners among the servers.
LEMMA OwnersType ==
    ASSUME NEW k \in Keys
    PROVE  Owners[k] \subseteq Servers /\ Cardinality(Owners[k]) = T
  BY KeyAssignmentAssumption, ThresholdAssumption

\* A list of keys is a list of numbers.
LEMMA KeysAreNumbers ==
    /\ Keys \subseteq Nat
    /\ \A list \in Seq(Keys) :
         list \in Seq(Nat) /\ \A j \in DOMAIN list : list[j] \in Keys
<1>1. Keys \subseteq Nat
  BY KeyAssignmentAssumption DEF Keys
<1>2. ASSUME NEW list \in Seq(Keys)
      PROVE  list \in Seq(Nat) /\ \A j \in DOMAIN list : list[j] \in Keys
  <2>1. list \in [1..Len(list) -> Keys]
    BY <1>2, LenProperties
  <2>2. list \in Seq(Nat)
    BY <1>1, <1>2, SeqMonotonic
  <2> QED
    BY <2>1, <2>2
<1> QED
  BY <1>1, <1>2

\* What one round of the scan does to the slots, ids and loads.
ScanOutcome(sc, p, load, next) ==
    \/ /\ sc.first = Unset
       /\ next.first = load /\ next.firstId = p
       /\ next.second = sc.second /\ next.secondId = sc.secondId
    \/ /\ sc.first # Unset
       /\ next.first = sc.first /\ next.firstId = sc.firstId
       /\ next.second = load /\ next.secondId = p
    \/ /\ sc.first # Unset /\ sc.second = 0
       /\ next.first = load /\ next.firstId = p
       /\ next.second = sc.first /\ next.secondId = sc.firstId
    \/ sc.first # Unset /\ sc.second = 0 /\ next = sc

\* One round of the scan has one of these outcomes.
LEMMA ScanCases ==
    ASSUME NEW p \in Servers, NEW load \in Nat, NEW sc \in Scans
    PROVE  Scan(sc, p, load) \in Scans /\ ScanOutcome(sc, p, load, Scan(sc, p, load))
<1> DEFINE next == Scan(sc, p, load)
           c1 == sc.first = Unset
           c2 == sc.first # Unset /\ sc.second # 0
           c3 == sc.first # Unset /\ sc.second = 0 /\ load > 0 /\ load > sc.first
           c4 == sc.first # Unset /\ sc.second = 0 /\ load > 0 /\ load <= sc.first
<1>1. CASE c1
  <2>1. next = [sc EXCEPT !.first = load, !.firstId = p]
    BY <1>1 DEF Scan
  <2> QED
    BY <1>1, <2>1 DEF Scans, ScanOutcome
<1>2. CASE c2
  <2>1. next = [sc EXCEPT !.second = load, !.secondId = p]
    BY <1>2 DEF Scan
  <2> QED
    BY <1>2, <2>1 DEF Scans, ScanOutcome
<1>3. CASE c3
  <2>1. next = [first |-> load, firstId |-> p, second |-> sc.first, secondId |-> sc.firstId]
    BY <1>3 DEF Scan, Scans, Unset
  <2> QED
    BY <1>3, <2>1 DEF Scans, ScanOutcome
<1>4. CASE c4
  <2>1. next = [sc EXCEPT !.second = load, !.secondId = p]
    BY <1>4 DEF Scan, Scans, Unset
  <2> QED
    BY <1>4, <2>1 DEF Scans, ScanOutcome
<1>5. CASE ~c1 /\ ~c2 /\ ~c3 /\ ~c4
  <2>1. next = sc
    BY <1>5 DEF Scan
  <2> QED
    BY <1>5, <2>1 DEF ScanOutcome
<1> QED
  BY <1>1, <1>2, <1>3, <1>4, <1>5

-----------------------------------------------------------------------------
(* Type correctness.                                                       *)

\* The types hold at the start.
LEMMA TypeInit == Init => TypeOK
  BY DEF Init, TypeOK, NoScan, Scans

\* Every step keeps the types; a scan is at a key that exists.
LEMMA TypeStep == TypeOK /\ ScanOfUnowned /\ [Next]_vars => TypeOK'
<1> SUFFICES ASSUME TypeOK, ScanOfUnowned, [Next]_vars PROVE TypeOK'
  OBVIOUS
<1> USE DEF TypeOK
<1>1. CASE SelectParticipant
  BY <1>1 DEF SelectParticipant
<1>2. CASE StartAssignment
  BY <1>2 DEF StartAssignment
<1>3. CASE OwnKey
  <2>1. Append(serverKeysToUse[machineNum], keyId) \in Seq(Keys)
    BY <1>3 DEF OwnKey
  <2> QED
    BY <1>3, <2>1 DEF OwnKey
<1>4. CASE StartScan
  BY <1>4 DEF StartScan, NoScan, Scans
<1>5. CASE ScanParticipant
  <2>1. participantServers[i] \in Servers /\ Len(serverKeysToUse[participantServers[i]]) \in Nat
    BY <1>5 DEF ScanParticipant
  <2>2. scan' \in Scans
    BY <1>5, <2>1, ScanCases DEF ScanParticipant
  <2> QED
    BY <1>5, <2>2 DEF ScanParticipant
<1>6. CASE AssignKey
  <2>1. keyId \in Keys
    BY <1>6 DEF AssignKey, ScanOfUnowned
  <2>2. \A s \in Servers : Append(serverKeysToUse[s], keyId) \in Seq(Keys)
    BY <2>1
  <2>3. CASE Unset \in {scan.firstId, scan.secondId}
    BY <1>6, <2>3 DEF AssignKey
  <2>4. CASE Unset \notin {scan.firstId, scan.secondId}
    <3>1. serverKeysToUse' \in [Servers -> Seq(Keys)]
      BY <1>6, <2>2, <2>4 DEF AssignKey
    <3> QED
      BY <1>6, <2>4, <3>1 DEF AssignKey
  <2> QED
    BY <2>3, <2>4
<1>7. CASE FinishAssignment
  BY <1>7 DEF FinishAssignment
<1>8. CASE UNCHANGED vars
  BY <1>8 DEF vars
<1> QED
  BY <1>1, <1>2, <1>3, <1>4, <1>5, <1>6, <1>7, <1>8 DEF Next

-----------------------------------------------------------------------------
(* Sequences and counting.                                                 *)

\* What appending does to the elements of a list.
LEMMA AppendToSet ==
    ASSUME NEW S, NEW list \in Seq(S), NEW x \in S
    PROVE  ToSet(Append(list, x)) = ToSet(list) \cup {x}
<1>1. /\ DOMAIN Append(list, x) = 1..(Len(list) + 1)
      /\ Append(list, x)[Len(list) + 1] = x
      /\ \A j \in 1..Len(list) : Append(list, x)[j] = list[j]
      /\ DOMAIN list = 1..Len(list) /\ Len(list) \in Nat
  OBVIOUS
<1>2. ToSet(Append(list, x)) \subseteq ToSet(list) \cup {x}
  BY <1>1 DEF ToSet
<1>3. ToSet(list) \subseteq ToSet(Append(list, x))
  BY <1>1 DEF ToSet
<1>4. Len(list) + 1 \in DOMAIN Append(list, x)
  BY <1>1
<1>5. x \in ToSet(Append(list, x))
  BY <1>1, <1>4 DEF ToSet
<1> QED
  BY <1>2, <1>3, <1>5

\* A larger key at its end leaves a list ascending.
LEMMA AppendAscending ==
    ASSUME NEW list \in Seq(Nat), NEW k \in Nat,
           \A j \in DOMAIN list : list[j] < k,
           \A a, b \in DOMAIN list : a < b => list[a] < list[b]
    PROVE  \A a, b \in DOMAIN Append(list, k) :
             a < b => Append(list, k)[a] < Append(list, k)[b]
  OBVIOUS

\* Two different elements make a pair.
LEMMA PairCardinality ==
    ASSUME NEW a, NEW b, a # b
    PROVE  Cardinality({a, b}) = 2
<1>1. IsFiniteSet({a}) /\ Cardinality({a}) = 1
  BY FS_Singleton
<1>2. {a, b} = {a} \cup {b} /\ b \notin {a}
  OBVIOUS
<1> QED
  BY <1>1, <1>2, FS_AddElement

\* A set with no element but one has at most one.
LEMMA SingletonCardinality ==
    ASSUME NEW S, NEW a, S \subseteq {a}
    PROVE  IsFiniteSet(S) /\ Cardinality(S) <= 1
<1>1. IsFiniteSet({a}) /\ Cardinality({a}) = 1
  BY FS_Singleton
<1>2. S \in SUBSET {a}
  OBVIOUS
<1> QED
  BY <1>1, <1>2, FS_Subset

\* Any T participants hold every key the initiator does not own twice at least.
LEMMA TwoOwnersTakePart ==
    ASSUME NEW m \in Servers, NEW P \in SUBSET (Servers \ {m}), Cardinality(P) = T,
           NEW k \in Keys, m \notin Owners[k]
    PROVE  IsFiniteSet(P \cap Owners[k]) /\ Cardinality(P \cap Owners[k]) >= 2
<1> DEFINE others == Servers \ {m}
           owners == Owners[k]
<1>1. owners \subseteq others /\ Cardinality(owners) = T
  BY OwnersType
<1>2. IsFiniteSet(others) /\ Cardinality(others) = Cardinality(Servers) - 1
  BY ServersFinite, FS_RemoveElement
<1>3. /\ IsFiniteSet(P) /\ IsFiniteSet(owners)
      /\ IsFiniteSet(P \cap owners) /\ P \cup owners \in SUBSET others
  BY <1>1, <1>2, FS_Subset
<1>4. Cardinality(P \cup owners) <= Cardinality(Servers) - 1
  BY <1>2, <1>3, FS_Subset
<1>5. Cardinality(P \cup owners) = 2 * T - Cardinality(P \cap owners)
  <2>1. Cardinality(P \cup owners)
          = Cardinality(P) + Cardinality(owners) - Cardinality(P \cap owners)
    BY <1>3, FS_Union
  <2>2. Cardinality(P \cap owners) \in Nat
    BY <1>3, FS_CardinalityType
  <2> HIDE DEF owners
  <2> QED
    BY <1>1, <2>1, <2>2, ThresholdAssumption
<1>6. /\ Cardinality(P \cup owners) \in Int /\ Cardinality(P \cap owners) \in Int
      /\ Cardinality(Servers) \in Int
  BY <1>2, <1>3, ServersFinite, FS_Subset, FS_CardinalityType
<1>7. T \in Nat /\ Cardinality(Servers) < 2 * T
  BY ThresholdAssumption
<1> HIDE DEF owners
<1>8. Cardinality(P \cap owners) >= 2
  BY <1>4, <1>5, <1>6, <1>7
<1> QED
  BY <1>3, <1>8 DEF owners

-----------------------------------------------------------------------------
(* The pure operators.                                                     *)

\* The scan, participant by participant.
LEMMA ScanAfterRule ==
    ASSUME NEW list \in Seq(Servers), NEW assigned \in [Servers -> Seq(Keys)], NEW key
    PROVE  LET after == ScanAfter(list, assigned, key)
           IN /\ after \in [0..Len(list) -> Scans]
              /\ after[0] = NoScan
              /\ \A j \in 1..Len(list) :
                   after[j] = IF list[j] \in Owners[key]
                              THEN Scan(after[j - 1], list[j], Len(assigned[list[j]]))
                              ELSE after[j - 1]
<1> DEFINE n == Len(list)
           round(sc, j) == IF list[j] \in Owners[key]
                           THEN Scan(sc, list[j], Len(assigned[list[j]])) ELSE sc
           Rule(f) == [j \in 0..n |-> IF j = 0 THEN NoScan ELSE round(f[j - 1], j)]
           step == [j \in 1..n |-> [sc \in Scans |-> round(sc, j)]]
           after == CHOOSE f : f = Rule(f)
<1>1. n \in Nat /\ NoScan \in Scans
  BY DEF NoScan, Scans
<1>2. ASSUME NEW j \in 1..n, NEW sc \in Scans PROVE round(sc, j) \in Scans
  <2>1. list[j] \in Servers /\ Len(assigned[list[j]]) \in Nat
    <3>1. list[j] \in Servers
      OBVIOUS
    <3>2. assigned[list[j]] \in Seq(Keys)
      BY <3>1
    <3> QED
      BY <3>1, <3>2
  <2> QED
    BY <2>1, ScanCases
<1> HIDE DEF round
<1>3. step \in [1..n -> [Scans -> Scans]]
  BY <1>2
<1> HIDE DEF n
<1>4. PICK f \in [0..n -> Scans] : Follows(f, n, NoScan, step)
  <2> HIDE DEF step
  <2> QED
    BY <1>1, <1>3, Recursion
<1>5. f = Rule(f)
  <2>1. f[0] = NoScan /\ \A j \in 1..n : f[j] = step[j][f[j - 1]]
    BY <1>4 DEF Follows
  <2>2. ASSUME NEW j \in 1..n PROVE f[j] = round(f[j - 1], j)
    <3>1. j - 1 \in 0..n
      BY <1>1
    <3>2. f[j - 1] \in Scans
      BY <3>1
    <3> QED
      BY <2>1, <3>2
  <2>3. ASSUME NEW j \in 0..n PROVE f[j] = IF j = 0 THEN NoScan ELSE round(f[j - 1], j)
    BY <1>1, <2>1, <2>2
  <2> QED
    BY <2>3
<1>6. after = Rule(after)
  <2> HIDE DEF Rule
  <2> QED
    BY <1>5
<1>7. ScanAfter(list, assigned, key) = after
  BY DEF ScanAfter, round, n
<1> HIDE DEF after, step
<1>8. /\ after = [j \in 0..n |-> after[j]] /\ after[0] = NoScan
      /\ \A j \in 1..n : after[j] = round(after[j - 1], j)
  <2>1. \A j \in 0..n : after[j] = IF j = 0 THEN NoScan ELSE round(after[j - 1], j)
    <3> SUFFICES ASSUME NEW j \in 0..n
                 PROVE  after[j] = IF j = 0 THEN NoScan ELSE round(after[j - 1], j)
      OBVIOUS
    <3>1. after[j] = Rule(after)[j]
      BY <1>6
    <3> QED
      BY <3>1
  <2>2. after = [j \in 0..n |-> after[j]]
    BY <1>6
  <2> HIDE DEF Rule
  <2>3. 0 \in 0..n /\ \A j \in 1..n : j \in 0..n /\ j # 0
    BY <1>1
  <2> QED
    BY <2>1, <2>2, <2>3
<1>9. \A j \in 0..n : after[j] \in Scans
  <2> DEFINE S == {j \in 0..n : after[j] \in Scans}
  <2>1. 0 \in S
    <3>1. 0 \in 0..n
      BY <1>1
    <3> QED
      BY <1>1, <1>8, <3>1
  <2>2. ASSUME NEW j \in 0..(n - 1), j \in S PROVE j + 1 \in S
    <3>1. j + 1 \in 1..n /\ j + 1 \in 0..n /\ j + 1 - 1 = j /\ after[j] \in Scans
      BY <1>1, <2>2
    <3>2. \A k \in 1..n : k - 1 = j => after[k] = round(after[j], k)
      BY <1>8
    <3>3. after[j + 1] = round(after[j], j + 1)
      BY <3>1, <3>2
    <3> QED
      BY <1>2, <3>1, <3>3
  <2> HIDE DEF S
  <2>3. 0..n \subseteq S
    BY <1>1, <2>1, <2>2, InductUpTo
  <2> QED
    BY <2>3 DEF S
<1> QED
  BY <1>7, <1>8, <1>9 DEF round, n

\* One key more leaves lists of keys.
LEMMA AssignType ==
    ASSUME NEW list, NEW honest, NEW assigned \in [Servers -> Seq(Keys)], NEW key \in Keys
    PROVE  Assign(list, honest, assigned, key) \in [Servers -> Seq(Keys)]
<1>1. \A s \in Servers : Append(assigned[s], key) \in Seq(Keys)
  OBVIOUS
<1> QED
  BY <1>1 DEF Assign

\* The assignment, key by key.
LEMMA ListsAfterRule ==
    ASSUME NEW list, NEW honest
    PROVE  LET lists == ListsAfter(list, honest)
           IN /\ lists[0] = [s \in Servers |-> <<>>]
              /\ \A k \in Keys : lists[k + 1] = Assign(list, honest, lists[k], k)
<1> DEFINE V == [Servers -> Seq(Keys)]
           none == [s \in Servers |-> <<>>]
           round(v, k) == Assign(list, honest, v, k - 1)
           Rule(f) == [k \in 0..KeyCount |-> IF k = 0 THEN none ELSE round(f[k - 1], k)]
           step == [k \in 1..KeyCount |-> [v \in V |-> round(v, k)]]
           lists == CHOOSE f : f = Rule(f)
<1>1. KeyCount \in Nat /\ none \in V
  BY KeyAssignmentAssumption
<1>2. ASSUME NEW k \in 1..KeyCount, NEW v \in V PROVE round(v, k) \in V
  <2>1. k - 1 \in Keys
    BY <1>1 DEF Keys
  <2> QED
    BY <2>1, AssignType
<1> HIDE DEF round, V, none
<1>3. step \in [1..KeyCount -> [V -> V]]
  BY <1>2
<1>4. PICK f \in [0..KeyCount -> V] : Follows(f, KeyCount, none, step)
  <2> HIDE DEF step
  <2> QED
    BY <1>1, <1>3, Recursion
<1>5. f = Rule(f)
  <2>1. f[0] = none /\ \A k \in 1..KeyCount : f[k] = step[k][f[k - 1]]
    BY <1>4 DEF Follows
  <2>2. ASSUME NEW k \in 1..KeyCount PROVE f[k] = round(f[k - 1], k)
    <3>1. k - 1 \in 0..KeyCount
      BY <1>1
    <3>2. f[k - 1] \in V
      BY <3>1
    <3> QED
      BY <2>1, <3>2
  <2>3. ASSUME NEW k \in 0..KeyCount PROVE f[k] = IF k = 0 THEN none ELSE round(f[k - 1], k)
    BY <1>1, <2>1, <2>2
  <2> QED
    BY <2>3
<1>6. lists = Rule(lists)
  <2> HIDE DEF Rule
  <2> QED
    BY <1>5
<1>7. ListsAfter(list, honest) = lists
  BY DEF ListsAfter, round, none
<1> HIDE DEF lists, step
<1>8. lists[0] = none /\ \A k \in 1..KeyCount : lists[k] = round(lists[k - 1], k)
  BY <1>1, <1>6
<1>9. ASSUME NEW k \in Keys PROVE lists[k + 1] = Assign(list, honest, lists[k], k)
  <2>1. k \in Int /\ k + 1 \in 1..KeyCount
    BY <1>1 DEF Keys
  <2>2. \A j \in 1..KeyCount : lists[j] = Assign(list, honest, lists[j - 1], j - 1)
    BY <1>8 DEF round
  <2> DEFINE j == k + 1
  <2>3. j \in 1..KeyCount /\ j - 1 = k
    BY <2>1
  <2> HIDE DEF j
  <2>4. lists[j] = Assign(list, honest, lists[k], k)
    BY <2>2, <2>3
  <2> QED
    BY <2>4 DEF j
<1> QED
  BY <1>7, <1>8, <1>9 DEF none

\* What the slots hold once the owners in seen have been looked at.
Slots(sc, seen) ==
    /\ {sc.firstId, sc.secondId} \ {Unset} \subseteq seen
    /\ sc.firstId = Unset <=> sc.first = Unset
    /\ sc.secondId = Unset <=> sc.second = Unset
    /\ sc.firstId = Unset => seen = {} /\ sc.secondId = Unset
    /\ sc.secondId = Unset => seen \subseteq {sc.firstId}
    /\ sc.firstId # Unset => sc.firstId # sc.secondId

\* Another owner is looked at.
LEMMA SlotsGrow ==
    ASSUME NEW sc \in Scans, NEW seen \in SUBSET Servers, NEW p \in Servers \ seen,
           NEW load \in Nat, Slots(sc, seen)
    PROVE  Slots(Scan(sc, p, load), seen \cup {p})
<1> DEFINE next == Scan(sc, p, load)
<1>1. next \in Scans /\ ScanOutcome(sc, p, load, next)
  BY ScanCases
<1>2. p # Unset /\ load # Unset
  BY ServersFinite DEF Unset
<1> HIDE DEF next
<1>3. Slots(next, seen \cup {p})
  BY <1>1, <1>2 DEF Slots, ScanOutcome, Unset, Scans
<1> QED
  BY <1>3 DEF next

\* Both slots hold owners, and not the same, once all participants have been looked at.
LEMMA SlotsFull ==
    ASSUME NEW m \in Servers, NEW P \in SUBSET (Servers \ {m}), Cardinality(P) = T,
           NEW k \in Keys, m \notin Owners[k], NEW sc, Slots(sc, P \cap Owners[k])
    PROVE  /\ {sc.firstId, sc.secondId} \subseteq P \cap Owners[k]
           /\ sc.firstId # sc.secondId
           /\ Unset \notin {sc.firstId, sc.secondId}
<1> DEFINE seen == P \cap Owners[k]
<1>1. Cardinality(seen) >= 2 /\ Cardinality(seen) \in Int
  BY TwoOwnersTakePart, FS_CardinalityType
<1>2. ~(seen \subseteq {sc.firstId})
  <2> SUFFICES ASSUME seen \subseteq {sc.firstId} PROVE FALSE
    OBVIOUS
  <2>1. Cardinality(seen) <= 1
    BY SingletonCardinality
  <2> HIDE DEF seen
  <2> QED
    BY <1>1, <2>1
<1>3. Unset \notin {sc.firstId, sc.secondId}
  BY <1>2 DEF Slots
<1> QED
  BY <1>3 DEF Slots

-----------------------------------------------------------------------------
(* The invariant.                                                          *)

\* Before the first draw the invariant holds of empty lists.
LEMMA InvInit == Init => AssignmentInv
<1> SUFFICES ASSUME Init PROVE AssignmentInv
  OBVIOUS
<1>1. \A s \in Servers : ToSet(serverKeysToUse[s]) = {}
  <2>1. ToSet(<<>>) = {}
    BY DEF ToSet
  <2> QED
    BY <2>1 DEF Init
<1>2. DrawnOnce
  <2>1. ToSet(participantServers) = {} /\ DOMAIN participantServers = {}
    BY DEF Init, ToSet
  <2>2. IsFiniteSet({}) /\ Cardinality({}) = 0
    BY FS_EmptySet
  <2> QED
    BY <2>1, <2>2 DEF Init, DrawnOnce
<1>3. OnlyPassedKeys /\ ListsAscending
  BY <1>1 DEF Init, OnlyPassedKeys, ListsAscending
<1>4. ScanOfUnowned /\ SlotsHoldOwners /\ NeverCrashes
  BY DEF Init, ScanOfUnowned, SlotsHoldOwners, NeverCrashes
<1>5. TwofoldAssignment
  BY DEF Init, TwofoldAssignment, Keys
<1>6. AssignedSoFar
  BY KeyAssignmentAssumption DEF Init, AssignedSoFar
<1> QED
  BY <1>2, <1>3, <1>4, <1>5, <1>6 DEF AssignmentInv

\* When all participants are gone through, both slots hold owners.
LEMMA SlotsFilled ==
    ASSUME TypeOK, AssignmentInv, pc = "scan", i > Len(participantServers)
    PROVE  /\ {scan.firstId, scan.secondId} \subseteq
                ToSet(participantServers) \cap Owners[keyId]
           /\ scan.firstId # scan.secondId
           /\ Unset \notin {scan.firstId, scan.secondId}
<1> DEFINE P == ToSet(participantServers)
<1>1. P \subseteq Servers \ {machineNum} /\ Cardinality(P) = T
  BY DEF AssignmentInv, DrawnOnce
<1>2. keyId \in Keys /\ machineNum \notin Owners[keyId] /\ machineNum \in Servers
  BY DEF AssignmentInv, ScanOfUnowned, TypeOK
<1>4. i = Len(participantServers) + 1
  BY DEF AssignmentInv, ScanOfUnowned, TypeOK
<1>5. SeenOwners = P \cap Owners[keyId]
  <2>1. 1..(i - 1) = DOMAIN participantServers
    BY <1>4 DEF TypeOK
  <2> QED
    BY <2>1 DEF SeenOwners, ToSet
<1>6. Slots(scan, P \cap Owners[keyId])
  BY <1>5 DEF AssignmentInv, SlotsHoldOwners, Slots
<1> HIDE DEF P
<1>7. /\ {scan.firstId, scan.secondId} \subseteq P \cap Owners[keyId]
      /\ scan.firstId # scan.secondId
      /\ Unset \notin {scan.firstId, scan.secondId}
  BY <1>1, <1>2, <1>6, SlotsFull
<1> QED
  BY <1>7 DEF P

\* Who uses the key k: the initiator m, or two of its participants.
Users(m, list, k, H) ==
    IF m \in Owners[k] THEN H = {m}
    ELSE Cardinality(H) = 2 /\ H \subseteq ToSet(list) \cap Owners[k]

\* Those of the transaction under way.
RightHolders(H, k) == Users(machineNum, participantServers, k, H)

\* A step gives the current key to its holders and goes on to the next, or
\* leaves the lists alone.
LEMMA ListsStep ==
    ASSUME TypeOK, AssignmentInv, [Next]_vars
    PROVE  /\ machineNum' = machineNum
           /\ ToSet(participantServers) \subseteq ToSet(participantServers')
           /\ \/ UNCHANGED <<serverKeysToUse, keyId>>
              \/ /\ keyId \in Keys /\ keyId' = keyId + 1
                 /\ participantServers' = participantServers
                 /\ \E H \in SUBSET Servers :
                      /\ RightHolders(H, keyId)
                      /\ serverKeysToUse' =
                           [s \in Servers |-> IF s \in H THEN Append(serverKeysToUse[s], keyId)
                                              ELSE serverKeysToUse[s]]
<1>1. CASE SelectParticipant
  <2>1. PICK s \in Servers : participantServers' = Append(participantServers, s)
    BY <1>1 DEF SelectParticipant, TypeOK
  <2>2. ToSet(participantServers') = ToSet(participantServers) \cup {s}
    BY <2>1, AppendToSet DEF TypeOK
  <2> QED
    BY <1>1, <2>2 DEF SelectParticipant
<1>2. CASE StartAssignment
  BY <1>2 DEF StartAssignment
<1>3. CASE OwnKey
  <2>1. RightHolders({machineNum}, keyId) /\ {machineNum} \in SUBSET Servers
    BY <1>3 DEF OwnKey, RightHolders, Users, TypeOK
  <2>2. serverKeysToUse' = [s \in Servers |-> IF s \in {machineNum}
                                              THEN Append(serverKeysToUse[s], keyId)
                                              ELSE serverKeysToUse[s]]
    BY <1>3 DEF OwnKey, TypeOK
  <2> QED
    BY <1>3, <2>1, <2>2 DEF OwnKey
<1>4. CASE StartScan
  BY <1>4 DEF StartScan
<1>5. CASE ScanParticipant
  BY <1>5 DEF ScanParticipant
<1>6. CASE AssignKey
  <2> DEFINE H == {scan.firstId, scan.secondId}
  <2>1. /\ H \subseteq ToSet(participantServers) \cap Owners[keyId]
        /\ scan.firstId # scan.secondId /\ Unset \notin H
    BY <1>6, SlotsFilled DEF AssignKey
  <2>2. keyId \in Keys /\ machineNum \notin Owners[keyId]
    BY <1>6 DEF AssignKey, AssignmentInv, ScanOfUnowned
  <2>3. RightHolders(H, keyId)
    BY <2>1, <2>2, PairCardinality DEF RightHolders, Users
  <2>4. H \in SUBSET Servers
    BY <2>1, <2>2, OwnersType
  <2>5. /\ serverKeysToUse' = [s \in Servers |-> IF s \in H
                                                 THEN Append(serverKeysToUse[s], keyId)
                                                 ELSE serverKeysToUse[s]]
        /\ keyId' = keyId + 1
        /\ UNCHANGED <<machineNum, participantServers>>
    BY <1>6, <2>1 DEF AssignKey
  <2> QED
    BY <2>2, <2>3, <2>4, <2>5
<1>7. CASE FinishAssignment
  BY <1>7 DEF FinishAssignment
<1>8. CASE UNCHANGED vars
  BY <1>8 DEF vars
<1> QED
  BY <1>1, <1>2, <1>3, <1>4, <1>5, <1>6, <1>7, <1>8 DEF Next

\* A key comes into the lists when the loop passes it.
LEMMA OnlyPassedKeysStep ==
    ASSUME TypeOK, AssignmentInv, [Next]_vars
    PROVE  OnlyPassedKeys'
<1>1. OnlyPassedKeys
  BY DEF AssignmentInv
<1>2. CASE UNCHANGED <<serverKeysToUse, keyId>>
  BY <1>1, <1>2 DEF OnlyPassedKeys
<1>3. CASE ~UNCHANGED <<serverKeysToUse, keyId>>
  <2>1. keyId \in Keys /\ keyId' = keyId + 1 /\ keyId \in Nat
    BY <1>3, ListsStep DEF TypeOK
  <2>2. SUFFICES ASSUME NEW s \in Servers, NEW k \in ToSet(serverKeysToUse'[s])
                 PROVE  k < keyId'
    BY DEF OnlyPassedKeys
  <2>3. \/ serverKeysToUse'[s] = serverKeysToUse[s]
        \/ serverKeysToUse'[s] = Append(serverKeysToUse[s], keyId)
    BY <1>3, ListsStep
  <2>4. ToSet(serverKeysToUse'[s]) \subseteq ToSet(serverKeysToUse[s]) \cup {keyId}
    <3>1. serverKeysToUse[s] \in Seq(Keys)
      BY DEF TypeOK
    <3>2. ToSet(Append(serverKeysToUse[s], keyId)) = ToSet(serverKeysToUse[s]) \cup {keyId}
      BY <2>1, <3>1, AppendToSet
    <3> QED
      BY <2>3, <3>2
  <2>5. \A j \in ToSet(serverKeysToUse[s]) : j \in Int /\ j < keyId
    <3>1. serverKeysToUse[s] \in Seq(Keys)
      BY DEF TypeOK
    <3>2. \A j \in ToSet(serverKeysToUse[s]) : j \in Keys
      BY <3>1, KeysAreNumbers DEF ToSet
    <3>3. \A j \in ToSet(serverKeysToUse[s]) : j < keyId
      BY <1>1 DEF OnlyPassedKeys
    <3>4. Keys \subseteq Int
      BY KeysAreNumbers
    <3> QED
      BY <3>2, <3>3, <3>4
  <2> QED
    BY <2>1, <2>2, <2>4, <2>5
<1> QED
  BY <1>2, <1>3

\* The key that is appended is larger than those before it.
LEMMA AscendingStep ==
    ASSUME TypeOK, AssignmentInv, [Next]_vars
    PROVE  ListsAscending'
<1>1. ListsAscending /\ OnlyPassedKeys
  BY DEF AssignmentInv
<1>2. CASE UNCHANGED <<serverKeysToUse, keyId>>
  BY <1>1, <1>2 DEF ListsAscending
<1>3. CASE ~UNCHANGED <<serverKeysToUse, keyId>>
  <2>1. SUFFICES ASSUME NEW s \in Servers
                 PROVE  LET list == serverKeysToUse'[s]
                        IN \A a, b \in DOMAIN list : a < b => list[a] < list[b]
    BY DEF ListsAscending
  <2>2. \/ serverKeysToUse'[s] = serverKeysToUse[s]
        \/ serverKeysToUse'[s] = Append(serverKeysToUse[s], keyId)
    BY <1>3, ListsStep
  <2>3. serverKeysToUse[s] \in Seq(Nat) /\ keyId \in Nat
    BY KeysAreNumbers DEF TypeOK
  <2>4. \A j \in DOMAIN serverKeysToUse[s] : serverKeysToUse[s][j] < keyId
    BY <1>1 DEF OnlyPassedKeys, ToSet
  <2>5. \A a, b \in DOMAIN serverKeysToUse[s] :
          a < b => serverKeysToUse[s][a] < serverKeysToUse[s][b]
    BY <1>1 DEF ListsAscending
  <2>6. CASE serverKeysToUse'[s] = serverKeysToUse[s]
    BY <2>5, <2>6
  <2>7. CASE serverKeysToUse'[s] = Append(serverKeysToUse[s], keyId)
    <3>1. \A a, b \in DOMAIN Append(serverKeysToUse[s], keyId) :
            a < b => Append(serverKeysToUse[s], keyId)[a] < Append(serverKeysToUse[s], keyId)[b]
      BY <2>3, <2>4, <2>5, AppendAscending
    <3> QED
      BY <2>7, <3>1
  <2> QED
    BY <2>2, <2>6, <2>7
<1> QED
  BY <1>2, <1>3
\* The key just assigned is with the right servers, the earlier ones stay there.
LEMMA TwofoldStep ==
    ASSUME TypeOK, AssignmentInv, [Next]_vars
    PROVE  TwofoldAssignment'
<1> DEFINE P == ToSet(participantServers)
<1>1. TwofoldAssignment /\ OnlyPassedKeys /\ P \subseteq ToSet(participantServers')
  BY ListsStep DEF AssignmentInv
<1>2. CASE UNCHANGED <<serverKeysToUse, keyId>>
  <2>1. machineNum' = machineNum /\ \A k \in Keys : Holders(k)' = Holders(k)
    BY <1>2, ListsStep DEF Holders
  <2>2. TwofoldAssignment' <=> \A k \in Keys : k < keyId =>
          IF machineNum \in Owners[k] THEN Holders(k) = {machineNum}
          ELSE /\ Cardinality(Holders(k)) = 2
               /\ Holders(k) \subseteq ToSet(participantServers') \cap Owners[k]
    BY <1>2, <2>1 DEF TwofoldAssignment
  <2> QED
    BY <1>1, <2>2 DEF TwofoldAssignment
<1>3. CASE ~UNCHANGED <<serverKeysToUse, keyId>>
  <2>1. /\ keyId \in Keys /\ keyId' = keyId + 1
        /\ participantServers' = participantServers /\ machineNum' = machineNum
    BY <1>3, ListsStep
  <2>2. PICK H \in SUBSET Servers :
          /\ RightHolders(H, keyId)
          /\ serverKeysToUse' =
               [s \in Servers |-> IF s \in H THEN Append(serverKeysToUse[s], keyId)
                                  ELSE serverKeysToUse[s]]
    BY <1>3, ListsStep
  <2>3. ASSUME NEW s \in Servers
        PROVE  ToSet(serverKeysToUse'[s]) =
                 IF s \in H THEN ToSet(serverKeysToUse[s]) \cup {keyId}
                 ELSE ToSet(serverKeysToUse[s])
    <3>1. serverKeysToUse[s] \in Seq(Keys)
      BY DEF TypeOK
    <3>2. ToSet(Append(serverKeysToUse[s], keyId)) = ToSet(serverKeysToUse[s]) \cup {keyId}
      BY <2>1, <3>1, AppendToSet
    <3> QED
      BY <2>2, <3>2
  <2>4. \A s \in Servers : keyId \notin ToSet(serverKeysToUse[s])
    BY <1>1, KeysAreNumbers DEF OnlyPassedKeys, TypeOK
  <2>5. ASSUME NEW k \in Keys, k = keyId PROVE Holders(k)' = H
    BY <2>3, <2>4, <2>5 DEF Holders
  <2>6. ASSUME NEW k \in Keys, k # keyId PROVE Holders(k)' = Holders(k)
    BY <2>3, <2>6 DEF Holders
  <2>7. SUFFICES ASSUME NEW k \in Keys, k < keyId'
                 PROVE  (IF machineNum \in Owners[k] THEN Holders(k) = {machineNum}
                         ELSE /\ Cardinality(Holders(k)) = 2
                              /\ Holders(k) \subseteq P \cap Owners[k])'
    BY DEF TwofoldAssignment
  <2>8. CASE k = keyId
    BY <2>1, <2>2, <2>5, <2>8 DEF RightHolders, Users
  <2>9. CASE k # keyId
    <3>1. k < keyId
      BY <2>1, <2>7, <2>9, KeysAreNumbers DEF TypeOK
    <3> QED
      BY <1>1, <2>1, <2>6, <2>9, <3>1 DEF TwofoldAssignment
  <2> QED
    BY <2>8, <2>9
<1> QED
  BY <1>2, <1>3

\* A draw takes the server out of the options.
LEMMA DrawnOnceStep ==
    ASSUME TypeOK, AssignmentInv, [Next]_vars
    PROVE  DrawnOnce'
<1> USE DEF DrawnOnce
<1>1. DrawnOnce
  BY DEF AssignmentInv
<1>2. CASE SelectParticipant
  <2>1. PICK s \in serverOptions : /\ participantServers' = Append(participantServers, s)
                                   /\ serverOptions' = serverOptions \ {s}
    BY <1>2 DEF SelectParticipant
  <2>2. s \in Servers /\ participantServers \in Seq(Servers)
    BY DEF TypeOK
  <2>3. ToSet(participantServers') = ToSet(participantServers) \cup {s}
    BY <2>1, <2>2, AppendToSet
  <2>4. s \notin ToSet(participantServers) /\ s # machineNum
    BY <1>1, <2>1
  <2>5. /\ IsFiniteSet(ToSet(participantServers'))
        /\ Cardinality(ToSet(participantServers')) = Cardinality(ToSet(participantServers)) + 1
    BY <1>1, <2>3, <2>4, FS_AddElement
  <2>6. Len(participantServers') = Len(participantServers) + 1
    BY <2>1, <2>2
  <2>7. \A a, b \in DOMAIN participantServers' :
          participantServers'[a] = participantServers'[b] => a = b
    <3>1. \A a \in DOMAIN participantServers : participantServers[a] # s
      BY <2>4 DEF ToSet
    <3> QED
      BY <1>1, <2>1, <2>2, <3>1
  <2>8. pc' = "select" /\ machineNum' = machineNum
    BY <1>2 DEF SelectParticipant
  <2> QED
    BY <1>1, <2>1, <2>2, <2>3, <2>4, <2>5, <2>6, <2>7, <2>8
<1>3. CASE StartAssignment
  BY <1>1, <1>3 DEF StartAssignment
<1>4. CASE OwnKey
  BY <1>1, <1>4 DEF OwnKey
<1>5. CASE StartScan
  BY <1>1, <1>5 DEF StartScan
<1>6. CASE ScanParticipant
  BY <1>1, <1>6 DEF ScanParticipant
<1>7. CASE AssignKey
  BY <1>1, <1>7 DEF AssignKey
<1>8. CASE FinishAssignment
  BY <1>1, <1>8 DEF FinishAssignment
<1>9. CASE UNCHANGED vars
  BY <1>1, <1>9 DEF vars
<1> QED
  BY <1>2, <1>3, <1>4, <1>5, <1>6, <1>7, <1>8, <1>9 DEF Next

\* A scan begins only at a key the initiator does not own.
LEMMA ScanOfUnownedStep ==
    ASSUME TypeOK, AssignmentInv, [Next]_vars
    PROVE  ScanOfUnowned'
<1> USE DEF ScanOfUnowned
<1>1. ScanOfUnowned
  BY DEF AssignmentInv
<1>2. CASE SelectParticipant
  BY <1>2 DEF SelectParticipant
<1>3. CASE StartAssignment
  BY <1>3 DEF StartAssignment
<1>4. CASE OwnKey
  BY <1>4 DEF OwnKey
<1>5. CASE StartScan
  BY <1>5 DEF StartScan, TypeOK
<1>6. CASE ScanParticipant
  BY <1>1, <1>6 DEF ScanParticipant, TypeOK
<1>7. CASE AssignKey
  BY <1>7 DEF AssignKey
<1>8. CASE FinishAssignment
  BY <1>8 DEF FinishAssignment
<1>9. CASE UNCHANGED vars
  BY <1>1, <1>9 DEF vars
<1> QED
  BY <1>2, <1>3, <1>4, <1>5, <1>6, <1>7, <1>8, <1>9 DEF Next

\* The loop over the participants: one more of them is seen.
LEMMA SlotsStep ==
    ASSUME TypeOK, AssignmentInv, [Next]_vars
    PROVE  SlotsHoldOwners'
<1>1. SlotsHoldOwners
  BY DEF AssignmentInv
<1>2. CASE SelectParticipant \/ StartAssignment \/ OwnKey \/ AssignKey \/ FinishAssignment
  BY <1>2 DEF SelectParticipant, StartAssignment, OwnKey, AssignKey, FinishAssignment,
              SlotsHoldOwners
<1>3. CASE StartScan
  <2>1. SeenOwners' = {}
    BY <1>3 DEF StartScan, SeenOwners
  <2> QED
    BY <1>3, <2>1 DEF StartScan, SlotsHoldOwners, NoScan
<1>4. CASE ScanParticipant
  <2> DEFINE p == participantServers[i]
             load == Len(serverKeysToUse[p])
  <2>1. /\ p \in Servers /\ load \in Nat /\ scan \in Scans /\ p # Unset
        /\ i \in DOMAIN participantServers /\ i \in Nat \ {0}
    BY <1>4, ServersFinite DEF ScanParticipant, TypeOK
  <2>2. /\ scan' = IF p \in Owners[keyId] THEN Scan(scan, p, load) ELSE scan
        /\ UNCHANGED <<participantServers, keyId, serverKeysToUse>>
        /\ i' = i + 1 /\ pc = "scan"
    BY <1>4 DEF ScanParticipant
  <2>3. SeenOwners' = SeenOwners \cup ({p} \cap Owners[keyId])
    <3>1. 1..(i' - 1) = 1..(i - 1) \cup {i}
      BY <2>1, <2>2
    <3> QED
      BY <2>2, <3>1 DEF SeenOwners
  <2>4. p \notin SeenOwners
    <3>1. ASSUME NEW j \in 1..(i - 1) PROVE participantServers[j] # p
      <4>1. j \in DOMAIN participantServers /\ j # i
        BY <1>4 DEF ScanParticipant, TypeOK
      <4> QED
        BY <2>1, <4>1 DEF AssignmentInv, DrawnOnce
    <3> QED
      BY <3>1 DEF SeenOwners
  <2>6. CASE p \notin Owners[keyId]
    <3>1. SeenOwners' = SeenOwners /\ scan' = scan
      BY <2>2, <2>3, <2>6
    <3> QED
      BY <1>1, <2>2, <3>1 DEF SlotsHoldOwners
  <2>7. CASE p \in Owners[keyId]
    <3>1. SeenOwners' = SeenOwners \cup {p}
      BY <2>3, <2>7
    <3>2. SeenOwners \in SUBSET Servers /\ Slots(scan, SeenOwners)
      <4>1. \A k \in Keys : Owners[k] \subseteq Servers
        BY OwnersType
      <4>2. keyId \in Keys
        BY <2>2 DEF AssignmentInv, ScanOfUnowned
      <4> QED
        BY <1>1, <2>2, <4>1, <4>2 DEF SlotsHoldOwners, Slots, SeenOwners
    <3>3. Slots(Scan(scan, p, load), SeenOwners \cup {p})
      BY <2>1, <2>4, <3>2, SlotsGrow
    <3> HIDE DEF p, load
    <3> QED
      BY <2>2, <2>7, <3>1, <3>3 DEF SlotsHoldOwners, Slots
  <2> QED
    BY <2>6, <2>7
<1>5. CASE UNCHANGED vars
  BY <1>1, <1>5 DEF vars, SlotsHoldOwners, SeenOwners
<1> QED
  BY <1>2, <1>3, <1>4, <1>5 DEF Next

\* At the end of a scan both slots are filled.
LEMMA NeverCrashesStep ==
    ASSUME TypeOK, AssignmentInv, [Next]_vars
    PROVE  NeverCrashes'
<1>1. CASE AssignKey
  BY <1>1, SlotsFilled DEF AssignKey, NeverCrashes
<1>2. CASE ~AssignKey
  BY <1>2 DEF Next, vars, AssignmentInv, NeverCrashes, SelectParticipant, StartAssignment,
              OwnKey, StartScan, ScanParticipant, FinishAssignment
<1> QED
  BY <1>1, <1>2

\* The lists and the locals stay those of the assignment so far.
LEMMA AssignedStep ==
    ASSUME TypeOK, AssignmentInv, [Next]_vars
    PROVE  AssignedSoFar'
<1> DEFINE list == participantServers
           lists == ListsAfter(list, machineNum)
<1>1. AssignedSoFar /\ ScanOfUnowned
  BY DEF AssignmentInv
<1>2. /\ lists[0] = [s \in Servers |-> <<>>]
      /\ \A k \in Keys : lists[k + 1] = Assign(list, machineNum, lists[k], k)
  BY ListsAfterRule
<1>3. KeyCount \in Nat /\ \A k \in Keys : k + 1 <= KeyCount
  BY KeyAssignmentAssumption DEF Keys
<1>4. ASSUME NEW key
      PROVE  LET after == ScanAfter(list, serverKeysToUse, key)
             IN /\ after[0] = NoScan
                /\ \A j \in 1..Len(list) :
                     after[j] = IF list[j] \in Owners[key]
                                THEN Scan(after[j - 1], list[j], Len(serverKeysToUse[list[j]]))
                                ELSE after[j - 1]
  <2>1. list \in Seq(Servers) /\ serverKeysToUse \in [Servers -> Seq(Keys)]
    BY DEF TypeOK
  <2> HIDE DEF list
  <2> QED
    BY <2>1, ScanAfterRule
<1>5. CASE SelectParticipant
  BY <1>1, <1>5 DEF SelectParticipant, AssignedSoFar
<1>6. CASE StartAssignment
  <2>1. serverKeysToUse = lists[keyId] /\ keyId = 0
    BY <1>1, <1>2, <1>6 DEF StartAssignment, AssignedSoFar
  <2> HIDE DEF lists
  <2> QED
    BY <1>1, <1>6, <2>1 DEF StartAssignment, AssignedSoFar, lists
<1>7. CASE OwnKey
  <2>1. /\ keyId \in Keys /\ keyId' = keyId + 1 /\ pc' = "key"
        /\ participantServers' = list /\ machineNum' = machineNum
        /\ serverKeysToUse = lists[keyId]
    BY <1>1, <1>7 DEF OwnKey, AssignedSoFar
  <2>2. serverKeysToUse' = Assign(list, machineNum, serverKeysToUse, keyId)
    BY <1>7 DEF OwnKey, Assign, TypeOK
  <2>3. serverKeysToUse' = lists[keyId']
    BY <1>2, <2>1, <2>2
  <2> QED
    BY <1>3, <2>1, <2>3 DEF AssignedSoFar
<1>8. CASE StartScan
  <2>1. /\ pc = "key" /\ pc' = "scan" /\ i' = 1 /\ scan' = NoScan
        /\ UNCHANGED <<participantServers, machineNum, serverKeysToUse, keyId>>
    BY <1>8 DEF StartScan
  <2>2. scan' = ScanAfter(list, serverKeysToUse, keyId)[i' - 1]
    BY <1>4, <2>1
  <2> QED
    BY <1>1, <2>1, <2>2 DEF AssignedSoFar
<1>9. CASE ScanParticipant
  <2>1. /\ pc = "scan" /\ pc' = "scan" /\ i' = i + 1 /\ i \in 1..Len(list) /\ i' - 1 = i
        /\ scan' = IF list[i] \in Owners[keyId]
                   THEN Scan(scan, list[i], Len(serverKeysToUse[list[i]])) ELSE scan
        /\ UNCHANGED <<participantServers, machineNum, serverKeysToUse, keyId>>
    BY <1>9 DEF ScanParticipant, TypeOK
  <2>2. scan = ScanAfter(list, serverKeysToUse, keyId)[i - 1]
    BY <1>1, <2>1 DEF AssignedSoFar
  <2>3. scan' = ScanAfter(list, serverKeysToUse, keyId)[i' - 1]
    BY <1>4, <2>1, <2>2
  <2> QED
    BY <1>1, <2>1, <2>3 DEF AssignedSoFar
<1>10. CASE AssignKey
  <2>1. Unset \notin {scan.firstId, scan.secondId}
    BY <1>10, SlotsFilled DEF AssignKey
  <2>2. /\ pc = "scan" /\ pc' = "key" /\ keyId' = keyId + 1 /\ i > Len(list)
        /\ serverKeysToUse' =
             [s \in Servers |-> IF s \in {scan.firstId, scan.secondId}
                                THEN Append(serverKeysToUse[s], keyId)
                                ELSE serverKeysToUse[s]]
        /\ UNCHANGED <<machineNum, participantServers>>
    BY <1>10, <2>1 DEF AssignKey
  <2>3. keyId \in Keys /\ machineNum \notin Owners[keyId] /\ i - 1 = Len(list)
    <3>1. keyId \in Keys /\ machineNum \notin Owners[keyId] /\ i <= Len(list) + 1
      BY <1>1, <2>2 DEF ScanOfUnowned
    <3>2. i \in Nat /\ Len(list) \in Nat
      BY DEF TypeOK
    <3> QED
      BY <2>2, <3>1, <3>2
  <2>4. scan = ScanAll(list, serverKeysToUse, keyId)
    BY <1>1, <2>2, <2>3 DEF AssignedSoFar, ScanAll
  <2>5. serverKeysToUse' = Assign(list, machineNum, serverKeysToUse, keyId)
    BY <2>2, <2>3, <2>4 DEF Assign
  <2>6. serverKeysToUse' = lists[keyId']
    BY <1>1, <1>2, <2>2, <2>3, <2>5 DEF AssignedSoFar
  <2> QED
    BY <1>3, <2>2, <2>3, <2>6 DEF AssignedSoFar
<1>11. CASE FinishAssignment
  <2>1. keyId = KeyCount
    BY <1>1, <1>3, <1>11 DEF FinishAssignment, AssignedSoFar, Keys, TypeOK
  <2> QED
    BY <1>1, <1>11, <2>1 DEF FinishAssignment, AssignedSoFar
<1>12. CASE UNCHANGED vars
  BY <1>1, <1>12 DEF vars, AssignedSoFar
<1> QED
  BY <1>5, <1>6, <1>7, <1>8, <1>9, <1>10, <1>11, <1>12 DEF Next

-----------------------------------------------------------------------------
\* The parts together are inductive.
LEMMA Correct == Spec => [](TypeOK /\ AssignmentInv)
<1>1. Init => TypeOK /\ AssignmentInv
  BY TypeInit, InvInit
<1>2. TypeOK /\ AssignmentInv /\ [Next]_vars => (TypeOK /\ AssignmentInv)'
  <2> SUFFICES ASSUME TypeOK, AssignmentInv, [Next]_vars PROVE (TypeOK /\ AssignmentInv)'
    OBVIOUS
  <2>1. TypeOK'
    BY TypeStep DEF AssignmentInv
  <2> QED
    BY <2>1, DrawnOnceStep, OnlyPassedKeysStep, ScanOfUnownedStep, SlotsStep,
       TwofoldStep, AscendingStep, NeverCrashesStep, AssignedStep DEF AssignmentInv
<1> QED
  BY <1>1, <1>2, PTL DEF Spec

\* Whatever the loads and the order of the list, all variables keep their
\* types: list entries are key ids, the slots hold servers (DISEServerUtil.cpp:126-247).
THEOREM AssignmentTypeCorrect == Spec => []TypeOK
  BY Correct, PTL

\* The inductive invariant holds: the draw, the slots of the scan and the lists
\* (DISEServerUtil.cpp:126-247).
THEOREM AssignmentCorrect == Spec => []AssignmentInv
  BY Correct, PTL

\* For every N, T with T < N < 2T and every draw, a key the loop has passed is
\* used by its owner, the initiator, alone, or by exactly two participants that
\* own it (DISEServerUtil.cpp:190-244).
THEOREM EveryKeyCrossChecked == Spec => []TwofoldAssignment
<1>1. AssignmentInv => TwofoldAssignment
  BY DEF AssignmentInv
<1> QED
  BY <1>1, Correct, PTL

\* Neither list is missing when the key is appended to it: the null pointer of
\* DISEServerUtil.cpp:234-237 is never dereferenced.
THEOREM AssignmentNeverCrashes == Spec => []NeverCrashes
<1>1. AssignmentInv => NeverCrashes
  BY DEF AssignmentInv
<1> QED
  BY <1>1, Correct, PTL

\* The scan leaves two different owners in its slots (DISEServerUtil.cpp:205-229).
THEOREM ScanFindsOwners == Spec => []SlotsHoldOwners
<1>1. AssignmentInv => SlotsHoldOwners
  BY DEF AssignmentInv
<1> QED
  BY <1>1, Correct, PTL

\* Each list is strictly ascending, the order in which its answer comes back.
THEOREM ListsStayAscending == Spec => []ListsAscending
<1>1. AssignmentInv => ListsAscending
  BY DEF AssignmentInv
<1> QED
  BY <1>1, Correct, PTL

\* Round by round the loops come to what the recursive definition says, the assignment that
\* the models of the transaction take as their constant (DISEServerUtil.cpp:174-247).
THEOREM LoopsComputeKeyMap == Spec => []StepsComputeKeyMap
<1>1. AssignmentInv => StepsComputeKeyMap
  BY DEF AssignmentInv, AssignedSoFar, StepsComputeKeyMap, KeyMap
<1> QED
  BY <1>1, Correct, PTL

-----------------------------------------------------------------------------
(* The assignment as a whole, as the models of the transaction take it.    *)

\* What getParticipantServerList may draw at m.
Draws(m) ==
    {list \in [1..T -> Servers \ {m}] : \A a, b \in 1..T : a # b => list[a] # list[b]}

\* A draw is a list of T servers.
LEMMA DrawType ==
    ASSUME NEW m \in Servers, NEW list \in Draws(m)
    PROVE  /\ list \in Seq(Servers) /\ Len(list) = T /\ DOMAIN list = 1..T
           /\ ToSet(list) \in SUBSET (Servers \ {m}) /\ Cardinality(ToSet(list)) = T
           /\ \A a, b \in 1..T : list[a] = list[b] => a = b
<1>1. T \in Nat /\ list \in [1..T -> Servers \ {m}]
  BY ThresholdAssumption DEF Draws
<1>2. list \in Seq(Servers) /\ Len(list) = T /\ DOMAIN list = 1..T
  BY <1>1
<1>3. \A a, b \in 1..T : list[a] = list[b] => a = b
  BY DEF Draws
<1>4. ToSet(list) = {list[a] : a \in 1..T}
  BY <1>2 DEF ToSet
<1>5. list \in Bijection(1..T, ToSet(list))
  BY <1>1, <1>3, <1>4 DEF Bijection, Injection, Surjection, IsInjective
<1>6. Cardinality(ToSet(list)) = T
  <2>1. IsFiniteSet(1..T) /\ Cardinality(1..T) = T
    BY <1>1, FS_Interval
  <2>2. ExistsBijection(1..T, ToSet(list))
    BY <1>5 DEF ExistsBijection
  <2> QED
    BY <2>1, <2>2, FS_Bijection
<1> QED
  BY <1>1, <1>2, <1>3, <1>4, <1>6

\* A scan has seen all owners in the list in the end, whatever it overwrites and swaps.
LEMMA ScanSees ==
    ASSUME NEW list \in Seq(Servers), \A a, b \in 1..Len(list) : list[a] = list[b] => a = b,
           NEW assigned \in [Servers -> Seq(Keys)], NEW key \in Keys
    PROVE  Slots(ScanAll(list, assigned, key), ToSet(list) \cap Owners[key])
<1> DEFINE n == Len(list)
           after == ScanAfter(list, assigned, key)
           seen(j) == {list[a] : a \in 1..j} \cap Owners[key]
           S == {j \in 0..n : Slots(after[j], seen(j))}
<1>1. /\ n \in Nat /\ DOMAIN list = 1..n /\ \A j \in 1..n : list[j] \in Servers
      /\ \A a, b \in 1..n : list[a] = list[b] => a = b
  OBVIOUS
<1>2. /\ after \in [0..n -> Scans]
      /\ after[0] = NoScan
      /\ \A j \in 1..n : after[j] = IF list[j] \in Owners[key]
                                    THEN Scan(after[j - 1], list[j], Len(assigned[list[j]]))
                                    ELSE after[j - 1]
  BY ScanAfterRule
<1> HIDE DEF n
<1> HIDE DEF after
<1>3. 0 \in S
  <2>1. seen(0) = {}
    OBVIOUS
  <2>2. Slots(NoScan, {})
    BY DEF Slots, NoScan
  <2> QED
    <3>1. 0 \in 0..n
      BY <1>1
    <3> HIDE DEF seen
    <3> QED
      BY <1>2, <2>1, <2>2, <3>1
<1>4. ASSUME NEW j \in 0..(n - 1), j \in S PROVE j + 1 \in S
  <2> DEFINE q == j + 1
             p == list[q]
             load == Len(assigned[p])
  <2>1. j \in 0..n /\ q \in 1..n /\ q \in 0..n /\ q - 1 = j /\ 1..q = 1..j \cup {q}
    BY <1>1
  <2>2. p \in Servers /\ after[j] \in Scans /\ seen(j) \in SUBSET Servers /\ load \in Nat
    <3>1. p \in Servers
      BY <1>1, <2>1
    <3>2. assigned[p] \in Seq(Keys)
      BY <3>1
    <3>3. Owners[key] \subseteq Servers
      BY OwnersType
    <3> QED
      BY <1>2, <2>1, <3>1, <3>2, <3>3
  <2>3. Slots(after[j], seen(j))
    BY <1>4
  <2>4. after[q] = IF p \in Owners[key] THEN Scan(after[j], p, load) ELSE after[j]
    BY <1>2, <2>1
  <2>5. p \notin seen(j)
    <3>1. ASSUME NEW a \in 1..j PROVE list[a] # p
      <4>1. a \in 1..n /\ a # q
        BY <1>1, <2>1
      <4> QED
        BY <1>1, <2>1, <4>1
    <3> QED
      BY <3>1
  <2>6. seen(q) = seen(j) \cup ({p} \cap Owners[key])
    BY <2>1
  <2> HIDE DEF q, p, load, seen
  <2>7. Slots(after[q], seen(q))
    <3>1. CASE p \notin Owners[key]
      <4>1. seen(q) = seen(j) /\ after[q] = after[j]
        BY <2>4, <2>6, <3>1
      <4> QED
        BY <2>3, <4>1
    <3>2. CASE p \in Owners[key]
      <4>1. seen(q) = seen(j) \cup {p} /\ after[q] = Scan(after[j], p, load)
        BY <2>4, <2>6, <3>2
      <4>2. Slots(Scan(after[j], p, load), seen(j) \cup {p})
        BY <2>2, <2>3, <2>5, SlotsGrow
      <4> QED
        BY <4>1, <4>2
    <3> QED
      BY <3>1, <3>2
  <2> QED
    BY <2>1, <2>7 DEF q
<1>5. Slots(after[n], ToSet(list) \cap Owners[key])
  <2> HIDE DEF S
  <2>1. 0..n \subseteq S
    BY <1>1, <1>3, <1>4, InductUpTo
  <2>2. n \in S
    BY <1>1, <2>1
  <2>3. seen(n) = ToSet(list) \cap Owners[key]
    BY <1>1 DEF ToSet
  <2> QED
    BY <2>2, <2>3 DEF S
<1>6. ScanAll(list, assigned, key) = after[n]
  BY DEF ScanAll, after, n
<1> QED
  BY <1>5, <1>6

\* The scan of a key the initiator does not own ends on two owners.
LEMMA ScanEnds ==
    ASSUME NEW m \in Servers, NEW list \in Draws(m), NEW assigned \in [Servers -> Seq(Keys)],
           NEW key \in Keys, m \notin Owners[key]
    PROVE  LET sc == ScanAll(list, assigned, key)
           IN /\ {sc.firstId, sc.secondId} \subseteq ToSet(list) \cap Owners[key]
              /\ sc.firstId # sc.secondId
<1> DEFINE sc == ScanAll(list, assigned, key)
           P == ToSet(list)
<1>1. /\ list \in Seq(Servers) /\ \A a, b \in 1..Len(list) : list[a] = list[b] => a = b
      /\ P \in SUBSET (Servers \ {m}) /\ Cardinality(P) = T
  BY DrawType
<1>2. Slots(sc, P \cap Owners[key])
  BY <1>1, ScanSees
<1> HIDE DEF sc, P
<1>3. /\ {sc.firstId, sc.secondId} \subseteq P \cap Owners[key]
      /\ sc.firstId # sc.secondId
      /\ Unset \notin {sc.firstId, sc.secondId}
  BY <1>1, <1>2, SlotsFull
<1> QED
  BY <1>3 DEF sc, P

\* The next key is appended to the lists of its users, to no other.
LEMMA AssignsToUsers ==
    ASSUME NEW m \in Servers, NEW list \in Draws(m), NEW assigned \in [Servers -> Seq(Keys)],
           NEW key \in Keys
    PROVE  \E H \in SUBSET Servers :
             /\ Users(m, list, key, H)
             /\ Assign(list, m, assigned, key) =
                  [s \in Servers |-> IF s \in H THEN Append(assigned[s], key) ELSE assigned[s]]
<1> DEFINE sc == ScanAll(list, assigned, key)
<1>1. CASE m \in Owners[key]
  <2>1. Users(m, list, key, {m})
    BY <1>1 DEF Users
  <2>2. Assign(list, m, assigned, key) =
          [s \in Servers |-> IF s \in {m} THEN Append(assigned[s], key) ELSE assigned[s]]
    BY <1>1 DEF Assign
  <2> QED
    BY <2>1, <2>2
<1>2. CASE m \notin Owners[key]
  <2> DEFINE H == {sc.firstId, sc.secondId}
  <2>1. H \subseteq ToSet(list) \cap Owners[key] /\ sc.firstId # sc.secondId
    BY <1>2, ScanEnds
  <2>2. Assign(list, m, assigned, key) =
          [s \in Servers |-> IF s \in H THEN Append(assigned[s], key) ELSE assigned[s]]
    BY <1>2 DEF Assign
  <2> HIDE DEF sc
  <2>3. Cardinality(H) = 2
    BY <2>1, PairCardinality
  <2> HIDE DEF H
  <2>4. Users(m, list, key, H) /\ H \in SUBSET Servers
    BY <1>2, <2>1, <2>3, OwnersType DEF Users
  <2> QED
    BY <2>2, <2>4
<1> QED
  BY <1>1, <1>2

\* The lists after the first k keys: each of these keys is with its users.
LEMMA ListsRight ==
    ASSUME NEW m \in Servers, NEW list \in Draws(m)
    PROVE  LET lists == KeyMap(list, m)
           IN /\ lists \in [Servers -> Seq(Keys)]
              /\ \A k \in Keys : Users(m, list, k, {s \in Servers : k \in ToSet(lists[s])})
<1> DEFINE lists == ListsAfter(list, m)
           holders(k, j) == {s \in Servers : j \in ToSet(lists[k][s])}
           Fine(k) == /\ lists[k] \in [Servers -> Seq(Keys)]
                      /\ \A j \in Keys : j < k => Users(m, list, j, holders(k, j))
                      /\ \A j \in Keys : j >= k => holders(k, j) = {}
           S == {k \in 0..KeyCount : Fine(k)}
<1>1. /\ lists[0] = [s \in Servers |-> <<>>]
      /\ \A k \in Keys : lists[k + 1] = Assign(list, m, lists[k], k)
  BY ListsAfterRule
<1>2. KeyCount \in Nat /\ \A k \in Keys : k \in Nat
  BY KeyAssignmentAssumption DEF Keys
<1> HIDE DEF lists
<1>3. 0 \in S
  <2>1. ToSet(<<>>) = {}
    BY DEF ToSet
  <2>2. \A s \in Servers : ToSet(lists[0][s]) = {}
    BY <1>1, <2>1
  <2>3. lists[0] \in [Servers -> Seq(Keys)]
    BY <1>1
  <2>4. \A j \in Keys : ~(j < 0) /\ holders(0, j) = {}
    BY <1>2, <2>2
  <2> HIDE DEF holders
  <2>5. Fine(0) /\ 0 \in 0..KeyCount
    BY <1>2, <2>3, <2>4
  <2> HIDE DEF Fine
  <2> QED
    BY <2>5
<1>4. ASSUME NEW k \in 0..(KeyCount - 1), k \in S PROVE k + 1 \in S
  <2> DEFINE next == k + 1
  <2>0. Fine(k)
    <3> HIDE DEF Fine
    <3> QED
      BY <1>4
  <2>1. k \in Keys /\ next \in 0..KeyCount /\ lists[k] \in [Servers -> Seq(Keys)]
    <3>1. k \in Keys /\ k + 1 \in 0..KeyCount
      BY <1>2 DEF Keys
    <3> QED
      BY <2>0, <3>1
  <2>2. lists[next] = Assign(list, m, lists[k], k)
    BY <1>1, <2>1
  <2>3. lists[next] \in [Servers -> Seq(Keys)]
    <3>1. Assign(list, m, lists[k], k) \in [Servers -> Seq(Keys)]
      BY <2>1, AssignType
    <3> QED
      BY <2>2, <3>1
  <2>4. PICK H \in SUBSET Servers :
          /\ Users(m, list, k, H)
          /\ lists[next] = [s \in Servers |-> IF s \in H THEN Append(lists[k][s], k)
                                              ELSE lists[k][s]]
    <3> DEFINE had == lists[k]
    <3>1. had \in [Servers -> Seq(Keys)] /\ k \in Keys
      BY <2>1
    <3> HIDE DEF had
    <3>2. \E H \in SUBSET Servers :
            /\ Users(m, list, k, H)
            /\ Assign(list, m, had, k) =
                 [s \in Servers |-> IF s \in H THEN Append(had[s], k) ELSE had[s]]
      BY <3>1, AssignsToUsers
    <3>3. lists[next] = Assign(list, m, had, k)
      BY <2>2 DEF had
    <3> HIDE DEF next
    <3> QED
      BY <3>2, <3>3 DEF had
  <2>5. ASSUME NEW s \in Servers
        PROVE  ToSet(lists[next][s]) =
                 IF s \in H THEN ToSet(lists[k][s]) \cup {k} ELSE ToSet(lists[k][s])
    <3>1. lists[k][s] \in Seq(Keys)
      BY <2>1
    <3>2. ToSet(Append(lists[k][s], k)) = ToSet(lists[k][s]) \cup {k}
      <4> DEFINE had == lists[k][s]
      <4> HIDE DEF had
      <4>1. had \in Seq(Keys)
        BY <3>1 DEF had
      <4>2. ToSet(Append(had, k)) = ToSet(had) \cup {k}
        BY <2>1, <4>1, AppendToSet
      <4> QED
        BY <4>2 DEF had
    <3> QED
      BY <2>4, <3>2
  <2>6. ASSUME NEW j \in Keys, j # k PROVE holders(next, j) = holders(k, j)
    BY <2>5, <2>6
  <2>7. holders(next, k) = H
    <3>1. k >= k
      BY <1>2, <2>1
    <3>2. holders(k, k) = {}
      BY <2>0, <2>1, <3>1
    <3> QED
      BY <2>5, <3>2
  <2>8. ASSUME NEW j \in Keys PROVE /\ j < next <=> j < k \/ j = k
                                    /\ j >= next => j >= k /\ j # k
    <3>1. j \in Nat /\ k \in Nat
      BY <1>2, <2>1
    <3> QED
      BY <3>1
  <2> HIDE DEF holders, next
  <2>9. \A j \in Keys : j < next => Users(m, list, j, holders(next, j))
    BY <2>0, <2>4, <2>6, <2>7, <2>8
  <2>10. \A j \in Keys : j >= next => holders(next, j) = {}
    BY <2>0, <2>6, <2>8
  <2>11. Fine(next)
    BY <2>3, <2>9, <2>10
  <2> HIDE DEF Fine
  <2> QED
    BY <2>1, <2>11 DEF next
<1>5. Fine(KeyCount)
  <2> HIDE DEF S
  <2>1. 0..KeyCount \subseteq S
    BY <1>2, <1>3, <1>4, InductUpTo
  <2>2. KeyCount \in S
    BY <1>2, <2>1
  <2> HIDE DEF Fine
  <2> QED
    BY <2>2 DEF S
<1>6. KeyMap(list, m) = lists[KeyCount]
  BY DEF KeyMap, lists
<1>7. \A k \in Keys : k < KeyCount
  BY <1>2 DEF Keys
<1> QED
  BY <1>5, <1>6, <1>7

\* What getParticipantServerList and getParticipantServerKeyMap come to, for every N and T
\* with T < N < 2T, is what RobustTransaction and DiseSystem assume of the assignments they
\* are given: all keys are used, none by initiator and participant, all of a participant's
\* by another one as well (DISEServerUtil.cpp:126-247).
THEOREM AssignmentsFitTransactions ==
    ASSUME NEW m \in Servers, NEW list \in Draws(m)
    PROVE  LET a == AssignmentOf(m, list)
           IN a.machine = m /\ IsAssignment(a) /\ UsesAllKeys(a) /\ IsCrossChecked(a)
<1> DEFINE lists == KeyMap(list, m)
           keys  == [s \in Servers |-> ToSet(lists[s])]
           P     == ToSet(list)
           users(k) == {s \in Servers : k \in keys[s]}
           a == [machine |-> m, participants |-> P, keys |-> keys]
<1>1. P \in SUBSET (Servers \ {m})
  BY DrawType
<1>2. lists \in [Servers -> Seq(Keys)]
      /\ \A k \in Keys : Users(m, list, k, {s \in Servers : k \in ToSet(lists[s])})
  BY ListsRight
<1> HIDE DEF lists
<1>3. keys \in [Servers -> SUBSET Keys]
  <2>1. \A s \in Servers : lists[s] \in Seq(Keys)
    BY <1>2
  <2>2. ASSUME NEW s \in Servers PROVE ToSet(lists[s]) \in SUBSET Keys
    <3>1. \A j \in DOMAIN lists[s] : lists[s][j] \in Keys
      BY <2>1, KeysAreNumbers
    <3> QED
      BY <3>1 DEF ToSet
  <2> QED
    BY <2>2
<1>4. \A k \in Keys : Users(m, list, k, users(k))
  BY <1>2
<1>5. AssignmentOf(m, list) = a
  BY DEF AssignmentOf, lists
<1>6. \A s \in Servers, k \in Keys : k \in keys[s] <=> s \in users(k)
  OBVIOUS
<1> HIDE DEF keys, P, users
<1>7. ASSUME NEW k \in Keys
      PROVE  /\ m \in users(k) => users(k) = {m}
             /\ users(k) \subseteq P \cup {m}
             /\ users(k) # {}
             /\ \A s \in users(k) \ {m} : \E r \in users(k) \ {m} : r # s
  <2> DEFINE H == users(k)
  <2>1. Users(m, list, k, H)
    BY <1>4
  <2> HIDE DEF H
  <2>2. CASE m \in Owners[k]
    <3>1. H = {m}
      BY <2>1, <2>2 DEF Users
    <3> QED
      BY <3>1 DEF H
  <2>3. CASE m \notin Owners[k]
    <3>1. Cardinality(H) = 2 /\ H \subseteq P
      BY <2>1, <2>3 DEF Users, P
    <3>2. m \notin H
      BY <1>1, <3>1
    <3>3. \A s : ~(H \subseteq {s})
      <4> SUFFICES ASSUME NEW s, H \subseteq {s} PROVE FALSE
        OBVIOUS
      <4>1. Cardinality(H) <= 1
        BY SingletonCardinality
      <4> QED
        BY <3>1, <4>1
    <3>4. \A s : \E r \in H : r # s
      BY <3>3
    <3> QED
      BY <3>1, <3>2, <3>4 DEF H
  <2> QED
    BY <2>2, <2>3
<1>8. IsAssignment(a)
  <2>1. a \in [machine : Servers, participants : SUBSET Servers, keys : [Servers -> SUBSET Keys]]
        /\ a.machine \notin a.participants
    BY <1>1, <1>3
  <2>2. ASSUME NEW s \in Servers, s \notin P \cup {m} PROVE keys[s] = {}
    BY <1>3, <1>6, <1>7, <2>2
  <2>3. ASSUME NEW s \in P PROVE keys[s] \cap keys[m] = {}
    <3>1. s \in Servers /\ s # m
      BY <1>1
    <3>2. \A k \in Keys : ~(s \in users(k) /\ m \in users(k))
      BY <1>7, <3>1
    <3> QED
      BY <1>3, <1>6, <3>1, <3>2
  <2> QED
    BY <2>1, <2>2, <2>3 DEF IsAssignment
<1>9. UsesAllKeys(a)
  <2>1. ASSUME NEW k \in Keys PROVE \E s \in P \cup {m} : k \in keys[s]
    <3>1. PICK s : s \in users(k)
      BY <1>7
    <3>2. s \in P \cup {m} /\ s \in Servers
      BY <1>1, <1>7, <3>1
    <3> QED
      BY <1>6, <3>1, <3>2
  <2>2. \A s \in P \cup {m} : keys[s] \in SUBSET Keys
    BY <1>1, <1>3
  <2> QED
    BY <2>1, <2>2 DEF UsesAllKeys
<1>10. IsCrossChecked(a)
  <2>1. ASSUME NEW s \in P, NEW k \in keys[s] PROVE \E r \in P \ {s} : k \in keys[r]
    <3>1. s \in Servers /\ s # m /\ k \in Keys
      BY <1>1, <1>3
    <3>2. s \in users(k) \ {m}
      BY <1>6, <3>1
    <3>3. PICK r \in users(k) \ {m} : r # s
      BY <1>7, <3>1, <3>2
    <3>4. r \in P
      BY <1>7, <3>1, <3>3
    <3>5. r \in Servers
      BY <1>1, <3>4
    <3> QED
      BY <1>6, <3>1, <3>3, <3>4, <3>5
  <2> QED
    BY <2>1 DEF IsCrossChecked
<1> QED
  BY <1>5, <1>8, <1>9, <1>10
=============================================================================
