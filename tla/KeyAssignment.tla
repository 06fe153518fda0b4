---------------------------- MODULE KeyAssignment ----------------------------
(***************************************************************************)
(* What the honest initiator does before it starts its threads: pick T     *)
(* participants out of the other servers (getParticipantServerList), then  *)
(* go through the keys and, for each, through the participants to decide   *)
(* who encrypts with it (getParticipantServerKeyMap).  A key somebody      *)
(* forgets, or gives to one server only, is a key nobody can cross-check.  *)
(***************************************************************************)
EXTENDS ServerKeyMap, FiniteSets

CONSTANT T   \* participants per transaction, and owners of each key

ASSUME KeyAssignmentAssumption ==
    /\ Servers \subseteq Nat /\ IsFiniteSet(Servers)
    /\ KeyCount \in Nat
    /\ Owners \in [Keys -> SUBSET Servers]

\* What the Dealer deals: each key to T servers, T of them for a transaction
\* and the initiator besides, and more than half of the servers in T (5 and 3,
\* 24 and 16).
ASSUME ThresholdAssumption ==
    /\ T \in Nat
    /\ \A k \in Keys : Cardinality(Owners[k]) = T
    /\ T < Cardinality(Servers)
    /\ Cardinality(Servers) < 2 * T

VARIABLES pc,                  \* where the caller is
          machineNum,          \* the honest initiator
          serverOptions,       \* servers getParticipantServerList may still draw
          participantServers,  \* the list it returns
          serverKeysToUse,     \* server -> list of keys
          keyId,               \* loop variable over the keys
          i,                   \* loop variable over participantServers
          scan                 \* the four "least keys" locals
vars == <<pc, machineNum, serverOptions, participantServers, serverKeysToUse, keyId, i, scan>>

\* What the four locals can hold.
Scans == [first : Nat \cup {Unset}, firstId : Servers \cup {Unset},
          second : Nat \cup {Unset}, secondId : Servers \cup {Unset}]

TypeOK ==
    /\ pc \in {"select", "key", "scan", "done", "crashed"}
    /\ machineNum \in Servers
    /\ serverOptions \subseteq Servers
    /\ participantServers \in Seq(Servers)
    /\ serverKeysToUse \in [Servers -> Seq(Keys)]
    /\ keyId \in Nat
    /\ i \in Nat \ {0}
    /\ scan \in Scans

Init ==
    /\ pc = "select"
    /\ machineNum \in Servers
    /\ serverOptions = Servers \ {machineNum}
    /\ participantServers = <<>>
    /\ serverKeysToUse = [s \in Servers |-> <<>>]
    /\ keyId = 0
    /\ i = 1
    /\ scan = NoScan

\* Mutant: the server drawn stays among the options.
SelectWithReplacement ==
    /\ pc = "select" /\ Len(participantServers) < T
    /\ \E s \in serverOptions : participantServers' = Append(participantServers, s)
    /\ UNCHANGED <<pc, machineNum, serverOptions, serverKeysToUse, keyId, i, scan>>

\* rand() % serverOptions->size() picks a server; it is taken out of the options.
SelectParticipant ==
    /\ pc = "select" /\ Len(participantServers) < T
    /\ \E s \in serverOptions :
         /\ participantServers' = Append(participantServers, s)
         /\ serverOptions' = serverOptions \ {s}
    /\ UNCHANGED <<pc, machineNum, serverKeysToUse, keyId, i, scan>>

\* Mutant: a participant too few is enough.
StartAssignmentEarly ==
    /\ pc = "select" /\ Len(participantServers) = T - 1
    /\ pc' = "key"
    /\ UNCHANGED <<machineNum, serverOptions, participantServers, serverKeysToUse, keyId, i, scan>>

\* getParticipantServerList returns, the loop over the keys starts.
StartAssignment ==
    /\ pc = "select" /\ Len(participantServers) = T
    /\ pc' = "key"
    /\ UNCHANGED <<machineNum, serverOptions, participantServers, serverKeysToUse, keyId, i, scan>>

\* Mutant: the key goes to the front of the list.
OwnKeyInFront ==
    /\ pc = "key" /\ keyId \in Keys /\ machineNum \in Owners[keyId]
    /\ serverKeysToUse' = [serverKeysToUse EXCEPT ![machineNum] = <<keyId>> \o @]
    /\ keyId' = keyId + 1
    /\ UNCHANGED <<pc, machineNum, serverOptions, participantServers, i, scan>>

\* The initiator owns the key and uses it itself.
OwnKey ==
    /\ pc = "key" /\ keyId \in Keys /\ machineNum \in Owners[keyId]
    /\ serverKeysToUse' = [serverKeysToUse EXCEPT ![machineNum] = Append(@, keyId)]
    /\ keyId' = keyId + 1
    /\ UNCHANGED <<pc, machineNum, serverOptions, participantServers, i, scan>>

\* Mutant: the list is indexed from 0.
StartScanAtZero ==
    /\ pc = "key" /\ keyId \in Keys /\ machineNum \notin Owners[keyId]
    /\ pc' = "scan"
    /\ i' = 0
    /\ scan' = NoScan
    /\ UNCHANGED <<machineNum, serverOptions, participantServers, serverKeysToUse, keyId>>

\* The initiator does not own the key: the participants are gone through.
StartScan ==
    /\ pc = "key" /\ keyId \in Keys /\ machineNum \notin Owners[keyId]
    /\ pc' = "scan"
    /\ i' = 1
    /\ scan' = NoScan
    /\ UNCHANGED <<machineNum, serverOptions, participantServers, serverKeysToUse, keyId>>

\* Mutant: a participant is taken whether it owns the key or not.
ScanAnyParticipant ==
    /\ pc = "scan" /\ i <= Len(participantServers)
    /\ LET p == participantServers[i] IN scan' = Scan(scan, p, Len(serverKeysToUse[p]))
    /\ i' = i + 1
    /\ UNCHANGED <<pc, machineNum, serverOptions, participantServers, serverKeysToUse, keyId>>

ScanParticipant ==
    /\ pc = "scan" /\ i <= Len(participantServers)
    /\ LET p == participantServers[i]
       IN scan' = IF p \in Owners[keyId] THEN Scan(scan, p, Len(serverKeysToUse[p])) ELSE scan
    /\ i' = i + 1
    /\ UNCHANGED <<pc, machineNum, serverOptions, participantServers, serverKeysToUse, keyId>>

\* Both lists are looked up by id; the id of a slot still unset is in no entry
\* of the map, value() returns a null pointer and append dereferences it.
AssignKey ==
    /\ pc = "scan" /\ i > Len(participantServers)
    /\ IF Unset \in {scan.firstId, scan.secondId}
       THEN /\ pc' = "crashed"
            /\ UNCHANGED <<serverKeysToUse, keyId>>
       ELSE /\ pc' = "key"
            /\ serverKeysToUse' =
                 [s \in Servers |-> IF s \in {scan.firstId, scan.secondId}
                                    THEN Append(serverKeysToUse[s], keyId)
                                    ELSE serverKeysToUse[s]]
            /\ keyId' = keyId + 1
    /\ UNCHANGED <<machineNum, serverOptions, participantServers, i, scan>>

FinishAssignment ==
    /\ pc = "key" /\ keyId \notin Keys
    /\ pc' = "done"
    /\ UNCHANGED <<machineNum, serverOptions, participantServers, serverKeysToUse, keyId, i, scan>>

Next ==
    \/ SelectParticipant \/ StartAssignment
    \/ OwnKey \/ StartScan \/ ScanParticipant \/ AssignKey
    \/ FinishAssignment

Spec == Init /\ [][Next]_vars

-----------------------------------------------------------------------------
Holders(k) == {s \in Servers : k \in ToSet(serverKeysToUse[s])}

\* Every key the loop has passed is used by the initiator alone if it owns the
\* key, and otherwise by exactly two participants that own it: the redundancy
\* the cross-check of partial results relies on (DISEServerUtil.cpp:190-244).
TwofoldAssignment ==
    \A k \in Keys : k < keyId =>
        IF machineNum \in Owners[k]
        THEN Holders(k) = {machineNum}
        ELSE /\ Cardinality(Holders(k)) = 2
             /\ Holders(k) \subseteq ToSet(participantServers) \cap Owners[k]

\* The loop never dereferences the list of a server it has not found
\* (DISEServerUtil.cpp:234-237): 2T > N leaves at least two owners of every key
\* among any T participants, and the scan fills both slots from them.
NeverCrashes == pc # "crashed"

\* The owners of the current key among the participants gone through so far.
SeenOwners == {participantServers[j] : j \in 1..(i - 1)} \cap Owners[keyId]

\* The two slots hold different owners as soon as there are, whatever the scan
\* overwrites and swaps (DISEServerUtil.cpp:205-229): one slot twice, or a slot
\* lost, would leave a server to check itself.
SlotsHoldOwners ==
    pc = "scan" =>
        /\ {scan.firstId, scan.secondId} \ {Unset} \subseteq SeenOwners
        /\ scan.firstId = Unset <=> scan.first = Unset
        /\ scan.secondId = Unset <=> scan.second = Unset
        /\ scan.firstId = Unset => SeenOwners = {} /\ scan.secondId = Unset
        /\ scan.secondId = Unset => SeenOwners \subseteq {scan.firstId}
        /\ scan.firstId # Unset => scan.firstId # scan.secondId

\* A list holds no key twice, and holds its keys in ascending order, the order
\* in which the participant's answer (a QMap) comes back
\* (DISEServer.cpp:716-729 reads it by position).
ListsAscending ==
    \A s \in Servers : LET list == serverKeysToUse[s]
                       IN \A a, b \in DOMAIN list : a < b => list[a] < list[b]

\* What the properties above rest on: the draw never repeats a server nor draws
\* the initiator and comes to T participants, only keys passed are in the lists,
\* and a scan is for a key the initiator does not own.
DrawnOnce ==
    LET list == participantServers
    IN /\ ToSet(list) \cup serverOptions \subseteq Servers \ {machineNum}
       /\ ToSet(list) \cap serverOptions = {}
       /\ \A a, b \in DOMAIN list : list[a] = list[b] => a = b
       /\ IsFiniteSet(ToSet(list)) /\ Cardinality(ToSet(list)) = Len(list)
       /\ pc # "select" => Len(list) = T

OnlyPassedKeys == \A s \in Servers : \A k \in ToSet(serverKeysToUse[s]) : k < keyId

ScanOfUnowned ==
    pc = "scan" => /\ keyId \in Keys /\ machineNum \notin Owners[keyId]
                   /\ i <= Len(participantServers) + 1

\* At every point the lists are those of the keys passed, and the locals those of
\* the participants gone through.
AssignedSoFar ==
    /\ keyId <= KeyCount
    /\ pc = "done" => keyId = KeyCount
    /\ pc = "select" => keyId = 0 /\ serverKeysToUse = [s \in Servers |-> <<>>]
    /\ pc \in {"key", "scan", "done"} =>
         serverKeysToUse = ListsAfter(participantServers, machineNum)[keyId]
    /\ pc = "scan" => scan = ScanAfter(participantServers, serverKeysToUse, keyId)[i - 1]

\* The inductive invariant of the proofs.
AssignmentInv ==
    /\ DrawnOnce /\ OnlyPassedKeys /\ ScanOfUnowned /\ AssignedSoFar
    /\ SlotsHoldOwners /\ TwofoldAssignment /\ ListsAscending /\ NeverCrashes

\* The steps compute the assignment that RobustTransaction is given.
StepsComputeKeyMap ==
    pc = "done" => serverKeysToUse = KeyMap(participantServers, machineNum)
=============================================================================
