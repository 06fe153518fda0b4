---------------------------- MODULE ServerKeyMap ----------------------------
(***************************************************************************)
(* getParticipantServerKeyMap of DISEServerUtil.cpp as pure operators: the *)
(* scan of one key over the participants, and the whole assignment, key   *)
(* after key.  KeyAssignment runs the same scan one participant at a time; *)
(* RobustTransaction is given the assignment as a constant.                *)
(***************************************************************************)
EXTENDS TransactionKeys, Sequences, SequencesExt

CONSTANT Owners   \* Owners[k]: the servers that hold key k

\* INT_MIN, the value of an unset load or id.  Like it, Unset is not zero and
\* is smaller than every load and every machine number.
Unset == -1

\* The four locals of one key's scan.
NoScan == [first |-> Unset, firstId |-> Unset, second |-> Unset, secondId |-> Unset]

\* Mutant: a first place that is pushed down is lost.
ScanLosingFirst(scan, p, load) ==
    IF scan.first # Unset /\ scan.second = 0 /\ load > scan.first
    THEN [first |-> load, firstId |-> p, second |-> load, secondId |-> p]
    ELSE IF scan.first = Unset
    THEN [scan EXCEPT !.first = load, !.firstId = p]
    ELSE [scan EXCEPT !.second = load, !.secondId = p]

\* One participant p, that has load keys assigned already, is looked at.
Scan(scan, p, load) ==
    LET asFirst  == [scan EXCEPT !.first = load, !.firstId = p]
        asSecond == [scan EXCEPT !.second = load, !.secondId = p]
        pushed   == [first |-> load, firstId |-> p,
                     second |-> scan.first, secondId |-> scan.firstId]
    IN CASE scan.first = Unset -> asFirst
         [] scan.first # Unset /\ scan.second # 0 -> asSecond
         [] scan.first # Unset /\ scan.second = 0 /\ load > 0 /\ load > scan.first -> pushed
         [] scan.first # Unset /\ scan.second = 0 /\ load > 0 /\ load <= scan.first -> asSecond
         [] OTHER -> scan

\* The scan of key after each participant, in the order of the list; only those
\* that own the key are looked at.
ScanAfter(participants, assigned, key) ==
    LET scan[j \in 0..Len(participants)] ==
            IF j = 0 THEN NoScan
            ELSE LET p == participants[j]
                 IN IF p \in Owners[key] THEN Scan(scan[j - 1], p, Len(assigned[p]))
                    ELSE scan[j - 1]
    IN scan

ScanAll(participants, assigned, key) ==
    ScanAfter(participants, assigned, key)[Len(participants)]

\* The lists after key: to the honest initiator if it owns the key, else to
\* the two servers the scan ended on.
Assign(participants, honest, assigned, key) ==
    LET scan == ScanAll(participants, assigned, key)
        to   == IF honest \in Owners[key] THEN {honest} ELSE {scan.firstId, scan.secondId}
    IN [s \in Servers |-> IF s \in to THEN Append(assigned[s], key) ELSE assigned[s]]

\* The lists after the first keys.
ListsAfter(participants, honest) ==
    LET lists[k \in 0..KeyCount] ==
            IF k = 0 THEN [s \in Servers |-> <<>>]
            ELSE Assign(participants, honest, lists[k - 1], k - 1)
    IN lists

\* What getParticipantServerKeyMap returns (a server without an entry has none).
KeyMap(participants, honest) == ListsAfter(participants, honest)[KeyCount]

\* What the initiator and its participants, in the order of the list, have to do.
AssignmentOf(honest, participants) ==
    LET lists == KeyMap(participants, honest)
    IN [machine |-> honest, participants |-> ToSet(participants),
        keys |-> [s \in Servers |-> ToSet(lists[s])]]
=============================================================================
