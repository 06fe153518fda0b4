-------------------------- MODULE RobustTransaction --------------------------
(***************************************************************************)
(* Client transactions on a DiSE deployment: the honest initiator starts   *)
(* one thread per participant, each thread asks its participant for the    *)
(* partial results of its keys and merges them under the mutex into the    *)
(* shared map, comparing where another participant has answered for the    *)
(* same key; the initiator encrypts its own keys, joins the threads and    *)
(* answers the client (DISEServer.cpp:299-869).                            *)
(*                                                                         *)
(* Transactions follow one another; the servers a transaction left hanging *)
(* or down are there in the next.                                          *)
(***************************************************************************)
EXTENDS TransactionKeys, FiniteSets

CONSTANTS
    Initiators,       \* the servers that clients turn to
    AssignmentsOf,    \* what getParticipantServerList and getParticipantServerKeyMap
                      \* may come to at each of them
    CompromisedSets,  \* which servers may have been started with -e
    Faults,           \* subset of {"refuse", "timeout", "crash", "race"}
    MaxRequests,      \* bound on the transactions of a behaviour
    MaxCrashes        \* bound on the servers that go down

Assignments == UNION {AssignmentsOf[m] : m \in Initiators}

\* What the key assignment promises (KeyAssignmentProofs): every key is used, each by
\* the initiator alone or by two participants; and what that means for sabotage.
AllKeysUsed         == \A a \in Assignments : UsesAllKeys(a)
KeysCrossChecked    == \A a \in Assignments : IsCrossChecked(a)
SabotageMeetsHonest == \A a \in Assignments, c \in CompromisedSets : SabotageShows(a, c)

ASSUME TransactionAssumption ==
    /\ Servers \subseteq Nat
    /\ KeyCount \in Nat \ {0}
    /\ \A a \in Assignments : IsAssignment(a)
    /\ \A c \in CompromisedSets : c \subseteq Servers
    /\ Faults \subseteq {"refuse", "timeout", "crash", "race"}
    /\ MaxRequests \in Nat /\ MaxCrashes \in Nat

\* A partial result: the encryption of a||j under the key, the encryption of
\* the zeros a compromised server puts in its place, or the zero bytes that
\* parsing past the end of an answer yields.
Values == {"w", "w0", "zeros"}
None   == "none"
Empty  == [k \in Keys |-> None]

Free == -1   \* mtx is held by nobody

VARIABLES
    compromised,     \* environment->is_compromised() of each server
    requests,        \* transactions started
    client,          \* "idle", "waiting" for the answer, or "gaveUp"
    mode,            \* what the client asked for
    outcome,         \* what it was told (or told itself)
    cipher,          \* encResult.txt: no ciphertext, or one
    main,            \* the initiator's handler
    asg,             \* participants and keys of the transaction
    own,             \* honestPartialResults
    thr,             \* honestInitiatorThread of each participant
    results,         \* a participant's partial results, then its thread's copy
    todo,            \* keys a merging thread has still to look at
    partialResults,  \* the shared map
    robustFlag,
    mtx,             \* the thread that holds it
    conn             \* the participant's side of the connection
clientVars  == <<client, outcome, cipher>>
requestVars == <<compromised, requests, mode, clientVars, main, asg, own>>
threadVars  == <<thr, results, conn>>
mergeVars   == <<partialResults, robustFlag, mtx, todo>>
vars == <<requestVars, threadVars, mergeVars>>

ThreadStates == {"connect", "ask", "body", "lock", "merge", "insert", "done", "spin"}
ConnStates   == {"idle", "header", "replied", "late", "spin", "down"}

Maps  == [Keys -> Values \cup {None}]
Seeds == [keys : SUBSET Keys, parity : 0..1]

TypeOK ==
    /\ compromised \subseteq Servers
    /\ requests \in Nat
    /\ client \in {"idle", "waiting", "gaveUp"}
    /\ mode \in {"enc", "dec"}
    /\ outcome \in {"none", "ok", "alarm"}
    /\ cipher \subseteq Seeds
    /\ main \in {"idle", "own", "join", "reply"}
    /\ asg \in Assignments
    /\ own \in Maps
    /\ thr \in [Servers -> ThreadStates]
    /\ results \in [Servers -> Maps]
    /\ todo \in [Servers -> SUBSET Keys]
    /\ partialResults \in Maps
    /\ robustFlag \in BOOLEAN
    /\ mtx \in Servers \cup {Free}
    /\ conn \in [Servers -> ConnStates]

Init ==
    /\ compromised \in CompromisedSets
    /\ requests = 0
    /\ client = "idle" /\ outcome = "none" /\ cipher = {}
    /\ mode = "enc"
    /\ main = "idle"
    /\ asg \in Assignments
    /\ own = Empty
    /\ thr = [s \in Servers |-> "done"]
    /\ results = [s \in Servers |-> Empty]
    /\ todo = [s \in Servers |-> {}]
    /\ partialResults = Empty
    /\ robustFlag = TRUE
    /\ mtx = Free
    /\ conn = [s \in Servers |-> "idle"]

-----------------------------------------------------------------------------
(* Client and initiator.                                                   *)

\* A client's request is read and its threads are started.  A server that is
\* down, or still busy with an answer nobody waits for, takes no request; a
\* client decrypts what an encryption has left in encResult.txt.
StartRequest ==
    /\ client = "idle" /\ main = "idle" /\ requests < MaxRequests
    /\ requests' = requests + 1
    /\ \E m \in {"enc", "dec"}, a \in Assignments :
         /\ m = "dec" => cipher # {}
         /\ conn[a.machine] = "idle"
         /\ mode' = m
         /\ asg' = a
         /\ thr' = [s \in Servers |-> IF s \in a.participants THEN "connect" ELSE "done"]
    /\ client' = "waiting" /\ outcome' = "none"
    /\ main' = "own"
    /\ own' = Empty
    /\ results' = [s \in Servers |-> Empty]
    /\ todo' = [s \in Servers |-> {}]
    /\ partialResults' = Empty
    /\ robustFlag' = TRUE
    /\ UNCHANGED <<compromised, cipher, mtx, conn>>

\* The results of encryptWithKeyList.
EncryptedWith(keys, value) ==
    {[k \in Keys |-> IF k \in kept THEN value ELSE None] :
        kept \in IF "race" \in Faults THEN Kept(keys) ELSE {keys}}

\* The initiator encrypts with its own keys while the threads run.
EncryptOwn ==
    /\ main = "own"
    /\ own' \in EncryptedWith(asg.keys[asg.machine], "w")
    /\ main' = "join"
    /\ UNCHANGED <<compromised, requests, mode, clientVars, asg, threadVars, mergeVars>>

\* Mutant: the first thread that ends is enough.
SomeEnded == \E s \in Servers : s \in asg.participants /\ thr[s] = "done"

AllEnded == \A s \in Servers : thr[s] = "done"

JoinThreads ==
    /\ main = "join" /\ AllEnded
    /\ main' = "reply"
    /\ UNCHANGED <<compromised, requests, mode, clientVars, asg, own, threadVars, mergeVars>>

\* Mutant: the partial results are added up, not XORed.
SeedAdded ==
    LET count(map) == Cardinality({k \in Keys : map[k] = "w"})
    IN [keys   |-> {k \in Keys : own[k] # None \/ partialResults[k] # None},
        parity |-> count(own) + count(partialResults)]

\* w, the seed of the pseudo-random pad.  AES-GCM with its constant IV XORs the
\* message with a keystream that depends on the key only, so the XOR of the
\* partial results is known by the keystreams in it and by how often a||j is.
Seed ==
    LET holds(map, values) == {k \in Keys : map[k] \in values}
        mine   == holds(own, {"w"})
        others == holds(partialResults, {"w", "w0"})
    IN [keys   |-> (mine \ others) \cup (others \ mine),
        parity |-> (Cardinality(mine) + Cardinality(holds(partialResults, {"w"}))) % 2]

\* The answer reaches a client that still waits; written to a client that has
\* closed its socket it is gone.
Answer(ok) ==
    /\ client' = "idle"
    /\ outcome' = IF client # "waiting" THEN outcome ELSE IF ok THEN "ok" ELSE "alarm"
    /\ cipher' = IF client = "waiting" /\ ok /\ mode = "enc" THEN {Seed} ELSE cipher

ReplyEncryption ==
    /\ main = "reply" /\ mode = "enc"
    /\ Answer(robustFlag)
    /\ main' = "idle"
    /\ UNCHANGED <<compromised, requests, mode, asg, own, threadVars, mergeVars>>

\* The pad is right, and the hash of what it uncovers equals a, exactly if the
\* seed is the one of the encryption.
ReplyDecryption ==
    /\ main = "reply" /\ mode = "dec"
    /\ Answer(robustFlag /\ Seed \in cipher)
    /\ main' = "idle"
    /\ UNCHANGED <<compromised, requests, mode, asg, own, threadVars, mergeVars>>

\* waitForReadyRead() of the client runs out after 30 s: it reads nothing,
\* robustFlag stays false, and it reports a compromised server.
GiveUp ==
    /\ "timeout" \in Faults
    /\ client = "waiting"
    /\ client' = "gaveUp" /\ outcome' = "alarm"
    /\ UNCHANGED <<compromised, requests, mode, cipher, main, asg, own, threadVars, mergeVars>>

-----------------------------------------------------------------------------
(* honestInitiatorThread, s being its participant.                         *)

\* The connection is there and the request is on its way.
Connect(s) ==
    /\ thr[s] = "connect" /\ conn[s] # "down"
    /\ thr' = [thr EXCEPT ![s] = "ask"]
    /\ UNCHANGED <<requestVars, results, conn, mergeVars>>

\* "Not connected": the thread ends without a word to the handler.
NotConnected(s) ==
    /\ thr[s] = "connect" /\ (conn[s] = "down" \/ "refuse" \in Faults)
    /\ thr' = [thr EXCEPT ![s] = "done"]
    /\ UNCHANGED <<requestVars, results, conn, mergeVars>>

\* The peer has died since: write() returns -1, which is added to bytesWritten,
\* and the loop has no end; unless the kernel had taken all of the request.
WriteForever(s) ==
    /\ thr[s] = "ask" /\ conn[s] = "down"
    /\ thr' = [thr EXCEPT ![s] = "spin"]
    /\ UNCHANGED <<requestVars, results, conn, mergeVars>>

ReadHeader(s) ==
    /\ thr[s] = "ask" /\ conn[s] \in {"header", "replied"}
    /\ thr' = [thr EXCEPT ![s] = "body"]
    /\ UNCHANGED <<requestVars, results, conn, mergeVars>>

\* As many entries are read as keys were asked for; each one past the end of
\* the answer is read as key 0 with zero bytes, over what key 0 may have had.
Parse(answer, keys) ==
    IF {k \in Keys : answer[k] # None} = keys THEN answer
    ELSE [answer EXCEPT ![0] = "zeros"]

\* The peer is gone, or has not begun to answer for 30 s (the client's 30 s began
\* before).
NoAnswer(s) ==
    \/ conn[s] = "down"
    \/ conn[s] \in {"idle", "late", "spin"} /\ "timeout" \in Faults /\ client = "gaveUp"

\* No header: the size is read as 0, nothing else is read, the socket is closed;
\* a participant that has not come to the request will.
NoHeader(s) ==
    /\ thr[s] = "ask" /\ NoAnswer(s)
    /\ thr' = [thr EXCEPT ![s] = "lock"]
    /\ results' = [results EXCEPT ![s] = Parse(Empty, asg.keys[s])]
    /\ conn' = [conn EXCEPT ![s] = IF @ = "idle" THEN "late" ELSE @]
    /\ UNCHANGED <<requestVars, mergeVars>>

\* The body has come; of an answer without entries there is none to wait for.
ReadBody(s) ==
    /\ thr[s] = "body" /\ (conn[s] = "replied" \/ results[s] = Empty)
    /\ thr' = [thr EXCEPT ![s] = "lock"]
    /\ results' = [results EXCEPT ![s] = Parse(results[s], asg.keys[s])]
    /\ conn' = [conn EXCEPT ![s] = IF @ = "down" THEN @ ELSE "idle"]
    /\ UNCHANGED <<requestVars, mergeVars>>

\* The peer is gone before the announced size has come: waitForReadyRead fails
\* at once and read returns nothing, for ever.
ReadForever(s) ==
    /\ thr[s] = "body" /\ conn[s] = "down" /\ results[s] # Empty
    /\ thr' = [thr EXCEPT ![s] = "spin"]
    /\ UNCHANGED <<requestVars, results, conn, mergeVars>>

\* Mutant: lock() does not wait.
MutexIgnored == TRUE

MutexFree == mtx = Free

Lock(s) ==
    /\ thr[s] = "lock" /\ MutexFree
    /\ mtx' = s
    /\ thr' = [thr EXCEPT ![s] = "merge"]
    /\ todo' = [todo EXCEPT ![s] = {k \in Keys : results[s][k] # None}]
    /\ UNCHANGED <<requestVars, results, conn,
                   partialResults, robustFlag>>

\* The iterator of the QMap: keys in ascending order.
IsNext(k, s) == k \in todo[s] /\ \A j \in todo[s] : k <= j

\* Mutant: the results are not compared.
AgreesAlways(k, s) == TRUE

\* memcmp of the two results of a key.
Agrees(k, s) == partialResults[k] = results[s][k]

\* The map holds a result for the key: the two are compared.
Compare(s) ==
    /\ thr[s] = "merge" /\ robustFlag
    /\ \E k \in Keys :
         /\ IsNext(k, s) /\ partialResults[k] # None
         /\ robustFlag' = Agrees(k, s)
         /\ todo' = [todo EXCEPT ![s] = @ \ {k}]
    /\ UNCHANGED <<requestVars, threadVars,
                   partialResults, mtx>>

\* The map does not: the thread has decided to insert.
DecideInsert(s) ==
    /\ thr[s] = "merge" /\ robustFlag
    /\ \E k \in Keys : IsNext(k, s) /\ partialResults[k] = None
    /\ thr' = [thr EXCEPT ![s] = "insert"]
    /\ UNCHANGED <<requestVars, results, conn, mergeVars>>

Insert(s) ==
    /\ thr[s] = "insert"
    /\ \E k \in Keys :
         /\ IsNext(k, s)
         /\ partialResults' = [partialResults EXCEPT ![k] = results[s][k]]
         /\ todo' = [todo EXCEPT ![s] = @ \ {k}]
    /\ thr' = [thr EXCEPT ![s] = "merge"]
    /\ UNCHANGED <<requestVars, results, conn,
                   robustFlag, mtx>>

\* Mutant: the loop is left without unlock() once the flag is down.
HolderIfDisagreed(s) == IF robustFlag THEN Free ELSE s

\* Mutant: no unlock at all.
HolderForGood(s) == s

\* All keys are merged, or the flag has ended the loop; either way the mutex is
\* given up behind it.
HolderAfter(s) == Free

Unlock(s) ==
    /\ thr[s] = "merge" /\ (todo[s] = {} \/ ~robustFlag)
    /\ mtx' = HolderAfter(s)
    /\ thr' = [thr EXCEPT ![s] = "done"]
    /\ UNCHANGED <<requestVars, results, conn,
                   todo, partialResults, robustFlag>>

-----------------------------------------------------------------------------
(* handleHonestInitiator at participant s.                                 *)

\* The request is read, a||j zeroed if s is compromised, encrypted with the
\* keys asked for, and the size of the answer written.
ServeHeader(s) ==
    /\ thr[s] = "ask" /\ conn[s] = "idle"
    /\ \E answer \in EncryptedWith(asg.keys[s], IF s \in compromised THEN "w0" ELSE "w") :
         results' = [results EXCEPT ![s] = answer]
    /\ conn' = [conn EXCEPT ![s] = "header"]
    /\ UNCHANGED <<requestVars, thr, mergeVars>>

ServeBody(s) ==
    /\ conn[s] = "header"
    /\ conn' = [conn EXCEPT ![s] = "replied"]
    /\ UNCHANGED <<requestVars, thr, results, mergeVars>>

\* The request of a thread that has closed its socket is served: the writes are
\* taken, or write() returns -1 and the loop has no end.
ServeLate(s) ==
    /\ conn[s] = "late"
    /\ \E c \in {"idle", "spin"} : conn' = [conn EXCEPT ![s] = c]
    /\ UNCHANGED <<requestVars, thr, results, mergeVars>>

\* A server other than the active initiator dies and does not come back (a
\* restarted one has no keys before it is dealt some).  Dying with an answer on
\* the way is the same as dying after it has been read.
Crash(s) ==
    /\ "crash" \in Faults
    /\ Cardinality({r \in Servers : conn[r] = "down"}) < MaxCrashes
    /\ main # "idle" => s # asg.machine
    /\ conn[s] \in {"idle", "late", "spin"} \/ (conn[s] = "header" /\ thr[s] = "body")
    /\ conn' = [conn EXCEPT ![s] = "down"]
    /\ UNCHANGED <<requestVars, thr, results, mergeVars>>

-----------------------------------------------------------------------------
Initiator == EncryptOwn \/ JoinThreads \/ ReplyEncryption \/ ReplyDecryption

Thread(s) ==
    \/ Connect(s) \/ NotConnected(s) \/ WriteForever(s)
    \/ ReadHeader(s) \/ NoHeader(s) \/ ReadBody(s) \/ ReadForever(s)
    \/ Lock(s) \/ Compare(s) \/ DecideInsert(s) \/ Insert(s) \/ Unlock(s)

Participant(s) == ServeHeader(s) \/ ServeBody(s) \/ ServeLate(s)

Next ==
    \/ StartRequest \/ Initiator \/ GiveUp
    \/ \E s \in Servers : Thread(s) \/ Participant(s) \/ Crash(s)

Spec == Init /\ [][Next]_vars

\* Threads, handlers and timers go on; nobody has to ask, to refuse or to die.
\* A mutex is passed on for ever only to the T threads of one transaction, so
\* weak fairness of a thread is enough for it to get it.
Fairness ==
    /\ WF_vars(Initiator) /\ WF_vars(GiveUp)
    /\ \A s \in Servers : WF_vars(Thread(s)) /\ WF_vars(Participant(s))

FairSpec == Spec /\ Fairness
-----------------------------------------------------------------------------
(* What the cross-check achieves.                                          *)

\* A thread whose answer has been parsed, or that has ended without one.
Arrived(s) == thr[s] \in {"lock", "merge", "insert", "done"}

\* mtx is held exactly by the thread that is between lock and unlock.
MutexHeld == \A s \in Servers : thr[s] \in {"merge", "insert"} <=> mtx = s

\* A thread past its loop has looked at all its keys, unless the flag ended it.
DoneMeansMerged == \A s \in Servers : thr[s] = "done" /\ robustFlag => todo[s] = {}

\* While the flag is up, the shared map agrees with every answer on the keys
\* its thread has passed: nothing was inserted over another's result.
MapAgrees ==
    robustFlag => \A s \in Servers, k \in Keys :
        thr[s] \in {"merge", "insert", "done"} /\ k \notin todo[s] /\ results[s][k] # None
            => partialResults[k] = results[s][k]

\* Each entry of the shared map came with an answer.
MapHasSource ==
    \A k \in Keys : partialResults[k] # None =>
        \E s \in Servers : Arrived(s) /\ results[s][k] = partialResults[k]

\* A thread about to insert is at a key the map does not hold: what contains()
\* said is still true (DISEServer.cpp:737-748).
InsertIsFresh ==
    \A s \in Servers : thr[s] = "insert" =>
        robustFlag /\ \E k \in Keys : IsNext(k, s) /\ partialResults[k] = None

\* The flag is down only if two answers disagree on a key.
AlarmHasCause ==
    ~robustFlag => \E r, s \in Servers, k \in Keys :
        /\ Arrived(r) /\ Arrived(s)
        /\ results[r][k] # None /\ results[s][k] # None /\ results[r][k] # results[s][k]

\* What a thread has still to merge are keys of its answer.
TodoInAnswer ==
    \A s \in Servers, k \in Keys : k \in todo[s] =>
        thr[s] \in {"merge", "insert", "done"} /\ results[s][k] # None

\* Between transactions, and once the threads are joined, none is running.
EndedWhenJoined == main \in {"idle", "reply"} => AllEnded

\* A thread that has not connected has no results.
NoResultsUnasked == \A s \in Servers : thr[s] = "connect" => results[s] = Empty

\* The state of the merge at every moment, the inductive invariant of the
\* proofs: DISEServer.cpp:731-751 under its mutex.
MergeInv ==
    /\ MutexHeld /\ DoneMeansMerged /\ MapAgrees /\ MapHasSource
    /\ InsertIsFresh /\ AlarmHasCause /\ TodoInAnswer
    /\ EndedWhenJoined /\ NoResultsUnasked

\* Within a transaction an entry of the shared map is written once, and a flag
\* that has gone down stays down (DISEServer.cpp:733-750).
WrittenOnce ==
    [][main' # "own" \/ main = "own" =>
         /\ \A k \in Keys : partialResults[k] # None => partialResults'[k] = partialResults[k]
         /\ robustFlag' => robustFlag]_vars

\* The merge implements the vote: threads, mutex and early exit do not show.
VotePhase == CASE main = "idle" -> "closed"
               [] main \in {"own", "join"} -> "open"
               [] main = "reply" -> IF robustFlag THEN "robust" ELSE "compromised"
VoteReceived ==
    IF main = "idle" THEN {}
    ELSE {p \in Keys \X Values : \E s \in Servers : Arrived(s) /\ results[s][p[1]] = p[2]}
VoteAgreed == IF VotePhase = "robust" THEN partialResults ELSE Empty

Vote == INSTANCE RobustVote WITH
            phase <- VotePhase, received <- VoteReceived, agreed <- VoteAgreed
ImplementsVote == Vote!Spec

\* One honest holder of a key is enough: with no fault but compromise, a robust
\* result has the right partial result for each key some honest participant
\* was asked for (the claim of DISEServer.cpp:392); a lost insert is a fault, too.
OneHonestHolderSuffices ==
    main = "reply" /\ robustFlag /\ Faults = {} =>
        \A s \in asg.participants \ compromised : \A k \in asg.keys[s] :
            partialResults[k] = "w"

\* The client hears of a compromised server exactly if one did some of the
\* work: sabotage is never overlooked and nobody is accused wrongly, not even
\* for a ciphertext an earlier transaction made with other participants.  It is
\* promised where Faults = {}, that is, where no insert is lost either.
AlarmIsExact ==
    client = "idle" /\ outcome # "none" =>
        (outcome = "alarm" <=> \E s \in asg.participants \cap compromised : asg.keys[s] # {})

\* encResult.txt holds a ciphertext made with all the keys, each counted once,
\* so that any initiator can undo it; promised where Faults = {}.
CipherUsesEveryKey ==
    \A c \in cipher : c = [keys |-> Keys, parity |-> KeyCount % 2]

\* README.md:104, "Conclude this transaction": the initiator comes to an end
\* with every request it has read.
RequestConcludes == main # "idle" ~> main = "idle"

\* Every request is concluded, or a participant has died and the loop that
\* talks to it runs for ever: the mutex, the join, a refused connection, an answer
\* that is late or cut short, and a participant that hangs never block the
\* initiator (DISEServer.cpp:370, 628, 693-731).
ConcludesOrSpins ==
    main # "idle" ~> (main = "idle" \/ \E s \in Servers : thr[s] = "spin")
=============================================================================
