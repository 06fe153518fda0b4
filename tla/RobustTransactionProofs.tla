----------------------- MODULE RobustTransactionProofs -----------------------
(***************************************************************************)
(* Proofs about RobustTransaction: type correctness, the merge invariant,  *)
(* and what follows from them, for any servers, keys, assignments and      *)
(* faults.                                                                 *)
(***************************************************************************)
EXTENDS RobustTransaction, FiniteSetTheorems, TLAPS

\* What IsAssignment says of the type of a possible assignment.
LEMMA AssignmentType ==
    ASSUME NEW a \in Assignments
    PROVE  /\ a.machine \in Servers
           /\ a.participants \subseteq Servers
           /\ a.keys \in [Servers -> SUBSET Keys]
  BY TransactionAssumption DEF IsAssignment

\* The empty map and the parsed form of an answer are maps.
LEMMA MapType ==
    /\ Empty \in Maps
    /\ \A answer \in Maps, keys \in SUBSET Keys : Parse(answer, keys) \in Maps
    /\ \A keys \in SUBSET Keys, v \in Values : EncryptedWith(keys, v) \subseteq Maps
<1>1. Empty \in Maps
  BY DEF Empty, Maps
<1>2. ASSUME NEW answer \in Maps, NEW keys \in SUBSET Keys
      PROVE  Parse(answer, keys) \in Maps
  BY DEF Parse, Maps, Values
<1>3. ASSUME NEW keys \in SUBSET Keys, NEW v \in Values
      PROVE  EncryptedWith(keys, v) \subseteq Maps
  BY DEF EncryptedWith, Maps
<1> QED
  BY <1>1, <1>2, <1>3

\* The XOR of any partial results is a seed.
LEMMA SeedType ==
    ASSUME own \in Maps, partialResults \in Maps
    PROVE  Seed \in Seeds
<1> DEFINE mine  == {k \in Keys : own[k] \in {"w"}}
           right == {k \in Keys : partialResults[k] \in {"w"}}
<1>1. IsFiniteSet(Keys)
  BY TransactionAssumption, FS_Interval DEF Keys
<1>2. Cardinality(mine) \in Nat /\ Cardinality(right) \in Nat
  BY <1>1, FS_Subset, FS_CardinalityType
<1>3. (Cardinality(mine) + Cardinality(right)) % 2 \in 0..1
  <2> HIDE DEF mine, right
  <2> QED BY <1>2
<1> QED
  BY <1>3 DEF Seed, Seeds

-----------------------------------------------------------------------------
(* Type correctness.                                                       *)

\* The types hold at the start.
LEMMA TypeInit == Init => TypeOK
  BY MapType, TransactionAssumption DEF Init, TypeOK, ThreadStates, ConnStates

\* Every step keeps the types, one case to an action.
LEMMA TypeStep == TypeOK /\ [Next]_vars => TypeOK'
<1> SUFFICES ASSUME TypeOK, [Next]_vars PROVE TypeOK'
  OBVIOUS
<1> USE DEF TypeOK
<1>1. CASE StartRequest
  <2>1. PICK m \in {"enc", "dec"}, a \in Assignments :
          /\ mode' = m /\ asg' = a
          /\ thr' = [s \in Servers |-> IF s \in a.participants THEN "connect" ELSE "done"]
    BY <1>1 DEF StartRequest
  <2>2. thr' \in [Servers -> ThreadStates]
    BY <2>1 DEF ThreadStates
  <2> QED
    BY <1>1, <2>1, <2>2, MapType DEF StartRequest
<1>2. CASE EncryptOwn
  <2>1. asg.keys[asg.machine] \in SUBSET Keys
    BY AssignmentType
  <2>2. own' \in Maps
    BY <1>2, <2>1, MapType DEF EncryptOwn, Values
  <2> QED
    BY <1>2, <2>2 DEF EncryptOwn, clientVars, threadVars, mergeVars
<1>3. CASE JoinThreads
  BY <1>3 DEF JoinThreads, clientVars, threadVars, mergeVars
<1>4. CASE ReplyEncryption \/ ReplyDecryption
  <2>1. Seed \in Seeds
    BY SeedType
  <2>2. ASSUME NEW ok, Answer(ok) PROVE client' \in {"idle", "waiting", "gaveUp"}
           /\ outcome' \in {"none", "ok", "alarm"} /\ cipher' \subseteq Seeds
    BY <2>1, <2>2 DEF Answer
  <2> QED
    BY <1>4, <2>2 DEF ReplyEncryption, ReplyDecryption, threadVars, mergeVars
<1>5. CASE GiveUp
  BY <1>5 DEF GiveUp, threadVars, mergeVars
<1>6. ASSUME NEW s \in Servers, Thread(s) PROVE TypeOK'
  <2> USE DEF requestVars, clientVars, threadVars, mergeVars, ThreadStates
  <2>1. Parse(Empty, asg.keys[s]) \in Maps /\ Parse(results[s], asg.keys[s]) \in Maps
    BY AssignmentType, MapType
  <2>2. CASE Connect(s) \/ NotConnected(s) \/ WriteForever(s) \/ ReadHeader(s) \/ ReadForever(s)
    BY <2>2 DEF Connect, NotConnected, WriteForever, ReadHeader, ReadForever
  <2>3. CASE NoHeader(s)
    BY <2>1, <2>3 DEF NoHeader, ConnStates
  <2>4. CASE ReadBody(s)
    BY <2>1, <2>4 DEF ReadBody, ConnStates
  <2>5. CASE Lock(s) \/ DecideInsert(s) \/ Unlock(s)
    BY <2>5 DEF Lock, DecideInsert, Unlock, HolderAfter
  <2>6. CASE Compare(s)
    BY <2>6 DEF Compare, Agrees
  <2>7. CASE Insert(s)
    BY <2>7 DEF Insert, Maps
  <2> QED
    BY <1>6, <2>2, <2>3, <2>4, <2>5, <2>6, <2>7 DEF Thread
<1>7. ASSUME NEW s \in Servers, Participant(s) \/ Crash(s) PROVE TypeOK'
  <2> USE DEF requestVars, clientVars, threadVars, mergeVars, ConnStates
  <2>1. CASE ServeHeader(s)
    <3>1. EncryptedWith(asg.keys[s], IF s \in compromised THEN "w0" ELSE "w") \subseteq Maps
      BY AssignmentType, MapType DEF Values
    <3> QED
      BY <2>1, <3>1 DEF ServeHeader
  <2>2. CASE ServeBody(s) \/ ServeLate(s) \/ Crash(s)
    BY <2>2 DEF ServeBody, ServeLate, Crash
  <2> QED
    BY <1>7, <2>1, <2>2 DEF Participant
<1>8. CASE UNCHANGED vars
  BY <1>8 DEF vars, requestVars, clientVars, threadVars, mergeVars
<1> QED
  BY <1>1, <1>2, <1>3, <1>4, <1>5, <1>6, <1>7, <1>8 DEF Next, Initiator

\* Every variable of RobustTransaction keeps its type.
THEOREM TypeCorrect == Spec => []TypeOK
  BY TypeInit, TypeStep, PTL DEF Spec

-----------------------------------------------------------------------------
(* The merge.                                                              *)

\* A free mutex is held by no thread.
LEMMA FreeIsNoServer == Free \notin Servers
  BY TransactionAssumption DEF Free

\* Before the first request there is nothing merged.
LEMMA MergeInit == Init => MergeInv
  BY FreeIsNoServer
  DEF Init, MergeInv, MutexHeld, DoneMeansMerged, MapAgrees, MapHasSource, InsertIsFresh,
      AlarmHasCause, TodoInAnswer, EndedWhenJoined, AllEnded, NoResultsUnasked, Empty, None

\* A new transaction starts with the mutex free and everything forgotten.
LEMMA MergeStart == TypeOK /\ MergeInv /\ StartRequest => MergeInv'
<1> SUFFICES ASSUME TypeOK, MergeInv, StartRequest PROVE MergeInv'
  OBVIOUS
<1>1. mtx = Free
  BY DEF TypeOK, MergeInv, MutexHeld, EndedWhenJoined, AllEnded, StartRequest
<1>2. \A s \in Servers : thr'[s] \in {"connect", "done"}
  BY DEF StartRequest
<1>3. \A s \in Servers : results'[s] = Empty /\ todo'[s] = {}
  BY DEF StartRequest
<1>4. partialResults' = Empty /\ robustFlag' = TRUE /\ main' = "own" /\ mtx' = mtx
  BY DEF StartRequest
<1> QED
  BY <1>1, <1>2, <1>3, <1>4, FreeIsNoServer
  DEF MergeInv, MutexHeld, DoneMeansMerged, MapAgrees, MapHasSource, InsertIsFresh,
      AlarmHasCause, TodoInAnswer, EndedWhenJoined, NoResultsUnasked, Empty, None

\* Steps that touch neither the threads nor what they merge.
LEMMA MergeQuiet ==
    ASSUME MergeInv, UNCHANGED <<thr, results, mergeVars>>,
           main' \in {"idle", "reply"} => main \in {"idle", "reply"} \/ AllEnded
    PROVE  MergeInv'
  BY DEF mergeVars, MergeInv, MutexHeld, DoneMeansMerged, MapAgrees, MapHasSource, InsertIsFresh,
         IsNext, AlarmHasCause, TodoInAnswer, EndedWhenJoined, AllEnded, NoResultsUnasked, Arrived

\* Steps of a thread, or of its participant, before the thread merges: only its
\* own state and results change.
LEMMA MergeBefore ==
    ASSUME TypeOK, MergeInv, UNCHANGED <<main, mergeVars>>,
           NEW s \in Servers, thr[s] \in {"connect", "ask", "body"},
           NEW x \in {"ask", "body", "lock", "done", "spin"}, thr' = [thr EXCEPT ![s] = x],
           NEW r, results' = [results EXCEPT ![s] = r],
           x = "done" => r = Empty
    PROVE  MergeInv'
<1>1. main' = main /\ mtx' = mtx /\ todo' = todo
      /\ partialResults' = partialResults /\ robustFlag' = robustFlag
  BY DEF mergeVars
<1>2. /\ thr'[s] = x /\ results'[s] = r
      /\ \A q \in Servers \ {s} : thr'[q] = thr[q] /\ results'[q] = results[q]
  BY DEF TypeOK
<1>3. ~Arrived(s) /\ thr[s] # "done" /\ todo[s] = {}
  BY DEF Arrived, MergeInv, TodoInAnswer, TypeOK
<1>4. MutexHeld'
  BY <1>1, <1>2, <1>3 DEF MergeInv, MutexHeld
<1>5. DoneMeansMerged' /\ TodoInAnswer'
  BY <1>1, <1>2, <1>3 DEF MergeInv, DoneMeansMerged, TodoInAnswer
<1>6. MapAgrees'
  BY <1>1, <1>2, <1>3 DEF MergeInv, MapAgrees, Empty
<1>7. MapHasSource' /\ AlarmHasCause'
  <2>1. \A q \in Servers : Arrived(q) => q # s /\ Arrived(q)' /\ results'[q] = results[q]
    BY <1>2, <1>3 DEF Arrived
  <2> QED
    BY <1>1, <2>1 DEF MergeInv, MapHasSource, AlarmHasCause
<1>8. InsertIsFresh'
  BY <1>1, <1>2 DEF MergeInv, InsertIsFresh, IsNext
<1>9. EndedWhenJoined' /\ NoResultsUnasked'
  BY <1>1, <1>2, <1>3 DEF MergeInv, EndedWhenJoined, AllEnded, NoResultsUnasked
<1> QED
  BY <1>4, <1>5, <1>6, <1>7, <1>8, <1>9 DEF MergeInv

\* A thread that holds the mutex is the only one between lock and unlock.
LEMMA HolderIsAlone ==
    ASSUME MutexHeld, NEW s \in Servers, thr[s] \in {"merge", "insert"}
    PROVE  mtx = s /\ \A q \in Servers \ {s} : thr[q] \notin {"merge", "insert"}
  BY DEF MutexHeld

\* A thread that gets the mutex has all of its answer to merge.
LEMMA MergeLock ==
    ASSUME TypeOK, MergeInv, NEW s \in Servers, Lock(s)
    PROVE  MergeInv'
<1>1. /\ thr[s] = "lock" /\ mtx = Free /\ mtx' = s
      /\ thr' = [thr EXCEPT ![s] = "merge"]
      /\ todo' = [todo EXCEPT ![s] = {k \in Keys : results[s][k] # None}]
      /\ main' = main /\ results' = results
      /\ partialResults' = partialResults /\ robustFlag' = robustFlag
  BY DEF Lock, MutexFree, requestVars
<1>2. /\ thr'[s] = "merge" /\ todo'[s] = {k \in Keys : results[s][k] # None}
      /\ \A q \in Servers \ {s} : thr'[q] = thr[q] /\ todo'[q] = todo[q]
  BY <1>1 DEF TypeOK
<1>3. MutexHeld'
  BY <1>1, <1>2, FreeIsNoServer DEF MergeInv, MutexHeld
<1>4. DoneMeansMerged' /\ MapAgrees' /\ TodoInAnswer'
  BY <1>1, <1>2 DEF MergeInv, DoneMeansMerged, MapAgrees, TodoInAnswer
<1>5. MapHasSource' /\ AlarmHasCause'
  <2>1. \A q \in Servers : Arrived(q) => Arrived(q)'
    BY <1>2 DEF Arrived
  <2> QED
    BY <1>1, <2>1 DEF MergeInv, MapHasSource, AlarmHasCause
<1>6. InsertIsFresh'
  BY <1>1, <1>2 DEF MergeInv, InsertIsFresh, IsNext
<1>7. EndedWhenJoined' /\ NoResultsUnasked'
  BY <1>1, <1>2 DEF MergeInv, EndedWhenJoined, AllEnded, NoResultsUnasked
<1> QED
  BY <1>3, <1>4, <1>5, <1>6, <1>7 DEF MergeInv

\* A comparison passes one key or takes the flag down for a reason.
LEMMA MergeCompare ==
    ASSUME TypeOK, MergeInv, NEW s \in Servers, Compare(s)
    PROVE  MergeInv'
<1>1. PICK k \in Keys :
        /\ IsNext(k, s) /\ partialResults[k] # None
        /\ robustFlag' = Agrees(k, s)
        /\ todo' = [todo EXCEPT ![s] = @ \ {k}]
  BY DEF Compare
<1>2. /\ thr[s] = "merge" /\ robustFlag
      /\ main' = main /\ thr' = thr /\ results' = results
      /\ partialResults' = partialResults /\ mtx' = mtx
  BY DEF Compare, requestVars, threadVars
<1>3. /\ todo'[s] = todo[s] \ {k}
      /\ \A q \in Servers \ {s} : todo'[q] = todo[q]
  BY <1>1 DEF TypeOK
<1>4. \A q \in Servers \ {s} : thr[q] \notin {"merge", "insert"}
  BY <1>2, HolderIsAlone DEF MergeInv
<1>5. MutexHeld' /\ DoneMeansMerged' /\ TodoInAnswer'
  BY <1>2, <1>3 DEF MergeInv, MutexHeld, DoneMeansMerged, TodoInAnswer
<1>6. MapAgrees'
  <2> SUFFICES ASSUME robustFlag', NEW q \in Servers, NEW j \in Keys,
                      thr[q] \in {"merge", "insert", "done"}, j \notin todo'[q],
                      results[q][j] # None
               PROVE  partialResults[j] = results[q][j]
    BY <1>2 DEF MapAgrees
  <2>1. CASE q = s /\ j = k
    BY <1>1, <2>1 DEF Agrees
  <2>2. CASE q # s \/ j # k
    BY <1>2, <1>3, <2>2 DEF MergeInv, MapAgrees
  <2> QED
    BY <2>1, <2>2
<1>7. MapHasSource'
  BY <1>2 DEF MergeInv, MapHasSource, Arrived
<1>8. AlarmHasCause'
  <2> SUFFICES ASSUME ~robustFlag' PROVE AlarmHasCause'
    BY DEF AlarmHasCause
  <2>1. results[s][k] # None /\ results[s][k] # partialResults[k] /\ Arrived(s)
    BY <1>1, <1>2 DEF Agrees, IsNext, MergeInv, TodoInAnswer, Arrived
  <2>2. PICK r \in Servers : Arrived(r) /\ results[r][k] = partialResults[k]
    BY <1>1 DEF MergeInv, MapHasSource
  <2> QED
    BY <1>1, <1>2, <2>1, <2>2 DEF AlarmHasCause, Arrived
<1>9. InsertIsFresh' /\ EndedWhenJoined' /\ NoResultsUnasked'
  BY <1>2, <1>4 DEF MergeInv, InsertIsFresh, EndedWhenJoined, AllEnded, NoResultsUnasked
<1> QED
  BY <1>5, <1>6, <1>7, <1>8, <1>9 DEF MergeInv

\* The thread that decides to insert holds the mutex, so the key stays free.
LEMMA MergeDecide ==
    ASSUME TypeOK, MergeInv, NEW s \in Servers, DecideInsert(s)
    PROVE  MergeInv'
<1>1. /\ thr[s] = "merge" /\ robustFlag /\ thr' = [thr EXCEPT ![s] = "insert"]
      /\ \E k \in Keys : IsNext(k, s) /\ partialResults[k] = None
      /\ main' = main /\ results' = results /\ mtx' = mtx /\ todo' = todo
      /\ partialResults' = partialResults /\ robustFlag' = robustFlag
  BY DEF DecideInsert, requestVars, mergeVars
<1>2. thr'[s] = "insert" /\ \A q \in Servers \ {s} : thr'[q] = thr[q]
  BY <1>1 DEF TypeOK
<1>3. MutexHeld' /\ DoneMeansMerged' /\ MapAgrees' /\ TodoInAnswer'
  BY <1>1, <1>2 DEF MergeInv, MutexHeld, DoneMeansMerged, MapAgrees, TodoInAnswer
<1>4. MapHasSource' /\ AlarmHasCause'
  <2>1. \A q \in Servers : Arrived(q) => Arrived(q)'
    BY <1>2 DEF Arrived
  <2> QED
    BY <1>1, <2>1 DEF MergeInv, MapHasSource, AlarmHasCause
<1>5. InsertIsFresh'
  BY <1>1, <1>2 DEF MergeInv, InsertIsFresh, IsNext
<1>6. EndedWhenJoined' /\ NoResultsUnasked'
  BY <1>1, <1>2 DEF MergeInv, EndedWhenJoined, AllEnded, NoResultsUnasked
<1> QED
  BY <1>3, <1>4, <1>5, <1>6 DEF MergeInv

\* The key a thread inserts is not in the map.
LEMMA InsertsFreshKey ==
    ASSUME TypeOK, MergeInv, NEW s \in Servers, Insert(s)
    PROVE  \E k \in Keys :
             /\ k \in todo[s] /\ partialResults[k] = None
             /\ partialResults' = [partialResults EXCEPT ![k] = results[s][k]]
             /\ todo' = [todo EXCEPT ![s] = @ \ {k}]
<1>1. PICK k \in Keys :
        /\ IsNext(k, s)
        /\ partialResults' = [partialResults EXCEPT ![k] = results[s][k]]
        /\ todo' = [todo EXCEPT ![s] = @ \ {k}]
  BY DEF Insert
<1>2. PICK j \in Keys : IsNext(j, s) /\ partialResults[j] = None
  BY DEF Insert, MergeInv, InsertIsFresh
<1>3. j = k
  BY <1>1, <1>2, TransactionAssumption DEF IsNext, Keys
<1> QED
  BY <1>1, <1>2, <1>3 DEF IsNext

\* The insert is at a free key, so no other answer is contradicted.
LEMMA MergeInsert ==
    ASSUME TypeOK, MergeInv, NEW s \in Servers, Insert(s)
    PROVE  MergeInv'
<1>1. PICK k \in Keys :
        /\ k \in todo[s] /\ partialResults[k] = None
        /\ partialResults' = [partialResults EXCEPT ![k] = results[s][k]]
        /\ todo' = [todo EXCEPT ![s] = @ \ {k}]
  BY InsertsFreshKey
<1>2. /\ thr[s] = "insert" /\ thr' = [thr EXCEPT ![s] = "merge"]
      /\ main' = main /\ results' = results
      /\ robustFlag' = robustFlag /\ mtx' = mtx
  BY DEF Insert, requestVars
<1>3. /\ thr'[s] = "merge" /\ todo'[s] = todo[s] \ {k}
      /\ \A q \in Servers \ {s} : thr'[q] = thr[q] /\ todo'[q] = todo[q]
      /\ partialResults'[k] = results[s][k]
      /\ \A j \in Keys \ {k} : partialResults'[j] = partialResults[j]
  BY <1>1, <1>2 DEF TypeOK, Maps
<1>4. \A q \in Servers \ {s} : thr[q] \notin {"merge", "insert"}
  BY <1>2, HolderIsAlone DEF MergeInv
<1>5. \A q \in Servers : Arrived(q) => Arrived(q)'
  BY <1>3 DEF Arrived
<1>6. MutexHeld' /\ DoneMeansMerged' /\ TodoInAnswer'
  BY <1>2, <1>3 DEF MergeInv, MutexHeld, DoneMeansMerged, TodoInAnswer
<1>7. MapAgrees'
  <2> SUFFICES ASSUME robustFlag, NEW q \in Servers, NEW j \in Keys,
                      thr'[q] \in {"merge", "insert", "done"}, j \notin todo'[q],
                      results[q][j] # None
               PROVE  partialResults'[j] = results[q][j]
    BY <1>2 DEF MapAgrees
  <2>1. CASE q = s /\ j = k
    BY <1>3, <2>1
  <2>2. CASE ~(q = s /\ j = k)
    <3>1. thr[q] \in {"merge", "insert", "done"} /\ j \notin todo[q]
      BY <1>2, <1>3, <2>2
    <3>2. partialResults[j] = results[q][j]
      BY <3>1 DEF MergeInv, MapAgrees
    <3> QED
      BY <1>1, <1>3, <3>2
  <2> QED
    BY <2>1, <2>2
<1>8. MapHasSource' /\ AlarmHasCause'
  <2>1. Arrived(s)'
    BY <1>3 DEF Arrived
  <2> QED
    BY <1>1, <1>2, <1>3, <1>5, <2>1 DEF MergeInv, MapHasSource, AlarmHasCause
<1>9. InsertIsFresh' /\ EndedWhenJoined' /\ NoResultsUnasked'
  BY <1>2, <1>3, <1>4 DEF MergeInv, InsertIsFresh, EndedWhenJoined, AllEnded, NoResultsUnasked
<1> QED
  BY <1>6, <1>7, <1>8, <1>9 DEF MergeInv

\* The mutex is given up with all merged or the flag down.
LEMMA MergeUnlock ==
    ASSUME TypeOK, MergeInv, NEW s \in Servers, Unlock(s)
    PROVE  MergeInv'
<1>1. /\ thr[s] = "merge" /\ (todo[s] = {} \/ ~robustFlag)
      /\ thr' = [thr EXCEPT ![s] = "done"] /\ mtx' = Free
      /\ main' = main /\ results' = results /\ todo' = todo
      /\ partialResults' = partialResults /\ robustFlag' = robustFlag
  BY DEF Unlock, HolderAfter, requestVars
<1>2. thr'[s] = "done" /\ \A q \in Servers \ {s} : thr'[q] = thr[q]
  BY <1>1 DEF TypeOK
<1>3. MutexHeld'
  BY <1>1, <1>2, FreeIsNoServer, HolderIsAlone DEF MergeInv, MutexHeld
<1>4. DoneMeansMerged' /\ MapAgrees' /\ TodoInAnswer'
  BY <1>1, <1>2 DEF MergeInv, DoneMeansMerged, MapAgrees, TodoInAnswer
<1>5. MapHasSource' /\ AlarmHasCause'
  <2>1. \A q \in Servers : Arrived(q) => Arrived(q)'
    BY <1>2 DEF Arrived
  <2> QED
    BY <1>1, <2>1 DEF MergeInv, MapHasSource, AlarmHasCause
<1>6. InsertIsFresh' /\ EndedWhenJoined' /\ NoResultsUnasked'
  BY <1>1, <1>2 DEF MergeInv, InsertIsFresh, IsNext, EndedWhenJoined, AllEnded, NoResultsUnasked
<1> QED
  BY <1>3, <1>4, <1>5, <1>6 DEF MergeInv

\* Every step keeps the invariant, one case to an action.
LEMMA MergeStep == TypeOK /\ MergeInv /\ [Next]_vars => MergeInv'
<1> SUFFICES ASSUME TypeOK, MergeInv, [Next]_vars PROVE MergeInv'
  OBVIOUS
<1>1. CASE StartRequest
  BY <1>1, MergeStart
<1>2. CASE Initiator \/ GiveUp \/ UNCHANGED vars
  <2>1. /\ UNCHANGED <<thr, results, mergeVars>>
        /\ main' \in {"idle", "reply"} => main \in {"idle", "reply"} \/ AllEnded
    BY <1>2 DEF Initiator, EncryptOwn, JoinThreads, ReplyEncryption, ReplyDecryption, GiveUp,
                vars, requestVars, threadVars
  <2> QED
    BY <2>1, MergeQuiet
<1>3. ASSUME NEW s \in Servers, Thread(s) PROVE MergeInv'
  <2>1. CASE Connect(s) \/ WriteForever(s) \/ ReadHeader(s) \/ ReadForever(s)
    <3>1. /\ UNCHANGED <<main, mergeVars>> /\ thr[s] \in {"connect", "ask", "body"}
          /\ \E x \in {"ask", "body", "spin"} : thr' = [thr EXCEPT ![s] = x]
          /\ results' = [results EXCEPT ![s] = results[s]]
      BY <2>1 DEF Connect, WriteForever, ReadHeader, ReadForever, requestVars, TypeOK
    <3> QED
      BY <3>1, MergeBefore
  <2>2. CASE NotConnected(s)
    <3>1. /\ UNCHANGED <<main, mergeVars>> /\ thr[s] = "connect"
          /\ thr' = [thr EXCEPT ![s] = "done"] /\ results' = results
      BY <2>2 DEF NotConnected, requestVars
    <3>2. results[s] = Empty /\ results' = [results EXCEPT ![s] = Empty]
      BY <3>1 DEF MergeInv, NoResultsUnasked, TypeOK
    <3> QED
      BY <3>1, <3>2, MergeBefore
  <2>3. CASE NoHeader(s) \/ ReadBody(s)
    <3>1. /\ UNCHANGED <<main, mergeVars>> /\ thr[s] \in {"ask", "body"}
          /\ thr' = [thr EXCEPT ![s] = "lock"]
          /\ \E r : results' = [results EXCEPT ![s] = r]
      BY <2>3 DEF NoHeader, ReadBody, requestVars
    <3> QED
      BY <3>1, MergeBefore
  <2> QED
    BY <1>3, <2>1, <2>2, <2>3, MergeLock, MergeCompare, MergeDecide, MergeInsert, MergeUnlock
    DEF Thread
<1>4. ASSUME NEW s \in Servers, Participant(s) \/ Crash(s) PROVE MergeInv'
  <2>1. CASE ServeHeader(s)
    <3>1. /\ UNCHANGED <<main, mergeVars>> /\ thr[s] = "ask"
          /\ thr' = [thr EXCEPT ![s] = "ask"]
          /\ \E r : results' = [results EXCEPT ![s] = r]
      BY <2>1 DEF ServeHeader, requestVars, TypeOK
    <3> QED
      BY <3>1, MergeBefore
  <2>2. CASE ServeBody(s) \/ ServeLate(s) \/ Crash(s)
    <3>1. UNCHANGED <<main, thr, results, mergeVars>>
      BY <2>2 DEF ServeBody, ServeLate, Crash, requestVars
    <3> QED
      BY <3>1, MergeQuiet
  <2> QED
    BY <1>4, <2>1, <2>2 DEF Participant
<1> QED
  BY <1>1, <1>2, <1>3, <1>4 DEF Next

\* The merge invariant holds in every reachable state: whatever the order of the
\* threads, what the shared map says and what the flag says is what the answers
\* say (DISEServer.cpp:731-751).
THEOREM MergeCorrect == Spec => []MergeInv
<1>1. Init => TypeOK /\ MergeInv
  BY TypeInit, MergeInit
<1>2. TypeOK /\ MergeInv /\ [Next]_vars => (TypeOK /\ MergeInv)'
  BY TypeStep, MergeStep
<1> QED
  BY <1>1, <1>2, PTL DEF Spec

\* No entry of the shared map is ever overwritten, and the flag does not recover.
THEOREM WrittenOnceHolds == Spec => WrittenOnce
<1> DEFINE Once == main' # "own" \/ main = "own" =>
               /\ \A k \in Keys : partialResults[k] # None => partialResults'[k] = partialResults[k]
               /\ robustFlag' => robustFlag
<1>1. TypeOK /\ MergeInv /\ [Next]_vars => [Once]_vars
  <2> SUFFICES ASSUME TypeOK, MergeInv, Next, main' # "own" \/ main = "own"
               PROVE  Once
    BY DEF vars, requestVars, mergeVars
  <2>1. ~StartRequest
    BY DEF StartRequest
  <2>2. CASE Initiator \/ GiveUp
    BY <2>2 DEF Initiator, EncryptOwn, JoinThreads, ReplyEncryption, ReplyDecryption, GiveUp, mergeVars
  <2>3. ASSUME NEW s \in Servers, Thread(s) \/ Participant(s) \/ Crash(s) PROVE Once
    <3>1. CASE Compare(s)
      BY <3>1 DEF Compare
    <3>2. CASE Insert(s)
      <4>1. PICK k \in Keys : partialResults[k] = None
                 /\ partialResults' = [partialResults EXCEPT ![k] = results[s][k]]
        BY <3>2, InsertsFreshKey
      <4> QED
        BY <3>2, <4>1 DEF Insert, TypeOK, Maps
    <3>3. CASE ~Compare(s) /\ ~Insert(s)
      <4>1. partialResults' = partialResults /\ robustFlag' = robustFlag
        BY <2>3, <3>3
        DEF Thread, Participant, Connect, NotConnected, WriteForever, ReadHeader, NoHeader,
            ReadBody, ReadForever, Lock, DecideInsert, Unlock, ServeHeader, ServeBody,
            ServeLate, Crash, mergeVars
      <4> QED
        BY <4>1
    <3> QED
      BY <3>1, <3>2, <3>3
  <2> QED
    BY <2>1, <2>2, <2>3 DEF Next
<1> QED
  BY <1>1, TypeCorrect, MergeCorrect, PTL DEF Spec, WrittenOnce

-----------------------------------------------------------------------------
(* One honest holder of a key suffices.                                    *)

\* What participant s answers when nothing goes wrong.
FullAnswer(s) ==
    [k \in Keys |-> IF k \in asg.keys[s] THEN (IF s \in compromised THEN "w0" ELSE "w") ELSE None]

\* An answer is on the way only to a thread that waits for it.
AnswerAwaited ==
    \A s \in Servers : conn[s] \in {"header", "replied"} => thr[s] \in {"ask", "body"}

\* Without faults nobody is down, hung or late, and every answer is complete.
AnswersComplete ==
    Faults = {} =>
        /\ \A s \in Servers : conn[s] \in {"idle", "header", "replied"}
        /\ main # "idle" => \A s \in asg.participants :
             /\ thr[s] = "body" => conn[s] \in {"header", "replied"}
             /\ conn[s] \in {"header", "replied"} \/ Arrived(s) => results[s] = FullAnswer(s)

\* An answer with all the keys asked for is parsed to itself.
LEMMA FullAnswerParsed ==
    ASSUME TypeOK, NEW s \in Servers
    PROVE  Parse(FullAnswer(s), asg.keys[s]) = FullAnswer(s)
<1>1. asg.keys[s] \subseteq Keys
  BY AssignmentType DEF TypeOK
<1>2. {k \in Keys : FullAnswer(s)[k] # None} = asg.keys[s]
  BY <1>1 DEF FullAnswer, None
<1> QED
  BY <1>2 DEF Parse

\* Without the race a participant answers for all keys.
LEMMA FullAnswerEncrypted ==
    ASSUME Faults = {}, NEW s \in Servers, NEW answer,
           answer \in EncryptedWith(asg.keys[s], IF s \in compromised THEN "w0" ELSE "w")
    PROVE  answer = FullAnswer(s)
  BY DEF EncryptedWith, FullAnswer

\* Every step keeps an answer on its way awaited by its thread.
LEMMA AwaitedStep == TypeOK /\ AnswerAwaited /\ EndedWhenJoined /\ [Next]_vars => AnswerAwaited'
<1> SUFFICES ASSUME TypeOK, AnswerAwaited, EndedWhenJoined, [Next]_vars PROVE AnswerAwaited'
  OBVIOUS
<1>1. CASE StartRequest
  BY <1>1 DEF StartRequest, EndedWhenJoined, AllEnded, AnswerAwaited
<1>2. CASE Initiator \/ GiveUp \/ UNCHANGED vars
  BY <1>2 DEF Initiator, EncryptOwn, JoinThreads, ReplyEncryption, ReplyDecryption, GiveUp,
              vars, threadVars, AnswerAwaited
<1>3. ASSUME NEW s \in Servers, Thread(s) PROVE AnswerAwaited'
  BY <1>3 DEF Thread, Connect, NotConnected, WriteForever, ReadHeader, NoHeader, NoAnswer,
              ReadBody, ReadForever, Lock, Compare, DecideInsert, Insert, Unlock, threadVars,
              AnswerAwaited, TypeOK
<1>4. ASSUME NEW s \in Servers, Participant(s) \/ Crash(s) PROVE AnswerAwaited'
  BY <1>4 DEF Participant, ServeHeader, ServeBody, ServeLate, Crash, AnswerAwaited, TypeOK
<1> QED
  BY <1>1, <1>2, <1>3, <1>4 DEF Next

\* Every step keeps the answers complete when there is no fault.
LEMMA CompleteStep ==
    ASSUME Faults = {}, TypeOK, MergeInv, AnswerAwaited, AnswersComplete, [Next]_vars
    PROVE  AnswersComplete'
<1> DEFINE Up(s)   == conn[s] \in {"idle", "header", "replied"}
           Good(s) == /\ thr[s] = "body" => conn[s] \in {"header", "replied"}
                      /\ conn[s] \in {"header", "replied"} \/ Arrived(s) => results[s] = FullAnswer(s)
<1>1. \A s \in Servers : Up(s)
  BY DEF AnswersComplete
<1>2. main # "idle" => \A s \in asg.participants : Good(s)
  BY DEF AnswersComplete
<1>3. asg.participants \subseteq Servers
  BY AssignmentType DEF TypeOK
<1>4. CASE StartRequest
  <2>1. \A s \in Servers : conn[s] = "idle" /\ conn'[s] = "idle"
    BY <1>1, <1>4 DEF StartRequest, AnswerAwaited, MergeInv, EndedWhenJoined, AllEnded
  <2>2. asg' \in Assignments /\ asg'.participants \subseteq Servers
        /\ \A s \in asg'.participants : thr'[s] = "connect"
    <3>1. PICK a \in Assignments : asg' = a
            /\ thr' = [s \in Servers |-> IF s \in a.participants THEN "connect" ELSE "done"]
      BY <1>4 DEF StartRequest
    <3> QED
      BY <3>1, AssignmentType
  <2> QED
    BY <2>1, <2>2 DEF AnswersComplete, Arrived
<1>5. CASE Initiator \/ GiveUp \/ UNCHANGED vars
  <2>1. /\ thr' = thr /\ conn' = conn /\ results' = results /\ asg' = asg
        /\ compromised' = compromised
        /\ main' # "idle" => main # "idle"
    BY <1>5 DEF Initiator, EncryptOwn, JoinThreads, ReplyEncryption, ReplyDecryption, GiveUp,
                vars, requestVars, threadVars
  <2> QED
    BY <2>1 DEF AnswersComplete, Arrived, FullAnswer
<1>6. ASSUME NEW s \in Servers, Thread(s) \/ Participant(s) \/ Crash(s),
             asg' = asg, compromised' = compromised, main' = main,
             \A q \in Servers \ {s} : thr'[q] = thr[q] /\ conn'[q] = conn[q] /\ results'[q] = results[q],
             Up(s)', main # "idle" /\ s \in asg.participants => Good(s)'
      PROVE  AnswersComplete'
  BY <1>1, <1>2, <1>3, <1>6 DEF AnswersComplete, Arrived, FullAnswer
<1>7. ASSUME NEW s \in Servers, Thread(s) PROVE AnswersComplete'
  <2>1. /\ asg' = asg /\ compromised' = compromised /\ main' = main
        /\ \A q \in Servers \ {s} : thr'[q] = thr[q] /\ conn'[q] = conn[q] /\ results'[q] = results[q]
    BY <1>7 DEF Thread, Connect, NotConnected, WriteForever, ReadHeader, NoHeader, ReadBody,
                ReadForever, Lock, Compare, DecideInsert, Insert, Unlock, requestVars, threadVars, TypeOK
  <2>2. ~NotConnected(s) /\ ~WriteForever(s) /\ ~NoHeader(s) /\ ~ReadForever(s)
    BY <1>1 DEF NotConnected, WriteForever, NoHeader, NoAnswer, ReadForever
  <2>3. CASE Connect(s) \/ ReadHeader(s)
    <3>1. /\ conn' = conn /\ results' = results /\ ~Arrived(s)' /\ FullAnswer(s)' = FullAnswer(s)
          /\ thr'[s] = "body" => conn[s] \in {"header", "replied"}
      BY <2>1, <2>3 DEF Connect, ReadHeader, Arrived, FullAnswer, TypeOK
    <3>2. main # "idle" /\ s \in asg.participants => Good(s)'
      BY <1>2, <2>1, <3>1
    <3> QED
      BY <1>1, <1>6, <1>7, <2>1, <3>1, <3>2
  <2>4. CASE ReadBody(s)
    <3>1. /\ thr[s] = "body" /\ thr'[s] = "lock" /\ conn'[s] = "idle"
          /\ results'[s] = Parse(results[s], asg.keys[s]) /\ FullAnswer(s)' = FullAnswer(s)
      BY <1>1, <2>1, <2>4 DEF ReadBody, FullAnswer, TypeOK
    <3>2. main # "idle" /\ s \in asg.participants => Good(s)'
      BY <1>2, <2>1, <3>1, FullAnswerParsed
    <3> QED
      BY <1>6, <1>7, <2>1, <3>1, <3>2
  <2>5. CASE Lock(s) \/ Compare(s) \/ DecideInsert(s) \/ Insert(s) \/ Unlock(s)
    <3>1. /\ conn' = conn /\ results' = results /\ FullAnswer(s)' = FullAnswer(s)
          /\ Arrived(s) /\ thr'[s] # "body"
      BY <2>1, <2>5 DEF Lock, Compare, DecideInsert, Insert, Unlock, threadVars, requestVars,
                        Arrived, FullAnswer, TypeOK
    <3>2. main # "idle" /\ s \in asg.participants => Good(s)'
      BY <1>2, <2>1, <3>1
    <3> QED
      BY <1>1, <1>6, <1>7, <2>1, <3>1, <3>2
  <2> QED
    BY <1>7, <2>2, <2>3, <2>4, <2>5 DEF Thread
<1>8. ASSUME NEW s \in Servers, Participant(s) \/ Crash(s) PROVE AnswersComplete'
  <2>1. /\ asg' = asg /\ compromised' = compromised /\ main' = main /\ thr' = thr
        /\ \A q \in Servers \ {s} : conn'[q] = conn[q] /\ results'[q] = results[q]
        /\ FullAnswer(s)' = FullAnswer(s) /\ (Arrived(s)' <=> Arrived(s))
    BY <1>8 DEF Participant, ServeHeader, ServeBody, ServeLate, Crash, requestVars,
                Arrived, FullAnswer, TypeOK
  <2>2. ~ServeLate(s) /\ ~Crash(s)
    BY <1>1 DEF ServeLate, Crash
  <2>3. CASE ServeHeader(s)
    <3>1. thr[s] = "ask" /\ conn'[s] = "header" /\ results'[s] = FullAnswer(s)
      BY <2>3, FullAnswerEncrypted DEF ServeHeader, TypeOK
    <3> QED
      BY <1>6, <1>8, <2>1, <3>1
  <2>4. CASE ServeBody(s)
    <3>1. conn[s] = "header" /\ conn'[s] = "replied" /\ results' = results
      BY <2>4 DEF ServeBody, TypeOK
    <3>2. main # "idle" /\ s \in asg.participants => Good(s)'
      BY <1>2, <2>1, <3>1
    <3> QED
      BY <1>6, <1>8, <2>1, <3>1, <3>2
  <2> QED
    BY <1>8, <2>2, <2>3, <2>4 DEF Participant
<1> QED
  BY <1>4, <1>5, <1>7, <1>8 DEF Next

\* Whatever the number of servers and keys: with no fault but compromise, a
\* robust result is right for each key that some honest participant was asked
\* for (DISEServer.cpp:392).
THEOREM OneHonestSuffices == Spec => []OneHonestHolderSuffices
<1> DEFINE Inv == TypeOK /\ MergeInv /\ AnswerAwaited /\ AnswersComplete
<1>1. Init => Inv
  <2>1. Init => AnswerAwaited /\ AnswersComplete
    BY DEF Init, AnswerAwaited, AnswersComplete
  <2> QED
    BY <2>1, TypeInit, MergeInit
<1>2. Inv /\ [Next]_vars => Inv'
  <2>1. Faults # {} => AnswersComplete'
    BY DEF AnswersComplete
  <2> QED
    BY <2>1, TypeStep, MergeStep, AwaitedStep, CompleteStep DEF MergeInv
<1>3. Inv => OneHonestHolderSuffices
  <2> SUFFICES ASSUME Inv, main = "reply", robustFlag, Faults = {},
                      NEW s \in asg.participants \ compromised, NEW k \in asg.keys[s]
               PROVE  partialResults[k] = "w"
    BY DEF OneHonestHolderSuffices
  <2>1. s \in Servers /\ k \in Keys
    BY AssignmentType DEF TypeOK
  <2>2. thr[s] = "done" /\ todo[s] = {}
    BY <2>1 DEF MergeInv, EndedWhenJoined, AllEnded, DoneMeansMerged
  <2>3. results[s][k] = "w"
    BY <2>1, <2>2 DEF AnswersComplete, Arrived, FullAnswer
  <2> QED
    BY <2>1, <2>2, <2>3 DEF MergeInv, MapAgrees, None
<1> QED
  BY <1>1, <1>2, <1>3, PTL DEF Spec

-----------------------------------------------------------------------------
(* The verdict is exact, and the ciphertext has every key in it once.      *)

\* With one compromised server at the most, cross-checked keys show its sabotage.
LEMMA OneCompromisedMeetsHonest ==
    ASSUME KeysCrossChecked, \A c \in CompromisedSets : \A r, s \in c : r = s
    PROVE  SabotageMeetsHonest
<1> SUFFICES ASSUME NEW a \in Assignments, NEW c \in CompromisedSets,
                    NEW s \in a.participants \cap c, NEW k \in a.keys[s]
             PROVE  \E t \in a.participants \cap c, r \in a.participants \ c :
                        a.keys[t] \cap a.keys[r] # {}
  BY DEF SabotageMeetsHonest, SabotageShows
<1>1. PICK r \in a.participants \ {s} : k \in a.keys[r]
  BY DEF KeysCrossChecked, IsCrossChecked
<1>2. r \notin c
  BY <1>1
<1> QED
  BY <1>1, <1>2

\* The initiator's own partial results when nothing goes wrong.
FullOwn == [k \in Keys |-> IF k \in asg.keys[asg.machine] THEN "w" ELSE None]

\* The seed that any initiator comes to.
WholeSeed == [keys |-> Keys, parity |-> KeyCount % 2]

\* Some participant that did work is compromised.
Sabotaged == \E s \in asg.participants \cap compromised : asg.keys[s] # {}

\* A server that was not drawn has no thread and no results.
OutsidersSilent ==
    \A s \in Servers \ asg.participants : thr[s] = "done" /\ results[s] = Empty

\* Without faults the client waits exactly while the initiator works, the initiator has
\* encrypted with all its keys, and a client that decrypts has something to decrypt.
RequestInv ==
    Faults = {} =>
        /\ compromised \in CompromisedSets
        /\ client = IF main = "idle" THEN "idle" ELSE "waiting"
        /\ main \in {"join", "reply"} => own = FullOwn
        /\ main # "idle" /\ mode = "dec" => cipher # {}

\* A server that was not drawn is never asked, so it has nothing to send.
LEMMA OutsidersStep ==
    ASSUME TypeOK, OutsidersSilent, [Next]_vars
    PROVE  OutsidersSilent'
<1>1. CASE StartRequest
  <2>1. PICK a \in Assignments : asg' = a
          /\ thr' = [s \in Servers |-> IF s \in a.participants THEN "connect" ELSE "done"]
    BY <1>1 DEF StartRequest
  <2>2. results' = [s \in Servers |-> Empty]
    BY <1>1 DEF StartRequest
  <2> QED
    BY <2>1, <2>2 DEF OutsidersSilent
<1>2. CASE Initiator \/ GiveUp \/ UNCHANGED vars
  BY <1>2 DEF Initiator, EncryptOwn, JoinThreads, ReplyEncryption, ReplyDecryption, GiveUp,
              vars, requestVars, threadVars, OutsidersSilent
<1>3. ASSUME NEW s \in Servers, Thread(s) PROVE OutsidersSilent'
  <2>1. thr[s] # "done" /\ asg' = asg
    BY <1>3 DEF Thread, Connect, NotConnected, WriteForever, ReadHeader, NoHeader, ReadBody,
                ReadForever, Lock, Compare, DecideInsert, Insert, Unlock, requestVars
  <2>2. \A q \in Servers \ {s} : thr'[q] = thr[q] /\ results'[q] = results[q]
    BY <1>3 DEF Thread, Connect, NotConnected, WriteForever, ReadHeader, NoHeader, ReadBody,
                ReadForever, Lock, Compare, DecideInsert, Insert, Unlock, threadVars, TypeOK
  <2> QED
    BY <2>1, <2>2 DEF OutsidersSilent
<1>4. ASSUME NEW s \in Servers, Participant(s) \/ Crash(s) PROVE OutsidersSilent'
  <2>1. asg' = asg /\ thr' = thr /\ (results' # results => thr[s] = "ask")
    BY <1>4 DEF Participant, ServeHeader, ServeBody, ServeLate, Crash, requestVars
  <2>2. \A q \in Servers \ {s} : results'[q] = results[q]
    BY <1>4 DEF Participant, ServeHeader, ServeBody, ServeLate, Crash, TypeOK
  <2> QED
    BY <2>1, <2>2 DEF OutsidersSilent
<1> QED
  BY <1>1, <1>2, <1>3, <1>4 DEF Next

\* Without faults every step keeps what the client, the initiator and the file have in step.
LEMMA RequestStep ==
    ASSUME Faults = {}, TypeOK, RequestInv, [Next]_vars
    PROVE  RequestInv'
<1> USE DEF RequestInv
<1>1. CASE StartRequest
  BY <1>1 DEF StartRequest
<1>2. CASE EncryptOwn
  <2>1. own' = FullOwn'
    BY <1>2 DEF EncryptOwn, EncryptedWith, FullOwn
  <2> QED
    BY <1>2, <2>1 DEF EncryptOwn, clientVars
<1>3. CASE JoinThreads \/ UNCHANGED vars
  BY <1>3 DEF JoinThreads, vars, requestVars, clientVars, FullOwn
<1>4. CASE ReplyEncryption \/ ReplyDecryption
  BY <1>4 DEF ReplyEncryption, ReplyDecryption, Answer
<1>5. ~GiveUp
  BY DEF GiveUp
<1>6. ASSUME NEW s \in Servers, Thread(s) \/ Participant(s) \/ Crash(s) PROVE RequestInv'
  <2>1. UNCHANGED requestVars
    BY <1>6 DEF Thread, Participant, Connect, NotConnected, WriteForever, ReadHeader, NoHeader,
                ReadBody, ReadForever, Lock, Compare, DecideInsert, Insert, Unlock,
                ServeHeader, ServeBody, ServeLate, Crash
  <2> QED
    BY <2>1 DEF requestVars, clientVars, FullOwn
<1> QED
  BY <1>1, <1>2, <1>3, <1>4, <1>5, <1>6 DEF Next, Initiator

\* Once the threads are joined every participant's answer is there.
LEMMA AllAnswered ==
    ASSUME Faults = {}, TypeOK, MergeInv, AnswersComplete, main = "reply"
    PROVE  \A s \in asg.participants :
             s \in Servers /\ thr[s] = "done" /\ results[s] = FullAnswer(s)
<1>1. asg.participants \subseteq Servers
  BY AssignmentType DEF TypeOK
<1>2. \A s \in Servers : thr[s] = "done"
  BY DEF MergeInv, EndedWhenJoined, AllEnded
<1> QED
  BY <1>1, <1>2 DEF AnswersComplete, Arrived

\* A robust shared map is what the participants have answered.
LEMMA MapIsAnswers ==
    ASSUME Faults = {}, TypeOK, MergeInv, AnswersComplete, OutsidersSilent,
           main = "reply", robustFlag
    PROVE  /\ \A s \in asg.participants : \A k \in asg.keys[s] :
                k \in Keys /\ partialResults[k] = FullAnswer(s)[k]
           /\ \A k \in Keys : partialResults[k] # None =>
                \E s \in asg.participants : k \in asg.keys[s]
<1>1. ASSUME NEW s \in asg.participants, NEW k \in asg.keys[s]
      PROVE  k \in Keys /\ partialResults[k] = FullAnswer(s)[k]
  <2>1. s \in Servers /\ thr[s] = "done" /\ results[s] = FullAnswer(s)
    BY AllAnswered
  <2>2. k \in Keys
    BY <2>1, AssignmentType DEF TypeOK
  <2>3. FullAnswer(s)[k] # None
    BY <2>2 DEF FullAnswer, None
  <2>4. k \notin todo[s]
    BY <2>1 DEF MergeInv, DoneMeansMerged
  <2> QED
    BY <2>1, <2>2, <2>3, <2>4 DEF MergeInv, MapAgrees
<1>2. ASSUME NEW k \in Keys, partialResults[k] # None
      PROVE  \E s \in asg.participants : k \in asg.keys[s]
  <2>1. PICK s \in Servers : results[s][k] = partialResults[k]
    BY <1>2 DEF MergeInv, MapHasSource
  <2>2. s \in asg.participants
    BY <1>2, <2>1 DEF OutsidersSilent, Empty
  <2>3. FullAnswer(s)[k] # None
    BY <1>2, <2>1, <2>2, AllAnswered
  <2> QED
    BY <2>2, <2>3 DEF FullAnswer
<1> QED
  BY <1>1, <1>2

\* The flag is down at the end exactly if a compromised server did some of the work.
LEMMA FlagIsExact ==
    ASSUME Faults = {}, SabotageMeetsHonest, TypeOK, MergeInv, AnswersComplete,
           OutsidersSilent, RequestInv, main = "reply"
    PROVE  robustFlag <=> ~Sabotaged
<1>1. ASSUME ~robustFlag PROVE Sabotaged
  <2>1. PICK r \in Servers, s \in Servers, k \in Keys :
          results[r][k] # None /\ results[s][k] # None /\ results[r][k] # results[s][k]
    BY <1>1 DEF MergeInv, AlarmHasCause
  <2>2. r \in asg.participants /\ s \in asg.participants
    BY <2>1 DEF OutsidersSilent, Empty
  <2>3. results[r] = FullAnswer(r) /\ results[s] = FullAnswer(s)
    BY <2>2, AllAnswered
  <2>4. k \in asg.keys[r] /\ k \in asg.keys[s] /\ (r \in compromised \/ s \in compromised)
    BY <2>1, <2>3 DEF FullAnswer
  <2> QED
    BY <2>2, <2>4 DEF Sabotaged
<1>2. ASSUME robustFlag, Sabotaged PROVE FALSE
  <2>1. asg \in Assignments /\ compromised \in CompromisedSets
    BY DEF TypeOK, RequestInv
  <2>2. PICK s \in asg.participants \cap compromised, r \in asg.participants \ compromised :
          asg.keys[s] \cap asg.keys[r] # {}
    BY <1>2, <2>1 DEF Sabotaged, SabotageMeetsHonest, SabotageShows
  <2>3. PICK k : k \in asg.keys[s] /\ k \in asg.keys[r]
    BY <2>2
  <2>4. k \in Keys /\ partialResults[k] = FullAnswer(s)[k] /\ partialResults[k] = FullAnswer(r)[k]
    BY <1>2, <2>2, <2>3, MapIsAnswers
  <2> QED
    BY <2>2, <2>3, <2>4 DEF FullAnswer
<1> QED
  BY <1>1, <1>2

\* Where nobody sabotages, the XOR has the partial result of every key once.
LEMMA SeedIsWhole ==
    ASSUME Faults = {}, AllKeysUsed, TypeOK, MergeInv, AnswersComplete, OutsidersSilent,
           RequestInv, main = "reply", robustFlag, ~Sabotaged
    PROVE  Seed = WholeSeed
<1> DEFINE mine   == asg.keys[asg.machine]
           theirs == UNION {asg.keys[s] : s \in asg.participants}
<1>1. asg \in Assignments /\ IsAssignment(asg)
  BY TransactionAssumption DEF TypeOK
<1>2. mine \cup theirs = Keys /\ mine \cap theirs = {}
  <2>1. UNION {asg.keys[s] : s \in asg.participants \cup {asg.machine}} = Keys
    BY <1>1 DEF AllKeysUsed, UsesAllKeys
  <2>2. \A s \in asg.participants : asg.keys[s] \cap mine = {}
    BY <1>1 DEF IsAssignment
  <2> QED
    BY <2>1, <2>2
<1>3. \A k \in Keys : own[k] = IF k \in mine THEN "w" ELSE None
  BY DEF RequestInv, FullOwn
<1>4. \A k \in Keys : partialResults[k] = IF k \in theirs THEN "w" ELSE None
  <2>1. ASSUME NEW k \in theirs PROVE k \in Keys /\ partialResults[k] = "w"
    <3>1. PICK s \in asg.participants : k \in asg.keys[s]
      OBVIOUS
    <3>2. s \notin compromised
      BY <3>1 DEF Sabotaged
    <3>3. k \in Keys /\ partialResults[k] = FullAnswer(s)[k]
      BY <3>1, MapIsAnswers
    <3> QED
      BY <3>1, <3>2, <3>3 DEF FullAnswer
  <2>2. \A k \in Keys : partialResults[k] # None => k \in theirs
    BY MapIsAnswers
  <2> QED
    BY <2>1, <2>2
<1> HIDE DEF mine, theirs
<1>5. /\ {k \in Keys : own[k] \in {"w"}} = mine
      /\ {k \in Keys : partialResults[k] \in {"w", "w0"}} = theirs
      /\ {k \in Keys : partialResults[k] \in {"w"}} = theirs
  BY <1>2, <1>3, <1>4 DEF None
<1>6. Seed = [keys   |-> (mine \ theirs) \cup (theirs \ mine),
              parity |-> (Cardinality(mine) + Cardinality(theirs)) % 2]
  BY <1>5 DEF Seed
<1>7. Cardinality(mine) + Cardinality(theirs) = KeyCount
  <2>1. IsFiniteSet(Keys) /\ Cardinality(Keys) = KeyCount
    BY TransactionAssumption, FS_Interval DEF Keys
  <2>2. IsFiniteSet(mine) /\ IsFiniteSet(theirs)
    BY <1>2, <2>1, FS_Subset
  <2>3. Cardinality(mine \cup theirs)
          = Cardinality(mine) + Cardinality(theirs) - Cardinality(mine \cap theirs)
    BY <2>2, FS_Union
  <2>4. Cardinality(mine \cap theirs) = 0 /\ Cardinality(mine \cup theirs) = KeyCount
    BY <1>2, <2>1, FS_EmptySet
  <2>5. Cardinality(mine) \in Nat /\ Cardinality(theirs) \in Nat
    BY <2>2, FS_CardinalityType
  <2> QED
    BY <2>3, <2>4, <2>5
<1>8. (mine \ theirs) \cup (theirs \ mine) = Keys
  BY <1>2
<1> QED
  BY <1>6, <1>7, <1>8 DEF WholeSeed

\* The inductive invariant behind the exact verdict.
ExactInv ==
    /\ TypeOK /\ MergeInv /\ AnswerAwaited /\ AnswersComplete /\ OutsidersSilent /\ RequestInv
    /\ cipher \subseteq {WholeSeed}
    /\ AlarmIsExact

\* Before the first request there is no verdict and no file.
LEMMA ExactInit == Init => ExactInv
<1> SUFFICES ASSUME Init PROVE ExactInv
  OBVIOUS
<1>1. TypeOK /\ MergeInv
  BY TypeInit, MergeInit
<1>2. AnswerAwaited /\ AnswersComplete /\ OutsidersSilent /\ RequestInv
  BY DEF Init, AnswerAwaited, AnswersComplete, OutsidersSilent, RequestInv
<1>3. cipher \subseteq {WholeSeed} /\ AlarmIsExact
  BY DEF Init, AlarmIsExact
<1> QED
  BY <1>1, <1>2, <1>3 DEF ExactInv

\* The replies give the exact verdict, and keep only whole seeds.
LEMMA ExactReply ==
    ASSUME Faults = {}, AllKeysUsed, SabotageMeetsHonest, ExactInv,
           ReplyEncryption \/ ReplyDecryption
    PROVE  cipher' \subseteq {WholeSeed} /\ AlarmIsExact'
<1>1. main = "reply" /\ client = "waiting" /\ (mode = "dec" => cipher = {WholeSeed})
  BY DEF ExactInv, RequestInv, ReplyEncryption, ReplyDecryption
<1>2. robustFlag <=> ~Sabotaged
  BY <1>1, FlagIsExact DEF ExactInv
<1>3. robustFlag => Seed = WholeSeed
  BY <1>1, <1>2, SeedIsWhole DEF ExactInv
<1>4. PICK ok \in BOOLEAN : Answer(ok) /\ (ok <=> robustFlag)
  <2>1. CASE ReplyEncryption
    BY <2>1 DEF ReplyEncryption, ExactInv, TypeOK
  <2>2. CASE ReplyDecryption
    <3>1. Answer(robustFlag /\ Seed \in cipher) /\ mode = "dec"
      BY <2>2 DEF ReplyDecryption
    <3>2. (robustFlag /\ Seed \in cipher) <=> robustFlag
      BY <1>1, <1>3, <3>1
    <3> QED
      BY <3>1, <3>2
  <2> QED
    BY <2>1, <2>2
<1>5. cipher' \subseteq {WholeSeed}
  BY <1>3, <1>4 DEF Answer, ExactInv
<1>6. outcome' = IF robustFlag THEN "ok" ELSE "alarm"
  BY <1>1, <1>4 DEF Answer
<1>7. Sabotaged' <=> Sabotaged
  BY DEF ReplyEncryption, ReplyDecryption, Sabotaged
<1> QED
  BY <1>2, <1>5, <1>6, <1>7 DEF AlarmIsExact, Sabotaged

\* Every step keeps the verdict exact, one conjunct after the other.
LEMMA ExactStep ==
    ASSUME Faults = {}, AllKeysUsed, SabotageMeetsHonest, ExactInv, [Next]_vars
    PROVE  ExactInv'
<1>1. TypeOK' /\ MergeInv'
  BY TypeStep, MergeStep DEF ExactInv
<1>2. AnswerAwaited' /\ AnswersComplete'
  BY AwaitedStep, CompleteStep DEF ExactInv, MergeInv
<1>3. OutsidersSilent' /\ RequestInv'
  BY OutsidersStep, RequestStep DEF ExactInv
<1>4. cipher' \subseteq {WholeSeed} /\ AlarmIsExact'
  <2>1. CASE StartRequest
    BY <2>1 DEF StartRequest, ExactInv, AlarmIsExact
  <2>2. CASE EncryptOwn \/ JoinThreads \/ UNCHANGED vars
    BY <2>2 DEF EncryptOwn, JoinThreads, vars, requestVars, clientVars, ExactInv, AlarmIsExact
  <2>3. CASE ReplyEncryption \/ ReplyDecryption
    BY <2>3, ExactReply
  <2>4. ~GiveUp
    BY DEF GiveUp
  <2>5. ASSUME NEW s \in Servers, Thread(s) \/ Participant(s) \/ Crash(s)
        PROVE  cipher' \subseteq {WholeSeed} /\ AlarmIsExact'
    <3>1. UNCHANGED requestVars
      BY <2>5 DEF Thread, Participant, Connect, NotConnected, WriteForever, ReadHeader, NoHeader,
                  ReadBody, ReadForever, Lock, Compare, DecideInsert, Insert, Unlock,
                  ServeHeader, ServeBody, ServeLate, Crash
    <3> QED
      BY <3>1 DEF requestVars, clientVars, ExactInv, AlarmIsExact
  <2> QED
    BY <2>1, <2>2, <2>3, <2>4, <2>5 DEF Next, Initiator
<1> QED
  BY <1>1, <1>2, <1>3, <1>4 DEF ExactInv

\* With no fault but compromise, a client hears of a compromised server exactly if one
\* did some of the work, transaction after transaction, wherever the key assignment
\* gives a sabotaged key to an honest participant as well (DISEServer.cpp:392,
\* Client.cpp:175).
THEOREM VerdictExact ==
    ASSUME Faults = {}, AllKeysUsed, SabotageMeetsHonest
    PROVE  Spec => []AlarmIsExact
<1>1. Init => ExactInv
  BY ExactInit
<1>2. ExactInv /\ [Next]_vars => ExactInv'
  BY ExactStep
<1>3. ExactInv => AlarmIsExact
  BY DEF ExactInv
<1> QED
  BY <1>1, <1>2, <1>3, PTL DEF Spec

\* Under the same conditions encResult.txt is only ever filled with the XOR of every
\* key's partial result, each counted once: any initiator with any participants comes
\* to the same seed later (DISEServer.cpp:394-445, 516-546).
THEOREM CipherIsWhole ==
    ASSUME Faults = {}, AllKeysUsed, SabotageMeetsHonest
    PROVE  Spec => []CipherUsesEveryKey
<1>1. Init => ExactInv
  BY ExactInit
<1>2. ExactInv /\ [Next]_vars => ExactInv'
  BY ExactStep
<1>3. ExactInv => CipherUsesEveryKey
  BY DEF ExactInv, CipherUsesEveryKey, WholeSeed
<1> QED
  BY <1>1, <1>2, <1>3, PTL DEF Spec

-----------------------------------------------------------------------------
(* The merge implements the vote.                                          *)

\* Before the first request the vote is closed.
LEMMA VoteInit == Init => Vote!Init
<1> SUFFICES ASSUME Init PROVE Vote!Init
  OBVIOUS
<1>1. main = "idle"
  BY DEF Init
<1> QED
  BY <1>1 DEF Vote!Init, VotePhase, VoteReceived, VoteAgreed, Empty, Vote!NothingAgreed

\* The pairs received are consistent exactly while no conflict has been found by
\* threads that have merged everything.
LEMMA VerdictIsConsistency ==
    ASSUME TypeOK, MergeInv, main = "join", AllEnded
    PROVE  Vote!Consistent(VoteReceived) <=> robustFlag
<1>1. \A p : p \in VoteReceived <=>
            p \in Keys \X Values /\ \E s \in Servers : results[s][p[1]] = p[2]
  BY DEF VoteReceived, AllEnded, Arrived
<1>2. ASSUME robustFlag PROVE Vote!Consistent(VoteReceived)
  <2> SUFFICES ASSUME NEW x \in VoteReceived, NEW y \in VoteReceived, x[1] = y[1]
               PROVE  x[2] = y[2]
    BY DEF Vote!Consistent
  <2>1. \A p \in VoteReceived : partialResults[p[1]] = p[2]
    BY <1>1, <1>2 DEF MergeInv, MapAgrees, DoneMeansMerged, AllEnded, Values, None
  <2> QED
    BY <2>1
<1>3. ASSUME ~robustFlag PROVE ~Vote!Consistent(VoteReceived)
  <2>1. PICK r \in Servers, s \in Servers, k \in Keys :
          results[r][k] # None /\ results[s][k] # None /\ results[r][k] # results[s][k]
    BY <1>3 DEF MergeInv, AlarmHasCause
  <2>2. results[r][k] \in Values /\ results[s][k] \in Values
    BY <2>1 DEF TypeOK, Maps
  <2>3. <<k, results[r][k]>> \in VoteReceived /\ <<k, results[s][k]>> \in VoteReceived
    BY <1>1, <2>2
  <2> QED
    BY <2>1, <2>3 DEF Vote!Consistent
<1> QED
  BY <1>2, <1>3

\* A robust shared map is the function the received pairs make up.
LEMMA AgreedIsMap ==
    ASSUME TypeOK, MergeInv, main = "join", AllEnded, robustFlag
    PROVE  partialResults = Vote!AsFunction(VoteReceived)
<1>1. \A p : p \in VoteReceived <=>
            p \in Keys \X Values /\ \E s \in Servers : results[s][p[1]] = p[2]
  BY DEF VoteReceived, AllEnded, Arrived
<1>2. ASSUME NEW k \in Keys, NEW v \in Values
      PROVE  <<k, v>> \in VoteReceived <=> partialResults[k] = v
  <2>1. ASSUME <<k, v>> \in VoteReceived PROVE partialResults[k] = v
    BY <1>1, <2>1 DEF MergeInv, MapAgrees, DoneMeansMerged, AllEnded, Values, None
  <2>2. ASSUME partialResults[k] = v PROVE <<k, v>> \in VoteReceived
    BY <1>1, <2>2 DEF MergeInv, MapHasSource, Values, None
  <2> QED
    BY <2>1, <2>2
<1>3. ASSUME NEW k \in Keys
      PROVE  partialResults[k] = Vote!AsFunction(VoteReceived)[k]
  <2>1. partialResults[k] \in Values \cup {None}
    BY DEF TypeOK, Maps
  <2>2. CASE partialResults[k] = None
    BY <1>2, <2>2 DEF Vote!AsFunction, Values, None
  <2>3. CASE partialResults[k] \in Values
    BY <1>2, <2>3 DEF Vote!AsFunction
  <2> QED
    BY <2>1, <2>2, <2>3
<1>4. partialResults = [k \in Keys |-> partialResults[k]]
  BY DEF TypeOK, Maps
<1> QED
  BY <1>3, <1>4 DEF Vote!AsFunction

\* A thread's or participant's step leaves the pairs received, or adds some.
LEMMA ReceivedGrows ==
    ASSUME TypeOK, MergeInv, main' = main,
           NEW s \in Servers, Thread(s) \/ Participant(s) \/ Crash(s)
    PROVE  VoteReceived \subseteq VoteReceived'
<1>1. \A q \in Servers : Arrived(q) => Arrived(q)' /\ results'[q] = results[q]
  <2>1. CASE Thread(s)
    BY <2>1 DEF Thread, Connect, NotConnected, WriteForever, ReadHeader, NoHeader, ReadBody,
                ReadForever, Lock, Compare, DecideInsert, Insert, Unlock, threadVars,
                Arrived, TypeOK
  <2>2. CASE Participant(s) \/ Crash(s)
    BY <2>2 DEF Participant, ServeHeader, ServeBody, ServeLate, Crash, Arrived, TypeOK
  <2> QED
    BY <2>1, <2>2
<1> QED
  BY <1>1 DEF VoteReceived

\* Every step of the threads is a step of the vote or none.
LEMMA VoteStep == TypeOK /\ MergeInv /\ [Next]_vars => [Vote!Next]_(Vote!vars)
<1> SUFFICES ASSUME TypeOK, MergeInv, [Next]_vars PROVE [Vote!Next]_(Vote!vars)
  OBVIOUS
<1> USE DEF VotePhase, VoteAgreed
<1>1. CASE StartRequest
  <2>1. main = "idle" /\ main' = "own" /\ \A s \in Servers : results'[s] = Empty
    BY <1>1 DEF StartRequest
  <2>2. VoteReceived' = {}
    BY <2>1 DEF VoteReceived, Empty, Values, None
  <2>3. Vote!Open
    BY <2>1, <2>2 DEF Vote!Open, Vote!NothingAgreed, Empty
  <2> QED
    BY <2>3 DEF Vote!Next
<1>2. CASE JoinThreads
  <2>1. /\ main = "join" /\ main' = "reply" /\ AllEnded
        /\ thr' = thr /\ results' = results
        /\ partialResults' = partialResults /\ robustFlag' = robustFlag
    BY <1>2 DEF JoinThreads, threadVars, mergeVars
  <2>2. VoteReceived' = VoteReceived
    BY <2>1 DEF VoteReceived, Arrived
  <2>3. Vote!Conclude
    BY <2>1, <2>2, VerdictIsConsistency, AgreedIsMap DEF Vote!Conclude, TypeOK
  <2> QED
    BY <2>3 DEF Vote!Next
<1>3. CASE ReplyEncryption \/ ReplyDecryption
  <2>1. main = "reply" /\ main' = "idle"
    BY <1>3 DEF ReplyEncryption, ReplyDecryption
  <2>2. Vote!Close
    BY <2>1 DEF Vote!Close, Vote!NothingAgreed, VoteReceived, Empty
  <2> QED
    BY <2>2 DEF Vote!Next
<1>4. CASE EncryptOwn \/ GiveUp \/ UNCHANGED vars
  <2>1. /\ main' = main \/ (main = "own" /\ main' = "join")
        /\ thr' = thr /\ results' = results
        /\ partialResults' = partialResults /\ robustFlag' = robustFlag
    BY <1>4 DEF EncryptOwn, GiveUp, vars, requestVars, threadVars, mergeVars
  <2>2. VoteReceived' = VoteReceived
    BY <2>1 DEF VoteReceived, Arrived
  <2> QED
    BY <2>1, <2>2 DEF Vote!vars
<1>5. ASSUME NEW s \in Servers, Thread(s) \/ Participant(s) \/ Crash(s)
      PROVE  [Vote!Next]_(Vote!vars)
  <2>1. main' = main
    BY <1>5 DEF Thread, Participant, Connect, NotConnected, WriteForever, ReadHeader, NoHeader,
                ReadBody, ReadForever, Lock, Compare, DecideInsert, Insert, Unlock,
                ServeHeader, ServeBody, ServeLate, Crash, requestVars
  <2>2. CASE main \in {"own", "join"}
    <3>1. VoteReceived \subseteq VoteReceived' /\ VoteReceived' \subseteq Keys \X Values
      BY <1>5, <2>1, ReceivedGrows DEF VoteReceived
    <3>2. Vote!Receive
      BY <2>1, <2>2, <3>1 DEF Vote!Receive
    <3> QED
      BY <3>2 DEF Vote!Next
  <2>3. CASE main \in {"idle", "reply"}
    <3>1. thr[s] = "done"
      BY <2>3 DEF MergeInv, EndedWhenJoined, AllEnded
    <3>2. /\ thr' = thr /\ results' = results
          /\ partialResults' = partialResults /\ robustFlag' = robustFlag
      BY <1>5, <3>1 DEF Thread, Participant, Connect, NotConnected, WriteForever, ReadHeader,
                NoHeader, ReadBody, ReadForever, Lock, Compare, DecideInsert, Insert, Unlock,
                ServeHeader, ServeBody, ServeLate, Crash, mergeVars
    <3>3. VoteReceived' = VoteReceived
      BY <2>1, <3>2 DEF VoteReceived, Arrived
    <3> QED
      BY <2>1, <3>2, <3>3 DEF Vote!vars
  <2> QED
    BY <2>2, <2>3 DEF TypeOK
<1> QED
  BY <1>1, <1>2, <1>3, <1>4, <1>5 DEF Next, Initiator

\* The threads that merge under the mutex, with their early exit, implement the
\* vote over all the answers: the verdict and the agreed results are those of
\* comparing everything with everything at the end.
THEOREM MergeImplementsVote == Spec => ImplementsVote
<1>1. Init => Vote!Init
  BY VoteInit
<1>2. TypeOK /\ MergeInv /\ [Next]_vars => [Vote!Next]_(Vote!vars)
  BY VoteStep
<1> QED
  BY <1>1, <1>2, TypeCorrect, MergeCorrect, PTL DEF Spec, ImplementsVote, Vote!Spec
=============================================================================
