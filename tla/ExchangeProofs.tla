--------------------------- MODULE ExchangeProofs ---------------------------
(***************************************************************************)
(* Proofs about Exchange, for any request, any sizes of writes and         *)
(* buffers, any number of OpenMP threads and whoever dies: the initiator   *)
(* goes on with the whole answer or with none, and a participant hangs     *)
(* only with a cause.                                                      *)
(***************************************************************************)
EXTENDS Exchange, FiniteSetTheorems, TLAPS

-----------------------------------------------------------------------------
(* The inductive invariant, by parts.                                      *)

\* What the variables can be; of the numbers, that they are naturals.
Types ==
    /\ ini \in {"request", "await", "body", "done", "spin", "dead"}
    /\ par \in {"idle", "read", "encrypt", "answer", "closed", "spin", "dead"}
    /\ rWritten \in Nat /\ rHeld \in Nat /\ rWire \in 0..Room /\ rRead \in Nat
    /\ aWritten \in Nat /\ aHeld \in Nat /\ aWire \in 0..Room /\ aRead \in Nat
    /\ block \in Results /\ received \in Results

OmpTypes ==
    /\ todo \subseteq Asked /\ results \subseteq Asked
    /\ DOMAIN inserting \subseteq Asked
    /\ \A k \in DOMAIN inserting : inserting[k] \subseteq Asked

\* No unit of the request comes from nowhere, and none is lost while the initiator
\* lives.
RequestConserved ==
    /\ rWritten <= RequestSize
    /\ rHeld + rWire + rRead <= rWritten
    /\ ini # "dead" => rHeld + rWire + rRead = rWritten
    /\ ini \in {"await", "body", "done"} => rWritten = RequestSize

\* No unit of the answer comes from nowhere, and none before it is built.
AnswerConserved ==
    /\ aWritten <= AnswerSize
    /\ aHeld + aWire + aRead <= aWritten
    /\ block = NotYet => aWritten = 0
    /\ par \in {"idle", "read", "encrypt"} => block = NotYet
    /\ par \in {"answer", "closed"} => block # NotYet

\* The initiator goes on once, and has read the header when it is in the body.
ReceivedOnce ==
    /\ ini # "done" => received = NotYet
    /\ ini \in {"request", "await"} => aRead = 0
    /\ ini = "body" => aRead >= 1

ExchangeInv ==
    Types /\ OmpTypes /\ RequestConserved /\ AnswerConserved /\ ReceivedOnce /\ HangHasCause

-----------------------------------------------------------------------------
(* Lemmas about results and sizes.                                         *)

\* What is parsed tells how many results it is of, and is not the initial value.
LEMMA ParsedFacts ==
    /\ NotYet \in Results
    /\ \A ks \in SUBSET Asked : Parsed(ks) \in Results /\ Parsed(ks) # NotYet
    /\ \A r \in Results : r.keys \subseteq Asked
    /\ \A r \in Results : r # NotYet => r = Parsed(r.keys)
  BY DEF Results, NotYet, Parsed, Promise!NotYet, Promise!Parsed

\* An answer has a header and finitely many results.
LEMMA AnswerSizeType ==
    ASSUME block \in Results
    PROVE  AnswerSize \in Nat /\ AnswerSize >= 1 /\ IsFiniteSet(block.keys)
<1>1. block.keys \subseteq Asked
  BY ParsedFacts
<1>2. IsFiniteSet(block.keys) /\ Cardinality(block.keys) \in Nat
  BY <1>1, ExchangeAssumption, FS_Subset, FS_CardinalityType
<1> QED
  BY <1>2 DEF AnswerSize

\* The next write is of at least one unit and of no more than is left.
LEMMA ChunkBounds ==
    ASSUME NEW size \in Nat, NEW written \in Nat, written < size
    PROVE  Chunk(size, written) \in Nat /\ Chunk(size, written) >= 1
           /\ written + Chunk(size, written) <= size
  BY ExchangeAssumption DEF Chunk, Lesser

\* When all units of the answer have been read, all its results have.
LEMMA WholeAnswerRead ==
    ASSUME block \in Results, aRead \in Nat, AnswerRead
    PROVE  KeysRead = block.keys
<1>1. IsFiniteSet(block.keys) /\ Cardinality(block.keys) \in Nat
  BY AnswerSizeType, FS_CardinalityType
<1>2. ASSUME NEW k \in block.keys, NEW before, before = {j \in block.keys : j < k}
      PROVE  Cardinality(before) < aRead - 1
  <2>1. block.keys \subseteq Nat
    BY ParsedFacts, ExchangeAssumption
  <2>2. before \in SUBSET block.keys /\ k \notin before
    BY <1>2, <2>1
  <2>3. IsFiniteSet(before) /\ Cardinality(before) <= Cardinality(block.keys)
        /\ (Cardinality(before) = Cardinality(block.keys) => before = block.keys)
    BY <1>1, <2>2, FS_Subset
  <2>4. Cardinality(before) \in Nat /\ Cardinality(before) # Cardinality(block.keys)
    BY <2>2, <2>3, FS_CardinalityType
  <2>5. Cardinality(block.keys) <= aRead - 1
    BY <1>1 DEF AnswerRead, AnswerSize
  <2> QED
    BY <1>1, <2>3, <2>4, <2>5
<1> QED
  BY <1>2 DEF KeysRead

-----------------------------------------------------------------------------
(* The invariant holds.                                                    *)

\* At the start.
LEMMA ExchangeInit == Init => ExchangeInv
<1> SUFFICES ASSUME Init PROVE ExchangeInv
  OBVIOUS
<1>1. block \in Results
  BY ParsedFacts DEF Init
<1> QED
  BY <1>1, ParsedFacts, AnswerSizeType, ExchangeAssumption
  DEF Init, ExchangeInv, Types, OmpTypes, RequestConserved, AnswerConserved, ReceivedOnce,
      HangHasCause, Gone

\* The size of the answer is that of the block.
LEMMA SameBlock == block' = block => AnswerSize' = AnswerSize
  BY DEF AnswerSize

\* Every step of the initiator keeps it.
LEMMA InitiatorKeeps == ExchangeInv /\ Initiator => ExchangeInv'
<1> SUFFICES ASSUME ExchangeInv, Initiator PROVE ExchangeInv'
  OBVIOUS
<1> DEFINE size == AnswerSize
<1>0. block' = block /\ size' = size /\ size \in Nat /\ size >= 1
  BY SameBlock, AnswerSizeType
  DEF Initiator, ExchangeInv, Types, WriteRequest, WriteRequestForever, SendRequest,
      AwaitAnswer, RunsOut, ReadHeader, ReadBody, ReadBodyForever, ParseAnswer, answerVars
<1> USE DEF ExchangeInv, Types, OmpTypes, RequestConserved, AnswerConserved, ReceivedOnce,
            HangHasCause, Gone, requestVars, ompVars, answerVars
<1>1. CASE WriteRequest
  <2>1. Chunk(RequestSize, rWritten) \in Nat
        /\ rWritten + Chunk(RequestSize, rWritten) <= RequestSize
    BY <1>1, ChunkBounds, ExchangeAssumption DEF WriteRequest
  <2> QED
    BY <1>0, <1>1, <2>1 DEF WriteRequest
<1>2. CASE WriteRequestForever
  BY <1>0, <1>2 DEF WriteRequestForever
<1>3. CASE SendRequest
  BY <1>0, <1>3, ExchangeAssumption DEF SendRequest, Lesser
<1>4. CASE AwaitAnswer
  BY <1>0, <1>4, ExchangeAssumption DEF AwaitAnswer
<1>5. CASE RunsOut
  BY <1>0, <1>5, ParsedFacts DEF RunsOut
<1>6. CASE ReadHeader
  <2>1. aWire \in Nat /\ aWire' = aWire - 1 /\ aRead = 0 /\ aRead' = 1 /\ aWire' \in 0..Room
    BY <1>6, ExchangeAssumption DEF ReadHeader
  <2>2. received' = NotYet
    BY <1>6 DEF ReadHeader
  <2> QED
    BY <1>0, <1>6, <2>1, <2>2 DEF ReadHeader
<1>7. CASE ReadBody
  BY <1>0, <1>7, ExchangeAssumption DEF ReadBody, Lesser
<1>8. CASE ReadBodyForever
  BY <1>0, <1>8 DEF ReadBodyForever
<1>9. CASE ParseAnswer
  <2>1. received' \in Results
    BY <1>9, ParsedFacts DEF ParseAnswer, KeysRead
  <2> QED
    BY <1>0, <1>9, <2>1 DEF ParseAnswer
<1> QED
  BY <1>1, <1>2, <1>3, <1>4, <1>5, <1>6, <1>7, <1>8, <1>9 DEF Initiator

\* So does every step of the participant.
LEMMA ParticipantKeeps == ExchangeInv /\ (Participant \/ Serve) => ExchangeInv'
<1> SUFFICES ASSUME ExchangeInv, Participant \/ Serve PROVE ExchangeInv'
  OBVIOUS
<1> DEFINE size == AnswerSize
<1>0. size \in Nat /\ size >= 1 /\ (block' = block => size' = size)
  BY SameBlock, AnswerSizeType DEF ExchangeInv, Types
<1> HIDE DEF size
<1> USE DEF ExchangeInv, Types, OmpTypes, RequestConserved, AnswerConserved, ReceivedOnce,
            HangHasCause, Gone, requestVars, ompVars, answerVars, size
<1>1. CASE Serve
  BY <1>0, <1>1 DEF Serve
<1>2. CASE ReadRequest
  BY <1>0, <1>2, ExchangeAssumption DEF ReadRequest, Lesser
<1>3. CASE ReadRequestForever
  BY <1>0, <1>3, ExchangeAssumption DEF ReadRequestForever, RequestRead
<1>4. CASE BeginEncrypt
  BY <1>0, <1>4 DEF BeginEncrypt
<1>5. ASSUME NEW k \in Asked, BeginInsert(k) PROVE ExchangeInv'
  BY <1>0, <1>5 DEF BeginInsert
<1>6. ASSUME NEW k \in Asked, EndInsert(k) PROVE ExchangeInv'
  BY <1>0, <1>6 DEF EndInsert
<1>7. CASE BuildAnswer
  <2>1. block' \in Results /\ block' # NotYet
    BY <1>7, ParsedFacts DEF BuildAnswer
  <2>2. AnswerSize' \in Nat /\ AnswerSize' >= 1
    <3>1. block'.keys \subseteq Asked
      BY <2>1, ParsedFacts
    <3>2. IsFiniteSet(block'.keys) /\ Cardinality(block'.keys) \in Nat
      BY <3>1, ExchangeAssumption, FS_Subset, FS_CardinalityType
    <3> QED
      BY <3>2 DEF AnswerSize
  <2> QED
    BY <1>0, <1>7, <2>1, <2>2 DEF BuildAnswer
<1>8. CASE WriteAnswer
  <2> DEFINE chunk == IF aWritten = 0 THEN 1 ELSE Chunk(AnswerSize, aWritten)
  <2>1. chunk \in Nat /\ chunk >= 1 /\ aWritten + chunk <= AnswerSize
    BY <1>0, <1>8, ChunkBounds DEF WriteAnswer
  <2>2. aWritten' = aWritten + chunk /\ aHeld' = aHeld + chunk
    BY <1>8 DEF WriteAnswer
  <2> QED
    BY <1>0, <1>8, <2>1, <2>2 DEF WriteAnswer
<1>9. CASE WriteAnswerForever
  BY <1>0, <1>9 DEF WriteAnswerForever
<1>10. CASE SendAnswer
  BY <1>0, <1>10, ExchangeAssumption DEF SendAnswer, Lesser
<1>11. CASE CloseSocket
  BY <1>0, <1>11 DEF CloseSocket
<1> QED
  BY <1>1, <1>2, <1>3, <1>4, <1>5, <1>6, <1>7, <1>8, <1>9, <1>10, <1>11 DEF Participant

\* And the death of either.
LEMMA DeathKeeps == ExchangeInv /\ (InitiatorDies \/ ParticipantDies) => ExchangeInv'
<1> SUFFICES ASSUME ExchangeInv, InitiatorDies \/ ParticipantDies PROVE ExchangeInv'
  OBVIOUS
<1>1. block' = block /\ AnswerSize' = AnswerSize /\ AnswerSize \in Nat
  BY SameBlock, AnswerSizeType
  DEF ExchangeInv, Types, InitiatorDies, ParticipantDies, answerVars
<1> USE DEF ExchangeInv, Types, OmpTypes, RequestConserved, AnswerConserved, ReceivedOnce,
            HangHasCause, Gone, requestVars, ompVars, answerVars
<1>2. CASE InitiatorDies
  <2>1. PICK left \in 0..rWire : rWire' = left
    BY <1>2 DEF InitiatorDies
  <2>2. left \in 0..Room /\ left <= rWire
    BY <2>1, ExchangeAssumption
  <2> QED
    BY <1>1, <1>2, <2>1, <2>2 DEF InitiatorDies
<1>3. CASE ParticipantDies
  <2>1. PICK left \in 0..aWire : aWire' = left
    BY <1>3 DEF ParticipantDies
  <2>2. left \in 0..Room /\ left <= aWire
    BY <2>1, ExchangeAssumption
  <2> QED
    BY <1>1, <1>3, <2>1, <2>2 DEF ParticipantDies
<1> QED
  BY <1>2, <1>3

\* The invariant is one.
LEMMA ExchangeInvHolds == Spec => []ExchangeInv
<1>1. ExchangeInv /\ UNCHANGED vars => ExchangeInv'
  BY SameBlock
  DEF vars, ExchangeInv, Types, OmpTypes, RequestConserved, AnswerConserved, ReceivedOnce,
      HangHasCause, Gone, requestVars, ompVars, answerVars
<1>2. ExchangeInv /\ [Next]_vars => ExchangeInv'
  BY <1>1, InitiatorKeeps, ParticipantKeeps, DeathKeeps DEF Next
<1> QED
  BY <1>2, ExchangeInit, PTL DEF Spec

-----------------------------------------------------------------------------
(* What follows.                                                           *)

\* The types, with the bounds that conservation gives the counters.
THEOREM ExchangeTypeCorrect == Spec => []TypeOK
<1>1. ExchangeInv => TypeOK
  BY AnswerSizeType, ExchangeAssumption
  DEF ExchangeInv, Types, OmpTypes, RequestConserved, AnswerConserved, TypeOK
<1> QED
  BY <1>1, ExchangeInvHolds, PTL

\* A participant hangs in its request loop only if the initiator died or gave up with
\* part of the request unsent, in its answer loop only if the initiator is gone
\* (DISEServer.cpp:713, 775, 845).
THEOREM HangsHaveCauses == Spec => []HangHasCause
  BY ExchangeInvHolds, PTL DEF ExchangeInv

\* Whatever the chunks, the buffers and the waits: the initiator goes on with all
\* that the participant has computed or with none of it (DISEServer.cpp:700-729).
THEOREM ExchangeImplementsPromise == Spec => AllOrNothing
<1>1. Init => Promise!Init
  BY DEF Init, Promise!Init, NotYet
<1>2. ExchangeInv /\ [Next]_vars => [Promise!Next]_<<block, received>>
  <2> SUFFICES ASSUME ExchangeInv, [Next]_vars
               PROVE  Promise!Next \/ (UNCHANGED <<block, received>>)
    BY DEF Promise!Next
  <2>1. CASE RunsOut
    BY <2>1 DEF RunsOut, ExchangeInv, ReceivedOnce, answerVars, NotYet, Parsed, Promise!Next,
                Promise!Receive
  <2>2. CASE ParseAnswer
    <3>1. KeysRead = block.keys
      BY <2>2, WholeAnswerRead DEF ParseAnswer, ExchangeInv, Types
    <3>2. block # NotYet
      BY <2>2 DEF ParseAnswer, ExchangeInv, Types, AnswerConserved, ReceivedOnce
    <3>3. received' = block
      BY <2>2, <3>1, <3>2, ParsedFacts DEF ParseAnswer, ExchangeInv, Types
    <3> QED
      BY <2>2, <3>2, <3>3 DEF ParseAnswer, ExchangeInv, ReceivedOnce, answerVars, NotYet,
                              Promise!Next, Promise!Receive
  <2>3. CASE BuildAnswer
    BY <2>3 DEF BuildAnswer, ExchangeInv, OmpTypes, AnswerConserved, NotYet, Parsed,
                Promise!Next, Promise!Compute
  <2>4. UNCHANGED <<block, received>> \/ RunsOut \/ ParseAnswer \/ BuildAnswer
    BY DEF Next, Initiator, Participant, WriteRequest, WriteRequestForever, SendRequest,
           AwaitAnswer, ReadHeader, ReadBody, ReadBodyForever, ReadRequest,
           ReadRequestForever, BeginEncrypt, BeginInsert, EndInsert, WriteAnswer,
           WriteAnswerForever, SendAnswer, CloseSocket, Serve, InitiatorDies,
           ParticipantDies, vars, answerVars
  <2> QED
    BY <2>1, <2>2, <2>3, <2>4
<1> QED
  BY <1>1, <1>2, ExchangeInvHolds, PTL DEF Spec, AllOrNothing, Promise!Spec
=============================================================================
