------------------------------ MODULE Exchange ------------------------------
(***************************************************************************)
(* One exchange of an initiator's thread with a participant: the request   *)
(* in chunks, the partial results computed by an OpenMP loop, the answer   *)
(* in chunks; bytes that a socket holds until the kernel takes them, waits *)
(* whose result nobody looks at, either side dying at any point.           *)
(* RobustTransaction and DiseSystem take from here what may become of an   *)
(* exchange.                                                               *)
(*                                                                         *)
(* Sizes are in units: the request with its header (code byte and size,    *)
(* sent in one flush) is RequestSize of them, the header of the answer is  *)
(* one, each result another.                                               *)
(***************************************************************************)
EXTENDS Integers, FiniteSets

CONSTANTS Asked,         \* key ids of the request
          RequestSize,
          MaxWrite,      \* units per write and per read
          Room,          \* units the kernel takes before the socket has to hold them
          OmpThreads,
          Mortal         \* who may die: subset of {"initiator", "participant"}

ASSUME ExchangeAssumption ==
    /\ Asked \subseteq Nat /\ IsFiniteSet(Asked)
    /\ RequestSize \in Nat \ {0} /\ MaxWrite \in Nat \ {0} /\ Room \in Nat \ {0}
    /\ OmpThreads \in Nat \ {0}
    /\ Mortal \subseteq {"initiator", "participant"}

VARIABLES
    ini,          \* honestInitiatorThread
    par,          \* handleHonestInitiator
    rWritten,     \* bytesWritten of the initiator
    rHeld,        \* units of the request in its socket, not yet with the kernel
    rWire,        \* units on their way
    rRead,        \* units the participant has read
    todo,         \* rounds of the OpenMP loop that have not begun
    inserting,    \* for each insert under way, the keys inserted meanwhile
    results,      \* keys in the QMap
    block,        \* the answer the participant has built
    aWritten,     \* bytesWritten of the participant, the header included
    aHeld,
    aWire,
    aRead,        \* units of the answer the initiator has read
    received      \* what it makes of them
requestVars == <<rWritten, rHeld, rWire, rRead>>
ompVars     == <<todo, inserting, results>>
answerVars  == <<block, aWritten, aHeld, aWire, aRead>>
vars == <<ini, par, requestVars, ompVars, answerVars, received>>

Promise == INSTANCE PartialResults WITH computed <- block

NotYet     == Promise!NotYet
Parsed(ks) == Promise!Parsed(ks)

Init ==
    /\ ini = "request" /\ par = "idle"
    /\ rWritten = 0 /\ rHeld = 0 /\ rWire = 0 /\ rRead = 0
    /\ todo = Asked /\ inserting = [k \in {} |-> {}] /\ results = {}
    /\ block = NotYet
    /\ aWritten = 0 /\ aHeld = 0 /\ aWire = 0 /\ aRead = 0
    /\ received = NotYet

Lesser(a, b) == IF a < b THEN a ELSE b

\* Mutant: every write is of maxWrite units.
FullChunk(size, written) == MaxWrite

\* What the next round of a chunk loop writes.
Chunk(size, written) == Lesser(MaxWrite, size - written)

AnswerSize == 1 + Cardinality(block.keys)

Gone(party) == party \in {"done", "dead"}
-----------------------------------------------------------------------------
(* The initiator's thread.                                                 *)

\* write(), flush(), waitForBytesWritten(1000): the loop goes on whatever became of
\* the wait.
WriteRequest ==
    /\ ini = "request" /\ rWritten < RequestSize
    /\ rWritten' = rWritten + Chunk(RequestSize, rWritten)
    /\ rHeld' = rHeld + Chunk(RequestSize, rWritten)
    /\ UNCHANGED <<ini, par, rWire, rRead, ompVars, answerVars, received>>

\* write() returns -1, again and again.
WriteRequestForever ==
    /\ ini = "request" /\ rWritten < RequestSize /\ par = "dead"
    /\ ini' = "spin"
    /\ UNCHANGED <<par, requestVars, ompVars, answerVars, received>>

\* The kernel takes what the socket holds, in the loop or in a later wait.
SendRequest ==
    /\ ini \in {"request", "await", "body"} /\ rHeld > 0 /\ rWire < Room
    /\ LET taken == Lesser(rHeld, Room - rWire)
       IN rHeld' = rHeld - taken /\ rWire' = rWire + taken
    /\ UNCHANGED <<ini, par, rWritten, rRead, ompVars, answerVars, received>>

AwaitAnswer ==
    /\ ini = "request" /\ rWritten >= RequestSize
    /\ ini' = "await"
    /\ UNCHANGED <<par, requestVars, ompVars, answerVars, received>>

\* 30 s are over, or the connection is: no header, nothing to read; the socket is
\* closed and deleted with what it holds.
RunsOut ==
    /\ ini = "await" /\ aWire = 0
    /\ received' = Parsed({})
    /\ ini' = "done"
    /\ UNCHANGED <<par, requestVars, ompVars, answerVars>>

ReadHeader ==
    /\ ini = "await" /\ aWire > 0
    /\ aWire' = aWire - 1 /\ aRead' = 1
    /\ ini' = "body"
    /\ UNCHANGED <<par, requestVars, ompVars, block, aWritten, aHeld, received>>

\* Mutant: one read, like the client's readAll, has to do.
AnyPartRead == aRead > 1

\* Mutant: one unit too many is waited for.
MoreThanRead == aRead > AnswerSize

AnswerRead == aRead >= AnswerSize

ReadBody ==
    /\ ini = "body" /\ ~AnswerRead
    /\ \E units \in 1..Lesser(MaxWrite, aWire) :
         aRead' = aRead + units /\ aWire' = aWire - units
    /\ UNCHANGED <<ini, par, requestVars, ompVars, block, aWritten, aHeld, received>>

\* Nothing more will come, and the loop looks at the number of bytes only.
ReadBodyForever ==
    /\ ini = "body" /\ ~AnswerRead /\ aWire = 0 /\ par = "dead"
    /\ ini' = "spin"
    /\ UNCHANGED <<par, requestVars, ompVars, answerVars, received>>

\* Results are written, and read, in the order of their keys.
KeysRead ==
    {k \in block.keys : Cardinality({j \in block.keys : j < k}) < aRead - 1}

ParseAnswer ==
    /\ ini = "body" /\ AnswerRead
    /\ received' = Parsed(KeysRead)
    /\ ini' = "done"
    /\ UNCHANGED <<par, requestVars, ompVars, answerVars>>

-----------------------------------------------------------------------------
(* The participant.                                                        *)

\* Its event loop comes to the connection: when, is not up to it.
Serve ==
    /\ par = "idle" /\ rWire > 0
    /\ par' = "read"
    /\ UNCHANGED <<ini, requestVars, ompVars, answerVars, received>>

\* Mutant: one unit too many is waited for.
RequestOverRead == rRead > RequestSize

RequestRead == rRead >= RequestSize

ReadRequest ==
    /\ par = "read" /\ ~RequestRead
    /\ \E units \in 1..Lesser(MaxWrite, rWire) :
         rRead' = rRead + units /\ rWire' = rWire - units
    /\ UNCHANGED <<ini, par, rWritten, rHeld, ompVars, answerVars, received>>

\* Nothing more will come; the event loop of the whole server hangs here.
ReadRequestForever ==
    /\ par = "read" /\ ~RequestRead /\ rWire = 0 /\ Gone(ini)
    /\ par' = "spin"
    /\ UNCHANGED <<ini, requestVars, ompVars, answerVars, received>>

BeginEncrypt ==
    /\ par = "read" /\ RequestRead
    /\ par' = "encrypt"
    /\ UNCHANGED <<ini, requestVars, ompVars, answerVars, received>>

\* An OpenMP thread comes to partialResults->insert().
BeginInsert(k) ==
    /\ par = "encrypt" /\ k \in todo /\ Cardinality(DOMAIN inserting) < OmpThreads
    /\ todo' = todo \ {k}
    /\ inserting' = [j \in DOMAIN inserting \cup {k} |-> IF j = k THEN {} ELSE inserting[j]]
    /\ UNCHANGED <<ini, par, requestVars, results, answerVars, received>>

\* It links its entry where it found room when it began: entries that others have
\* linked there meanwhile may be lost.
EndInsert(k) ==
    /\ par = "encrypt" /\ k \in DOMAIN inserting
    /\ \E lost \in SUBSET inserting[k] : results' = (results \ lost) \cup {k}
    /\ inserting' = [j \in DOMAIN inserting \ {k} |-> inserting[j] \cup {k}]
    /\ UNCHANGED <<ini, par, requestVars, todo, answerVars, received>>

BuildAnswer ==
    /\ par = "encrypt" /\ todo = {} /\ DOMAIN inserting = {}
    /\ block' = Parsed(results)
    /\ par' = "answer"
    /\ UNCHANGED <<ini, requestVars, ompVars, aWritten, aHeld, aWire, aRead, received>>

WriteAnswer ==
    /\ par = "answer" /\ aWritten < AnswerSize
    /\ LET chunk == IF aWritten = 0 THEN 1 ELSE Chunk(AnswerSize, aWritten)
       IN aWritten' = aWritten + chunk /\ aHeld' = aHeld + chunk
    /\ UNCHANGED <<ini, par, requestVars, ompVars, block, aWire, aRead, received>>

\* The socket is closed: write() returns -1, again and again.  The header is not
\* written in a loop.
WriteAnswerForever ==
    /\ par = "answer" /\ 0 < aWritten /\ aWritten < AnswerSize /\ Gone(ini)
    /\ par' = "spin"
    /\ UNCHANGED <<ini, requestVars, ompVars, answerVars, received>>

\* What the socket holds when it is closed is still sent: the event loop keeps it.
SendAnswer ==
    /\ par \in {"answer", "closed"} /\ aHeld > 0 /\ aWire < Room
    /\ LET taken == Lesser(aHeld, Room - aWire)
       IN aHeld' = aHeld - taken /\ aWire' = aWire + taken
    /\ UNCHANGED <<ini, par, requestVars, ompVars, block, aWritten, aRead, received>>

CloseSocket ==
    /\ par = "answer" /\ aWritten >= AnswerSize
    /\ par' = "closed"
    /\ UNCHANGED <<ini, requestVars, ompVars, answerVars, received>>

-----------------------------------------------------------------------------
(* Death: what the socket holds is lost, and what is on its way may be.     *)

InitiatorDies ==
    /\ "initiator" \in Mortal /\ ini \in {"request", "await", "body"}
    /\ ini' = "dead"
    /\ rWire' \in 0..rWire
    /\ UNCHANGED <<par, rWritten, rHeld, rRead, ompVars, answerVars, received>>

ParticipantDies ==
    /\ "participant" \in Mortal /\ par \notin {"dead", "spin"}
    /\ par' = "dead"
    /\ aWire' \in 0..aWire
    /\ UNCHANGED <<ini, requestVars, ompVars, block, aWritten, aHeld, aRead, received>>

-----------------------------------------------------------------------------
Initiator ==
    \/ WriteRequest \/ WriteRequestForever \/ SendRequest \/ AwaitAnswer
    \/ RunsOut \/ ReadHeader \/ ReadBody \/ ReadBodyForever \/ ParseAnswer

Participant ==
    \/ ReadRequest \/ ReadRequestForever \/ BeginEncrypt
    \/ \E k \in Asked : BeginInsert(k) \/ EndInsert(k)
    \/ BuildAnswer \/ WriteAnswer \/ WriteAnswerForever \/ SendAnswer \/ CloseSocket

Next == Initiator \/ Participant \/ Serve \/ InitiatorDies \/ ParticipantDies

Spec == Init /\ [][Next]_vars

\* Threads and sockets go on, on both sides.  Nobody has to die, and the
\* participant's event loop need never come to the connection.
FairSpec == Spec /\ WF_vars(Initiator) /\ WF_vars(Participant)
-----------------------------------------------------------------------------
Results == {NotYet} \cup {Parsed(ks) : ks \in SUBSET Asked}

TypeOK ==
    /\ ini \in {"request", "await", "body", "done", "spin", "dead"}
    /\ par \in {"idle", "read", "encrypt", "answer", "closed", "spin", "dead"}
    /\ rWritten \in 0..RequestSize /\ rHeld \in 0..RequestSize
    /\ rWire \in 0..Room /\ rRead \in 0..RequestSize
    /\ todo \subseteq Asked /\ results \subseteq Asked
    /\ DOMAIN inserting \subseteq Asked
    /\ \A k \in DOMAIN inserting : inserting[k] \subseteq Asked
    /\ block \in Results /\ received \in Results
    /\ aWritten \in 0..AnswerSize /\ aHeld \in 0..AnswerSize
    /\ aWire \in 0..Room /\ aRead \in 0..AnswerSize

\* Chunks, buffers and waits that run out notwithstanding: the initiator goes on with
\* all the participant has computed or with none of it (DISEServer.cpp:700-729,
\* 842-857).
AllOrNothing == Promise!Spec

\* A participant hangs in the loop that reads a request only if the initiator died,
\* or gave up with part of the request still in its socket; and in the loop that
\* writes the answer only if the initiator is gone (DISEServer.cpp:713, 775, 845).
HangHasCause ==
    par = "spin" =>
        /\ Gone(ini)
        /\ block = NotYet /\ ini = "done" => rHeld > 0

\* A participant whose event loop never comes, or that hangs, does not keep the
\* initiator's thread from its end; only its death does (DISEServer.cpp:671, 704).
ThreadEnds == <>(Gone(ini) \/ par = "dead")
=============================================================================
