--------------------------- MODULE DealingProofs ---------------------------
(***************************************************************************)
(* Whatever the sizes, the chunks and the faults, and however often the    *)
(* Dealer is run: a server holds the keys of one run under their numbers,  *)
(* no byte is lost, and addresses of one length arrive as they were given. *)
(***************************************************************************)
EXTENDS Dealing, Induction

\* An environment is the one the server started with or comes from one block.
FromOneBlock ==
    env \in [Servers -> {Undealt} \cup {EnvironmentOf[d][s] : d \in Deals, s \in Servers}]
    /\ \A s \in Servers : Dealt(s) => \E d \in Deals : env[s] = EnvironmentOf[d][s]

\* Parsing a machine's block gives back its number, its row's key ids with the
\* keys of that deal, and the rows of all machines.
LEMMA BlockParsed ==
    ASSUME NEW d \in Deals, NEW s \in Servers
    PROVE  /\ EnvironmentOf[d][s].machine = s
           /\ \A k \in DOMAIN EnvironmentOf[d][s].keyList :
                EnvironmentOf[d][s].keyList[k] = Key(d, k)
           /\ DOMAIN EnvironmentOf[d][s].keyList =
                {OmegaMatrix[i + s * KeysPerMachine] : i \in 0..(KeysPerMachine - 1)}
           /\ \A r \in Servers : EnvironmentOf[d][s].omegaTable[r] =
                {OmegaMatrix[KeysPerMachine * r + i] : i \in 0..(KeysPerMachine - 1)}
<1> DEFINE cols     == 0..(KeysPerMachine - 1)
           keyId(i) == OmegaMatrix[i + s * KeysPerMachine]
           colOf(k) == CHOOSE i \in cols : keyId(i) = k
<1>1. EnvironmentOf[d][s] =
        [machine    |-> s,
         keyList    |-> [k \in {keyId(i) : i \in cols} |-> Block(d, s).keys[colOf(k)]],
         omegaTable |-> [r \in Servers |-> {OmegaMatrix[KeysPerMachine * r + i] : i \in cols}],
         addresses  |-> ParsedAddresses(Block(d, s))]
  BY DEF EnvironmentOf, Environment, Block, Servers
<1>2. ASSUME NEW k \in {keyId(i) : i \in cols}
      PROVE  Block(d, s).keys[colOf(k)] = Key(d, k)
  <2>1. colOf(k) \in cols /\ keyId(colOf(k)) = k
    OBVIOUS
  <2> QED
    BY <2>1 DEF Block
<1> QED
  BY <1>1, <1>2

\* No server has been dealt to at the start.
LEMMA EnvInit == Init => FromOneBlock
  BY DEF Init, FromOneBlock, Dealt, Undealt

\* Only Install changes an environment, and puts one whole block there.
LEMMA EnvStep == FromOneBlock /\ [Next]_vars => FromOneBlock'
<1> SUFFICES ASSUME FromOneBlock, [Next]_vars PROVE FromOneBlock'
  OBVIOUS
<1>1. CASE env' = env
  BY <1>1 DEF FromOneBlock, Dealt
<1>2. ASSUME NEW s \in Servers, NEW d \in Deals, Install(s, d) PROVE FromOneBlock'
  <2>1. env' = [env EXCEPT ![s] = EnvironmentOf[d][s]]
    BY <1>2 DEF Install
  <2> QED
    BY <2>1 DEF FromOneBlock, Dealt
<1>3. env' = env \/ \E s \in Servers, d \in Deals : Install(s, d)
  BY DEF Next, StartDeal, Dealer, Server, Connect, Refused, WriteChunk, Sent, WaitTimesOut, WriteForever,
         CloseSocket, ReadSocket, ReadChunk, ReadForever, CrashOnAddress, vars, serverVars
<1> QED
  BY <1>1, <1>2, <1>3

\* So the environments always come from one block each.
LEMMA FromOneBlockHolds == Spec => []FromOneBlock
  BY EnvInit, EnvStep, PTL DEF Spec

\* Servers hold the keys of one run of the Dealer, each under its own number, and
\* just those that every dealt server's omega table gives them
\* (DISEServer.cpp:185-214, DealerClient.cpp:70-78).
THEOREM DealtKeysAgree == Spec => []HoldersAgree
<1>1. FromOneBlock => HoldersAgree
  <2> SUFFICES ASSUME FromOneBlock, NEW s \in Servers, Dealt(s)
               PROVE  /\ \E d \in Deals : \A k \in DOMAIN env[s].keyList :
                           env[s].keyList[k] = Key(d, k)
                      /\ \A r \in Servers : Dealt(r) =>
                           DOMAIN env[s].keyList = env[r].omegaTable[s]
    BY DEF HoldersAgree
  <2>1. PICK d \in Deals : env[s] = EnvironmentOf[d][s]
    BY DEF FromOneBlock
  <2>2. \A k \in DOMAIN env[s].keyList : env[s].keyList[k] = Key(d, k)
    BY <2>1, BlockParsed
  <2>3. ASSUME NEW r \in Servers, Dealt(r)
        PROVE  DOMAIN env[s].keyList = env[r].omegaTable[s]
    <3>1. PICK c \in Deals : env[r] = EnvironmentOf[c][r]
      BY <2>3 DEF FromOneBlock
    <3>2. env[r].omegaTable[s] =
            {OmegaMatrix[KeysPerMachine * s + i] : i \in 0..(KeysPerMachine - 1)}
      BY <3>1, BlockParsed
    <3>3. DOMAIN env[s].keyList =
            {OmegaMatrix[i + s * KeysPerMachine] : i \in 0..(KeysPerMachine - 1)}
      BY <2>1, BlockParsed
    <3>4. \A i \in 0..(KeysPerMachine - 1) :
            i + s * KeysPerMachine = KeysPerMachine * s + i
      BY DealingAssumption DEF Servers
    <3> QED
      BY <3>2, <3>3, <3>4
  <2> QED
    BY <2>2, <2>3
<1> QED
  BY <1>1, FromOneBlockHolds, PTL

-----------------------------------------------------------------------------
(* The bytes of a block.                                                   *)

ThreadStates == {"idle", "connect", "chunks", "wait", "spin", "closed", "failed"}
ConnStates   == {"none", "queued", "reading", "spin", "dealt", "crashed"}

\* What the variables can be; of the counters, that they are naturals.
Types ==
    /\ deal \in 0..MaxDeals
    /\ thread \in [Deals -> [Servers -> ThreadStates]]
    /\ bytesWritten \in [Deals -> [Servers -> Nat]]
    /\ pending \in [Deals -> [Servers -> Nat]]
    /\ wire \in [Deals -> [Servers -> Nat]]
    /\ conn \in [Deals -> [Servers -> ConnStates]]
    /\ buffer \in [Servers -> Nat]

\* A server reads from one connection at a time.
OneAtATime ==
    \A s \in Servers : \A c, d \in Deals :
        conn[c][s] \in {"reading", "spin"} /\ conn[d][s] \in {"reading", "spin"} => c = d

\* One connection: its bytes are conserved, a closed socket has been given all of
\* them, and a server that hangs on it lacks what the socket was closed with.
Connection(d, s) ==
    /\ bytesWritten[d][s] <= BlockSize /\ wire[d][s] <= Room
    /\ bytesWritten[d][s] = BytesRead(d, s) + wire[d][s] + pending[d][s]
    /\ deal < d => thread[d][s] = "idle"
    /\ thread[d][s] \in {"idle", "connect", "failed"} <=> conn[d][s] = "none"
    /\ thread[d][s] = "closed" => bytesWritten[d][s] = BlockSize
    /\ conn[d][s] = "spin" => thread[d][s] = "closed" /\ pending[d][s] # 0

\* The inductive invariant.
DealingInv ==
    /\ Types /\ OneAtATime
    /\ \A s \in Servers : buffer[s] <= BlockSize
    /\ \A d \in Deals, s \in Servers : Connection(d, s)

\* The next chunk is of at least one byte and of no more than is left.
LEMMA ChunkBounds ==
    ASSUME NEW written \in Nat, written < BlockSize
    PROVE  ChunkAfter(written) \in Nat /\ written + ChunkAfter(written) <= BlockSize
  BY DealingAssumption DEF ChunkAfter, Lesser

\* At the start nothing has been written.
LEMMA DealingInit == Init => DealingInv
  BY DealingAssumption
  DEF Init, DealingInv, Types, OneAtATime, Connection, BytesRead, ThreadStates, ConnStates

\* A new run of the Dealer finds its connections untouched.
LEMMA StartDealKeeps == DealingInv /\ StartDeal => DealingInv'
<1> SUFFICES ASSUME DealingInv, StartDeal PROVE DealingInv'
  OBVIOUS
<1>1. deal \in 0..MaxDeals /\ deal' = deal + 1 /\ deal' \in Deals
  BY DealingAssumption DEF DealingInv, Types, StartDeal, Deals
<1>2. /\ thread' \in [Deals -> [Servers -> ThreadStates]]
      /\ \A d \in Deals, s \in Servers :
           thread'[d][s] = IF d = deal + 1 THEN "connect" ELSE thread[d][s]
  BY <1>1 DEF DealingInv, Types, StartDeal, ThreadStates
<1>3. UNCHANGED <<bytesWritten, pending, wire, conn, buffer>>
  BY DEF StartDeal, serverVars
<1>4. Types' /\ OneAtATime' /\ \A s \in Servers : buffer'[s] <= BlockSize
  <2>1. deal' \in 0..MaxDeals
    BY <1>1 DEF Deals
  <2>2. Types'
    BY <1>2, <1>3, <2>1 DEF DealingInv, Types
  <2>3. OneAtATime'
    BY <1>3 DEF DealingInv, OneAtATime
  <2> QED
    BY <1>3, <2>2, <2>3 DEF DealingInv
<1>5. ASSUME NEW d \in Deals, NEW s \in Servers PROVE Connection(d, s)'
  <2>1. Connection(d, s) /\ d \in Nat
    BY DEF DealingInv, Deals
  <2>2. BytesRead(d, s)' = BytesRead(d, s)
    BY <1>3 DEF BytesRead
  <2>3. thread'[d][s] = IF d = deal + 1 THEN "connect" ELSE thread[d][s]
    BY <1>2
  <2>4. deal' < d => deal < d /\ d # deal + 1
    BY <1>1, <2>1
  <2>5. d = deal + 1 => thread[d][s] = "idle"
    BY <1>1, <2>1 DEF Connection
  <2> QED
    BY <1>3, <2>1, <2>2, <2>3, <2>4, <2>5 DEF Connection
<1> QED
  BY <1>4, <1>5 DEF DealingInv

\* A step that leaves every connection alone but one.
OnlyAt(d, s) ==
    /\ deal' = deal
    /\ \A c \in Deals, r \in Servers : (c # d \/ r # s) =>
         /\ thread'[c][r] = thread[c][r] /\ conn'[c][r] = conn[c][r]
         /\ bytesWritten'[c][r] = bytesWritten[c][r]
         /\ pending'[c][r] = pending[c][r] /\ wire'[c][r] = wire[c][r]
    /\ \A r \in Servers \ {s} : buffer'[r] = buffer[r]

\* If it does not touch the buffer while another connection is read into it, only the
\* one has to be looked at.
LEMMA OneConnection ==
    ASSUME NEW d \in Deals, NEW s \in Servers, DealingInv, Types', OnlyAt(d, s),
           buffer'[s] <= BlockSize, Connection(d, s)',
           \A c \in Deals \ {d} : conn[c][s] \in {"reading", "spin"} =>
                buffer'[s] = buffer[s] /\ conn'[d][s] \notin {"reading", "spin"}
    PROVE  DealingInv'
<1>1. ASSUME NEW c \in Deals, NEW r \in Servers PROVE Connection(c, r)'
  <2>1. CASE c = d /\ r = s
    BY <2>1
  <2>2. CASE c # d \/ r # s
    <3>1. Connection(c, r) /\ conn[c][r] \in ConnStates
      BY DEF DealingInv, Types
    <3>2. /\ thread'[c][r] = thread[c][r] /\ conn'[c][r] = conn[c][r]
          /\ bytesWritten'[c][r] = bytesWritten[c][r]
          /\ pending'[c][r] = pending[c][r] /\ wire'[c][r] = wire[c][r] /\ deal' = deal
      BY <2>2 DEF OnlyAt
    <3>3. conn[c][r] \in {"reading", "spin"} => buffer'[r] = buffer[r]
      BY <2>2 DEF OnlyAt
    <3>4. BytesRead(c, r)' = BytesRead(c, r)
      BY <3>1, <3>2, <3>3 DEF BytesRead, ConnStates
    <3> QED
      BY <3>1, <3>2, <3>4 DEF Connection
  <2> QED
    BY <2>1, <2>2
<1>2. OneAtATime'
  <2> SUFFICES ASSUME NEW r \in Servers, NEW b \in Deals, NEW c \in Deals,
                      conn'[b][r] \in {"reading", "spin"}, conn'[c][r] \in {"reading", "spin"}
               PROVE  b = c
    BY DEF OneAtATime
  <2>1. \A e \in Deals : (e # d \/ r # s) => conn'[e][r] = conn[e][r]
    BY DEF OnlyAt
  <2>2. OneAtATime
    BY DEF DealingInv
  <2>3. CASE r # s
    BY <2>1, <2>2, <2>3 DEF OneAtATime
  <2>4. CASE r = s
    BY <2>1, <2>2, <2>4 DEF OneAtATime
  <2> QED
    BY <2>3, <2>4
<1>3. \A r \in Servers : buffer'[r] <= BlockSize
  BY DEF OnlyAt, DealingInv
<1> QED
  BY <1>1, <1>2, <1>3 DEF DealingInv

\* Every step of the Dealer for a server keeps the invariant.
LEMMA DealerKeeps ==
    ASSUME NEW s \in Servers, DealingInv, Dealer(s) PROVE DealingInv'
<1>1. /\ deal \in Deals /\ deal' = deal /\ buffer' = buffer
      /\ MaxWrite \in Nat \ {0} /\ Room \in Nat \ {0} /\ BlockSize \in Nat \ {0}
  BY DealingAssumption
  DEF Dealer, Connect, Refused, WriteChunk, Sent, WaitTimesOut, WriteForever, CloseSocket,
      DealingInv, Types, Deals, serverVars
<1>2. Connection(deal, s)
  BY <1>1 DEF DealingInv
<1>3. /\ thread[deal][s] \in ThreadStates /\ conn[deal][s] \in ConnStates
      /\ bytesWritten[deal][s] \in Nat /\ pending[deal][s] \in Nat /\ wire[deal][s] \in Nat
      /\ buffer[s] \in Nat /\ buffer[s] <= BlockSize
  BY <1>1 DEF DealingInv, Types
<1>4. BytesRead(deal, s) \in Nat
  BY <1>1, <1>3 DEF BytesRead, ConnStates
<1>5. SUFFICES Types' /\ OnlyAt(deal, s) /\ Connection(deal, s)'
               /\ (conn'[deal][s] = conn[deal][s] \/ conn'[deal][s] = "queued")
  <2>1. OneAtATime
    BY DEF DealingInv
  <2> QED
    BY <1>1, <1>3, <1>5, <2>1, OneConnection DEF OneAtATime
<1> USE DEF Types, OnlyAt, ThreadStates, ConnStates
<1>6. ASSUME conn' = conn PROVE BytesRead(deal, s)' = BytesRead(deal, s)
  BY <1>1, <1>6 DEF BytesRead
<1>7. CASE Connect(s)
  <2>1. Types' /\ OnlyAt(deal, s)
    BY <1>1, <1>7 DEF Connect, DealingInv
  <2>2. conn[deal][s] = "none" /\ thread'[deal][s] = "chunks" /\ conn'[deal][s] = "queued"
    BY <1>1, <1>2, <1>7 DEF Connect, DealingInv, Connection
  <2>3. BytesRead(deal, s) = 0 /\ BytesRead(deal, s)' = 0
    BY <1>1, <2>2 DEF BytesRead
  <2> QED
    BY <1>1, <1>2, <1>3, <1>7, <2>1, <2>2, <2>3 DEF Connect, Connection
<1>8. CASE Refused(s)
  <2>1. Types' /\ OnlyAt(deal, s) /\ thread'[deal][s] = "failed" /\ conn' = conn
    BY <1>1, <1>8 DEF Refused, DealingInv, serverVars
  <2> QED
    BY <1>1, <1>2, <1>3, <1>6, <1>8, <2>1 DEF Refused, Connection, serverVars
<1>9. CASE WriteChunk(s)
  <2> DEFINE chunk  == ChunkAfter(bytesWritten[deal][s])
             unsent == pending[deal][s] + chunk
             taken  == Lesser(unsent, Room - wire[deal][s])
             end    == IF taken = unsent THEN "chunks" ELSE "wait"
  <2>1. chunk \in Nat /\ bytesWritten[deal][s] + chunk <= BlockSize
    BY <1>3, <1>9, ChunkBounds DEF WriteChunk
  <2>2. taken \in Nat /\ taken <= unsent /\ wire[deal][s] + taken <= Room
    BY <1>1, <1>2, <1>3, <2>1 DEF Lesser, Connection
  <2>3. end \in ThreadStates /\ end \in {"chunks", "wait"}
    OBVIOUS
  <2>4. /\ thread' = [thread EXCEPT ![deal][s] = end]
        /\ bytesWritten' = [bytesWritten EXCEPT ![deal][s] = bytesWritten[deal][s] + chunk]
        /\ pending' = [pending EXCEPT ![deal][s] = unsent - taken]
        /\ wire' = [wire EXCEPT ![deal][s] = wire[deal][s] + taken]
        /\ conn' = conn
    BY <1>9 DEF WriteChunk, serverVars
  <2>5. unsent - taken \in Nat /\ bytesWritten[deal][s] + chunk \in Nat
        /\ wire[deal][s] + taken \in Nat
    BY <1>3, <2>1, <2>2
  <2> HIDE DEF chunk, unsent, taken, end
  <2>6. Types' /\ OnlyAt(deal, s)
    BY <1>1, <2>3, <2>4, <2>5 DEF DealingInv
  <2>7. /\ thread'[deal][s] = end /\ conn'[deal][s] = conn[deal][s]
        /\ bytesWritten'[deal][s] = bytesWritten[deal][s] + chunk
        /\ pending'[deal][s] = unsent - taken /\ wire'[deal][s] = wire[deal][s] + taken
    BY <1>1, <2>4 DEF DealingInv
  <2>8. unsent = pending[deal][s] + chunk
    BY DEF unsent
  <2>9. bytesWritten'[deal][s] = BytesRead(deal, s)' + wire'[deal][s] + pending'[deal][s]
    <3>1. bytesWritten[deal][s] = BytesRead(deal, s) + wire[deal][s] + pending[deal][s]
      BY <1>2 DEF Connection
    <3>2. chunk \in Nat /\ taken \in Nat
      BY <2>1, <2>2
    <3> QED
      BY <1>3, <1>4, <1>6, <2>4, <2>7, <2>8, <3>1, <3>2
  <2>10. thread[deal][s] = "chunks"
    BY <1>9 DEF WriteChunk
  <2>11. Connection(deal, s)'
    BY <1>1, <1>2, <2>1, <2>2, <2>3, <2>7, <2>9, <2>10 DEF Connection
  <2> QED
    BY <2>4, <2>6, <2>11
<1>10. CASE Sent(s)
  <2> DEFINE taken == Lesser(pending[deal][s], Room - wire[deal][s])
  <2>1. taken \in Nat /\ taken <= pending[deal][s] /\ wire[deal][s] + taken <= Room
    BY <1>1, <1>2, <1>3 DEF Lesser, Connection
  <2>2. /\ thread' = [thread EXCEPT ![deal][s] = "chunks"]
        /\ pending' = [pending EXCEPT ![deal][s] = pending[deal][s] - taken]
        /\ wire' = [wire EXCEPT ![deal][s] = wire[deal][s] + taken]
        /\ conn' = conn /\ bytesWritten' = bytesWritten
    BY <1>10 DEF Sent, serverVars
  <2>3. pending[deal][s] - taken \in Nat /\ wire[deal][s] + taken \in Nat
    BY <1>3, <2>1
  <2> HIDE DEF taken
  <2>4. Types' /\ OnlyAt(deal, s)
    BY <1>1, <2>2, <2>3 DEF DealingInv
  <2>5. /\ thread'[deal][s] = "chunks" /\ conn'[deal][s] = conn[deal][s]
        /\ pending'[deal][s] = pending[deal][s] - taken
        /\ wire'[deal][s] = wire[deal][s] + taken
    BY <1>1, <2>2 DEF DealingInv
  <2> QED
    BY SMTT(30), <1>1, <1>2, <1>3, <1>4, <1>6, <1>10, <2>1, <2>2, <2>4, <2>5 DEF Sent, Connection
<1>11. CASE WaitTimesOut(s)
  <2>1. Types' /\ OnlyAt(deal, s) /\ thread'[deal][s] = "chunks" /\ conn' = conn
    BY <1>1, <1>11 DEF WaitTimesOut, DealingInv, serverVars
  <2> QED
    BY <1>1, <1>2, <1>3, <1>6, <1>11, <2>1 DEF WaitTimesOut, Connection
<1>12. CASE WriteForever(s)
  <2>1. Types' /\ OnlyAt(deal, s) /\ thread'[deal][s] = "spin" /\ conn' = conn
    BY <1>1, <1>12 DEF WriteForever, DealingInv, serverVars
  <2> QED
    BY <1>1, <1>2, <1>3, <1>6, <1>12, <2>1 DEF WriteForever, Connection
<1>13. CASE CloseSocket(s)
  <2>1. Types' /\ OnlyAt(deal, s) /\ thread'[deal][s] = "closed" /\ conn' = conn
    BY <1>1, <1>13 DEF CloseSocket, DealingInv, serverVars
  <2>2. /\ bytesWritten[deal][s] >= BlockSize /\ thread[deal][s] = "chunks"
        /\ bytesWritten' = bytesWritten /\ pending' = pending /\ wire' = wire
    BY <1>13 DEF CloseSocket
  <2>3. bytesWritten[deal][s] = BlockSize
    BY <1>1, <1>2, <1>3, <2>2 DEF Connection
  <2> QED
    BY <1>1, <1>2, <1>6, <2>1, <2>2, <2>3 DEF Connection
<1> QED
  BY <1>7, <1>8, <1>9, <1>10, <1>11, <1>12, <1>13 DEF Dealer

\* Every step of a server keeps the invariant.
LEMMA ServerKeeps ==
    ASSUME NEW s \in Servers, DealingInv, Server(s) PROVE DealingInv'
<1>1. PICK d \in Deals :
        \/ ReadSocket(s, d) \/ ReadChunk(s, d) \/ ReadForever(s, d)
        \/ Install(s, d) \/ CrashOnAddress(s, d)
  BY DEF Server
<1>2. Connection(d, s) /\ OneAtATime
  BY DEF DealingInv
<1>3. /\ thread[d][s] \in ThreadStates /\ conn[d][s] \in ConnStates
      /\ bytesWritten[d][s] \in Nat /\ pending[d][s] \in Nat /\ wire[d][s] \in Nat
      /\ buffer[s] \in Nat /\ buffer[s] <= BlockSize
  BY DEF DealingInv, Types
<1>4. /\ deal' = deal /\ thread' = thread /\ bytesWritten' = bytesWritten /\ pending' = pending
      /\ BlockSize \in Nat \ {0} /\ MaxWrite \in Nat \ {0} /\ Room \in Nat \ {0}
  BY <1>1, DealingAssumption
  DEF ReadSocket, ReadChunk, ReadForever, Install, CrashOnAddress, dealerVars
<1> USE DEF Types, OnlyAt, ThreadStates, ConnStates
<1>5. ASSUME conn[d][s] = "reading",
             Types', OnlyAt(d, s), buffer'[s] <= BlockSize, Connection(d, s)'
      PROVE  DealingInv'
  <2>1. \A c \in Deals \ {d} : conn[c][s] \notin {"reading", "spin"}
    BY <1>2, <1>5 DEF OneAtATime
  <2> QED
    BY <1>5, <2>1, OneConnection
<1>6. CASE ReadSocket(s, d)
  <2>1. Types' /\ OnlyAt(d, s) /\ buffer'[s] = 0
    BY <1>4, <1>6 DEF ReadSocket, DealingInv
  <2>2. conn[d][s] = "queued" /\ conn'[d][s] = "reading" /\ wire' = wire
    BY <1>6 DEF ReadSocket, DealingInv
  <2>3. BytesRead(d, s) = 0 /\ BytesRead(d, s)' = 0
    BY <2>1, <2>2 DEF BytesRead
  <2>4. Connection(d, s)'
    BY <1>2, <1>4, <2>2, <2>3 DEF Connection
  <2>5. \A c \in Deals \ {d} : conn[c][s] \notin {"reading", "spin"}
    BY <1>6 DEF ReadSocket, AtEventLoop
  <2>6. buffer'[s] <= BlockSize
    BY <1>4, <2>1
  <2> HIDE DEF Types, OnlyAt
  <2> QED
    BY <2>1, <2>4, <2>5, <2>6, OneConnection
<1>7. CASE ReadChunk(s, d)
  <2>1. PICK bytes \in 1..Lesser(MaxWrite, wire[d][s]) :
          /\ buffer' = [buffer EXCEPT ![s] = buffer[s] + bytes]
          /\ wire' = [wire EXCEPT ![d][s] = wire[d][s] - bytes]
    BY <1>7 DEF ReadChunk
  <2>2. bytes \in Nat /\ bytes <= wire[d][s]
    BY <1>3, <1>4 DEF Lesser
  <2>3. conn[d][s] = "reading" /\ conn' = conn
    BY <1>7 DEF ReadChunk
  <2>4. buffer[s] + bytes \in Nat /\ wire[d][s] - bytes \in Nat
    BY <1>3, <2>2
  <2>5. Types' /\ OnlyAt(d, s)
    BY <1>4, <2>1, <2>3, <2>4 DEF DealingInv
  <2>6. buffer'[s] = buffer[s] + bytes /\ wire'[d][s] = wire[d][s] - bytes
    BY <2>1 DEF DealingInv
  <2>7. BytesRead(d, s) = buffer[s] /\ BytesRead(d, s)' = buffer'[s]
    BY <2>3 DEF BytesRead
  <2>8. /\ bytesWritten[d][s] <= BlockSize /\ wire[d][s] <= Room
        /\ bytesWritten[d][s] = buffer[s] + wire[d][s] + pending[d][s]
    BY <1>2, <2>7 DEF Connection
  <2>9. /\ buffer[s] + bytes <= BlockSize /\ wire[d][s] - bytes <= Room
        /\ bytesWritten[d][s] = (buffer[s] + bytes) + (wire[d][s] - bytes) + pending[d][s]
    BY <1>3, <1>4, <2>2, <2>8
  <2>10. Connection(d, s)'
    BY <1>2, <1>4, <2>3, <2>6, <2>7, <2>8, <2>9 DEF Connection
  <2> QED
    BY <1>5, <2>3, <2>5, <2>6, <2>9, <2>10
<1>8. CASE ReadForever(s, d)
  <2>1. /\ conn[d][s] = "reading" /\ buffer[s] < BlockSize /\ wire[d][s] = 0
        /\ thread[d][s] = "closed" /\ wire' = wire /\ buffer' = buffer
    BY <1>8 DEF ReadForever, MoreToRead
  <2>2. Types' /\ OnlyAt(d, s) /\ conn'[d][s] = "spin"
    BY <1>4, <1>8 DEF ReadForever, DealingInv
  <2>3. BytesRead(d, s) = buffer[s] /\ BytesRead(d, s)' = buffer[s]
    BY <2>1, <2>2 DEF BytesRead
  <2>4. pending[d][s] # 0
    BY <1>2, <1>3, <1>4, <2>1, <2>3 DEF Connection
  <2>5. Connection(d, s)'
    BY <1>2, <1>4, <2>1, <2>2, <2>3, <2>4 DEF Connection
  <2> QED
    BY <1>3, <1>5, <2>1, <2>2, <2>5
<1>9. ASSUME NEW end \in {"dealt", "crashed"}, conn[d][s] = "reading", ~MoreToRead(s),
             conn' = [conn EXCEPT ![d][s] = end], wire' = wire, buffer' = buffer
      PROVE  DealingInv'
  <2>1. Types' /\ OnlyAt(d, s) /\ conn'[d][s] = end
    BY <1>4, <1>9 DEF DealingInv
  <2>2. buffer[s] = BlockSize
    BY <1>3, <1>4, <1>9 DEF MoreToRead
  <2>3. BytesRead(d, s) = BlockSize /\ BytesRead(d, s)' = BlockSize
    BY <1>9, <2>1, <2>2 DEF BytesRead
  <2>4. Connection(d, s)'
    BY <1>2, <1>4, <1>9, <2>1, <2>3 DEF Connection
  <2> QED
    BY <1>3, <1>5, <1>9, <2>1, <2>4
<1>10. CASE Install(s, d)
  BY <1>9, <1>10 DEF Install
<1>11. CASE CrashOnAddress(s, d)
  BY <1>9, <1>11 DEF CrashOnAddress
<1> QED
  BY <1>1, <1>6, <1>7, <1>8, <1>10, <1>11

\* What is written, on the way and read is accounted for in every state.
LEMMA DealingInvHolds == Spec => []DealingInv
<1>1. DealingInv /\ [Next]_vars => DealingInv'
  <2> SUFFICES ASSUME DealingInv, [Next]_vars PROVE DealingInv'
    OBVIOUS
  <2>1. CASE UNCHANGED vars
    <3>1. UNCHANGED <<deal, thread, bytesWritten, pending, wire, conn, buffer>>
      BY <2>1 DEF vars, dealerVars, serverVars
    <3>2. Types' /\ OneAtATime'
      BY <3>1 DEF DealingInv, Types, OneAtATime
    <3>3. ASSUME NEW d \in Deals, NEW s \in Servers PROVE Connection(d, s)'
      <4>1. Connection(d, s)
        BY DEF DealingInv
      <4> QED
        BY <3>1, <4>1 DEF Connection, BytesRead
    <3> QED
      BY <3>1, <3>2, <3>3 DEF DealingInv
  <2> QED
    BY <2>1, StartDealKeeps, DealerKeeps, ServerKeeps DEF Next
<1> QED
  BY <1>1, DealingInit, PTL DEF Spec

\* The Dealer's threads, the bytes in its sockets and the servers' buffers stay within
\* what the code's loops allow (DealerClient.cpp:100-132, DISEServer.cpp:101-111).
THEOREM DealingTypeCorrect == Spec => []TypeOK
<1>1. DealingInv /\ FromOneBlock => TypeOK
  <2> SUFFICES ASSUME DealingInv, FromOneBlock PROVE TypeOK
    OBVIOUS
  <2>1. ASSUME NEW d \in Deals, NEW s \in Servers
        PROVE  /\ bytesWritten[d][s] \in 0..BlockSize
               /\ pending[d][s] \in 0..BlockSize /\ wire[d][s] \in 0..Room
    <3>1. /\ bytesWritten[d][s] \in Nat /\ pending[d][s] \in Nat /\ wire[d][s] \in Nat
          /\ buffer[s] \in Nat /\ conn[d][s] \in ConnStates
      BY DEF DealingInv, Types
    <3>2. BytesRead(d, s) \in Nat
      BY <3>1, DealingAssumption DEF BytesRead, ConnStates
    <3>3. /\ bytesWritten[d][s] <= BlockSize /\ wire[d][s] <= Room
          /\ bytesWritten[d][s] = BytesRead(d, s) + wire[d][s] + pending[d][s]
      BY DEF DealingInv, Connection
    <3>4. BlockSize \in Nat /\ Room \in Nat
      BY DealingAssumption
    <3> QED
      BY <3>1, <3>2, <3>3, <3>4
  <2>2. \A s \in Servers : buffer[s] \in 0..BlockSize
    BY DealingAssumption DEF DealingInv, Types
  <2> QED
    BY <2>1, <2>2 DEF TypeOK, DealingInv, Types, ThreadStates, ConnStates, FromOneBlock
<1> QED
  BY <1>1, DealingInvHolds, FromOneBlockHolds, PTL

\* Every byte that the chunk loop of doConnect has written is in the Dealer's socket, on
\* the way or read, once (DealerClient.cpp:114-130, DISEServer.cpp:101-111).
THEOREM NoByteLost == Spec => []BytesConserved
<1>1. DealingInv => BytesConserved
  BY DEF DealingInv, Connection, BytesConserved
<1> QED
  BY <1>1, DealingInvHolds, PTL

\* A server hangs in the loop of handleDealer only on a connection that the Dealer closed
\* with bytes of the block unsent (DealerClient.cpp:114-130, DISEServer.cpp:106-111).
THEOREM HangsOnlyOnTruncated == Spec => []HangsOnlyIfTruncated
<1>1. DealingInv => HangsOnlyIfTruncated
  BY DEF DealingInv, Connection, HangsOnlyIfTruncated
<1> QED
  BY <1>1, DealingInvHolds, PTL
-----------------------------------------------------------------------------
(* The addresses.                                                          *)

Characters == STRING \ {NoPort}

SameLength(d) == \A i \in 1..N : Len(AddressesOf[d][i]) = Len(AddressesOf[d][1])

\* Address k of length size lies at (k - 1) * size of the first n.
Laid(text, d, n, size) ==
    /\ text \in Seq(Characters) /\ Len(text) = n * size
    /\ \A k \in 1..n : \A j \in 1..size : text[(k - 1) * size + j] = AddressesOf[d][k][j]

\* Rows of one size, counted together.
LEMMA Rows ==
    ASSUME NEW n \in Nat, NEW m \in Nat, NEW size \in Nat
    PROVE  n * size \in Nat /\ (n + m) * size = n * size + m * size
  OBVIOUS

\* One row more.
LEMMA NextRow ==
    ASSUME NEW n \in Nat, NEW size \in Nat
    PROVE  n * size \in Nat /\ n * size + size = (n + 1) * size
  OBVIOUS

\* A row with those before and those behind it.
LEMMA Spread ==
    ASSUME NEW n \in Nat, NEW k \in 1..n, NEW size \in Nat
    PROVE  /\ (k - 1) * size \in Nat /\ (n - k) * size \in Nat
           /\ (k - 1) * size + size + (n - k) * size = n * size
<1>1. k - 1 \in Nat /\ n - k \in Nat /\ (k - 1) + 1 = k /\ k + (n - k) = n /\ k \in Nat
  OBVIOUS
<1>2. (k - 1) * size \in Nat /\ (n - k) * size \in Nat
  BY <1>1, Rows
<1>3. ((k - 1) + 1) * size = (k - 1) * size + 1 * size
  BY <1>1, Rows
<1>4. (k + (n - k)) * size = k * size + (n - k) * size
  BY <1>1, Rows
<1>5. k * size = (k - 1) * size + size
  BY <1>1, <1>3
<1> QED
  BY <1>1, <1>2, <1>4, <1>5

\* One more address of that length is laid behind the others.
LEMMA LaidBehind ==
    ASSUME NEW d \in Deals, SameLength(d), NEW n \in 0..(N - 1), NEW size \in Nat,
           size = Len(AddressesOf[d][1]), NEW text, Laid(text, d, n, size)
    PROVE  Laid(text \o AddressesOf[d][n + 1], d, n + 1, size)
<1> DEFINE next == AddressesOf[d][n + 1]
           m    == n + 1
           both == text \o next
<1>1. N \in Nat /\ n \in Nat /\ m \in 1..N
  BY DealingAssumption
<1>2. next \in Seq(Characters) /\ Len(next) = size
  BY <1>1, DealingAssumption DEF SameLength, Characters
<1>3. text \in Seq(Characters) /\ Len(text) = n * size
  BY DEF Laid
<1>4. n * size \in Nat /\ n * size + size = m * size
  <2>1. n \in Nat /\ 1 \in Nat /\ size \in Nat
    BY <1>1
  <2> HIDE DEF next, m
  <2>2. n * size \in Nat /\ n * size + size = (n + 1) * size
    BY <2>1, NextRow, Zenon
  <2> QED
    BY <2>2 DEF m
<1> HIDE DEF next, m
<1>5. both \in Seq(Characters) /\ Len(both) = m * size
  BY <1>2, <1>3, <1>4
<1>6. /\ \A i \in 1..(n * size) : both[i] = text[i]
      /\ \A j \in 1..size : both[n * size + j] = next[j]
  <2> DEFINE behind == n * size
  <2>1. behind \in Nat /\ Len(text) = behind
    BY <1>3, <1>4
  <2> HIDE DEF behind
  <2>2. \A i \in 1..behind : both[i] = text[i]
    BY <1>2, <1>3, <2>1
  <2>3. \A j \in 1..size : both[behind + j] = next[j]
    BY <1>2, <1>3, <2>1
  <2> QED
    BY <2>2, <2>3 DEF behind
<1> HIDE DEF both
<1>7. ASSUME NEW k \in 1..m, NEW j \in 1..size
      PROVE  both[(k - 1) * size + j] = AddressesOf[d][k][j]
  <2>1. CASE k = m
    <3>1. (k - 1) * size = n * size /\ AddressesOf[d][k] = next
      BY <2>1, <1>1 DEF m, next
    <3> QED
      BY <3>1, <1>6
  <2>2. CASE k # m
    <3>1. k \in 1..n /\ k - 1 \in Nat /\ n - k \in Nat
      BY <2>2, <1>1 DEF m
    <3> DEFINE before == (k - 1) * size
               after  == (n - k) * size
    <3>2. before \in Nat /\ after \in Nat /\ before + size + after = n * size
      BY <1>1, <3>1, Spread, Zenon
    <3>3. before + j \in 1..(n * size)
      <4> HIDE DEF before, after
      <4> DEFINE all == n * size
      <4>1. before + size + after = all
        BY <3>2
      <4> HIDE DEF all
      <4> QED
        BY <3>2, <4>1 DEF all
    <3>4. (k - 1) * size + j \in 1..(n * size)
      BY <3>3
    <3>5. text[(k - 1) * size + j] = AddressesOf[d][k][j]
      BY <3>1 DEF Laid
    <3> QED
      BY <3>4, <3>5, <1>6
  <2> QED
    BY <2>1, <2>2
<1> QED
  BY <1>5, <1>7 DEF Laid, both, next, m

\* So Concatenated lays them one after the other.
LEMMA ConcatenatedLaid ==
    ASSUME NEW d \in Deals, SameLength(d)
    PROVE  Laid(Concatenated(AddressesOf[d]), d, N, Len(AddressesOf[d][1]))
<1> DEFINE list    == AddressesOf[d]
           size    == Len(list[1])
           V       == Seq(Characters)
           none    == <<>>
           step    == [i \in 1..N |-> [text \in V |-> text \o list[i]]]
           round(u, i) == IF i = 0 THEN <<>> ELSE u[i - 1] \o list[i]
           Rule(u) == [i \in 0..N |-> round(u, i)]
           g       == CHOOSE u : u = Rule(u)
<1>1. /\ N \in Nat \ {0} /\ size \in Nat
      /\ \A i \in 1..N : list[i] \in V
  <2>1. N \in Nat \ {0} /\ \A i \in 1..N : list[i] \in V
    BY DealingAssumption DEF Characters
  <2>2. 1 \in 1..N
    BY <2>1
  <2>3. list[1] \in V
    BY <2>1, <2>2
  <2> QED
    BY <2>1, <2>3
<1>2. none \in V
  OBVIOUS
<1>3. step \in [1..N -> [V -> V]]
  <2>1. \A i \in 1..N : \A text \in V : text \o list[i] \in V
    BY <1>1
  <2> QED
    BY <2>1
<1>4. PICK f \in [0..N -> V] : Follows(f, N, none, step)
  <2> HIDE DEF V, none, step
  <2> QED
    BY <1>1, <1>2, <1>3, Recursion
<1>5. f[0] = <<>> /\ \A i \in 1..N : f[i] = f[i - 1] \o list[i]
  <2>1. \A i \in 1..N : f[i - 1] \in V
    BY <1>1
  <2> QED
    BY <1>4, <2>1 DEF Follows
<1>6. f = Rule(f)
  <2>1. ASSUME NEW i \in 0..N PROVE f[i] = round(f, i)
    <3> HIDE DEF list
    <3>1. CASE i = 0
      BY <1>5, <3>1
    <3>2. CASE i # 0
      <4>1. i \in 1..N
        BY <1>1, <3>2
      <4> QED
        BY <1>5, <3>2, <4>1
    <3> QED
      BY <3>1, <3>2
  <2> HIDE DEF round
  <2> QED
    BY <2>1
<1>7. g = Rule(g)
  <2> HIDE DEF Rule
  <2> QED
    BY <1>6
<1>8. Concatenated(list) = g[N]
  BY DEF Concatenated
<1> HIDE DEF g
<1>9. g[0] = <<>> /\ \A i \in 1..N : g[i] = g[i - 1] \o list[i]
  <2>1. \A i \in 0..N : g[i] = round(g, i)
    BY <1>7
  <2> HIDE DEF list, size, V, step
  <2>2. 0 \in 0..N /\ \A i \in 1..N : i \in 0..N /\ i # 0
    BY <1>1
  <2> QED
    BY <2>1, <2>2
<1> DEFINE S == {n \in 0..N : Laid(g[n], d, n, size)}
<1>10. 0 \in S
  <2>1. Laid(<<>>, d, 0, size)
    BY <1>1, <1>2 DEF Laid
  <2> QED
    BY <1>1, <1>9, <2>1
<1>11. ASSUME NEW n \in 0..(N - 1), n \in S PROVE n + 1 \in S
  <2>1. Laid(g[n], d, n, size)
    BY <1>11
  <2> HIDE DEF V, step
  <2>2. n + 1 \in 1..N /\ (n + 1) - 1 = n /\ n + 1 \in 0..N
    BY <1>1
  <2>3. g[n + 1] = g[n] \o list[n + 1]
    BY <1>9, <2>2
  <2>4. Laid(g[n] \o list[n + 1], d, n + 1, size)
    BY <1>1, <2>1, LaidBehind
  <2>5. Laid(g[n + 1], d, n + 1, size)
    BY <2>3, <2>4
  <2> HIDE DEF size
  <2> QED
    BY <2>2, <2>5
<1> HIDE DEF S
<1>12. 0..N \subseteq S
  BY <1>1, <1>10, <1>11, InductUpTo
<1>13. N \in S
  BY <1>1, <1>12
<1> QED
  BY <1>8, <1>13 DEF S

\* The parse cuts it up again into the addresses that were given.
LEMMA ParsedAsGiven ==
    ASSUME NEW d \in Deals, SameLength(d), NEW s \in Servers
    PROVE  ParsedAddresses(Block(d, s)) = [i \in 1..N |-> Pair(AddressesOf[d][i])]
<1> DEFINE size == Len(AddressesOf[d][1])
           text == Concatenated(AddressesOf[d])
           character(i) == IF i <= Len(text) THEN text[i] ELSE "NUL"
<1>1. Laid(text, d, N, size) /\ N \in Nat /\ size \in Nat
  BY ConcatenatedLaid, DealingAssumption
<1>2. ParsedAddresses(Block(d, s)) =
        [i \in 1..N |-> Pair([j \in 1..size |-> character((i - 1) * size + j)])]
  BY DEF ParsedAddresses, Block
<1> HIDE DEF text
<1>3. ASSUME NEW i \in 1..N
      PROVE  [j \in 1..size |-> character((i - 1) * size + j)] = AddressesOf[d][i]
  <2>1. AddressesOf[d][i] \in Seq(Characters) /\ Len(AddressesOf[d][i]) = size
    BY <1>1, DealingAssumption DEF SameLength, Characters
  <2>2. AddressesOf[d][i] = [j \in 1..size |-> AddressesOf[d][i][j]]
    BY <2>1
  <2> DEFINE before == (i - 1) * size
             after  == (N - i) * size
  <2>3. before \in Nat /\ after \in Nat /\ before + size + after = N * size
    BY <1>1, Spread
  <2> HIDE DEF before, after
  <2>4. \A j \in 1..size : before + j <= N * size
    BY <1>1, <2>3
  <2>5. ASSUME NEW j \in 1..size PROVE character(before + j) = AddressesOf[d][i][j]
    BY <1>1, <2>4 DEF Laid, before
  <2> HIDE DEF character
  <2> QED
    BY <2>2, <2>5 DEF before
<1> HIDE DEF character, size
<1> QED
  BY <1>2, <1>3

\* Then there is a port in each of them.
LEMMA PortsPresent ==
    ASSUME NEW d \in Deals, SameLength(d) PROVE ~PortMissing[d]
<1>1. 0 \in Servers
  BY DealingAssumption DEF Servers
<1>2. ASSUME NEW i \in 1..N PROVE Pair(AddressesOf[d][i]).port # <<NoPort>>
  <2> DEFINE address == AddressesOf[d][i]
             colons  == {j \in 1..Len(address) : address[j] = ":"}
             least(is) == CHOOSE j \in is : \A l \in is : j <= l
             first   == IF colons = {} THEN Len(address) + 1 ELSE least(colons)
             second  == IF Cardinality(colons) < 2 THEN Len(address) + 1
                        ELSE least(colons \ {first})
             port    == SubSeq(address, first + 1, second - 1)
  <2>1. address \in Seq(Characters) /\ colons # {}
    BY DealingAssumption DEF Characters
  <2>2. Pair(address).port = port
    BY <2>1 DEF Pair
  <2>3. first \in 1..Len(address)
    <3>1. Len(address) \in Nat
      BY <2>1
    <3>2. colons \in SUBSET Nat /\ colons \subseteq 1..Len(address)
      BY <3>1
    <3> HIDE DEF colons
    <3>3. \E j \in colons : \A l \in colons : j <= l
      BY <2>1, <3>2, Least
    <3>4. least(colons) \in colons
      BY <3>3
    <3> HIDE DEF least
    <3> QED
      BY <2>1, <3>2, <3>4
  <2>4. second \in 1..(Len(address) + 1)
    <3> DEFINE rest == colons \ {first}
    <3>1. Len(address) \in Nat
      BY <2>1
    <3>2. CASE rest = {}
      <4>1. colons = {first}
        <5> HIDE DEF colons, first
        <5> QED
          BY <2>1, <3>2
      <4>2. Cardinality(colons) < 2
        <5> HIDE DEF colons, first
        <5>1. Cardinality({first}) = 1
          BY FS_Singleton
        <5> QED
          BY <4>1, <5>1
      <4> HIDE DEF colons
      <4> QED
        BY <3>1, <4>2
    <3>3. CASE rest # {}
      <4>1. rest \in SUBSET Nat /\ rest \subseteq 1..Len(address)
        BY <3>1
      <4> HIDE DEF rest
      <4>2. \E j \in rest : \A l \in rest : j <= l
        BY <3>3, <4>1, Least
      <4>3. least(rest) \in rest
        BY <4>2
      <4>4. least(rest) \in 1..(Len(address) + 1)
        <5> HIDE DEF least, address
        <5>1. least(rest) \in 1..Len(address)
          BY <4>1, <4>3
        <5> QED
          BY <3>1, <5>1
      <4> HIDE DEF least, colons
      <4> QED
        BY <3>1, <4>4 DEF rest
    <3> QED
      BY <3>2, <3>3
  <2>5. port \in Seq(Characters)
    <3> HIDE DEF first, second, address
    <3>1. first + 1 \in Nat \ {0} /\ second - 1 \in Int /\ second - 1 <= Len(address)
          /\ Len(address) \in Nat
      BY <2>1, <2>3, <2>4
    <3> QED
      BY <2>1, <3>1
  <2>6. <<NoPort>> \notin Seq(Characters)
    BY DEF Characters
  <2> QED
    BY <2>2, <2>5, <2>6
<1>3. ParsedAddresses(Block(d, 0)) = [i \in 1..N |-> Pair(AddressesOf[d][i])]
  BY <1>1, ParsedAsGiven
<1> QED
  BY <1>2, <1>3 DEF PortMissing

\* A server that died of the parse was sent an address without a port.
CrashedOfPort == \A d \in Deals, s \in Servers : conn[d][s] = "crashed" => PortMissing[d]

\* Only CrashOnAddress crashes a server.
LEMMA CrashStep == DealingInv /\ CrashedOfPort /\ [Next]_vars => CrashedOfPort'
<1> SUFFICES ASSUME DealingInv, CrashedOfPort, [Next]_vars,
                    NEW d \in Deals, NEW s \in Servers, conn'[d][s] = "crashed"
             PROVE  PortMissing[d]
  BY DEF CrashedOfPort
<1>1. conn \in [Deals -> [Servers -> ConnStates]]
  BY DEF DealingInv, Types
<1>2. CASE conn[d][s] = "crashed"
  BY <1>2 DEF CrashedOfPort
<1>3. CASE conn[d][s] # "crashed"
  <2>1. conn' # conn
    BY <1>3
  <2>2. PICK r \in Servers : Dealer(r) \/ Server(r)
    BY <2>1 DEF Next, StartDeal, vars, serverVars
  <2>3. CASE Dealer(r)
    BY <1>1, <1>3, <2>3
    DEF Dealer, Connect, Refused, WriteChunk, Sent, WaitTimesOut, WriteForever, CloseSocket,
        serverVars
  <2>4. CASE Server(r)
    <3>1. PICK c \in Deals : ReadSocket(r, c) \/ ReadChunk(r, c) \/ ReadForever(r, c)
                               \/ Install(r, c) \/ CrashOnAddress(r, c)
      BY <2>4 DEF Server
    <3> QED
      BY <1>1, <1>3, <3>1 DEF ReadSocket, ReadChunk, ReadForever, Install, CrashOnAddress
  <2> QED
    BY <2>2, <2>3, <2>4
<1> QED
  BY <1>2, <1>3

\* Where all addresses are as long as the first, every server dealt to knows them as they
\* were given, and none dies of the parse (DealerClient.cpp:88, DISEServer.cpp:161-183).
THEOREM AddressesParsed == Spec => []AddressesAsGiven
<1>1. Init => CrashedOfPort
  BY DEF Init, CrashedOfPort
<1>2. CrashedOfPort => AddressesAsGiven
  <2> SUFFICES ASSUME CrashedOfPort, NEW d \in Deals, SameLength(d), NEW s \in Servers
               PROVE  /\ conn[d][s] # "crashed"
                      /\ env[s] = EnvironmentOf[d][s] =>
                            env[s].addresses = [i \in 1..N |-> Pair(AddressesOf[d][i])]
    BY DEF AddressesAsGiven, SameLength
  <2>1. conn[d][s] # "crashed"
    BY PortsPresent DEF CrashedOfPort
  <2>2. EnvironmentOf[d][s].addresses = ParsedAddresses(Block(d, s))
    BY DEF EnvironmentOf, Environment
  <2> QED
    BY <2>1, <2>2, ParsedAsGiven
<1> QED
  BY <1>1, <1>2, CrashStep, DealingInvHolds, PTL DEF Spec
=============================================================================
