------------------------------ MODULE Dealing ------------------------------
(***************************************************************************)
(* The Dealer hands out the keys: one DealerClient per server, in          *)
(* parallel, sends a block in chunks and closes the socket; the server     *)
(* collects the announced number of bytes in handleDealer and replaces     *)
(* its environment.  A Dealer may be run again, with new keys.             *)
(*                                                                         *)
(* Code byte and announced size leave in one flush and come together.      *)
(***************************************************************************)
EXTENDS Integers, FiniteSets, Sequences

CONSTANTS N,            \* servers, as many as addresses
          KeyCount, KeysPerMachine,
          OmegaMatrix,  \* flat, KeysPerMachine cells to a machine
          AddressesOf,  \* DEALER_IP_ADDRESSES of a run: strings, as sequences of characters
          BlockSize,    \* of a block
          MaxWrite,     \* bytes per write of the Dealer and per read of the server
          Room,         \* bytes the kernel takes before a write has to wait
          Faults,       \* subset of {"refuse", "slow"}
          MaxDeals      \* bound on the runs of the Dealer

Servers == 0..(N - 1)
Deals   == 1..MaxDeals
Keys    == 0..(KeyCount - 1)

\* No character: where there should be a port.
NoPort == "none"

ASSUME DealingAssumption ==
    /\ N \in Nat \ {0} /\ KeyCount \in Nat /\ KeysPerMachine \in Nat
    /\ OmegaMatrix \in [0..(N * KeysPerMachine - 1) -> Keys]
    /\ BlockSize \in Nat \ {0} /\ MaxWrite \in Nat \ {0} /\ Room \in Nat \ {0}
    /\ Faults \subseteq {"refuse", "slow"}
    /\ MaxDeals \in Nat
    /\ \A d \in Deals : DOMAIN AddressesOf[d] = 1..N
    /\ \A d \in Deals : \A i \in 1..N :
         /\ AddressesOf[d][i] \in Seq(STRING \ {NoPort})
         /\ \E j \in 1..Len(AddressesOf[d][i]) : AddressesOf[d][i][j] = ":"

VARIABLES deal,          \* run of the Dealer
          thread,        \* its DealerClient for a server
          bytesWritten,  \* counter of the chunk loop
          pending,       \* bytes in the Dealer's socket, not yet with the kernel
          wire,          \* bytes on their way
          conn,          \* the connection as the server sees it
          buffer,        \* bytes handleDealer has collected
          env            \* what the server was dealt
dealerVars == <<deal, thread, bytesWritten, pending>>
serverVars == <<conn, buffer, env>>
vars == <<dealerVars, wire, serverVars>>

\* The members of a new Environment are not initialized; machine -1 stands for
\* whatever they hold.
Undealt == [machine |-> -1, keyList |-> <<>>, omegaTable |-> <<>>, addresses |-> <<>>]

\* Key number k of deal d; create_all_key_list draws them anew in each run.
Key(d, k) == <<d, k>>

\* The addresses one after the other.
Concatenated(list) ==
    LET upTo[i \in 0..N] == IF i = 0 THEN <<>> ELSE upTo[i - 1] \o list[i]
    IN upTo[N]

\* What doConnect writes for a machine; of the lengths only the first.
Block(d, machine) ==
    [omega         |-> OmegaMatrix,
     sizeOfKeyList |-> KeysPerMachine,
     keys          |-> [i \in 0..(KeysPerMachine - 1) |->
                          Key(d, OmegaMatrix[i + machine * KeysPerMachine])],
     machineNumber |-> machine,
     n             |-> N,
     sizeOfEachAddress |-> Len(AddressesOf[d][1]),
     characters    |-> Concatenated(AddressesOf[d])]

\* split(':') and the first two parts of it; where there is no second one l.at(1) is
\* out of range.
Pair(address) ==
    LET colons == {i \in 1..Len(address) : address[i] = ":"}
        least(is) == CHOOSE i \in is : \A j \in is : i <= j
        first  == IF colons = {} THEN Len(address) + 1 ELSE least(colons)
        second == IF Cardinality(colons) < 2 THEN Len(address) + 1
                  ELSE least(colons \ {first})
    IN [ip   |-> SubSeq(address, 1, first - 1),
        port |-> IF colons = {} THEN <<NoPort>> ELSE SubSeq(address, first + 1, second - 1)]

\* Mutant: as if the count started at 1.
ParsedFromSecond(b) ==
    LET character(i) == IF i <= Len(b.characters) THEN b.characters[i] ELSE "NUL"
        size         == b.sizeOfEachAddress
    IN [i \in 1..N |-> Pair([j \in 1..size |-> character(i * size + j)])]

\* As many characters for each as the first one has; past the end they are NUL.
ParsedAddresses(b) ==
    LET character(i) == IF i <= Len(b.characters) THEN b.characters[i] ELSE "NUL"
        size         == b.sizeOfEachAddress
    IN [i \in 1..N |-> Pair([j \in 1..size |-> character((i - 1) * size + j)])]

\* Mutant: the key ids are those of the first row.
EnvironmentOfFirstRow(b) ==
    LET cols == 0..(b.sizeOfKeyList - 1)
    IN [machine    |-> b.machineNumber,
        keyList    |-> [id \in {b.omega[i] : i \in cols} |->
                          b.keys[CHOOSE i \in cols : b.omega[i] = id]],
        omegaTable |-> [s \in 0..(b.n - 1) |-> {b.omega[b.sizeOfKeyList * s + j] : j \in cols}],
        addresses  |-> ParsedAddresses(b)]

\* What handleDealer makes of it; a row of the matrix holds no key twice.
Environment(b) ==
    LET cols      == 0..(b.sizeOfKeyList - 1)
        keyId(i)  == b.omega[i + b.machineNumber * b.sizeOfKeyList]
        colOf(id) == CHOOSE i \in cols : keyId(i) = id
    IN [machine    |-> b.machineNumber,
        keyList    |-> [id \in {keyId(i) : i \in cols} |-> b.keys[colOf(id)]],
        omegaTable |-> [s \in 0..(b.n - 1) |-> {b.omega[b.sizeOfKeyList * s + j] : j \in cols}],
        addresses  |-> ParsedAddresses(b)]

\* What a server comes to have from a run of the Dealer.
EnvironmentOf == [d \in Deals |-> [s \in Servers |-> Environment(Block(d, s))]]

PortMissing == [d \in Deals |->
    \E i \in 1..N : ParsedAddresses(Block(d, 0))[i].port = <<NoPort>>]

\* Mutant: the comparison is the wrong way round.
Greater(a, b) == IF a < b THEN b ELSE a

Lesser(a, b) == IF a < b THEN a ELSE b

Init ==
    /\ deal = 0
    /\ thread       = [d \in Deals |-> [s \in Servers |-> "idle"]]
    /\ bytesWritten = [d \in Deals |-> [s \in Servers |-> 0]]
    /\ pending      = [d \in Deals |-> [s \in Servers |-> 0]]
    /\ wire         = [d \in Deals |-> [s \in Servers |-> 0]]
    /\ conn         = [d \in Deals |-> [s \in Servers |-> "none"]]
    /\ buffer       = [s \in Servers |-> 0]
    /\ env          = [s \in Servers |-> Undealt]

-----------------------------------------------------------------------------
(* The Dealer.                                                             *)

\* The Dealer is run again when its last run is over.
StartDeal ==
    /\ deal < MaxDeals
    /\ deal # 0 => \A s \in Servers : thread[deal][s] \in {"closed", "failed"}
    /\ deal' = deal + 1
    /\ thread' = [thread EXCEPT ![deal + 1] = [s \in Servers |-> "connect"]]
    /\ UNCHANGED <<bytesWritten, pending, wire, serverVars>>

Dead(s) == \E d \in Deals : conn[d][s] = "crashed"

Connect(s) ==
    /\ deal # 0 /\ thread[deal][s] = "connect" /\ ~Dead(s)
    /\ thread' = [thread EXCEPT ![deal][s] = "chunks"]
    /\ conn' = [conn EXCEPT ![deal][s] = "queued"]
    /\ UNCHANGED <<deal, bytesWritten, pending, wire, buffer, env>>

\* "Failed to connect" is all that comes of it.
Refused(s) ==
    /\ deal # 0 /\ thread[deal][s] = "connect"
    /\ "refuse" \in Faults \/ Dead(s)
    /\ thread' = [thread EXCEPT ![deal][s] = "failed"]
    /\ UNCHANGED <<deal, bytesWritten, pending, wire, serverVars>>

ChunkAfter(written) == Lesser(MaxWrite, BlockSize - written)

\* write() and flush(): the kernel takes what it has room for; if that is all,
\* there is nothing to wait for.
WriteChunk(s) ==
    /\ deal # 0 /\ thread[deal][s] = "chunks" /\ bytesWritten[deal][s] < BlockSize
    /\ LET chunk  == ChunkAfter(bytesWritten[deal][s])
           unsent == pending[deal][s] + chunk
           taken  == Lesser(unsent, Room - wire[deal][s])
       IN /\ bytesWritten' = [bytesWritten EXCEPT ![deal][s] = @ + chunk]
          /\ pending' = [pending EXCEPT ![deal][s] = unsent - taken]
          /\ wire' = [wire EXCEPT ![deal][s] = @ + taken]
          /\ thread' = [thread EXCEPT ![deal][s] = IF taken = unsent THEN "chunks" ELSE "wait"]
    /\ UNCHANGED <<deal, serverVars>>

\* waitForBytesWritten(1000): the kernel has room again; the wait is over when it
\* has taken something.
Sent(s) ==
    /\ deal # 0 /\ thread[deal][s] = "wait" /\ wire[deal][s] < Room
    /\ LET taken == Lesser(pending[deal][s], Room - wire[deal][s])
       IN /\ pending' = [pending EXCEPT ![deal][s] = @ - taken]
          /\ wire' = [wire EXCEPT ![deal][s] = @ + taken]
          /\ thread' = [thread EXCEPT ![deal][s] = "chunks"]
    /\ UNCHANGED <<deal, bytesWritten, serverVars>>

\* The second is over and the loop goes on; its result is not looked at.
WaitTimesOut(s) ==
    /\ deal # 0 /\ thread[deal][s] = "wait"
    /\ "slow" \in Faults \/ Dead(s)
    /\ thread' = [thread EXCEPT ![deal][s] = "chunks"]
    /\ UNCHANGED <<deal, bytesWritten, pending, wire, serverVars>>

\* The server is gone: write() returns -1, again and again.
WriteForever(s) ==
    /\ deal # 0 /\ thread[deal][s] = "chunks" /\ bytesWritten[deal][s] < BlockSize
    /\ Dead(s)
    /\ thread' = [thread EXCEPT ![deal][s] = "spin"]
    /\ UNCHANGED <<deal, bytesWritten, pending, wire, serverVars>>

\* close(), and the socket is deleted with what it has not sent.
CloseSocket(s) ==
    /\ deal # 0 /\ thread[deal][s] = "chunks" /\ bytesWritten[deal][s] >= BlockSize
    /\ thread' = [thread EXCEPT ![deal][s] = "closed"]
    /\ UNCHANGED <<deal, bytesWritten, pending, wire, serverVars>>

-----------------------------------------------------------------------------
(* The server.                                                             *)

AtEventLoop(s) == \A d \in Deals : conn[d][s] \notin {"reading", "spin", "crashed"}

\* Mutant: the connection is served whatever the server is in the middle of.
ReadSocketAtOnce(s, d) ==
    /\ conn[d][s] = "queued"
    /\ conn' = [conn EXCEPT ![d][s] = "reading"]
    /\ buffer' = [buffer EXCEPT ![s] = 0]
    /\ UNCHANGED <<dealerVars, wire, env>>

\* readSocket: of several connections with data, any may come first.
ReadSocket(s, d) ==
    /\ conn[d][s] = "queued" /\ AtEventLoop(s)
    /\ conn' = [conn EXCEPT ![d][s] = "reading"]
    /\ buffer' = [buffer EXCEPT ![s] = 0]
    /\ UNCHANGED <<dealerVars, wire, env>>

\* Mutant: the loop goes on when all of the block is there.
MoreToReadTooLong(s) == buffer[s] <= BlockSize

MoreToRead(s) == buffer[s] < BlockSize

ReadChunk(s, d) ==
    /\ conn[d][s] = "reading" /\ MoreToRead(s)
    /\ \E bytes \in 1..Lesser(MaxWrite, wire[d][s]) :
         /\ buffer' = [buffer EXCEPT ![s] = @ + bytes]
         /\ wire' = [wire EXCEPT ![d][s] = @ - bytes]
    /\ UNCHANGED <<dealerVars, conn, env>>

\* Nothing more will come: waitForReadyRead() fails at once and read() returns
\* nothing, for ever, and the event loop with it.
ReadForever(s, d) ==
    /\ conn[d][s] = "reading" /\ MoreToRead(s)
    /\ wire[d][s] = 0 /\ thread[d][s] = "closed"
    /\ conn' = [conn EXCEPT ![d][s] = "spin"]
    /\ UNCHANGED <<dealerVars, wire, buffer, env>>

\* The environment is replaced, whatever it was.
Install(s, d) ==
    /\ conn[d][s] = "reading" /\ ~MoreToRead(s)
    /\ env' = [env EXCEPT ![s] = EnvironmentOf[d][s]]
    /\ conn' = [conn EXCEPT ![d][s] = "dealt"]
    /\ UNCHANGED <<dealerVars, wire, buffer>>

\* An address without a port may be the end of the server (or it has some port).
CrashOnAddress(s, d) ==
    /\ conn[d][s] = "reading" /\ ~MoreToRead(s) /\ PortMissing[d]
    /\ conn' = [conn EXCEPT ![d][s] = "crashed"]
    /\ UNCHANGED <<dealerVars, wire, buffer, env>>

Dealer(s) ==
    \/ Connect(s) \/ Refused(s) \/ WriteChunk(s) \/ Sent(s) \/ WaitTimesOut(s)
    \/ WriteForever(s) \/ CloseSocket(s)

Server(s) ==
    \E d \in Deals :
        \/ ReadSocket(s, d) \/ ReadChunk(s, d) \/ ReadForever(s, d)
        \/ Install(s, d) \/ CrashOnAddress(s, d)

Next == StartDeal \/ \E s \in Servers : Dealer(s) \/ Server(s)

Spec == Init /\ [][Next]_vars

\* The Dealer's threads and the servers' event loops run on.
FairSpec == Spec /\ \A s \in Servers : WF_vars(Dealer(s)) /\ WF_vars(Server(s))
-----------------------------------------------------------------------------
Dealt(s) == env[s].machine # Undealt.machine

TypeOK ==
    /\ deal \in 0..MaxDeals
    /\ thread \in [Deals -> [Servers ->
                    {"idle", "connect", "chunks", "wait", "spin", "closed", "failed"}]]
    /\ bytesWritten \in [Deals -> [Servers -> 0..BlockSize]]
    /\ pending \in [Deals -> [Servers -> 0..BlockSize]]
    /\ wire \in [Deals -> [Servers -> 0..Room]]
    /\ conn \in [Deals -> [Servers -> {"none", "queued", "reading", "spin", "dealt", "crashed"}]]
    /\ buffer \in [Servers -> 0..BlockSize]
    /\ \A s \in Servers : Dealt(s) => \E d \in Deals : env[s] = EnvironmentOf[d][s]

\* A server holds keys of one run of the Dealer, each under its own number, and
\* they are the keys that everybody's omega table says it has: what makes one
\* partial result comparable with another (DISEServer.cpp:185-214,
\* DealerClient.cpp:70-78).
HoldersAgree ==
    \A s \in Servers : Dealt(s) =>
        /\ \E d \in Deals : \A k \in DOMAIN env[s].keyList : env[s].keyList[k] = Key(d, k)
        /\ \A r \in Servers : Dealt(r) => DOMAIN env[s].keyList = env[r].omegaTable[s]

\* What the server has read of a block.
BytesRead(d, s) ==
    CASE conn[d][s] \in {"none", "queued"}   -> 0
      [] conn[d][s] \in {"reading", "spin"}  -> buffer[s]
      [] conn[d][s] \in {"dealt", "crashed"} -> BlockSize

\* No byte is lost, read twice or read from the other deal's connection on the
\* way from the chunk loop of doConnect to the loop of handleDealer.
BytesConserved ==
    \A d \in Deals, s \in Servers :
        bytesWritten[d][s] = BytesRead(d, s) + wire[d][s] + pending[d][s]

\* Servers are known to each other under the addresses the Dealer was given, and no
\* server dies of the parse, in every run in which all addresses are as long as the
\* first (DealerClient.cpp:88, DISEServer.cpp:161-183).
AddressesAsGiven ==
    \A d \in Deals :
        (\A i \in 1..N : Len(AddressesOf[d][i]) = Len(AddressesOf[d][1])) =>
            \A s \in Servers :
                /\ conn[d][s] # "crashed"
                /\ env[s] = EnvironmentOf[d][s] =>
                    env[s].addresses = [i \in 1..N |-> Pair(AddressesOf[d][i])]

\* The loop of handleDealer hangs on no block that the Dealer's socket has sent as
\* a whole (DealerClient.cpp:114-130, DISEServer.cpp:106-111).
HangsOnlyIfTruncated ==
    \A d \in Deals, s \in Servers :
        conn[d][s] = "spin" => thread[d][s] = "closed" /\ pending[d][s] # 0

\* README.md:67, "Send to each DiSE server": a server the Dealer has connected to
\* is dealt its keys.
ConnectedIsDealt ==
    \A d \in Deals, s \in Servers : conn[d][s] = "queued" ~> conn[d][s] = "dealt"
=============================================================================
