# Specification of the DiSE servers, their Dealer and their Client

TLA+ modules for the distributed symmetric-key encryption of this repository: a
Dealer hands overlapping sets of keys to `n` servers, a client asks any of them
(the *honest initiator*) to encrypt or decrypt, and the initiator combines its own
partial results with those of `t` participants, each key being used by two of them
so that a compromised one is found out. TLC checks the modules on small
deployments; TLAPS proves the most important properties for every deployment.

Paths below are relative to the repository.

## 1. Inventory of the system

| Component | Code | State | Operations | Talks to |
|---|---|---|---|---|
| Key generator | `Dealer/src/KeyGenerator.cpp` | key list, omega matrix, column counters, `key_idx` | `create_all_key_list`, `find_combos`, `populate_omega_table`, `nChoosek` | called by the Dealer once |
| Dealer | `Dealer/src/DealerClient.cpp`, `DealerDriver.cpp` | one socket per server, in parallel (OpenMP) | connect, write header, write chunks, close | message `0` to every server |
| Server event loop | `DISEServer.cpp:40-92` | set of sockets | `newConnection`, `readSocket`, `discardSocket`; one handler at a time | dispatches on the code byte |
| `handleDealer`, `Environment` | `DISEServer.cpp:94-231`, `Environment.cpp` | machine number, own keys, omega table, addresses, N, T | read loop, parse, replace the environment | Dealer |
| Honest initiator | `DISEServer.cpp:233-760` | shared map of partial results, `robustFlag`, `mtx` | `handleClient`, `handleEncryptionRequest`, `handleDecryptionRequest`, T x `honestInitiatorThread` | client; message `2` to participants |
| Key assignment | `DISEServerUtil.cpp:126-247` | participant list, key lists | `getParticipantServerList`, `getParticipantServerKeyMap` | called by the initiator |
| Participant | `DISEServer.cpp:762-869` | none between calls; `compromised` | `handleHonestInitiator` | initiator |
| `encryptWithKeyList` | `DISEServerUtil.cpp:106-124` | QMap shared by an OpenMP loop | encrypt, insert | called by initiator and participant |
| Client | `Client/src/Client.cpp`, `ClientDriver.cpp` | `encResult.txt` | request, one wait for the answer, three outcomes | message `1` to one server |
| Cryptography | `DISEServerUtil.cpp:3-103` | none | AES-GCM, SHA-256, seeded generator | |
| Drivers, configuration, scripts | `*Driver.cpp`, `Scripts/` | fixed at start-up | parsing | |

What is hard in this code:

* **Threads.** Up to T threads of a transaction merge into one map under `mtx`, with
  a loop that checks and inserts and that another thread's verdict can cut short;
  the initiator encrypts meanwhile, and the OpenMP loop of `encryptWithKeyList`
  inserts into a QMap without a lock.
* **Failure.** A refused connection, a wait that runs out, a peer that dies in the
  middle of an answer: the code tests none of them beyond `connected or not`. Some
  of them change the result, some make a loop spin for ever.
* **Waiting on each other.** An initiator joins its threads inside its event loop and
  serves nobody meanwhile: initiators that need each other get apart only by the 30 s
  waits of their threads and clients.
* **Order.** The client's 30 s, the initiator's 30 s and the participant's answer
  race; an answer may come for a socket that is closed; a request may be served long
  after its thread has given up; a Dealer may be run again in the middle of it all.
* **Shared files.** Runs of the client write and read one `encResult.txt`, with nothing
  between them, and in text mode.
* **Boundaries.** The search of the key generator and its unchecked columns; the scan
  for two owners with its tests on 0 and `INT_MIN`.
* **Several steps that have to fit.** A decryption must use exactly the keys the
  encryption used although initiator and participants are others.

What makes each component correct: the matrix gives each key exactly t holders and
never leaves a row (key generator); a server's keys are those everybody's omega table
says it has (Dealer, `handleDealer`); each key is used by the initiator alone or by
exactly two participants (key assignment); the merge is the agreement of the answers
and the alarm is raised exactly for sabotage (initiator); every ciphertext can be
undone by any other initiator (transaction); a thread has the whole of an answer or
none of it (framing); what a client saves is what a later one reads (`encResult.txt`);
everything that is started comes to an end (threads, loops).

## 2. Modules

```
 Omega ------------- closed form of the matrix (constant-level)
 KeyGenerator        find_combos and populate_omega_table      -> checked against Omega
 TransactionKeys     what an assignment of keys owes a transaction, what encryptWithKeyList
                     keeps of its results (constant-level)
 ServerKeyMap        getParticipantServerKeyMap as recursive functions
 KeyAssignment       EXTENDS ServerKeyMap: the same, step by step -> checked against them
 RobustVote          what the robust step promises (abstract)
 RobustTransaction   client, initiator, threads, participants   -> implements RobustVote
 Dealing             Dealer threads, sockets, handleDealer, environments
 PartialResults      what a thread can rely on when it asks a participant (abstract)
 Exchange            one exchange, byte by byte, OpenMP loop    -> implements PartialResults
 DiseSystem          event loops, several clients and initiators, Dealer, death, restart
 EncResult           runs of the client and their encResult.txt
 KeyGeneratorProofs, KeyAssignmentProofs, RobustTransactionProofs, DealingProofs,
 ExchangeProofs, DiseSystemProofs, EncResultProofs                the proofs
 Induction           induction and recursion over the numbers, for the proofs
 MC*                 instances for TLC, over the matrix of Omega
```

The components are composed through what they hand over:

* The search ends in the closed form `Omega` (`SearchFillsOmega`), which gives each key
  number one T-subset of the servers (`OmegaNumbersSubsets`): what the assignment is told
  of its `Owners`. `MCKeyAssignment`, `MCRobustTransaction`, `MCDiseSystem` and
  `MCDealing` run over that matrix.
* The assignment loops compute `ServerKeyMap!KeyMap` (`LoopsComputeKeyMap`), from which
  `MCRobustTransaction` and `MCDiseSystem` take their assignments (`AssignmentOf`). What
  `RobustTransaction` and `DiseSystem` assume of theirs stands in `TransactionKeys`, and
  holds of every assignment so made (`AssignmentsFitTransactions`).
* `RobustTransaction` implements `RobustVote`; `DiseSystem` ends its transactions with
  that vote (`RobustFlag`: no two answers disagree) and leaves the merge out.
* `Exchange` implements `PartialResults`: the initiator comes to have all that the
  participant computed or none of it, and what was computed is any nonempty part of what
  was asked for (`EndInsert`). `RobustTransaction` and `DiseSystem` let an answer come in
  that way, `TransactionKeys!Kept` being the part, and take from `Exchange` which loops may
  not end.
* `Dealing` shows that a block is installed as a whole or hangs its server; in
  `DiseSystem` a block is one step of the event loop, and a server that hangs in one cut
  short is left out.

### KeyGenerator

One behaviour is one run of the constructor. The call stack of `find_combos` is the
variable `frames` (the `server_num` of every active call), so that each round of the
loop (`TakeServer`), each return (`LeaveLoop`) and each completed subset
(`PopulateOmegaTable`) is an action. The matrix is the flat array of the code with
its cell arithmetic, the columns unbounded as in `KeyGenerator.cpp:83`. `NChooseK`
is the loop of `nChoosek` with its integer divisions, as a recursive function. Integers
are unbounded: for n=24 and t=16 the largest product that `nChoosek` divides is 5.9 million
and that of `key_count_per_machine * n`, before its division by t, 11.8 million, far below
2^31.

### ServerKeyMap, KeyAssignment

`Scan` is the body of the loop over the participants (`DISEServerUtil.cpp:204-230`)
with its tests as they are written: an unset slot is `Unset` (for `INT_MIN`: not zero,
and smaller than any load), the second slot is overwritten whenever it is not 0.
`ScanAfter` and `ListsAfter` are the two loops as recursive functions of the rounds done,
`AssignmentOf` what initiator and participants have to use after them. `KeyAssignment` runs draw, key loop and scan step by step; the null list that
`value(INT_MIN)` returns is the state `"crashed"`.

### RobustVote, RobustTransaction

`RobustVote` is the promise: pairs of key and value are received while the vote is
open, then it is concluded as robust exactly if they are consistent, and the agreed
values are those received.

`RobustTransaction` is one deployment on which clients' transactions follow one
another. Correspondence of its state:

| Variable | Code |
|---|---|
| `client`, `mode`, `outcome`, `cipher` | `Client::doConnect`, the mode argument, what is printed, `encResult.txt` |
| `main` | position in `handleEncryptionRequest` / `handleDecryptionRequest` |
| `asg` | `participantServers` and `serverKeysToUse` |
| `own`, `partialResults`, `robustFlag`, `mtx` | `honestPartialResults` and the names of the code |
| `thr`, `todo`, `results` | position, iterator and `myPartialResults` of each `honestInitiatorThread` (before that, the answer its participant computed) |
| `conn` | position of the participant in `handleHonestInitiator`; `"late"`: its initiator has closed the socket; `"spin"`: in a loop without end; `"down"`: dead |
| `compromised` | `-e` of each server |

A partial result is `"w"` (the encryption of a||j), `"w0"` (of the zeros a compromised
server puts in its place) or `"zeros"` (what parsing past the end of an answer gives).
AES-GCM with a constant IV XORs the plaintext with a keystream of the key, so `Seed`
keeps, of the XOR of all partial results, the keys whose keystream is in it and the
parity of the plaintexts; a decryption succeeds if its seed is that of the encryption
(collisions of hash and pad are left out). Faults are a constant set: `"refuse"`
(connections), `"timeout"` (the 30 s waits), `"crash"` (a server dies for good),
`"race"` (lost inserts in `encryptWithKeyList`: the answer lacks entries, which are parsed
as key 0 with zeros, or the initiator's own part of the XOR lacks a key).

`OneHonestHolderSuffices`, `AlarmIsExact` and `CipherUsesEveryKey` are promises of the
protocol and say so: they hold with `Faults = {}`, which excludes the lost insert too. The
code as it is built always has that race. Where an insert is lost, the honest holder may be
the one whose entry is missing, the alarm may be a false one, and a ciphertext may lack a
key; what remains true then is `MergeInv` and the vote (`robust_faults`, with all faults),
and, of false alarms, `DiseSystem!AlarmHasReason`.

### Dealing

The threads of a Dealer run write a block in chunks (`bytesWritten`), their sockets
hold what the kernel has not taken (`pending`), `wire` is what it has; the server
serves one connection at a time (`conn`, `buffer`) and replaces its environment
(`env`) when the announced size has come. The contents of a block are kept as what
`doConnect` puts in it (matrix, keys by row, number) and `Environment` is the parse.
Faults: `"refuse"` and `"slow"` (a wait of 1 s that runs out before the kernel has
taken anything). After the last chunk the socket is closed and deleted; what is
`pending` then is lost. A Dealer may be run again, with new keys.

The addresses of a block are characters: the header has one length, that of the first
address, `Concatenated` is what is written and `ParsedAddresses` what is made of it. One
that has lost its `:` is indexed out of range (`l.at(1)`): the server may end there
(`CrashOnAddress`), and the Dealer's later writes to it loop (`WriteForever`).

### DiseSystem

The deployment as a whole. A server's event loop is `job`: in the loop, `"initiating"`
(it joins its threads, `DISEServer.cpp:370, 510`), `"hung"` or `"down"`; every handler
needs it to be in the loop (`AtLoop`), a thread does not.

| Variable | Code |
|---|---|
| `deal`, `block`, `env` | runs of the Dealer, their blocks waiting in a server's sockets, whose keys its `Environment` holds |
| `cur`, `asg`, `thr` | the request an initiator handles, its lists and its threads |
| `own`, `ans` | its keys that are in `honestPartialResults`; the `myPartialResults` of each thread: a key, and the deal its result was made with, or zeros |
| `stale` | requests in a participant's sockets whose thread has gone |
| `waits` | the 30 s waits under way (`waitForReadyRead()` of clients and threads), each paired with those begun before it |
| `phase`, `order`, `req`, `outcome`, `file` | runs of the client, their requests as the servers have them, `encResult.txt` |
| `mishaps` | bound: deaths, lost inserts, refused connections and damaged files so far |
| `trouble` | history: what has disturbed a client's transaction |

Time is kept only as far as the code depends on it: all these waits are 30 s long, so the
first begun runs out first (`FirstBegun`), and a wait runs out only on a server that does
not get on by itself (`Held`, and `~AtLoop` of the participant in `RunsOut`): a server
that can answer is taken to do so within 30 s. A partial result is known by its key and the
deal that key was of; `Seed` keeps keystream and parity as in `RobustTransaction`.

`encryptWithKeyList` may lose inserts at the participant (`Serve`) and at the initiator
(`Begin`): `Kept` is what is left. A thread parses as many entries as it asked for
(`Parsed`): what is missing is read as key 0 with zeros, over what key 0 may have had.
Entries past the end, of a short answer or of none, go into the vote, and `Seed` leaves
zeros out of the XOR. A connection may fail to a peer that is down and to one that is alive
(`NotConnected`); a Dealer reaches any set of the servers that are up (`StartDeal`); a
decryption may find in `encResult.txt` what nothing undoes (`Damaged`: byte 13, segments,
another run's write, which `EncResult` models). A server
that is started again, or was never dealt to, has members that were never set: it ends
with the first request, or, where the memory happens to be zero, uses no participants and
no keys (`BeginUndealt`). Nobody is compromised here: every alarm is a false one, and
`trouble` says of what kind:

| `trouble` | What happened to this transaction |
|---|---|
| `"redeal"` | a participant had, or got before it answered, keys of another deal than the initiator |
| `"undealt"` | the initiator had no keys |
| `"cipher"` | the ciphertext was not made undisturbed with the initiator's deal |
| `"insert"` | initiator or participant lost a result in the QMap of `encryptWithKeyList` |
| `"refused"` | a participant that is alive was not connected to |
| `"timeout"` | a thread or the client gave up waiting |
| `"death"` | initiator or participant died, or was down |

### PartialResults, Exchange

`PartialResults` is the promise of one exchange: the initiator comes to have all that
the participant computed, or nothing. `Exchange` is one `honestInitiatorThread` with one
`handleHonestInitiator`: the request in chunks (`rWritten`, `rHeld` in the socket,
`rWire` with the kernel, `rRead`), the rounds of the OpenMP loop of `encryptWithKeyList`
(an insert that ends may unlink what others have linked since it began), the answer in
chunks, the waits whose result is not looked at, the loops that do not end on a dead
connection, and the death of either side at any point. A thread that gives up deletes its
socket with what it holds of the request.

### EncResult

Runs of the client over one `encResult.txt`. A run that encrypts reads the answer with
one `readAll` (of an answer in segments, the first ones), parses it with zeros past the
end, truncates the file with `open` and writes it when the `QFile` goes; one that
decrypts reads it back, in text mode, which drops every byte 13. The message is always
the same 41 bytes (`-m` is declared without a value, `ClientDriver.cpp:102`), so all
ciphertexts have one length. `reason` is history: why what a run reads may be no answer.

## 3. Runs

| Run | Deployment | What it shows |
|---|---|---|
| `key_generator` | (n,t) = (5,3) (6,4) (6,3) (4,4) (4,1) (7,4) | Rows stay in their row and are full at the end, each key has exactly t holders, the final matrix is `Omega`, `nChoosek` counts subsets |
| `key_assignment` | n=6, t=4, every initiator, every order of participants | Each key is with the initiator or with exactly two participants that own it; the slots of the scan hold two different owners as soon as there are two; nothing null is dereferenced; lists ascend; the steps compute the recursive definition |
| `robust_5_3` | n=5, t=3 (the code's small mode), one transaction, none, one or two compromised | In all interleavings of threads and participants: the merge invariant, entries written once, the vote is implemented, one honest holder of a key is enough, the alarm is exact |
| `robust_sequence` | n=4, t=3, three transactions through three initiators, at most one compromised | Decryptions through other initiators and participants succeed exactly if nobody sabotages; every ciphertext uses every key once; every request concludes |
| `robust_faults` | n=3, t=2, two transactions, all of race, refuse, timeout and crash | The merge invariant and the vote hold under faults; a request concludes, or a thread spins on a dead connection |
| `dealing` | n=3, t=2, two runs of the Dealer, the second with addresses of unequal lengths, refuse and slow | Environments agree with the omega tables, bytes are conserved between the two chunk loops, a server hangs only on a block that was cut short, addresses of equal length arrive as given |
| `dealing_truncated` | n=3, t=2, one run, slow | *Violation*: a server the Dealer connected to is never dealt its keys |
| `dise_system` | n=3, t=2, two clients at two servers; all dealt to, or all but the last; one more event: a run of the Dealer, the death of a server, which may be started again, a lost insert, a refused connection or a damaged file | A client hears of a compromised server only where something has disturbed its own transaction (`trouble`, listed above); a result is never accepted after a thread of it had given up; every client is told something and every request ends, unless its server hangs or spins |
| `dise_overlap` | n=3, t=2, two clients, nothing fails | *Violation*: a client is told of a compromised server |
| `exchange` | 4 keys, 3 OpenMP threads, a request of 5 units, an answer of up to 5, chunks of 2, kernel buffers of 2, either side dies | The whole answer or none is gone on with; a participant hangs only if its initiator is gone, in the request loop only on a request cut short; the thread ends unless its participant dies |
| `enc_result` | three runs of the client, four answers, segments and kills | What is read back is one server's answer, unless the file was just then empty, a byte 13 was dropped or an answer had come in segments; the file holds what was written last |
| `enc_result_saved` | two runs, whole answers, no kills | *Violation*: what was saved is not what is read back |

Bounds, and why they are enough:

* *Deployments.* (5,3) is a deployment of the code, the other one, (24,16), has 735471
  keys. (6,4) is the smallest in which every branch of the scan is taken: with (5,3)
  the first slot is never pushed down. t = n and t = 1 are in `key_generator` for the
  edges of the loop bound and of `nChoosek`.
* *`MaxRequests`* (2 or 3 where order matters): an encryption and its decryption are
  two; the third lets a decryption follow another decryption or a new encryption.
* *`MaxCrashes`* = 1: one death reaches every loop on a dead connection, and leaves a
  server that refuses in the next transaction.
* *`Initiators`*: one in `robust_5_3`, where one transaction is looked at in depth; the
  first, the last and one in between in `robust_sequence`, so that a ciphertext is undone
  by a server with another row of the matrix; two in the runs with faults.
* *`BlockSize`, `MaxWrite`, `Room`* = 2, 1, 1: two chunks and a kernel buffer for one,
  so that a chunk waits, is taken later, or is cut off; the last chunk is shorter than
  `MaxWrite` in none of these, which the proofs do not depend on.
* *`MaxDeals`* = 2: an old and a new deal, interleaved in every way at each server; the
  addresses of the second have the lengths with which one loses its port.
* *`Clients`, `Addresses`* in `DiseSystem`: two clients and two initiators are a cycle of
  waits; the third server is a participant of both. With n=3, t=2 every server takes part
  in every transaction, so whoever initiates is missed by everybody else.
* *`MaxEvents`* = 1: one redeal or one mishap, between any two steps. `FirstEnvs` is a
  Dealer that has reached every server, with and without a ciphertext of that deal, and one
  that has missed the last. The second is what lets a request of an initiator that has died
  meet a participant that was never dealt to. With n=3, t=2 a participant is given one key,
  and one insert is never lost, so in this run it is initiators that lose inserts; the
  short answer of a participant is in `exchange` (three of four keys and less), its parse as
  zeros also in the answers that never came, and `AlarmReasoned` covers it for every
  deployment. In `robust_faults`, for the same reason, the initiator loses them.
* *`Exchange`*: a request of three chunks, the last one short, and an answer of a header
  and up to three chunks; buffers of one chunk, so that units wait in the socket on both
  sides; as many threads as leave two inserts to lose.
* *`EncResult`*: three runs (one reads while two write); ciphertexts of two bytes with a
  byte 13 in front, behind, in a||j or nowhere, and a zero that is also read past the end.

`CHECK_DEADLOCK FALSE` stands where a behaviour ends: the search is over, the last
request has been answered, the last deal is done. `MCKeyAssignment` has a terminating
step instead, so that its deadlock check finds a loop that is stuck half way.

### Fairness

`RobustTransaction!FairSpec` has weak fairness of the initiator's handler, of each
thread, of each participant's handler and of the client's timer: operating system
threads and Qt timers go on. Nothing obliges a client to ask, a connection to be
refused or a server to die. Weak fairness of the threads is enough for the mutex: it
is passed on among the finitely many threads of one transaction, each of which gives
it up for good, so from some point on `Lock` stays enabled for a thread that waits.
`Dealing!FairSpec` has weak fairness of each Dealer thread and of each server.

`DiseSystem!FairSpec` has weak fairness of `Progress`: as long as an event loop, a thread
or a timer can go on, one of them does. It is weaker than fairness of each of them, which
the operating system gives, and enough, since each has finitely much to do. No client has
to ask, no Dealer to deal, no server to die or to be started again.

`Exchange!FairSpec` has weak fairness of the thread and of the handler once it has begun;
that the participant's event loop comes to the request (`Serve`) is not promised, since
the loop may be in a handler for ever.

## 4. Proofs

| Theorem | Statement | Assumptions |
|---|---|---|
| `KeyGeneratorTypeCorrect`, `RowsStayApart`, `KeysHaveTHolders`, `SearchFillsOmega`, `NChooseKIsExact` | `KeyGenerator`: `TypeOK`, `RowsDoNotOverflow`, `EachKeyHasTHolders`, `FinalMatrixIsOmega`, `NChooseKCountsSubsets` | `DeploymentsAssumption`: 1 <= t <= n |
| `OmegaNumbersSubsets` | `OmegaOwners` gives every key number one t-subset of the servers, every subset one number | none |
| `AssignmentTypeCorrect`, `AssignmentCorrect`, `EveryKeyCrossChecked`, `AssignmentNeverCrashes`, `ScanFindsOwners`, `ListsStayAscending`, `LoopsComputeKeyMap` | `KeyAssignment`: `TypeOK`, `AssignmentInv` and its parts, `StepsComputeKeyMap` | `KeyAssignmentAssumption`; `ThresholdAssumption`: each key has T owners and T < N < 2T, as in both modes of the code |
| `AssignmentsFitTransactions` | every draw's `AssignmentOf` satisfies `IsAssignment`, `UsesAllKeys`, `IsCrossChecked` | as above |
| `TypeCorrect`, `MergeCorrect`, `WrittenOnceHolds` | `RobustTransaction`: `TypeOK`, `MergeInv`, `WrittenOnce` | `TransactionAssumption`: assignments give no participant a key the initiator uses; any number of servers, any faults |
| `OneHonestSuffices` | a robust verdict has the right result for every key an honest participant was asked for | as above; `Faults = {}` in the property |
| `VerdictExact`, `CipherIsWhole` | `RobustTransaction`: `AlarmIsExact`, `CipherUsesEveryKey` | as above; `Faults = {}`, `AllKeysUsed`, `SabotageMeetsHonest` |
| `MergeImplementsVote` | `Spec => Vote!Spec` | `TransactionAssumption` |
| `DealtKeysAgree`, `DealingTypeCorrect`, `NoByteLost`, `HangsOnlyOnTruncated`, `AddressesParsed` | `Dealing`: `HoldersAgree`, `TypeOK`, `BytesConserved`, `HangsOnlyIfTruncated`, `AddressesAsGiven` | `DealingAssumption`: a matrix of key numbers, positive sizes, a `:` in each address; any faults and number of runs of the Dealer |
| `ExchangeTypeCorrect`, `HangsHaveCauses` | `Exchange`: `TypeOK`, `HangHasCause` | `ExchangeAssumption`: finitely many keys, positive sizes |
| `ExchangeImplementsPromise` | `Exchange`: `AllOrNothing`, that is `Spec => Promise!Spec` | as above |
| `TypeCorrect`, `AlarmReasoned`, `NoOkAfterTimeout` | `DiseSystem`: `TypeOK`, `AlarmHasReason`, `OkWithoutTimeout` | `SystemAssumption`: assignments use all keys, none twice by initiator and participant; any number of servers, clients, deals and mishaps |
| `EncResultTypeCorrect`, `FileHoldsNewest`, `ReadBackIsSaved` | `EncResult`: `TypeOK`, `FileIsNewest`, `ReadBackIsOneAnswer` | `EncResultAssumption`: all ciphertexts have one length, all a\|\|j have one; any number of clients, any faults |

**Induction.** The library's induction theorems take a predicate as a parameter, which the
provers cannot instantiate. `Induction` states induction for a *set* of numbers (`Induct`,
`InductUpTo`), from the well-foundedness of inclusion on finite sets, which the library
has for sets; and that a function defined by recursion over the numbers satisfies its
equation (`Recursion`). What a recursive function of a model computes can then be proved,
and is, in the four modules that extend `Induction`.

**The search.** `WrittenInv` says, at any point of the recursion, which subsets have been
written: with servers `Chosen` on the stack and `p` to be tried next, those that come
before all completions of that prefix (`Seen`, `Done`); that each stands under its number
(`Number`, how many come before it), and that as many columns of a row are used as there
are subsets of `Done` with its server. `StackInv` ties the shared array `server_combo`,
which calls overwrite, to the stack. A round moves `p` past one server, whose completions
are then ahead (`SeenTaken`); a return moves it past all of them (`SeenReturned`); a
completed subset is the only completion of itself, so exactly one is added and its number
is `key_idx` (`NextSubset`). Rows are full at the end and never overrun before, since a
server is in `C(n-1, t-1)` of the subsets and `kpm` is that number: `n * kpm = t * C(n, t)`
(`Absorbed`). `nChoosek` divides without remainder in every round because its partial
products are binomial coefficients (`OneMoreFactor`, `LoopCounts`), which rests on
Pascal's rule for subsets (`Pascal`). This covers (24,16), which TLC cannot search.

**The assignment.** Two of the T owners are among the T participants by counting
(`TwoOwnersTakePart`, from T < N < 2T). `SlotsHoldOwners` says what the two slots hold
after any prefix of the list: it survives the overwriting and the swap because a slot
is only given up for another owner (`ScanCases`). At the end of the scan both are set
(`SlotsFilled`), so the lists exist and two different servers get the key. The same
argument about the recursive functions (`ScanSees`, `AssignsToUsers`) gives
`AssignmentsFitTransactions`: what the models of the transaction assume of the constant
they are given is proved of the code that computes it. `LoopsComputeKeyMap` joins the two.

**The merge.** That an entry is written once is not inductive: a thread between
`contains` and `insert` has to know that the key is still free. `MergeInv` adds that
the mutex is held exactly by the thread between lock and unlock (`MutexHeld`), that
what a merging thread has still to do are keys of its answer (`TodoInAnswer`), that the
thread about to insert is at a free key (`InsertIsFresh`), that the map agrees with
every answer on the keys passed (`MapAgrees`) and holds nothing else (`MapHasSource`),
and that a flag that is down has two disagreeing answers as its cause
(`AlarmHasCause`). Each action has its lemma (`MergeLock`, `MergeCompare`, ...); the
ones before the merge share `MergeBefore`. The refinement follows: when the threads
are joined, all answers have been passed, so the flag is up exactly if they are
consistent (`VerdictIsConsistency`), and the map is then the function they make up
(`AgreedIsMap`).

**One honest holder.** With no fault but compromise every answer is complete
(`AnswersComplete`, which needs that an answer on its way is still awaited,
`AnswerAwaited`); `MapAgrees` then gives the map the honest participant's value.

**The verdict.** `VerdictExact` says when a client is told of sabotage: exactly if a
compromised server did some of the work. One direction needs that sabotage meets an honest
answer, `SabotageMeetsHonest`; with one compromised server it follows from the cross-check
(`OneCompromisedMeetsHonest`), with more it depends on the matrix: two compromised
servers that are given the same keys agree with each other. `CipherIsWhole` needs that all keys are used: the
seed of every ciphertext is then the same whoever initiated. Both hypotheses are
satisfied by the instances TLC runs (`OmegaUsesAllKeys`, `OmegaMeetsHonest` in
`MCRobustTransaction`), the first and the cross-check by every assignment
(`AssignmentsFitTransactions`).

**Dealing.** An environment comes from one block, and parsing a block (`BlockParsed`)
yields the keys of the machine's own row, the one that everybody's table has for it.
That bytes are conserved is not inductive either: the server has one buffer for all its
connections, so `DealingInv` adds that it reads from one at a time (`OneAtATime`) and, for
each (`Connection`), that the counter and the kernel's buffer stay within their bounds,
that a connection is there exactly if its thread got that far, and that a socket is closed
only when its thread has written all of the block. A server that hangs there with nothing
on the way then lacks what the closed socket still held. Every step changes one
connection (`OneConnection`), so each action is shown for that one alone. With addresses of
one length, address `i` lies at `(i-1)` times that length (`Laid`), so the parse finds it
there with its port (`PortsPresent`).

**The exchange.** `ExchangeInv` says that units of the request and of the answer are
neither made up nor, while the initiator lives, lost (`RequestConserved`,
`AnswerConserved`), that nothing of an answer is there before it is built and that the
thread goes on once (`ReceivedOnce`). `HangHasCause` follows from the conservation: in
the request loop with nothing on its way, the missing units are in the socket of a thread
that has given up. For the refinement, `WholeAnswerRead`: when the announced number of
units has been read, the keys parsed are all keys of the answer, by counting those below
each of them.

**The deployment.** `AlarmHasReason` is about the end of a transaction, and an undisturbed
one must get there with nothing missing. `SystemInv` carries what that needs through the
transaction: as long as `trouble` is empty, each participant has the initiator's keys (or
was never dealt any) until it is asked, and has answered with them after that
(`UndisturbedInv`), with all of them (`ParsedWhole`, `Served`: an answer that lacks one has
entered `"insert"`), and the initiator has all of its own; the ciphertext to be undone is that of all keys of one deal
(`ClientInv`, `FileInv`, which carry it through `encResult.txt` into later transactions).
What could break this without entering `trouble` is a redeal or a mishap of transactions
that are not this one, and the requests of other clients; each action is shown to
leave it alone.
`OkWithoutTimeout` needs the order of the waits: a client that still waits has begun to
before the threads of its request (`WaitInv`), so its wait runs out first.

**The file.** `FileIsNewest` needs that what a client is about to save is what its server
gave it (`WholeInv`), which rests on the parse of a whole answer (`WholeAnswerParsed`,
from the places of its items, `AnswerItems`); and that writing over a file of the same
length leaves nothing of it (`WrittenOverIsSaved`, since all results take the same room).
`ReadBackIsOneAnswer` adds what text mode does: a text without a byte 13 is read as it
was written. The bounds of `TypeOK` need the lengths of what is parsed of a part of an
answer (`PartsInv`).

Only model-checked: the liveness properties `RequestConcludes`, `ConcludesOrSpins`,
`ThreadEnds` and `RequestsEnd`, which are beyond the prover, as is ENABLED; and the three
violations. Every other property of the runs is a theorem above.

## 5. Where the code and its documentation part

Shown by a run:

* `README.md:67`, send to each server: the Dealer's socket is closed and deleted with
  bytes it has not sent (`DealerClient.cpp:125-130`), and the server waits for ever
  (`dealing_truncated`).
* `Client.cpp:175`, "There was a compromised server": two initiators that need each other
  wait out their 30 s, and the clients are told so although nobody is compromised, nobody
  has died and nothing was refused (`dise_overlap`).
* `Client.cpp:133`, save the results to use later: ciphertext and a||j are binary, the
  file is read in text mode, which drops every byte 13 (`ClientDriver.cpp:162`); of 85
  bytes drawn at random one in four results holds one (`enc_result_saved`).

Visible in the definitions, without a run of their own:

* `DISEServerUtil.cpp:194` says the key goes to the two servers with the least keys.
  The scan's `else if (secondLeastKeysAssigned)` is true for every value but 0 and the
  comparisons prefer larger loads (`ServerKeyMap!Scan`). What the cross-check needs, two
  different owners, is kept (`SlotsHoldOwners`); the balance is not.
* `README.md:97-98` has the initiator receive all partial results. A participant that
  refuses the connection is left out without notice (`DISEServer.cpp:754`). The seed of
  an encryption and that of a decryption then differ, and the client reports a
  compromised server (`RobustTransaction!NotConnected`, `DiseSystem!NotConnected`).
* `README.md:104`, conclude the transaction: loops that count bytes on a dead
  connection never end (`DISEServer.cpp:671, 704`), and the initiator joins them; a
  participant can hang in its own loops (`DISEServer.cpp:775, 845`), and then does not
  "wait for a transaction" (`README.md:77`) any more (`Exchange!HangHasCause` says when).
* `DISEServerUtil.h:67`, the map of the partial results: inserts from several OpenMP
  threads into one QMap may be lost (`DISEServerUtil.cpp:120`, `Exchange!EndInsert`). A
  client is then told of a compromised server although there is none: the answer is short
  and read as zeros, or the initiator's own part of the XOR lacks a key
  (`DiseSystem!Serve`, `DiseSystem!Begin`).

## 6. Not modelled

* Cryptography, beyond which keystreams and plaintexts are XORed together.
* Code byte and announced size, flushed together, are taken to arrive together; what a
  server makes of a connection that ends between them is left out. The fields of blocks
  and requests appear as records, except addresses and `encResult.txt`, where the
  conversion is the point.
* The client's request and the loop of `handleClient` that reads it
  (`DISEServer.cpp:245-250`): they are written as the request of a thread and the loop of
  `handleHonestInitiator`, which `Exchange` models.
* Corruption of the QMap other than lost inserts in `encryptWithKeyList`; what an
  uninitialized `Environment` may do other than end the server or act as zeros.
* In `DiseSystem`, servers that hang in a block or request cut short (`Dealing`,
  `Exchange`); a client whose connection fails leaves nothing behind and takes no step.
* Configurations with more or fewer addresses than machines, wording, logging, printing,
  freeing of memory, command lines, build and deployment scripts.

## 7. Left to do

* Liveness of `DiseSystem` with a second event (a death and a redeal, three clients): the
  state space outgrows what a run can search. Its safety is proved for any number of them.
* That `DiseSystem` implements a system-wide promise (a client's ciphertext, once accepted,
  is undone by the deal it was made with), of which `AlarmHasReason` is the safety half.
* A link between `Dealing` and the matrix: its blocks are proved right for any matrix of
  key numbers, and it is a run that takes the rows of `Omega`.
