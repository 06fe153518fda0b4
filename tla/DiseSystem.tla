----------------------------- MODULE DiseSystem -----------------------------
(***************************************************************************)
(* The deployment as a whole: the servers' event loops, each of which runs *)
(* one handler at a time, several clients, and a Dealer that may be run    *)
(* again.  A handler of a client's request joins its threads inside the    *)
(* event loop (DISEServer.cpp:370, 510): while an initiator waits for its  *)
(* participants it is nobody's participant, and only the 30 s waits of     *)
(* threads and clients get two initiators that need each other apart.      *)
(*                                                                         *)
(* The answers of one transaction are merged in RobustTransaction; here it *)
(* ends with the vote that RobustTransaction is shown to implement, and no *)
(* server is compromised: every alarm here is a false one.  The            *)
(* bytes of a connection are in Exchange and Dealing; here a request, a    *)
(* block and an answer come as a whole, and a block cut short, in which a  *)
(* server hangs (Dealing), is left out.                                    *)
(***************************************************************************)
EXTENDS TransactionKeys, FiniteSets

CONSTANTS
    AssignmentsOf,    \* what each machine may choose: participants and their keys
    Addresses,        \* CLIENT_IP_ADDRESSES: the servers that clients turn to
    Clients,          \* runs of the client program, in the order of their start
    FirstEnvs,        \* whom the Dealer has reached before: deal 0, or nothing, by server
    Mortal,           \* servers that may be killed
    MaxEvents         \* bound on the later runs of the Dealer and the mishaps together

Deals == 0..MaxEvents

\* Deal 0 is what servers may hold from before; the environment of a server that
\* was never dealt to is Undealt.
Undealt == -1

\* An assignment of the machine m, with all keys.
MayChoose(m, a) == a.machine = m /\ IsAssignment(a) /\ UsesAllKeys(a)

Assignments == [m \in Servers |-> AssignmentsOf[m]]

Nobody == -1

ASSUME SystemAssumption ==
    /\ KeyCount \in Nat \ {0} /\ MaxEvents \in Nat
    /\ FirstEnvs \subseteq [Servers -> {Undealt, 0}]
    /\ DOMAIN AssignmentsOf = Servers
    /\ \A m \in Servers : \A a \in AssignmentsOf[m] : MayChoose(m, a)
    /\ Servers \subseteq Nat /\ Addresses \subseteq Servers /\ Mortal \subseteq Servers
    /\ Clients \subseteq Nat

VARIABLES
    deal,         \* the last run of the Dealer
    block,        \* blocks of keys that wait in a server's sockets
    env,          \* the deal of a server's environment
    job,          \* what a server's event loop is in
    cur,          \* the client whose request it handles
    asg,          \* participants and keys of that transaction
    own,          \* its own keys of which honestPartialResults has a result
    thr,          \* the initiator's thread for each participant
    ans,          \* myPartialResults of that thread: keys, each with the deal of its result
    stale,        \* initiators whose request is queued here, its socket closed
    mishaps,      \* deaths, lost inserts, refused connections, damaged files
    waits,        \* the 30 s waits that are under way, each with those begun before it
    phase,        \* a client: "new", "waiting", "over"
    order,        \* what it asked, and whom
    req,          \* its request, as the server has it
    outcome,      \* what it was told, or told itself
    trouble,      \* what has disturbed its transaction (history)
    file          \* encResult.txt: empty, or one ciphertext
dealVars   == <<deal, block, env>>
serverVars == <<job, cur, asg, own, thr, ans, stale>>
clientVars == <<phase, order, req, outcome, trouble, file>>
vars == <<dealVars, serverVars, mishaps, waits, clientVars>>

\* A partial result is known by its key and the deal that key was of; zeros are what
\* is read past the end of an answer.
Zeros   == -1
Results == Keys \X (Deals \cup {Zeros})

\* An initiator before its first transaction.
NoAssignment(m) == [machine |-> m, participants |-> {}, keys |-> [s \in Servers |-> {}]]

\* The XOR of the partial results: the keystreams in it, by deal and key, and the
\* parity of the a||j (RobustTransaction!Seed).
Seeds   == [streams : SUBSET (Deals \X Keys), parity : 0..1]
NoKeys  == [streams |-> {}, parity |-> 0]

\* A ciphertext in encResult.txt; whose keys it was made with, and whether anything
\* had disturbed the making, is history.
NoFile  == [seed |-> NoKeys, deal |-> Undealt, clean |-> FALSE, there |-> FALSE]
Whole(d) == [seed |-> [streams |-> {d} \X Keys, parity |-> KeyCount % 2],
             deal |-> d, clean |-> TRUE, there |-> TRUE]
\* What is left of a ciphertext that text mode, another run of the client or a partly
\* read answer has damaged (EncResult): no seed undoes it.
Damaged == [seed |-> [streams |-> {}, parity |-> 1], deal |-> Undealt,
            clean |-> FALSE, there |-> TRUE]
Files   == [seed : Seeds, deal : Deals \cup {Undealt}, clean : BOOLEAN, there : BOOLEAN]

Troubles == {"redeal", "undealt", "cipher", "insert", "refused", "timeout", "death"}

\* A wait of a client, or of the thread of an initiator for a participant.
Waits == (Clients \X {Nobody}) \cup (Servers \X Servers)
ClientWait(c)    == <<c, Nobody>>
ThreadWait(i, p) == <<i, p>>

\* What a client asks, whom, and the ciphertext it reads before.
Orders  == [mode : {"enc", "dec"}, at : Servers \cup {Nobody}, given : Files]
NoOrder == [mode |-> "enc", at |-> Nobody, given |-> NoFile]

JobStates     == {"loop", "initiating", "hung", "down"}
ThreadStates  == {"connect", "ask", "broken", "done", "spin"}
RequestStates == {"none", "queued", "handled", "over", "lost"}
Outcomes      == {"none", "ok", "alarm", "not connected", "no file"}

TypeOK ==
    /\ deal \in Deals
    /\ block \in [Servers -> SUBSET Deals]
    /\ env \in [Servers -> Deals \cup {Undealt}]
    /\ job \in [Servers -> JobStates]
    /\ cur \in [Servers -> Clients \cup {Nobody}]
    /\ DOMAIN asg = Servers
    /\ \A s \in Servers : asg[s] \in Assignments[s] \cup {NoAssignment(s)}
    /\ own \in [Servers -> SUBSET Keys]
    /\ thr \in [Servers -> [Servers -> ThreadStates]]
    /\ ans \in [Servers -> [Servers -> SUBSET Results]]
    /\ stale \in [Servers -> SUBSET Servers]
    /\ mishaps \in 0..MaxEvents
    /\ waits \subseteq Waits \X Waits
    /\ phase \in [Clients -> {"new", "waiting", "over"}]
    /\ order \in [Clients -> Orders]
    /\ req \in [Clients -> RequestStates]
    /\ outcome \in [Clients -> Outcomes]
    /\ trouble \in [Clients -> SUBSET Troubles]
    /\ file \in Files

Init ==
    /\ deal = 0
    /\ block = [s \in Servers |-> {}]
    /\ env \in FirstEnvs
    /\ file \in IF \A s \in Servers : env[s] = 0 THEN {NoFile, Whole(0)} ELSE {NoFile}
    /\ job = [s \in Servers |-> "loop"]
    /\ cur = [s \in Servers |-> Nobody]
    /\ asg = [s \in Servers |-> NoAssignment(s)]
    /\ own = [s \in Servers |-> {}]
    /\ thr = [s \in Servers |-> [p \in Servers |-> "done"]]
    /\ ans = [s \in Servers |-> [p \in Servers |-> {}]]
    /\ stale = [s \in Servers |-> {}]
    /\ mishaps = 0
    /\ waits = {}
    /\ phase = [c \in Clients |-> "new"]
    /\ order = [c \in Clients |-> NoOrder]
    /\ req = [c \in Clients |-> "none"]
    /\ outcome = [c \in Clients |-> "none"]
    /\ trouble = [c \in Clients |-> {}]

AtLoop(s) == job[s] = "loop"

\* <<v, w>> is in waits if both are under way and v was not begun after w.
UnderWay(w) == <<w, w>> \in waits
Starts(w)   == waits' = waits \cup ({v \in Waits : UnderWay(v)} \cup {w}) \X {w}
Ends(ws)    == waits' = {pair \in waits : pair[1] \notin ws /\ pair[2] \notin ws}

\* Mutant: a wait may run out before one that was begun earlier.
AnyBegun(w) == UnderWay(w)

\* Mutant: waitForReadyRead(-1).
NeverRunsOut(w) == FALSE

\* All waits are equally long: of those under way the first begun runs out first.
FirstBegun(w) == UnderWay(w) /\ \A v \in Waits : <<v, w>> \in waits => v = w

Disturbed(cs, what) ==
    trouble' = [c \in Clients |-> IF c \in cs THEN trouble[c] \cup {what} ELSE trouble[c]]

\* One more thing that goes wrong, within the bound.
Mishap == deal + mishaps < MaxEvents /\ mishaps' = mishaps + 1
-----------------------------------------------------------------------------
(* The Dealer.                                                             *)

\* A run of the Dealer leaves a block at each server that it gets a connection to;
\* "Failed to connect" is all that becomes of the others, those that are down among them.
StartDeal ==
    /\ deal + mishaps < MaxEvents
    /\ deal' = deal + 1
    /\ \E missed \in SUBSET Servers :
         /\ \A s \in Servers : job[s] = "down" => s \in missed
         /\ block' = [s \in Servers |-> IF s \in missed THEN block[s] ELSE block[s] \cup {deal + 1}]
    /\ UNCHANGED <<env, serverVars, mishaps, waits, clientVars>>

\* The clients whose transaction still has to hear from p.
Awaiting(p) ==
    {c \in Clients : \E i \in Servers :
        job[i] = "initiating" /\ cur[i] = c /\ thr[i][p] \in {"connect", "ask"}}

\* Mutant: keys are replaced whatever the server is in the middle of.
TakeDealAtOnce(s) ==
    /\ job[s] \in {"loop", "initiating"}
    /\ \E d \in block[s] :
         /\ env' = [env EXCEPT ![s] = d]
         /\ block' = [block EXCEPT ![s] = @ \ {d}]
    /\ Disturbed(Awaiting(s), "redeal")
    /\ UNCHANGED <<deal, serverVars, mishaps, waits, phase, order, req, outcome, file>>

\* handleDealer: of several blocks any may come first.
TakeDeal(s) ==
    /\ AtLoop(s)
    /\ \E d \in block[s] :
         /\ env' = [env EXCEPT ![s] = d]
         /\ block' = [block EXCEPT ![s] = @ \ {d}]
    /\ Disturbed(Awaiting(s), "redeal")
    /\ UNCHANGED <<deal, serverVars, mishaps, waits, phase, order, req, outcome, file>>

-----------------------------------------------------------------------------
(* Clients.                                                                *)

\* What a decryption finds in encResult.txt.
Reads(given) ==
    \/ given = file /\ UNCHANGED mishaps
    \/ file.there /\ given = Damaged /\ Mishap

\* main of the client: any address is the honest initiator; a decryption reads
\* encResult.txt first.  A server accepts whatever it is in the middle of, its
\* event loop reads the request when it comes to it.  A client whose connection fails
\* leaves nothing behind.
Ask(c, mode, s) ==
    /\ phase[c] = "new" /\ \A b \in Clients : b < c => phase[b] # "new"
    /\ \E given \in {file, Damaged, NoFile} :
         /\ order' = [order EXCEPT ![c] = [mode |-> mode, at |-> s, given |-> given]]
         /\ IF mode = "dec" THEN Reads(given) ELSE given = NoFile /\ UNCHANGED mishaps
    /\ LET end == IF mode = "dec" /\ ~file.there THEN "no file"
                  ELSE IF job[s] = "down" THEN "not connected" ELSE "none"
       IN /\ phase' = [phase EXCEPT ![c] = IF end = "none" THEN "waiting" ELSE "over"]
          /\ req' = [req EXCEPT ![c] = IF end = "none" THEN "queued" ELSE "none"]
          /\ outcome' = [outcome EXCEPT ![c] = end]
          /\ IF end = "none" THEN Starts(ClientWait(c)) ELSE UNCHANGED waits
    /\ UNCHANGED <<dealVars, serverVars, trouble, file>>

\* A server that will not get on by itself: its loop, or a thread that it joins,
\* waits for what another server does not give.
Held(s) ==
    \/ job[s] = "hung"
    \/ job[s] = "initiating" /\ \E p \in Servers :
         thr[s][p] = "spin" \/ (thr[s][p] = "ask" /\ ~AtLoop(p))

\* waitForReadyRead() of the client runs out: nothing is read, robustFlag stays
\* false.  The request stays where it is.
GiveUp(c) ==
    /\ phase[c] = "waiting" /\ FirstBegun(ClientWait(c))
    /\ req[c] \in {"queued", "handled"} /\ Held(order[c].at)
    /\ phase' = [phase EXCEPT ![c] = "over"]
    /\ outcome' = [outcome EXCEPT ![c] = "alarm"]
    /\ Disturbed({c}, "timeout")
    /\ Ends({ClientWait(c)})
    /\ UNCHANGED <<dealVars, serverVars, mishaps, order, req, file>>

\* The server is gone, the wait ends at once.
ConnectionLost(c) ==
    /\ phase[c] = "waiting" /\ req[c] = "lost"
    /\ phase' = [phase EXCEPT ![c] = "over"]
    /\ outcome' = [outcome EXCEPT ![c] = "alarm"]
    /\ Disturbed({c}, "death")
    /\ Ends({ClientWait(c)})
    /\ UNCHANGED <<dealVars, serverVars, mishaps, order, req, file>>

-----------------------------------------------------------------------------
(* Death of a server.                                                      *)

\* Its own transaction ends with it, its peers' connections break, what was queued
\* is gone.
Dies(s) ==
    /\ job' = [job EXCEPT ![s] = "down"]
    /\ env' = [env EXCEPT ![s] = Undealt]
    /\ block' = [block EXCEPT ![s] = {}]
    /\ cur' = [cur EXCEPT ![s] = Nobody]
    /\ asg' = [asg EXCEPT ![s] = NoAssignment(s)]
    /\ thr' = [i \in Servers |-> [p \in Servers |->
                  IF i = s THEN "done"
                  ELSE IF p = s /\ thr[i][p] = "ask" THEN "broken" ELSE thr[i][p]]]
    /\ own' = [own EXCEPT ![s] = {}]
    /\ ans' = [ans EXCEPT ![s] = [p \in Servers |-> {}]]
    /\ stale' = [p \in Servers |->
                    IF p = s THEN {}
                    ELSE IF thr[s][p] = "ask" /\ asg[s].keys[p] # {} THEN stale[p] \cup {s}
                    ELSE stale[p]]
    /\ req' = [c \in Clients |->
                  IF order[c].at = s /\ req[c] \in {"queued", "handled"} THEN "lost" ELSE req[c]]
    /\ Ends({ThreadWait(s, p) : p \in Servers} \cup {ThreadWait(i, s) : i \in Servers})
    /\ UNCHANGED <<deal, phase, order, outcome, file>>

Crash(s) ==
    /\ s \in Mortal /\ job[s] # "down" /\ Mishap
    /\ Dies(s)
    /\ UNCHANGED trouble

\* The server is started again: it has to be dealt to.
Restart(s) ==
    /\ job[s] = "down"
    /\ job' = [job EXCEPT ![s] = "loop"]
    /\ UNCHANGED <<dealVars, cur, asg, own, thr, ans, stale, mishaps, waits, clientVars>>

-----------------------------------------------------------------------------
(* Initiator: handleClient, the threads it joins, the answer.              *)

\* The ciphertext of a decryption is not one of the keys at hand.
Foreign(c, d) == order[c].mode = "dec" /\ ~(order[c].given.clean /\ order[c].given.deal = d)

\* What a transaction is disturbed by from its beginning.
TroubleAtBegin(i, c, a, kept) ==
    {what \in Troubles :
        \/ what = "redeal" /\ \E p \in a.participants : env[p] # env[i]
        \/ what = "cipher" /\ Foreign(c, env[i])
        \/ what = "insert" /\ kept # a.keys[i]}

\* Participants are drawn, the threads started, and the initiator's own keys used.
Begin(i, c) ==
    /\ AtLoop(i) /\ req[c] = "queued" /\ order[c].at = i /\ env[i] # Undealt
    /\ job' = [job EXCEPT ![i] = "initiating"]
    /\ cur' = [cur EXCEPT ![i] = c]
    /\ req' = [req EXCEPT ![c] = "handled"]
    /\ \E a \in Assignments[i] : \E kept \in Kept(a.keys[i]) :
         /\ asg' = [asg EXCEPT ![i] = a]
         /\ own' = [own EXCEPT ![i] = kept]
         /\ IF kept = a.keys[i] THEN UNCHANGED mishaps ELSE Mishap
         /\ thr' = [thr EXCEPT ![i] =
                       [p \in Servers |-> IF p \in a.participants THEN "connect" ELSE "done"]]
         /\ trouble' = [trouble EXCEPT ![c] = @ \cup TroubleAtBegin(i, c, a, kept)]
    /\ ans' = [ans EXCEPT ![i] = [p \in Servers |-> {}]]
    /\ UNCHANGED <<dealVars, stale, waits, phase, order, outcome, file>>

Connect(i, p) ==
    /\ thr[i][p] = "connect" /\ job[p] # "down"
    /\ thr' = [thr EXCEPT ![i][p] = "ask"]
    /\ Starts(ThreadWait(i, p))
    /\ UNCHANGED <<dealVars, job, cur, asg, own, ans, stale, mishaps, clientVars>>

\* The peer is down, or the connection does not come about within 3 s: the thread ends.
NotConnected(i, p) ==
    /\ thr[i][p] = "connect"
    /\ IF job[p] = "down" THEN UNCHANGED mishaps /\ Disturbed({cur[i]}, "death")
                          ELSE Mishap /\ Disturbed({cur[i]}, "refused")
    /\ thr' = [thr EXCEPT ![i][p] = "done"]
    /\ UNCHANGED <<dealVars, job, cur, asg, own, ans, stale, waits,
                   phase, order, req, outcome, file>>

\* What is made of an answer that holds these results, or of none: as many entries are
\* read as keys were asked for; each one past the end is read as key 0 with zero bytes,
\* over what key 0 may have had.
Parsed(results, keys) ==
    IF {r[1] : r \in results} = keys THEN results
    ELSE {r \in results : r[1] # 0} \cup {<<0, Zeros>>}

\* The peer has died: no header, or a loop without end.
PeerGone(i, p) ==
    /\ thr[i][p] = "broken"
    /\ \E end \in {"done", "spin"} : thr' = [thr EXCEPT ![i][p] = end]
    /\ ans' = [ans EXCEPT ![i][p] = Parsed({}, asg[i].keys[p])]
    /\ Disturbed({cur[i]}, "death")
    /\ UNCHANGED <<dealVars, job, cur, asg, own, stale, mishaps, waits,
                   phase, order, req, outcome, file>>

\* The thread's wait runs out on a participant that does not come to its event
\* loop; it closes the socket, the request stays.
RunsOut(i, p) ==
    /\ thr[i][p] = "ask" /\ ~AtLoop(p) /\ FirstBegun(ThreadWait(i, p))
    /\ thr' = [thr EXCEPT ![i][p] = "done"]
    /\ ans' = [ans EXCEPT ![i][p] = Parsed({}, asg[i].keys[p])]
    /\ stale' = IF asg[i].keys[p] = {} THEN stale ELSE [stale EXCEPT ![p] = @ \cup {i}]
    /\ Disturbed({cur[i]}, "timeout")
    /\ Ends({ThreadWait(i, p)})
    /\ UNCHANGED <<dealVars, job, cur, asg, own, mishaps,
                   phase, order, req, outcome, file>>

\* What the threads hand to the vote.
Received(i) == UNION {ans[i][p] : p \in asg[i].participants}

\* robustFlag: nobody disagrees (RobustVote).
RobustFlag(i) == \A u, v \in Received(i) : u[1] = v[1] => u = v

\* Mutant: the results are counted instead of XORed.
SeedCounted(i) ==
    LET mine   == {<<env[i], k>> : k \in own[i]}
        others == {v \in Received(i) : v[2] # Zeros}
    IN [streams |-> mine \cup {<<v[2], v[1]>> : v \in others},
        parity  |-> Cardinality(mine) + Cardinality(others)]

Seed(i) ==
    LET mine   == {<<env[i], k>> : k \in own[i]}
        others == {v \in Received(i) : v[2] # Zeros}
    IN [streams |-> mine \cup {<<v[2], v[1]>> : v \in others},
        parity  |-> (Cardinality(mine) + Cardinality(others)) % 2]

\* The answer, if the client still waits; encResult.txt is written by it.
Answer(c, ok, seed, d, t) ==
    /\ phase' = [phase EXCEPT ![c] = "over"]
    /\ outcome' = [outcome EXCEPT ![c] = IF phase[c] # "waiting" THEN @
                                         ELSE IF ok THEN "ok" ELSE "alarm"]
    /\ file' = IF phase[c] = "waiting" /\ ok /\ order[c].mode = "enc"
               THEN [seed |-> seed, deal |-> d, clean |-> t = {}, there |-> TRUE] ELSE file
    /\ req' = [req EXCEPT ![c] = "over"]
    /\ Ends({ClientWait(c)})

AllEnded(i) == \A p \in Servers : thr[i][p] = "done"

Reply(i) ==
    /\ job[i] = "initiating" /\ AllEnded(i)
    /\ LET c  == cur[i]
           ok == RobustFlag(i) /\ (order[c].mode = "dec" => Seed(i) = order[c].given.seed)
       IN Answer(c, ok, Seed(i), env[i], trouble[c])
    /\ job' = [job EXCEPT ![i] = "loop"]
    /\ cur' = [cur EXCEPT ![i] = Nobody]
    /\ UNCHANGED <<dealVars, asg, own, thr, ans, stale, mishaps, order, trouble>>

\* A server that was not dealt to has members that were never set: it dies of them,
\* or, where they happen to be zero, has no participants and no keys to use.
BeginUndealt(i, c) ==
    /\ AtLoop(i) /\ req[c] = "queued" /\ order[c].at = i /\ env[i] = Undealt
    /\ Disturbed({c}, "undealt")
    /\ \/ Dies(i) /\ UNCHANGED mishaps
       \/ /\ Answer(c, order[c].mode = "dec" => order[c].given.seed = NoKeys,
                    NoKeys, Undealt, {"undealt"})
          /\ UNCHANGED <<dealVars, serverVars, mishaps, order>>

-----------------------------------------------------------------------------
(* Participant.                                                            *)

\* The answer may lack keys; the thread parses what it has.
Serve(p, i) ==
    /\ AtLoop(p) /\ thr[i][p] = "ask" /\ (env[p] # Undealt \/ asg[i].keys[p] = {})
    /\ \E kept \in Kept(asg[i].keys[p]) :
         /\ ans' = [ans EXCEPT ![i][p] =
                       Parsed({<<k, env[p]>> : k \in kept}, asg[i].keys[p])]
         /\ IF kept = asg[i].keys[p] THEN UNCHANGED <<mishaps, trouble>>
                                     ELSE Mishap /\ Disturbed({cur[i]}, "insert")
    /\ thr' = [thr EXCEPT ![i][p] = "done"]
    /\ Ends({ThreadWait(i, p)})
    /\ UNCHANGED <<dealVars, job, cur, asg, own, stale, phase, order, req, outcome, file>>

\* The key list was never set.
ServeUndealt(p, i) ==
    /\ AtLoop(p) /\ thr[i][p] = "ask" /\ env[p] = Undealt /\ asg[i].keys[p] # {}
    /\ Dies(p)
    /\ UNCHANGED <<mishaps, trouble>>

\* Nobody waits for this answer: the writes are taken, or write() returns -1 for
\* ever.
ServeStale(p) ==
    /\ AtLoop(p) /\ env[p] # Undealt
    /\ \E i \in stale[p] : stale' = [stale EXCEPT ![p] = @ \ {i}]
    /\ \E end \in {"loop", "hung"} : job' = [job EXCEPT ![p] = end]
    /\ UNCHANGED <<dealVars, cur, asg, own, thr, ans, mishaps, waits, clientVars>>

ServeStaleUndealt(p) ==
    /\ AtLoop(p) /\ stale[p] # {} /\ env[p] = Undealt
    /\ Dies(p)
    /\ UNCHANGED <<mishaps, trouble>>

-----------------------------------------------------------------------------
Server(s) ==
    \/ TakeDeal(s) \/ Reply(s) \/ ServeStale(s) \/ ServeStaleUndealt(s)
    \/ \E c \in Clients : Begin(s, c) \/ BeginUndealt(s, c)
    \/ \E i \in Servers : Serve(s, i) \/ ServeUndealt(s, i)

Thread(i, p) == Connect(i, p) \/ NotConnected(i, p) \/ PeerGone(i, p) \/ RunsOut(i, p)

Client(c) == GiveUp(c) \/ ConnectionLost(c)

Progress ==
    \/ \E s \in Servers : Server(s)
    \/ \E i, p \in Servers : Thread(i, p)
    \/ \E c \in Clients : Client(c)

Next ==
    \/ Progress \/ StartDeal
    \/ \E s \in Servers : Crash(s) \/ Restart(s)
    \/ \E c \in Clients, m \in {"enc", "dec"}, s \in Addresses : Ask(c, m, s)

Spec == Init /\ [][Next]_vars

\* Event loops, threads and timers go on: as long as one of them can, one of them
\* does (which fairness of each of them implies).  Nobody has to ask, to deal, to
\* die or to be started again.
FairSpec == Spec /\ WF_vars(Progress)
-----------------------------------------------------------------------------
(* What can be said of the deployment as a whole.                          *)

Stuck(s) == job[s] = "hung" \/ \E p \in Servers : thr[s][p] = "spin"

\* Nobody is compromised, and a client is told of a compromised server only where, in
\* its own transaction, keys of two deals or of none have met, the ciphertext read was
\* not one made undisturbed with these keys, a partial result was lost in the QMap of
\* encryptWithKeyList (DISEServerUtil.cpp:120), a participant was not connected to, a
\* wait has run out, or a server has died (Client.cpp:175).  Transactions of others are
\* no reason by themselves.
AlarmHasReason == \A c \in Clients : outcome[c] = "alarm" => trouble[c] # {}

\* A result the client accepts was never made of answers that a thread has stopped
\* waiting for: the client's wait, begun before, has run out by then
\* (Client.cpp:98, DISEServer.cpp:693).
OkWithoutTimeout == \A c \in Clients : outcome[c] = "ok" => "timeout" \notin trouble[c]

\* Whoever waits for whom, every client is told something and every request comes
\* to an end: initiators that are each other's participants come apart
\* (DISEServer.cpp:370, 510); unless the server hangs, writing what nobody reads, or
\* joins a thread that loops on a connection that died.
RequestsEnd ==
    \A c \in Clients : phase[c] = "waiting" ~>
        /\ phase[c] = "over"
        /\ req[c] \in {"over", "lost"} \/ Stuck(order[c].at)

=============================================================================
