-------------------------- MODULE DiseSystemProofs --------------------------
(***************************************************************************)
(* Proofs about DiseSystem: type correctness, no alarm without a reason,   *)
(* no result accepted after a timeout; for any number of servers, keys,    *)
(* clients, runs of the Dealer and mishaps, and for any assignments.       *)
(***************************************************************************)
EXTENDS DiseSystem, FiniteSetTheorems, TLAPS

\* A ciphertext that was made undisturbed is that of all keys of one deal.
Genuine(given) == given.clean => given.deal \in Deals /\ given.seed = Whole(given.deal).seed

\* The client's side of a transaction and the server's go together.
Told(c) ==
    /\ phase[c] = "new" => req[c] = "none" /\ outcome[c] = "none"
    /\ phase[c] = "waiting" => outcome[c] = "none" /\ UnderWay(ClientWait(c))
    /\ req[c] = "none" => phase[c] # "waiting"
    /\ req[c] = "handled" => outcome[c] # "ok"
    /\ outcome[c] = "ok" => phase[c] = "over" /\ req[c] = "over"
    /\ "timeout" \in trouble[c] => phase[c] = "over" /\ outcome[c] # "ok"
    /\ order[c].mode = "dec" => Genuine(order[c].given)

ClientInv == \A c \in Clients : Told(c)

\* An initiator has one request, an environment and an assignment; threads run only in
\* an initiator and only for participants.
HasRequest(i) ==
    /\ job[i] # "initiating" => \A p \in Servers : thr[i][p] = "done"
    /\ job[i] = "initiating" =>
         /\ cur[i] \in Clients /\ req[cur[i]] = "handled" /\ order[cur[i]].at = i
         /\ env[i] \in Deals /\ asg[i] \in Assignments[i]
         /\ \A p \in Servers \ asg[i].participants : thr[i][p] = "done"

InitiatorInv == \A i \in Servers : HasRequest(i)

\* A client that still waits for a transaction has begun to wait before its threads.
BegunAfterClient(i, p) ==
    job[i] = "initiating" /\ thr[i][p] = "ask" /\ phase[cur[i]] = "waiting" =>
        <<ClientWait(cur[i]), ThreadWait(i, p)>> \in waits

WaitInv == \A i, p \in Servers : BegunAfterClient(i, p)

\* The participant p holds the initiator's keys as long as it is to be asked, and has
\* answered with them once it was.
OwnKeysOnly(i, p) ==
    /\ thr[i][p] \in {"connect", "ask"} => env[p] \in {env[i], Undealt}
    /\ thr[i][p] = "done" => ans[i][p] = {<<k, env[i]>> : k \in asg[i].keys[p]}
    /\ thr[i][p] # "spin"

\* A transaction that nothing has disturbed sees the keys of one deal only, and all of
\* its initiator's own.
Undisturbed(i) ==
    job[i] = "initiating" /\ trouble[cur[i]] = {} =>
        /\ own[i] = asg[i].keys[i]
        /\ order[cur[i]].mode = "dec" =>
             order[cur[i]].given.clean /\ order[cur[i]].given.deal = env[i]
        /\ \A p \in asg[i].participants : OwnKeysOnly(i, p)

UndisturbedInv == \A i \in Servers : Undisturbed(i)

\* encResult.txt is genuine.
FileInv == Genuine(file)

\* The inductive invariant.
SystemInv ==
    /\ TypeOK /\ ClientInv /\ InitiatorInv /\ WaitInv /\ UndisturbedInv /\ FileInv
    /\ AlarmHasReason

-----------------------------------------------------------------------------
(* Types.                                                                  *)

\* What IsAssignment says of a possible assignment.
LEMMA AssignmentType ==
    ASSUME NEW i \in Servers, NEW a \in Assignments[i]
    PROVE  /\ a.participants \subseteq Servers
           /\ a.keys \in [Servers -> SUBSET Keys]
           /\ UNION {a.keys[s] : s \in Servers} = Keys
           /\ \A s \in Servers : s \notin a.participants \cup {i} => a.keys[s] = {}
           /\ \A s \in a.participants : a.keys[s] \cap a.keys[i] = {}
<1>1. a.machine = i /\ IsAssignment(a) /\ UsesAllKeys(a)
  BY SystemAssumption DEF Assignments, MayChoose
<1>2. UNION {a.keys[s] : s \in Servers} = Keys
  <2>1. UNION {a.keys[s] : s \in a.participants \cup {i}} = Keys
    BY <1>1 DEF UsesAllKeys
  <2>2. a.participants \cup {i} \subseteq Servers /\ \A s \in Servers : a.keys[s] \in SUBSET Keys
    BY <1>1 DEF IsAssignment
  <2> QED
    BY <2>1, <2>2
<1> QED
  BY <1>1, <1>2 DEF IsAssignment

\* What is assumed of the numbers.
LEMMA Numbers ==
    /\ KeyCount \in Nat \ {0} /\ MaxEvents \in Nat
    /\ FirstEnvs \subseteq [Servers -> {Undealt, 0}]
    /\ Servers \subseteq Nat /\ Addresses \subseteq Servers /\ Mortal \subseteq Servers
    /\ Clients \subseteq Nat
  BY SystemAssumption

\* The types hold at the start.
LEMMA TypeInit == Init => TypeOK
<1> SUFFICES ASSUME Init PROVE TypeOK
  OBVIOUS
<1> USE Numbers DEF Init
<1>1. NoFile \in Files /\ Whole(0) \in Files
  BY DEF NoFile, Whole, NoKeys, Files, Seeds, Deals
<1>2. file \in Files /\ NoOrder \in Orders
  BY <1>1 DEF NoOrder, Orders
<1>3. env \in [Servers -> Deals \cup {Undealt}]
  BY DEF Deals
<1> QED
  BY <1>2, <1>3 DEF TypeOK, Deals, JobStates, ThreadStates, RequestStates, Outcomes

\* The waits that begin and end are waits.
LEMMA WaitsType ==
    ASSUME waits \subseteq Waits \X Waits,
           (\E w \in Waits : Starts(w)) \/ (\E ws \in SUBSET Waits : Ends(ws))
    PROVE  waits' \subseteq Waits \X Waits
  BY DEF Starts, Ends

\* A transaction that is disturbed is disturbed by one of the Troubles.
LEMMA DisturbedType ==
    ASSUME TypeOK, NEW cs, NEW what \in Troubles, Disturbed(cs, what)
    PROVE  trouble' \in [Clients -> SUBSET Troubles]
  BY DEF TypeOK, Disturbed

\* What is kept of an initiator's own keys are keys.
LEMMA KeptType ==
    \A i \in Servers : \A a \in Assignments[i] : Kept(a.keys[i]) \subseteq SUBSET Keys
<1> SUFFICES ASSUME NEW i \in Servers, NEW a \in Assignments[i]
             PROVE  Kept(a.keys[i]) \subseteq SUBSET Keys
  OBVIOUS
<1>1. a.keys \in [Servers -> SUBSET Keys]
  BY AssignmentType
<1>2. a.keys[i] \subseteq Keys
  BY <1>1
<1> QED
  BY <1>2 DEF Kept

\* The assignment that is drawn, and the keys of which there are results.
LEMMA Begun ==
    ASSUME NEW i \in Servers, NEW c \in Clients, Begin(i, c)
    PROVE  \E a \in Assignments[i], kept \in SUBSET Keys :
          /\ kept \in Kept(a.keys[i])
          /\ asg' = [asg EXCEPT ![i] = a] /\ own' = [own EXCEPT ![i] = kept]
          /\ IF kept = a.keys[i] THEN UNCHANGED mishaps ELSE Mishap
          /\ thr' = [thr EXCEPT ![i] =
                       [p \in Servers |-> IF p \in a.participants THEN "connect" ELSE "done"]]
          /\ trouble' = [trouble EXCEPT ![c] = @ \cup TroubleAtBegin(i, c, a, kept)]
<1>1. PICK a \in Assignments[i] : \E kept \in Kept(a.keys[i]) :
          /\ asg' = [asg EXCEPT ![i] = a] /\ own' = [own EXCEPT ![i] = kept]
          /\ IF kept = a.keys[i] THEN UNCHANGED mishaps ELSE Mishap
          /\ thr' = [thr EXCEPT ![i] =
                       [p \in Servers |-> IF p \in a.participants THEN "connect" ELSE "done"]]
          /\ trouble' = [trouble EXCEPT ![c] = @ \cup TroubleAtBegin(i, c, a, kept)]
  BY DEF Begin
<1>2. Kept(a.keys[i]) \subseteq SUBSET Keys
  BY KeptType
<1> QED
  BY <1>1, <1>2

\* Another mishap stays within the bound.
LEMMA MishapType == TypeOK /\ Mishap => mishaps' \in 0..MaxEvents
  BY Numbers DEF TypeOK, Mishap, Deals

\* What is parsed are results, and all of a whole answer.
LEMMA ParsedType ==
    ASSUME NEW results \in SUBSET Results, NEW keys
    PROVE  Parsed(results, keys) \in SUBSET Results
<1>1. <<0, Zeros>> \in Results
  BY Numbers DEF Results, Keys
<1> QED
  BY <1>1 DEF Parsed

LEMMA ParsedWhole ==
    ASSUME NEW keys, NEW d
    PROVE  Parsed({<<k, d>> : k \in keys}, keys) = {<<k, d>> : k \in keys}
<1>1. {r[1] : r \in {<<k, d>> : k \in keys}} = keys
  <2>1. ASSUME NEW k \in keys PROVE k \in {r[1] : r \in {<<j, d>> : j \in keys}}
    <3>1. <<k, d>> \in {<<j, d>> : j \in keys} /\ <<k, d>>[1] = k
      OBVIOUS
    <3> QED
      BY <3>1
  <2> QED
    BY <2>1
<1> QED
  BY <1>1 DEF Parsed

\* An answer lacks keys only if that is entered in the trouble of its client; what is
\* parsed of a whole one is all of it.
LEMMA Served ==
    ASSUME TypeOK, NEW p \in Servers, NEW i \in Servers, Serve(p, i)
    PROVE  /\ mishaps' \in 0..MaxEvents
           /\ \E new \in SUBSET Results : ans' = [ans EXCEPT ![i][p] = new]
           /\ \/ /\ UNCHANGED trouble
                 /\ ans' = [ans EXCEPT ![i][p] = {<<k, env[p]>> : k \in asg[i].keys[p]}]
              \/ Disturbed({cur[i]}, "insert")
<1>1. PICK kept \in Kept(asg[i].keys[p]) :
        /\ ans' = [ans EXCEPT ![i][p] = Parsed({<<k, env[p]>> : k \in kept}, asg[i].keys[p])]
        /\ IF kept = asg[i].keys[p] THEN UNCHANGED <<mishaps, trouble>>
                                   ELSE Mishap /\ Disturbed({cur[i]}, "insert")
  BY DEF Serve
<1>2. mishaps' \in 0..MaxEvents
  BY <1>1, MishapType DEF TypeOK
<1>3. asg[i].keys[p] \subseteq Keys
  BY AssignmentType DEF TypeOK, NoAssignment
<1>4. kept \subseteq asg[i].keys[p] /\ (env[p] \in Deals \/ kept = {})
  BY <1>1 DEF Serve, Kept, TypeOK
<1>5. {<<k, env[p]>> : k \in kept} \in SUBSET Results
  BY <1>3, <1>4 DEF Results
<1>6. Parsed({<<k, env[p]>> : k \in kept}, asg[i].keys[p]) \in SUBSET Results
  BY <1>5, ParsedType
<1>7. kept = asg[i].keys[p] =>
        Parsed({<<k, env[p]>> : k \in kept}, asg[i].keys[p])
          = {<<k, env[p]>> : k \in asg[i].keys[p]}
  BY ParsedWhole
<1>8. \E new \in SUBSET Results : ans' = [ans EXCEPT ![i][p] = new]
  BY <1>1, <1>6
<1>9. \/ /\ UNCHANGED trouble
         /\ ans' = [ans EXCEPT ![i][p] = {<<k, env[p]>> : k \in asg[i].keys[p]}]
      \/ Disturbed({cur[i]}, "insert")
  BY <1>1, <1>7
<1> QED
  BY <1>2, <1>8, <1>9

\* A thread that is not connected leaves a trace.
LEMMA NotConnectedTold ==
    ASSUME TypeOK, NEW i \in Servers, NEW p \in Servers, NotConnected(i, p)
    PROVE  /\ mishaps' \in 0..MaxEvents
           /\ \E what \in Troubles : Disturbed({cur[i]}, what)
  BY MishapType DEF NotConnected, Troubles, TypeOK

\* What the death of a server leaves is of the right type.
LEMMA DiesType ==
    ASSUME TypeOK, NEW s \in Servers, Dies(s), mishaps' \in 0..MaxEvents,
           trouble' \in [Clients -> SUBSET Troubles]
    PROVE  TypeOK'
<1> USE Numbers DEF TypeOK
<1>1. /\ job' \in [Servers -> JobStates]
      /\ env' \in [Servers -> Deals \cup {Undealt}]
      /\ block' \in [Servers -> SUBSET Deals]
      /\ cur' \in [Servers -> Clients \cup {Nobody}]
  BY DEF Dies, JobStates
<1>2. /\ DOMAIN asg' = Servers
      /\ \A i \in Servers : asg'[i] \in Assignments[i] \cup {NoAssignment(i)}
  BY DEF Dies
<1>3. thr' \in [Servers -> [Servers -> ThreadStates]]
  BY DEF Dies, ThreadStates
<1>4. ans' \in [Servers -> [Servers -> SUBSET Results]] /\ own' \in [Servers -> SUBSET Keys]
  BY DEF Dies
<1>5. stale' \in [Servers -> SUBSET Servers]
  BY DEF Dies
<1>6. req' \in [Clients -> RequestStates]
  BY DEF Dies, RequestStates
<1>7. waits' \subseteq Waits \X Waits
  BY DEF Dies, Ends
<1>8. UNCHANGED <<deal, phase, order, outcome, file>>
  BY DEF Dies
<1> QED
  BY <1>1, <1>2, <1>3, <1>4, <1>5, <1>6, <1>7, <1>8

\* The XOR of what an initiator that was dealt to has received is a seed.
LEMMA SeedType ==
    ASSUME TypeOK, NEW i \in Servers, env[i] \in Deals
    PROVE  Seed(i) \in Seeds
<1> DEFINE mine   == {<<env[i], k>> : k \in own[i]}
           others == {v \in Received(i) : v[2] # Zeros}
<1>1. own[i] \subseteq Keys /\ asg[i].participants \subseteq Servers
  BY AssignmentType DEF TypeOK, NoAssignment
<1>2. mine \subseteq Deals \X Keys
  BY <1>1
<1>3. others \subseteq Keys \X Deals
  <2> SUFFICES ASSUME NEW v \in Received(i), v[2] # Zeros PROVE v \in Keys \X Deals
    OBVIOUS
  <2>1. PICK p \in asg[i].participants : v \in ans[i][p]
    BY DEF Received
  <2>2. p \in Servers
    BY <1>1
  <2>3. v \in Results
    BY <2>1, <2>2 DEF TypeOK
  <2> QED
    BY <2>3 DEF Results
<1>4. IsFiniteSet(Keys) /\ IsFiniteSet(Deals)
  BY Numbers, FS_Interval DEF Keys, Deals
<1>5. IsFiniteSet(Deals \X Keys) /\ IsFiniteSet(Keys \X Deals)
  BY <1>4, FS_Product
<1> HIDE DEF mine, others
<1>6. Cardinality(mine) \in Nat /\ Cardinality(others) \in Nat
  BY <1>2, <1>3, <1>5, FS_Subset, FS_CardinalityType
<1>7. (Cardinality(mine) + Cardinality(others)) % 2 \in 0..1
  BY <1>6
<1>8. \A v \in others : <<v[2], v[1]>> \in Deals \X Keys
  BY <1>3
<1>9. [streams |-> mine \cup {<<v[2], v[1]>> : v \in others},
       parity  |-> (Cardinality(mine) + Cardinality(others)) % 2] \in Seeds
  BY <1>2, <1>7, <1>8 DEF Seeds
<1> QED
  BY <1>9 DEF Seed, mine, others

\* Every step keeps the types; Reply needs to know that an initiator was dealt to.
LEMMA TypeStep == TypeOK /\ InitiatorInv /\ [Next]_vars => TypeOK'
<1> SUFFICES ASSUME TypeOK, InitiatorInv, [Next]_vars PROVE TypeOK'
  OBVIOUS
<1> USE Numbers DEF TypeOK
<1> USE DEF dealVars, serverVars, clientVars
<1>1. CASE StartDeal
  <2>1. deal' \in Deals
    BY <1>1 DEF StartDeal, Deals
  <2>2. block' \in [Servers -> SUBSET Deals]
    BY <1>1, <2>1 DEF StartDeal
  <2> QED
    BY <1>1, <2>1, <2>2 DEF StartDeal
<1>2. ASSUME NEW c \in Clients, NEW m \in {"enc", "dec"}, NEW s \in Addresses, Ask(c, m, s)
      PROVE TypeOK'
  <2>1. order' \in [Clients -> Orders]
    <3>1. NoFile \in Files /\ Damaged \in Files
      BY DEF NoFile, NoKeys, Damaged, Files, Seeds
    <3>2. PICK given \in {file, Damaged, NoFile} :
            order' = [order EXCEPT ![c] = [mode |-> m, at |-> s, given |-> given]]
      BY <1>2 DEF Ask
    <3>3. [mode |-> m, at |-> s, given |-> given] \in Orders
      BY <3>1 DEF Orders
    <3> QED
      BY <3>2, <3>3
  <2>2. outcome' \in [Clients -> Outcomes]
    BY <1>2 DEF Ask, Outcomes
  <2>3. req' \in [Clients -> RequestStates]
    BY <1>2 DEF Ask, RequestStates
  <2>4. phase' \in [Clients -> {"new", "waiting", "over"}]
    BY <1>2 DEF Ask
  <2>5. waits' \subseteq Waits \X Waits
    BY <1>2, WaitsType DEF Ask, Waits, ClientWait
  <2>6. mishaps' \in 0..MaxEvents
    BY <1>2, MishapType DEF Ask, Reads
  <2> QED
    BY <1>2, <2>1, <2>2, <2>3, <2>4, <2>5, <2>6 DEF Ask
<1>3. ASSUME NEW s \in Servers, Crash(s) PROVE TypeOK'
  <2>1. mishaps' \in 0..MaxEvents /\ trouble' \in [Clients -> SUBSET Troubles]
    BY <1>3, MishapType DEF Crash
  <2>2. Dies(s)
    BY <1>3 DEF Crash
  <2> QED
    BY <2>1, <2>2, DiesType
<1>4. ASSUME NEW s \in Servers, Restart(s) PROVE TypeOK'
  BY <1>4 DEF Restart, JobStates
<1>5. ASSUME NEW s \in Servers, TakeDeal(s) PROVE TypeOK'
  <2>1. trouble' \in [Clients -> SUBSET Troubles]
    BY <1>5, DisturbedType DEF TakeDeal, Troubles
  <2>2. env' \in [Servers -> Deals \cup {Undealt}] /\ block' \in [Servers -> SUBSET Deals]
    BY <1>5 DEF TakeDeal
  <2> QED
    BY <1>5, <2>1, <2>2 DEF TakeDeal
<1>6. ASSUME NEW s \in Servers, ServeStale(s) PROVE TypeOK'
  BY <1>6 DEF ServeStale, JobStates
<1>7. ASSUME NEW c \in Clients, GiveUp(c) PROVE TypeOK'
  <2>1. trouble' \in [Clients -> SUBSET Troubles]
    BY <1>7, DisturbedType DEF GiveUp, Troubles
  <2>2. waits' \subseteq Waits \X Waits
    BY <1>7 DEF GiveUp, Ends
  <2> QED
    BY <1>7, <2>1, <2>2 DEF GiveUp, Outcomes
<1>8. ASSUME NEW c \in Clients, ConnectionLost(c) PROVE TypeOK'
  <2>1. trouble' \in [Clients -> SUBSET Troubles]
    BY <1>8, DisturbedType DEF ConnectionLost, Troubles
  <2>2. waits' \subseteq Waits \X Waits
    BY <1>8 DEF ConnectionLost, Ends
  <2> QED
    BY <1>8, <2>1, <2>2 DEF ConnectionLost, Outcomes
<1>9. ASSUME NEW i \in Servers, NEW c \in Clients, Begin(i, c) PROVE TypeOK'
  <2>1. PICK a \in Assignments[i], kept \in SUBSET Keys :
          /\ kept \in Kept(a.keys[i])
          /\ asg' = [asg EXCEPT ![i] = a] /\ own' = [own EXCEPT ![i] = kept]
          /\ IF kept = a.keys[i] THEN UNCHANGED mishaps ELSE Mishap
          /\ thr' = [thr EXCEPT ![i] =
                       [p \in Servers |-> IF p \in a.participants THEN "connect" ELSE "done"]]
          /\ trouble' = [trouble EXCEPT ![c] = @ \cup TroubleAtBegin(i, c, a, kept)]
    BY <1>9, Begun
  <2>2. /\ DOMAIN asg' = Servers
        /\ \A s \in Servers : asg'[s] \in Assignments[s] \cup {NoAssignment(s)}
    BY <2>1
  <2>3. thr' \in [Servers -> [Servers -> ThreadStates]]
    BY <2>1 DEF ThreadStates
  <2>4. ans' \in [Servers -> [Servers -> SUBSET Results]]
    BY <1>9 DEF Begin
  <2>5. trouble' \in [Clients -> SUBSET Troubles]
    <3>1. TroubleAtBegin(i, c, a, kept) \subseteq Troubles
      BY DEF TroubleAtBegin
    <3> QED
      BY <2>1, <3>1
  <2>6. /\ req' \in [Clients -> RequestStates]
        /\ job' \in [Servers -> JobStates]
        /\ cur' \in [Servers -> Clients \cup {Nobody}]
    BY <1>9 DEF Begin, RequestStates, JobStates
  <2>7. own' \in [Servers -> SUBSET Keys]
    BY <2>1
  <2>8. mishaps' \in 0..MaxEvents
    BY <2>1, MishapType
  <2> QED
    BY <1>9, <2>2, <2>3, <2>4, <2>5, <2>6, <2>7, <2>8 DEF Begin
<1>10. ASSUME NEW i \in Servers, NEW c \in Clients, BeginUndealt(i, c) PROVE TypeOK'
  <2>1. trouble' \in [Clients -> SUBSET Troubles]
    BY <1>10, DisturbedType DEF BeginUndealt, Troubles
  <2>2. CASE Dies(i) /\ UNCHANGED mishaps
    BY <2>1, <2>2, DiesType
  <2>3. CASE /\ Answer(c, order[c].mode = "dec" => order[c].given.seed = NoKeys,
                       NoKeys, Undealt, {"undealt"})
             /\ UNCHANGED <<dealVars, serverVars, mishaps, order>>
    <3>1. [seed |-> NoKeys, deal |-> Undealt, clean |-> {"undealt"} = {}, there |-> TRUE] \in Files
      BY DEF Files, Seeds, NoKeys
    <3>2. file' \in Files
      BY <2>3, <3>1 DEF Answer
    <3>3. waits' \subseteq Waits \X Waits
      BY <2>3 DEF Answer, Ends
    <3>4. /\ phase' \in [Clients -> {"new", "waiting", "over"}]
          /\ req' \in [Clients -> RequestStates]
          /\ outcome' \in [Clients -> Outcomes]
      BY <2>3 DEF Answer, RequestStates, Outcomes
    <3> QED
      BY <2>1, <2>3, <3>2, <3>3, <3>4
  <2> QED
    BY <1>10, <2>2, <2>3 DEF BeginUndealt
<1>11. ASSUME NEW i \in Servers, NEW p \in Servers, Connect(i, p) PROVE TypeOK'
  <2>1. waits' \subseteq Waits \X Waits
    BY <1>11 DEF Connect, Starts, Waits, ThreadWait
  <2>2. thr' \in [Servers -> [Servers -> ThreadStates]]
    BY <1>11 DEF Connect, ThreadStates
  <2> QED
    BY <1>11, <2>1, <2>2 DEF Connect
<1>12. ASSUME NEW i \in Servers, NEW p \in Servers, NotConnected(i, p) PROVE TypeOK'
  <2>1. trouble' \in [Clients -> SUBSET Troubles]
    BY <1>12, NotConnectedTold, DisturbedType
  <2>2. thr' \in [Servers -> [Servers -> ThreadStates]]
    BY <1>12 DEF NotConnected, ThreadStates
  <2>3. mishaps' \in 0..MaxEvents
    BY <1>12, NotConnectedTold
  <2> QED
    BY <1>12, <2>1, <2>2, <2>3 DEF NotConnected
<1>13. ASSUME NEW i \in Servers, NEW p \in Servers, PeerGone(i, p) PROVE TypeOK'
  <2>1. trouble' \in [Clients -> SUBSET Troubles]
    BY <1>13, DisturbedType DEF PeerGone, Troubles
  <2>2. thr' \in [Servers -> [Servers -> ThreadStates]]
    <3>1. PICK end \in ThreadStates : thr' = [thr EXCEPT ![i][p] = end]
      BY <1>13 DEF PeerGone, ThreadStates
    <3> QED
      BY <3>1
  <2>3. ans' \in [Servers -> [Servers -> SUBSET Results]]
    <3>1. Parsed({}, asg[i].keys[p]) \in SUBSET Results
      BY ParsedType
    <3> QED
      BY <1>13, <3>1 DEF PeerGone
  <2> QED
    BY <1>13, <2>1, <2>2, <2>3 DEF PeerGone
<1>14. ASSUME NEW i \in Servers, NEW p \in Servers, RunsOut(i, p) PROVE TypeOK'
  <2>1. trouble' \in [Clients -> SUBSET Troubles]
    BY <1>14, DisturbedType DEF RunsOut, Troubles
  <2>2. thr' \in [Servers -> [Servers -> ThreadStates]]
    BY <1>14 DEF RunsOut, ThreadStates
  <2>3. ans' \in [Servers -> [Servers -> SUBSET Results]]
    <3>1. Parsed({}, asg[i].keys[p]) \in SUBSET Results
      BY ParsedType
    <3> QED
      BY <1>14, <3>1 DEF RunsOut
  <2>4. waits' \subseteq Waits \X Waits
    BY <1>14 DEF RunsOut, Ends
  <2>5. stale' \in [Servers -> SUBSET Servers]
    BY <1>14 DEF RunsOut
  <2> QED
    BY <1>14, <2>1, <2>2, <2>3, <2>4, <2>5 DEF RunsOut
<1>15. ASSUME NEW p \in Servers, NEW i \in Servers, Serve(p, i) PROVE TypeOK'
  <2>0. /\ mishaps' \in 0..MaxEvents
        /\ \E new \in SUBSET Results : ans' = [ans EXCEPT ![i][p] = new]
        /\ \/ /\ UNCHANGED trouble
              /\ ans' = [ans EXCEPT ![i][p] = {<<k, env[p]>> : k \in asg[i].keys[p]}]
           \/ Disturbed({cur[i]}, "insert")
    BY <1>15, Served
  <2>1. thr' \in [Servers -> [Servers -> ThreadStates]]
    BY <1>15 DEF Serve, ThreadStates
  <2>2. ans' \in [Servers -> [Servers -> SUBSET Results]]
    <3>1. PICK new \in SUBSET Results : ans' = [ans EXCEPT ![i][p] = new]
      BY <2>0
    <3> QED
      BY <3>1
  <2>3. waits' \subseteq Waits \X Waits
    BY <1>15 DEF Serve, Ends
  <2>4. trouble' \in [Clients -> SUBSET Troubles]
    <3>1. UNCHANGED trouble \/ Disturbed({cur[i]}, "insert")
      BY <2>0
    <3>2. "insert" \in Troubles
      BY DEF Troubles
    <3> QED
      BY <3>1, <3>2, DisturbedType
  <2>5. mishaps' \in 0..MaxEvents
    BY <2>0
  <2> QED
    BY <1>15, <2>1, <2>2, <2>3, <2>4, <2>5 DEF Serve
<1>16. ASSUME NEW p \in Servers, NEW i \in Servers, ServeUndealt(p, i) PROVE TypeOK'
  BY <1>16, DiesType DEF ServeUndealt
<1>17. ASSUME NEW p \in Servers, ServeStaleUndealt(p) PROVE TypeOK'
  BY <1>17, DiesType DEF ServeStaleUndealt
<1>18. ASSUME NEW i \in Servers, Reply(i) PROVE TypeOK'
  <2> DEFINE c == cur[i]
  <2>1. c \in Clients /\ env[i] \in Deals
    BY <1>18 DEF Reply, InitiatorInv, HasRequest
  <2>2. PICK ok : Answer(c, ok, Seed(i), env[i], trouble[c])
    BY <1>18 DEF Reply
  <2>3. Seed(i) \in Seeds
    BY <2>1, SeedType
  <2>4. file' \in Files
    BY <2>1, <2>2, <2>3 DEF Answer, Files
  <2>5. waits' \subseteq Waits \X Waits
    BY <2>2 DEF Answer, Ends
  <2>6. /\ phase' \in [Clients -> {"new", "waiting", "over"}]
        /\ req' \in [Clients -> RequestStates]
        /\ outcome' \in [Clients -> Outcomes]
    BY <2>1, <2>2 DEF Answer, RequestStates, Outcomes
  <2>7. job' \in [Servers -> JobStates] /\ cur' \in [Servers -> Clients \cup {Nobody}]
    BY <1>18 DEF Reply, JobStates
  <2> QED
    BY <1>18, <2>4, <2>5, <2>6, <2>7 DEF Reply
<1>19. CASE UNCHANGED vars
  BY <1>19 DEF vars
<1> QED
  BY <1>1, <1>2, <1>3, <1>4, <1>5, <1>6, <1>7, <1>8, <1>9, <1>10, <1>11, <1>12, <1>13,
     <1>14, <1>15, <1>16, <1>17, <1>18, <1>19
     DEF Next, Progress, Server, Thread, Client

\* Every step keeps InitiatorInv: nobody else ends a transaction, and a server that is
\* not in its event loop takes no block of keys (DISEServer.cpp:370, 510).
LEMMA InitiatorStep ==
    ASSUME TypeOK, ClientInv, InitiatorInv, [Next]_vars
    PROVE  InitiatorInv'
<1> SUFFICES ASSUME NEW i \in Servers PROVE HasRequest(i)'
  BY DEF InitiatorInv
<1> USE Numbers DEF TypeOK, HasRequest, dealVars, serverVars, clientVars
<1>0. HasRequest(i)
  BY DEF InitiatorInv
<1>1. CASE StartDeal
  BY <1>1, <1>0 DEF StartDeal
<1>2. ASSUME NEW c \in Clients, NEW m \in {"enc", "dec"}, NEW a \in Addresses, Ask(c, m, a)
      PROVE  HasRequest(i)'
  <2>1. req[c] = "none" /\ order \in [Clients -> Orders]
    BY <1>2 DEF Ask, ClientInv, Told
  <2>2. \A b \in Clients : b # c => req'[b] = req[b] /\ order'[b] = order[b]
    BY <1>2 DEF Ask
  <2>3. UNCHANGED <<job, cur, env, asg, thr>>
    BY <1>2 DEF Ask
  <2> QED
    BY <1>0, <2>1, <2>2, <2>3
<1>3. ASSUME NEW s \in Servers, Crash(s)
      PROVE  HasRequest(i)'
  BY <1>3, <1>0 DEF Crash, Dies
<1>4. ASSUME NEW s \in Servers, Restart(s)
      PROVE  HasRequest(i)'
  BY <1>4, <1>0 DEF Restart
<1>5. ASSUME NEW s \in Servers, TakeDeal(s)
      PROVE  HasRequest(i)'
  BY <1>5, <1>0 DEF TakeDeal, AtLoop
<1>6. ASSUME NEW s \in Servers, ServeStale(s)
      PROVE  HasRequest(i)'
  BY <1>6, <1>0 DEF ServeStale, AtLoop
<1>7. ASSUME NEW c \in Clients, GiveUp(c)
      PROVE  HasRequest(i)'
  BY <1>7, <1>0 DEF GiveUp
<1>8. ASSUME NEW c \in Clients, ConnectionLost(c)
      PROVE  HasRequest(i)'
  BY <1>8, <1>0 DEF ConnectionLost
<1>9. ASSUME NEW j \in Servers, NEW c \in Clients, Begin(j, c)
      PROVE  HasRequest(i)'
  BY <1>9, <1>0 DEF Begin, AtLoop
<1>10. ASSUME NEW j \in Servers, NEW c \in Clients, BeginUndealt(j, c)
      PROVE  HasRequest(i)'
  <2>1. CASE Dies(j)
    BY <1>10, <1>0, <2>1 DEF BeginUndealt, Dies
  <2>2. CASE req' = [req EXCEPT ![c] = "over"] /\ UNCHANGED <<dealVars, serverVars, order>>
    BY <1>10, <1>0, <2>2 DEF BeginUndealt
  <2> QED
    BY <1>10, <2>1, <2>2 DEF BeginUndealt, Answer
<1>11. ASSUME NEW j \in Servers, NEW q \in Servers, Connect(j, q)
      PROVE  HasRequest(i)'
  BY <1>11, <1>0 DEF Connect
<1>12. ASSUME NEW j \in Servers, NEW q \in Servers, NotConnected(j, q)
      PROVE  HasRequest(i)'
  BY <1>12, <1>0 DEF NotConnected
<1>13. ASSUME NEW j \in Servers, NEW q \in Servers, PeerGone(j, q)
      PROVE  HasRequest(i)'
  BY <1>13, <1>0 DEF PeerGone
<1>14. ASSUME NEW j \in Servers, NEW q \in Servers, RunsOut(j, q)
      PROVE  HasRequest(i)'
  BY <1>14, <1>0 DEF RunsOut, AtLoop
<1>15. ASSUME NEW q \in Servers, NEW j \in Servers, Serve(q, j)
      PROVE  HasRequest(i)'
  BY <1>15, <1>0 DEF Serve, AtLoop
<1>16. ASSUME NEW q \in Servers, NEW j \in Servers, ServeUndealt(q, j)
      PROVE  HasRequest(i)'
  BY <1>16, <1>0 DEF ServeUndealt, Dies
<1>17. ASSUME NEW s \in Servers, ServeStaleUndealt(s)
      PROVE  HasRequest(i)'
  BY <1>17, <1>0 DEF ServeStaleUndealt, Dies
<1>18. ASSUME NEW j \in Servers, Reply(j)
      PROVE  HasRequest(i)'
  <2>1. HasRequest(j) /\ job[j] = "initiating" /\ AllEnded(j)
    BY <1>18 DEF InitiatorInv, Reply
  <2>2. req' = [req EXCEPT ![cur[j]] = "over"]
    BY <1>18 DEF Reply, Answer
  <2>3. /\ job' = [job EXCEPT ![j] = "loop"] /\ cur' = [cur EXCEPT ![j] = Nobody]
        /\ UNCHANGED <<env, asg, thr, order>>
    BY <1>18 DEF Reply
  <2> QED
    BY <1>0, <2>1, <2>2, <2>3 DEF AllEnded
<1>19. CASE UNCHANGED vars
  BY <1>19, <1>0 DEF vars
<1> QED
  BY <1>1, <1>2, <1>3, <1>4, <1>5, <1>6, <1>7, <1>8, <1>9, <1>10,
     <1>11, <1>12, <1>13, <1>14, <1>15, <1>16, <1>17, <1>18, <1>19
     DEF Next, Progress, Server, Thread, Client

\* Every step keeps ClientInv.  A thread's wait can run out only when its client's has
\* (WaitInv), so a timeout never meets a client that is still to be told.
LEMMA ClientStep ==
    ASSUME TypeOK, ClientInv, InitiatorInv, WaitInv, FileInv, [Next]_vars
    PROVE  ClientInv'
<1> SUFFICES ASSUME NEW b \in Clients PROVE Told(b)'
  BY DEF ClientInv
<1> USE Numbers DEF TypeOK, Told, dealVars, serverVars, clientVars, UnderWay, ClientWait
<1>0. Told(b)
  BY DEF ClientInv
<1>1. CASE StartDeal
  BY <1>1, <1>0 DEF StartDeal
<1>2. ASSUME NEW c \in Clients, NEW m \in {"enc", "dec"}, NEW a \in Addresses, Ask(c, m, a)
      PROVE  Told(b)'
  <2>1. PICK given \in {file, Damaged, NoFile} :
          /\ order' = [order EXCEPT ![c] = [mode |-> m, at |-> a, given |-> given]]
          /\ IF m = "dec" THEN Reads(given) ELSE given = NoFile /\ UNCHANGED mishaps
    BY <1>2 DEF Ask
  <2>2. Genuine(given)
    <3>1. ~Damaged.clean /\ ~NoFile.clean
      BY DEF Damaged, NoFile
    <3> QED
      BY <3>1 DEF FileInv, Genuine
  <2>3. order'[b].mode = "dec" => Genuine(order'[b].given)
    BY <1>0, <2>1, <2>2
  <2> QED
    BY <1>2, <1>0, <2>3 DEF Ask, Starts
<1>3. ASSUME NEW s \in Servers, Crash(s)
      PROVE  Told(b)'
  BY <1>3, <1>0 DEF Crash, Dies, Ends, ThreadWait, Nobody
<1>4. ASSUME NEW s \in Servers, Restart(s)
      PROVE  Told(b)'
  BY <1>4, <1>0 DEF Restart
<1>5. ASSUME NEW s \in Servers, TakeDeal(s)
      PROVE  Told(b)'
  BY <1>5, <1>0 DEF TakeDeal, Disturbed
<1>6. ASSUME NEW s \in Servers, ServeStale(s)
      PROVE  Told(b)'
  BY <1>6, <1>0 DEF ServeStale
<1>7. ASSUME NEW c \in Clients, GiveUp(c)
      PROVE  Told(b)'
  BY <1>7, <1>0 DEF GiveUp, Disturbed, Ends
<1>8. ASSUME NEW c \in Clients, ConnectionLost(c)
      PROVE  Told(b)'
  BY <1>8, <1>0 DEF ConnectionLost, Disturbed, Ends
<1>9. ASSUME NEW j \in Servers, NEW c \in Clients, Begin(j, c)
      PROVE  Told(b)'
  <2>1. PICK a \in Assignments[j], kept \in SUBSET Keys :
          /\ kept \in Kept(a.keys[j])
          /\ asg' = [asg EXCEPT ![j] = a] /\ own' = [own EXCEPT ![j] = kept]
          /\ IF kept = a.keys[j] THEN UNCHANGED mishaps ELSE Mishap
          /\ thr' = [thr EXCEPT ![j] =
                       [p \in Servers |-> IF p \in a.participants THEN "connect" ELSE "done"]]
          /\ trouble' = [trouble EXCEPT ![c] = @ \cup TroubleAtBegin(j, c, a, kept)]
    BY <1>9, Begun
  <2>2. "timeout" \in trouble'[b] => "timeout" \in trouble[b]
    BY <2>1 DEF TroubleAtBegin
  <2> QED
    BY <1>9, <1>0, <2>2 DEF Begin
<1>10. ASSUME NEW j \in Servers, NEW c \in Clients, BeginUndealt(j, c)
      PROVE  Told(b)'
  <2>1. /\ trouble' = [trouble EXCEPT ![c] = @ \cup {"undealt"}]
        /\ req[c] = "queued"
    BY <1>10 DEF BeginUndealt, Disturbed
  <2>2. CASE Dies(j)
    BY <1>0, <2>1, <2>2 DEF Dies, Ends, ThreadWait, Nobody
  <2>3. CASE Answer(c, order[c].mode = "dec" => order[c].given.seed = NoKeys,
                    NoKeys, Undealt, {"undealt"}) /\ UNCHANGED order
    BY <1>0, <2>1, <2>3 DEF Answer, Ends
  <2> QED
    BY <1>10, <2>2, <2>3 DEF BeginUndealt
<1>11. ASSUME NEW j \in Servers, NEW q \in Servers, Connect(j, q)
      PROVE  Told(b)'
  BY <1>11, <1>0 DEF Connect, Starts
<1>12. ASSUME NEW j \in Servers, NEW q \in Servers, NotConnected(j, q)
      PROVE  Told(b)'
  <2>1. PICK what \in {"death", "refused"} : Disturbed({cur[j]}, what)
    BY <1>12 DEF NotConnected
  <2>2. UNCHANGED <<phase, order, req, outcome, waits>>
    BY <1>12 DEF NotConnected
  <2>3. "timeout" \in trouble'[b] => "timeout" \in trouble[b]
    BY <2>1 DEF Disturbed
  <2> QED
    BY <1>0, <2>2, <2>3
<1>13. ASSUME NEW j \in Servers, NEW q \in Servers, PeerGone(j, q)
      PROVE  Told(b)'
  BY <1>13, <1>0 DEF PeerGone, Disturbed
<1>14. ASSUME NEW j \in Servers, NEW q \in Servers, RunsOut(j, q)
      PROVE  Told(b)'
  <2>1. /\ job[j] = "initiating" /\ cur[j] \in Clients /\ req[cur[j]] = "handled"
        /\ thr[j][q] = "ask"
    BY <1>14 DEF RunsOut, InitiatorInv, HasRequest
  <2>2. ThreadWait(j, q) # ClientWait(cur[j]) /\ ClientWait(cur[j]) \in Waits
    BY <2>1 DEF ThreadWait, Nobody, Waits
  <2>3. phase[cur[j]] # "waiting"
    BY <1>14, <2>1, <2>2 DEF RunsOut, FirstBegun, WaitInv, BegunAfterClient
  <2>4. Told(cur[j])
    BY <2>1 DEF ClientInv
  <2>5. phase[cur[j]] = "over" /\ outcome[cur[j]] # "ok"
    BY <2>1, <2>3, <2>4
  <2>6. /\ trouble' = [c \in Clients |->
                        IF c = cur[j] THEN trouble[c] \cup {"timeout"} ELSE trouble[c]]
        /\ UNCHANGED <<phase, order, req, outcome>>
    BY <1>14 DEF RunsOut, Disturbed
  <2>7. ClientWait(b) # ThreadWait(j, q)
    BY DEF ThreadWait, Nobody
  <2>8. UnderWay(ClientWait(b)) => UnderWay(ClientWait(b))'
    BY <1>14, <2>7 DEF RunsOut, Ends
  <2> QED
    BY <1>0, <2>5, <2>6, <2>8
<1>15. ASSUME NEW q \in Servers, NEW j \in Servers, Serve(q, j)
      PROVE  Told(b)'
  <2>1. UNCHANGED trouble \/ Disturbed({cur[j]}, "insert")
    BY <1>15, Served
  <2>2. "timeout" \in trouble'[b] => "timeout" \in trouble[b]
    BY <2>1 DEF Disturbed
  <2>3. UNCHANGED <<phase, order, req, outcome>>
    BY <1>15 DEF Serve
  <2>4. UnderWay(ClientWait(b)) => UnderWay(ClientWait(b))'
    BY <1>15 DEF Serve, Ends, ThreadWait, Nobody
  <2> QED
    BY <1>0, <2>2, <2>3, <2>4
<1>16. ASSUME NEW q \in Servers, NEW j \in Servers, ServeUndealt(q, j)
      PROVE  Told(b)'
  BY <1>16, <1>0 DEF ServeUndealt, Dies, Ends, ThreadWait, Nobody
<1>17. ASSUME NEW s \in Servers, ServeStaleUndealt(s)
      PROVE  Told(b)'
  BY <1>17, <1>0 DEF ServeStaleUndealt, Dies, Ends, ThreadWait, Nobody
<1>18. ASSUME NEW j \in Servers, Reply(j)
      PROVE  Told(b)'
  BY <1>18, <1>0 DEF Reply, Answer, InitiatorInv, HasRequest, Ends
<1>19. CASE UNCHANGED vars
  BY <1>19, <1>0 DEF vars
<1> QED
  BY <1>1, <1>2, <1>3, <1>4, <1>5, <1>6, <1>7, <1>8, <1>9, <1>10,
     <1>11, <1>12, <1>13, <1>14, <1>15, <1>16, <1>17, <1>18, <1>19
     DEF Next, Progress, Server, Thread, Client

\* A server that dies takes only the waits of its own threads, and those on it, along.
LEMMA DeathKeepsWaits ==
    ASSUME TypeOK, NEW i \in Servers, NEW p \in Servers, BegunAfterClient(i, p),
           NEW s \in Servers, Dies(s)
    PROVE  BegunAfterClient(i, p)'
<1> USE Numbers DEF TypeOK, ThreadWait, ClientWait
<1> SUFFICES ASSUME job'[i] = "initiating", thr'[i][p] = "ask", phase'[cur'[i]] = "waiting"
             PROVE  <<ClientWait(cur'[i]), ThreadWait(i, p)>> \in waits'
  BY DEF BegunAfterClient
<1>1. i # s /\ p # s /\ thr[i][p] = "ask" /\ UNCHANGED phase
  BY DEF Dies
<1>2. cur'[i] = cur[i] /\ job[i] = "initiating"
  BY <1>1 DEF Dies
<1>3. <<ClientWait(cur[i]), ThreadWait(i, p)>> \in waits
  BY <1>1, <1>2 DEF BegunAfterClient
<1>4. \A pair \in waits :
        /\ pair[1] \notin {<<s, q>> : q \in Servers} \cup {<<q, s>> : q \in Servers}
        /\ pair[2] \notin {<<s, q>> : q \in Servers} \cup {<<q, s>> : q \in Servers}
        => pair \in waits'
  BY DEF Dies, Ends
<1> QED
  BY <1>1, <1>2, <1>3, <1>4 DEF Nobody

\* Every step keeps WaitInv: threads start within a transaction, whose client waits.
LEMMA WaitStep ==
    ASSUME TypeOK, ClientInv, InitiatorInv, WaitInv, [Next]_vars
    PROVE  WaitInv'
<1> SUFFICES ASSUME NEW i \in Servers, NEW p \in Servers PROVE BegunAfterClient(i, p)'
  BY DEF WaitInv
<1> USE Numbers DEF TypeOK, BegunAfterClient, dealVars, serverVars, clientVars,
                             ThreadWait, ClientWait
<1>0. BegunAfterClient(i, p) /\ HasRequest(i)
  BY DEF WaitInv, InitiatorInv
<1>1. CASE StartDeal
  BY <1>1, <1>0 DEF StartDeal
<1>2. ASSUME NEW c \in Clients, NEW m \in {"enc", "dec"}, NEW a \in Addresses, Ask(c, m, a)
      PROVE  BegunAfterClient(i, p)'
  BY <1>2, <1>0 DEF Ask, Starts, ClientInv, Told, HasRequest
<1>3. ASSUME NEW s \in Servers, Crash(s)
      PROVE  BegunAfterClient(i, p)'
  <2>1. Dies(s)
    BY <1>3 DEF Crash
  <2> QED
    BY <1>0, <2>1, DeathKeepsWaits
<1>4. ASSUME NEW s \in Servers, Restart(s)
      PROVE  BegunAfterClient(i, p)'
  BY <1>4, <1>0 DEF Restart
<1>5. ASSUME NEW s \in Servers, TakeDeal(s)
      PROVE  BegunAfterClient(i, p)'
  BY <1>5, <1>0 DEF TakeDeal
<1>6. ASSUME NEW s \in Servers, ServeStale(s)
      PROVE  BegunAfterClient(i, p)'
  BY <1>6, <1>0 DEF ServeStale, AtLoop
<1>7. ASSUME NEW c \in Clients, GiveUp(c)
      PROVE  BegunAfterClient(i, p)'
  BY <1>7, <1>0 DEF GiveUp, Ends, Nobody
<1>8. ASSUME NEW c \in Clients, ConnectionLost(c)
      PROVE  BegunAfterClient(i, p)'
  BY <1>8, <1>0 DEF ConnectionLost, Ends, Nobody
<1>9. ASSUME NEW j \in Servers, NEW c \in Clients, Begin(j, c)
      PROVE  BegunAfterClient(i, p)'
  <2>1. UNCHANGED <<waits, phase>> /\ (i # j => UNCHANGED <<job[i], cur[i], thr[i]>>)
    BY <1>9 DEF Begin
  <2>2. i = j => thr'[i][p] # "ask"
    BY <1>9 DEF Begin
  <2> QED
    BY <1>0, <2>1, <2>2
<1>10. ASSUME NEW j \in Servers, NEW c \in Clients, BeginUndealt(j, c)
      PROVE  BegunAfterClient(i, p)'
  <2>1. CASE Dies(j)
    BY <1>0, <2>1, DeathKeepsWaits
  <2>2. CASE Answer(c, order[c].mode = "dec" => order[c].given.seed = NoKeys,
                    NoKeys, Undealt, {"undealt"}) /\ UNCHANGED serverVars
    <3>1. job[i] = "initiating" => cur[i] # c
      BY <1>10, <1>0 DEF BeginUndealt, HasRequest
    <3> QED
      BY <1>0, <2>2, <3>1 DEF Answer, Ends, Nobody
  <2> QED
    BY <1>10, <2>1, <2>2 DEF BeginUndealt
<1>11. ASSUME NEW j \in Servers, NEW q \in Servers, Connect(j, q)
      PROVE  BegunAfterClient(i, p)'
  <2>1. \A v \in Waits : UnderWay(v) => <<v, <<j, q>>>> \in waits'
    BY <1>11 DEF Connect, Starts
  <2>2. waits \subseteq waits'
    BY <1>11 DEF Connect, Starts
  <2>3. job[i] = "initiating" /\ phase[cur[i]] = "waiting" =>
          UnderWay(<<cur[i], Nobody>>) /\ <<cur[i], Nobody>> \in Waits
    BY <1>0 DEF HasRequest, ClientInv, Told, Waits
  <2>4. i # j \/ p # q => thr'[i][p] = thr[i][p]
    BY <1>11 DEF Connect
  <2>5. UNCHANGED <<job, cur, phase>>
    BY <1>11 DEF Connect
  <2> QED
    BY <1>0, <2>1, <2>2, <2>3, <2>4, <2>5
<1>12. ASSUME NEW j \in Servers, NEW q \in Servers, NotConnected(j, q)
      PROVE  BegunAfterClient(i, p)'
  BY <1>12, <1>0 DEF NotConnected
<1>13. ASSUME NEW j \in Servers, NEW q \in Servers, PeerGone(j, q)
      PROVE  BegunAfterClient(i, p)'
  BY <1>13, <1>0 DEF PeerGone
<1>14. ASSUME NEW j \in Servers, NEW q \in Servers, RunsOut(j, q)
      PROVE  BegunAfterClient(i, p)'
  BY <1>14, <1>0 DEF RunsOut, Ends, Nobody
<1>15. ASSUME NEW q \in Servers, NEW j \in Servers, Serve(q, j)
      PROVE  BegunAfterClient(i, p)'
  BY <1>15, <1>0 DEF Serve, Ends, Nobody
<1>16. ASSUME NEW q \in Servers, NEW j \in Servers, ServeUndealt(q, j)
      PROVE  BegunAfterClient(i, p)'
  <2>1. Dies(q)
    BY <1>16 DEF ServeUndealt
  <2> QED
    BY <1>0, <2>1, DeathKeepsWaits
<1>17. ASSUME NEW s \in Servers, ServeStaleUndealt(s)
      PROVE  BegunAfterClient(i, p)'
  <2>1. Dies(s)
    BY <1>17 DEF ServeStaleUndealt
  <2> QED
    BY <1>0, <2>1, DeathKeepsWaits
<1>18. ASSUME NEW j \in Servers, Reply(j)
      PROVE  BegunAfterClient(i, p)'
  BY <1>18, <1>0 DEF Reply, Answer, InitiatorInv, HasRequest, Ends, Nobody
<1>19. CASE UNCHANGED vars
  BY <1>19, <1>0 DEF vars
<1> QED
  BY <1>1, <1>2, <1>3, <1>4, <1>5, <1>6, <1>7, <1>8, <1>9, <1>10,
     <1>11, <1>12, <1>13, <1>14, <1>15, <1>16, <1>17, <1>18, <1>19
     DEF Next, Progress, Server, Thread, Client

\* A client that nothing has disturbed yet was not disturbed before, nor just now.
LEMMA DisturbedGrows ==
    ASSUME TypeOK, NEW cs, NEW what, Disturbed(cs, what), NEW c \in Clients, trouble'[c] = {}
    PROVE  trouble[c] = {} /\ c \notin cs
<1>1. trouble'[c] = IF c \in cs THEN trouble[c] \cup {what} ELSE trouble[c]
  BY DEF Disturbed
<1> QED
  BY <1>1

\* A step that changes nothing a transaction has done so far, and lets its participants
\* keep or answer with its keys, leaves it undisturbed, or disturbed.
LEMMA StaysUndisturbed ==
    ASSUME NEW i \in Servers, Undisturbed(i),
           job'[i] = "initiating" /\ trouble'[cur'[i]] = {} =>
             /\ job[i] = "initiating" /\ cur'[i] = cur[i] /\ trouble[cur[i]] = {}
             /\ order'[cur[i]] = order[cur[i]]
             /\ env'[i] = env[i] /\ asg'[i] = asg[i] /\ own'[i] = own[i]
             /\ \A p \in asg[i].participants : OwnKeysOnly(i, p) => OwnKeysOnly(i, p)'
    PROVE  Undisturbed(i)'
  BY DEF Undisturbed

\* A participant that dies breaks the connections that ask it; one that is still to be
\* connected to comes back without keys.
LEMMA DeathUndisturbed ==
    ASSUME TypeOK, NEW i \in Servers, HasRequest(i), Undisturbed(i), NEW s \in Servers, Dies(s),
           job[i] = "initiating" /\ trouble'[cur[i]] = {} => trouble[cur[i]] = {}
    PROVE  Undisturbed(i)'
<1> USE Numbers DEF TypeOK
<1> SUFFICES ASSUME job'[i] = "initiating", trouble'[cur'[i]] = {}
             PROVE  /\ order'[cur'[i]].mode = "dec" =>
                         order'[cur'[i]].given.clean /\ order'[cur'[i]].given.deal = env'[i]
                    /\ \A p \in asg'[i].participants : OwnKeysOnly(i, p)'
                    /\ own'[i] = asg'[i].keys[i]
  BY DEF Undisturbed
<1>1. /\ i # s /\ job[i] = "initiating" /\ cur'[i] = cur[i] /\ env'[i] = env[i]
      /\ asg'[i] = asg[i] /\ own'[i] = own[i]
  BY DEF Dies
<1>2. UNCHANGED order /\ trouble[cur[i]] = {}
  BY <1>1 DEF Dies
<1>3. ASSUME NEW p \in asg[i].participants PROVE OwnKeysOnly(i, p)'
  <2>1. OwnKeysOnly(i, p) /\ p \in Servers
    BY <1>1, <1>2, AssignmentType DEF Undisturbed, HasRequest
  <2>2. ans'[i][p] = ans[i][p] /\ env'[p] \in {env[p], Undealt}
    BY <1>1, <2>1 DEF Dies
  <2>3. thr'[i][p] = IF p = s /\ thr[i][p] = "ask" THEN "broken" ELSE thr[i][p]
    BY <1>1, <2>1 DEF Dies
  <2> QED
    BY <1>1, <2>1, <2>2, <2>3 DEF OwnKeysOnly
<1> QED
  BY <1>1, <1>2, <1>3 DEF Undisturbed

\* Every step keeps UndisturbedInv: whoever brings keys of another deal, lets a wait run
\* out or dies says so in the trouble of the clients that still need the answer.
LEMMA UndisturbedStep ==
    ASSUME TypeOK, ClientInv, InitiatorInv, UndisturbedInv, [Next]_vars
    PROVE  UndisturbedInv'
<1> SUFFICES ASSUME NEW i \in Servers PROVE Undisturbed(i)'
  BY DEF UndisturbedInv
<1> USE Numbers DEF TypeOK, Undisturbed, OwnKeysOnly, dealVars, serverVars, clientVars
<1>0. Undisturbed(i) /\ HasRequest(i)
  BY DEF UndisturbedInv, InitiatorInv
<1>a. job[i] = "initiating" => asg[i].participants \subseteq Servers
  BY <1>0, AssignmentType DEF HasRequest
<1>1. CASE StartDeal
  BY <1>1, <1>0, <1>a DEF StartDeal
<1>2. ASSUME NEW c \in Clients, NEW m \in {"enc", "dec"}, NEW a \in Addresses, Ask(c, m, a)
      PROVE  Undisturbed(i)'
  <2>1. req[c] = "none"
    BY <1>2 DEF Ask, ClientInv, Told
  <2>2. job[i] = "initiating" => cur[i] # c /\ cur[i] \in Clients
    BY <1>0, <2>1 DEF HasRequest
  <2>3. \A b \in Clients : b # c => order'[b] = order[b]
    BY <1>2 DEF Ask
  <2>4. UNCHANGED <<dealVars, serverVars, trouble>>
    BY <1>2 DEF Ask
  <2>5. \A p : OwnKeysOnly(i, p) => OwnKeysOnly(i, p)'
    BY <2>4
  <2> HIDE DEF Undisturbed, OwnKeysOnly
  <2> QED
    BY <1>0, <2>2, <2>3, <2>4, <2>5, StaysUndisturbed
<1>3. ASSUME NEW s \in Servers, Crash(s)
      PROVE  Undisturbed(i)'
  <2>1. Dies(s) /\ UNCHANGED trouble
    BY <1>3 DEF Crash
  <2> QED
    BY <1>0, <2>1, DeathUndisturbed
<1>4. ASSUME NEW s \in Servers, Restart(s)
      PROVE  Undisturbed(i)'
  BY <1>4, <1>0, <1>a DEF Restart
<1>5. ASSUME NEW s \in Servers, TakeDeal(s)
      PROVE  Undisturbed(i)'
  <2>1. /\ UNCHANGED <<job, cur, asg, own, thr, ans, order>>
        /\ \A q \in Servers \ {s} : env'[q] = env[q]
    BY <1>5 DEF TakeDeal
  <2>2. job[i] = "initiating" => i # s /\ cur[i] \in Clients
    BY <1>5, <1>0 DEF TakeDeal, AtLoop, HasRequest
  <2>3. job[i] = "initiating" /\ thr[i][s] \in {"connect", "ask"} => cur[i] \in Awaiting(s)
    BY <2>2 DEF Awaiting
  <2>4. \A c \in Clients : trouble'[c] = {} => trouble[c] = {} /\ c \notin Awaiting(s)
    BY <1>5 DEF TakeDeal, Disturbed
  <2>5. job[i] = "initiating" /\ trouble'[cur[i]] = {} =>
          /\ trouble[cur[i]] = {} /\ env'[i] = env[i]
          /\ \A q \in Servers : thr[i][q] \in {"connect", "ask"} => env'[q] = env[q]
    <3> SUFFICES ASSUME job[i] = "initiating", trouble'[cur[i]] = {}
                 PROVE  /\ trouble[cur[i]] = {} /\ env'[i] = env[i]
                        /\ \A q \in Servers :
                             thr[i][q] \in {"connect", "ask"} => env'[q] = env[q]
      OBVIOUS
    <3>1. i # s /\ cur[i] \in Clients
      BY <2>2
    <3>2. trouble[cur[i]] = {} /\ cur[i] \notin Awaiting(s)
      BY <2>4, <3>1
    <3>3. thr[i][s] \notin {"connect", "ask"}
      BY <2>3, <3>2
    <3> QED
      BY <2>1, <3>1, <3>2, <3>3
  <2>6. job[i] = "initiating" /\ trouble'[cur[i]] = {} =>
          \A p \in asg[i].participants : OwnKeysOnly(i, p) => OwnKeysOnly(i, p)'
    BY <1>a, <2>1, <2>5
  <2> HIDE DEF Undisturbed, OwnKeysOnly
  <2> QED
    BY <1>0, <2>1, <2>5, <2>6, StaysUndisturbed
<1>6. ASSUME NEW s \in Servers, ServeStale(s)
      PROVE  Undisturbed(i)'
  BY <1>6, <1>0, <1>a DEF ServeStale, AtLoop
<1>7. ASSUME NEW c \in Clients, GiveUp(c)
      PROVE  Undisturbed(i)'
  <2>1. job[i] = "initiating" /\ trouble'[cur[i]] = {} => trouble[cur[i]] = {}
    BY <1>7, <1>0, DisturbedGrows DEF GiveUp, HasRequest
  <2>2. UNCHANGED <<dealVars, serverVars, order>>
    BY <1>7 DEF GiveUp
  <2> QED
    BY <1>0, <2>1, <2>2
<1>8. ASSUME NEW c \in Clients, ConnectionLost(c)
      PROVE  Undisturbed(i)'
  <2>1. job[i] = "initiating" /\ trouble'[cur[i]] = {} => trouble[cur[i]] = {}
    BY <1>8, <1>0, DisturbedGrows DEF ConnectionLost, HasRequest
  <2>2. UNCHANGED <<dealVars, serverVars, order>>
    BY <1>8 DEF ConnectionLost
  <2> QED
    BY <1>0, <2>1, <2>2
<1>9. ASSUME NEW j \in Servers, NEW c \in Clients, Begin(j, c)
      PROVE  Undisturbed(i)'
  <2>1. PICK a \in Assignments[j], kept \in SUBSET Keys :
          /\ kept \in Kept(a.keys[j])
          /\ asg' = [asg EXCEPT ![j] = a] /\ own' = [own EXCEPT ![j] = kept]
          /\ IF kept = a.keys[j] THEN UNCHANGED mishaps ELSE Mishap
          /\ thr' = [thr EXCEPT ![j] =
                       [p \in Servers |-> IF p \in a.participants THEN "connect" ELSE "done"]]
          /\ trouble' = [trouble EXCEPT ![c] = @ \cup TroubleAtBegin(j, c, a, kept)]
    BY <1>9, Begun
  <2>2. /\ job' = [job EXCEPT ![j] = "initiating"] /\ cur' = [cur EXCEPT ![j] = c]
        /\ ans' = [ans EXCEPT ![j] = [p \in Servers |-> {}]]
        /\ UNCHANGED <<dealVars, order>>
    BY <1>9 DEF Begin
  <2>3. CASE i = j
    <3>1. SUFFICES ASSUME trouble'[c] = {} PROVE Undisturbed(i)'
      BY <2>2, <2>3
    <3>2. TroubleAtBegin(j, c, a, kept) = {}
      BY <2>1, <3>1
    <3>3. "redeal" \in Troubles /\ "cipher" \in Troubles /\ "insert" \in Troubles
      BY DEF Troubles
    <3>4. (\A p \in a.participants : env[p] = env[j]) /\ ~Foreign(c, env[j]) /\ kept = a.keys[j]
      BY <3>2, <3>3 DEF TroubleAtBegin
    <3>5. a.participants \subseteq Servers
      BY <2>1, AssignmentType
    <3> QED
      BY <2>1, <2>2, <2>3, <3>4, <3>5 DEF Foreign
  <2>4. CASE i # j
    <3>1. job[i] = "initiating" => cur[i] # c
      BY <1>9, <1>0 DEF Begin, HasRequest
    <3> QED
      BY <1>0, <2>1, <2>2, <2>4, <3>1
  <2> QED
    BY <2>3, <2>4
<1>10. ASSUME NEW j \in Servers, NEW c \in Clients, BeginUndealt(j, c)
      PROVE  Undisturbed(i)'
  <2>1. job[i] = "initiating" => cur[i] \in Clients
    BY <1>0 DEF HasRequest
  <2>2. job[i] = "initiating" /\ trouble'[cur[i]] = {} => trouble[cur[i]] = {}
    BY <1>10, <2>1, DisturbedGrows DEF BeginUndealt
  <2>3. CASE Dies(j)
    BY <1>0, <2>2, <2>3, DeathUndisturbed
  <2>4. CASE UNCHANGED <<dealVars, serverVars, order>>
    BY <1>0, <2>2, <2>4
  <2> QED
    BY <1>10, <2>3, <2>4 DEF BeginUndealt
<1>11. ASSUME NEW j \in Servers, NEW q \in Servers, Connect(j, q)
      PROVE  Undisturbed(i)'
  BY <1>11, <1>0, <1>a DEF Connect
<1>12. ASSUME NEW j \in Servers, NEW q \in Servers, NotConnected(j, q)
      PROVE  Undisturbed(i)'
  <2>1. job[i] = "initiating" /\ trouble'[cur[i]] = {} => trouble[cur[i]] = {} /\ i # j
    <3>1. PICK what \in Troubles : Disturbed({cur[j]}, what)
      BY <1>12, NotConnectedTold
    <3>2. \A c \in Clients : trouble'[c] = {} => trouble[c] = {} /\ c \notin {cur[j]}
      BY <3>1, DisturbedGrows
    <3> QED
      BY <1>0, <3>2 DEF HasRequest
  <2>2. UNCHANGED <<dealVars, job, cur, asg, own, ans, order>>
    BY <1>12 DEF NotConnected
  <2>3. i # j => thr'[i] = thr[i]
    BY <1>12 DEF NotConnected
  <2> QED
    BY <1>0, <2>1, <2>2, <2>3
<1>13. ASSUME NEW j \in Servers, NEW q \in Servers, PeerGone(j, q)
      PROVE  Undisturbed(i)'
  <2>1. job[i] = "initiating" /\ trouble'[cur[i]] = {} => trouble[cur[i]] = {} /\ i # j
    BY <1>13, <1>0 DEF PeerGone, Disturbed, HasRequest
  <2>2. UNCHANGED <<env, job, cur, asg, own, order>> /\ (i # j => UNCHANGED <<thr[i], ans[i]>>)
    BY <1>13 DEF PeerGone
  <2> QED
    BY <1>0, <1>a, <2>1, <2>2
<1>14. ASSUME NEW j \in Servers, NEW q \in Servers, RunsOut(j, q)
      PROVE  Undisturbed(i)'
  <2>1. job[i] = "initiating" /\ trouble'[cur[i]] = {} => trouble[cur[i]] = {} /\ i # j
    <3>1. Disturbed({cur[j]}, "timeout")
      BY <1>14 DEF RunsOut
    <3>2. \A c \in Clients : trouble'[c] = {} => trouble[c] = {} /\ c \notin {cur[j]}
      BY <3>1, DisturbedGrows
    <3> QED
      BY <1>0, <3>2 DEF HasRequest
  <2>2. UNCHANGED <<dealVars, job, cur, asg, own, order>>
    BY <1>14 DEF RunsOut
  <2>3. i # j => thr'[i] = thr[i] /\ ans'[i] = ans[i]
    BY <1>14 DEF RunsOut
  <2> QED
    BY <1>0, <2>1, <2>2, <2>3
<1>15. ASSUME NEW q \in Servers, NEW j \in Servers, Serve(q, j)
      PROVE  Undisturbed(i)'
  <2>1. UNCHANGED <<dealVars, job, cur, asg, own, order>>
    BY <1>15 DEF Serve
  <2>2. \A p \in Servers : i # j \/ p # q => thr'[i][p] = thr[i][p] /\ ans'[i][p] = ans[i][p]
    BY <1>15 DEF Serve
  <2>3. CASE Disturbed({cur[j]}, "insert")
    <3>1. \A c \in Clients : trouble'[c] = {} => trouble[c] = {} /\ c \notin {cur[j]}
      BY <2>3, DisturbedGrows
    <3>2. job[i] = "initiating" /\ trouble'[cur[i]] = {} => trouble[cur[i]] = {} /\ i # j
      BY <1>0, <3>1 DEF HasRequest
    <3> QED
      BY <1>0, <1>a, <2>1, <2>2, <3>2
  <2>4. CASE /\ UNCHANGED trouble
             /\ ans' = [ans EXCEPT ![j][q] = {<<k, env[q]>> : k \in asg[j].keys[q]}]
    <3>1. thr[j][q] = "ask" /\ thr'[j][q] = "done" /\ (env[q] # Undealt \/ asg[j].keys[q] = {})
      BY <1>15 DEF Serve
    <3>2. ans'[j][q] = {<<k, env[q]>> : k \in asg[j].keys[q]}
      BY <2>4
    <3>3. i = j /\ env[q] \in {env[i], Undealt} => ans'[i][q] = {<<k, env[i]>> : k \in asg[i].keys[q]}
      BY <3>1, <3>2
    <3>4. job[i] = "initiating" =>
            \A p \in asg[i].participants : OwnKeysOnly(i, p) => OwnKeysOnly(i, p)'
      <4> SUFFICES ASSUME job[i] = "initiating", NEW p \in asg[i].participants, OwnKeysOnly(i, p)
                   PROVE  OwnKeysOnly(i, p)'
        OBVIOUS
      <4>1. p \in Servers
        BY <1>a
      <4>2. CASE i = j /\ p = q
        BY <2>1, <3>1, <3>3, <4>2
      <4>3. CASE i # j \/ p # q
        BY <2>1, <2>2, <4>1, <4>3
      <4> QED
        BY <4>2, <4>3
    <3> HIDE DEF Undisturbed, OwnKeysOnly
    <3> QED
      BY <1>0, <2>1, <2>4, <3>4, StaysUndisturbed
  <2> QED
    BY <1>15, <2>3, <2>4, Served
<1>16. ASSUME NEW q \in Servers, NEW j \in Servers, ServeUndealt(q, j)
      PROVE  Undisturbed(i)'
  <2>1. Dies(q) /\ UNCHANGED trouble
    BY <1>16 DEF ServeUndealt
  <2> QED
    BY <1>0, <2>1, DeathUndisturbed
<1>17. ASSUME NEW s \in Servers, ServeStaleUndealt(s)
      PROVE  Undisturbed(i)'
  <2>1. Dies(s) /\ UNCHANGED trouble
    BY <1>17 DEF ServeStaleUndealt
  <2> QED
    BY <1>0, <2>1, DeathUndisturbed
<1>18. ASSUME NEW j \in Servers, Reply(j)
      PROVE  Undisturbed(i)'
  BY <1>18, <1>0, <1>a DEF Reply, Answer
<1>19. CASE UNCHANGED vars
  BY <1>19, <1>0, <1>a DEF vars
<1> QED
  BY <1>1, <1>2, <1>3, <1>4, <1>5, <1>6, <1>7, <1>8, <1>9, <1>10,
     <1>11, <1>12, <1>13, <1>14, <1>15, <1>16, <1>17, <1>18, <1>19
     DEF Next, Progress, Server, Thread, Client

-----------------------------------------------------------------------------
(* The vote and the XOR of a transaction that nothing has disturbed.       *)

\* Naming a deal with every key does not change their number.
LEMMA PairedCardinality ==
    ASSUME NEW A, IsFiniteSet(A), NEW d
    PROVE  Cardinality({d} \X A) = Cardinality(A) /\ Cardinality(A \X {d}) = Cardinality(A)
<1>1. IsFiniteSet({d}) /\ Cardinality({d}) = 1
  BY FS_Singleton
<1>2. /\ Cardinality({d} \X A) = Cardinality({d}) * Cardinality(A)
      /\ Cardinality(A \X {d}) = Cardinality(A) * Cardinality({d})
  BY <1>1, FS_Product
<1>3. Cardinality(A) \in Nat
  BY FS_CardinalityType
<1> QED
  BY <1>1, <1>2, <1>3

\* With the keys of one deal only nobody disagrees, and every key is in the XOR once.
LEMMA UndisturbedVote ==
    ASSUME TypeOK, NEW i \in Servers, HasRequest(i), Undisturbed(i),
           job[i] = "initiating", AllEnded(i), trouble[cur[i]] = {}
    PROVE  RobustFlag(i) /\ Seed(i) = Whole(env[i]).seed
<1> DEFINE d      == env[i]
           keys   == asg[i].keys
           mine   == keys[i]
           theirs == UNION {keys[p] : p \in asg[i].participants}
<1>1. d \in Deals /\ d # Zeros
  BY Numbers DEF HasRequest, Deals, Zeros
<1>2. /\ asg[i].participants \subseteq Servers
      /\ keys \in [Servers -> SUBSET Keys]
      /\ UNION {keys[s] : s \in Servers} = Keys
      /\ \A s \in Servers : s \notin asg[i].participants \cup {i} => keys[s] = {}
      /\ \A s \in asg[i].participants : keys[s] \cap mine = {}
  BY AssignmentType DEF HasRequest
<1>3. \A p \in asg[i].participants : ans[i][p] = {<<k, d>> : k \in keys[p]}
  BY <1>2 DEF Undisturbed, OwnKeysOnly, AllEnded
<1>4. own[i] = mine
  BY DEF Undisturbed
<1>5. Received(i) = UNION {ans[i][p] : p \in asg[i].participants}
  BY DEF Received
<1>6. Received(i) = {<<k, d>> : k \in theirs}
  <2>1. ASSUME NEW v \in Received(i) PROVE v \in {<<k, d>> : k \in theirs}
    <3>1. PICK p \in asg[i].participants : v \in ans[i][p]
      BY <1>5
    <3>2. PICK k \in keys[p] : v = <<k, d>>
      BY <1>3, <3>1
    <3> QED
      BY <3>2
  <2>2. ASSUME NEW k \in theirs PROVE <<k, d>> \in Received(i)
    <3>1. PICK p \in asg[i].participants : k \in keys[p]
      OBVIOUS
    <3>2. <<k, d>> \in ans[i][p]
      BY <1>3, <3>1
    <3> QED
      BY <1>5, <3>2
  <2> QED
    BY <2>1, <2>2
<1>7. theirs \cup mine = Keys /\ theirs \cap mine = {}
  BY <1>2
<1> HIDE DEF theirs, mine, keys, d
<1>8. RobustFlag(i)
  BY <1>6 DEF RobustFlag
<1>9. {v \in Received(i) : v[2] # Zeros} = {<<k, d>> : k \in theirs}
  BY <1>1, <1>6
<1>10. IsFiniteSet(Keys) /\ Cardinality(Keys) = KeyCount
  <2>1. 0 \in Int /\ KeyCount - 1 \in Int /\ ~(0 > KeyCount - 1)
    BY Numbers
  <2>2. /\ IsFiniteSet(0..(KeyCount - 1))
        /\ Cardinality(0..(KeyCount - 1)) = KeyCount - 1 - 0 + 1
    BY <2>1, FS_Interval
  <2> QED
    BY <2>2, Numbers DEF Keys
<1>11. IsFiniteSet(theirs) /\ IsFiniteSet(mine)
  BY <1>7, <1>10, FS_Subset
<1>12. Cardinality(mine) + Cardinality(theirs) = KeyCount
  <2>1. Cardinality(theirs \cup mine)
          = Cardinality(theirs) + Cardinality(mine) - Cardinality(theirs \cap mine)
    BY <1>11, FS_Union
  <2>2. Cardinality(theirs \cap mine) = 0
    BY <1>7, FS_EmptySet
  <2>3. Cardinality(theirs) \in Nat /\ Cardinality(mine) \in Nat
    BY <1>11, FS_CardinalityType
  <2>4. Cardinality(theirs \cup mine) = KeyCount
    BY <1>7, <1>10
  <2> QED
    BY <2>1, <2>2, <2>3, <2>4
<1>13. /\ Cardinality({d} \X mine) = Cardinality(mine)
       /\ Cardinality(theirs \X {d}) = Cardinality(theirs)
  BY <1>11, PairedCardinality
<1>14. /\ {<<d, k>> : k \in mine} = {d} \X mine
       /\ {<<k, d>> : k \in theirs} = theirs \X {d}
       /\ {<<v[2], v[1]>> : v \in theirs \X {d}} = {d} \X theirs
  <2>1. {<<d, k>> : k \in mine} = {d} \X mine /\ {<<k, d>> : k \in theirs} = theirs \X {d}
    OBVIOUS
  <2>2. ASSUME NEW u \in {d} \X theirs PROVE u \in {<<v[2], v[1]>> : v \in theirs \X {d}}
    <3>1. <<u[2], u[1]>> \in theirs \X {d} /\ u = <<u[1], u[2]>>
      OBVIOUS
    <3> QED
      BY <3>1
  <2>3. {<<v[2], v[1]>> : v \in theirs \X {d}} \subseteq {d} \X theirs
    OBVIOUS
  <2> QED
    BY <2>1, <2>2, <2>3
<1>15. Seed(i) = [streams |-> ({d} \X mine) \cup ({d} \X theirs),
                  parity  |-> (Cardinality({d} \X mine) + Cardinality(theirs \X {d})) % 2]
  <2>1. {v \in Received(i) : v[2] # Zeros} = theirs \X {d}
    BY <1>9, <1>14
  <2>2. {<<env[i], k>> : k \in own[i]} = {d} \X mine
    BY <1>4, <1>14 DEF d
  <2> QED
    BY <1>14, <2>1, <2>2 DEF Seed
<1>16. ({d} \X mine) \cup ({d} \X theirs) = {d} \X Keys
  BY <1>7
<1>17. Seed(i) = [streams |-> {d} \X Keys, parity |-> KeyCount % 2]
  BY <1>12, <1>13, <1>15, <1>16
<1> QED
  BY <1>8, <1>17 DEF Whole, d

\* A ciphertext that is written is genuine where it is clean.
LEMMA Written ==
    ASSUME NEW f, NEW seed, NEW d, NEW t,
           f = [seed |-> seed, deal |-> d, clean |-> t = {}, there |-> TRUE],
           t = {} => d \in Deals /\ seed = Whole(d).seed
    PROVE  Genuine(f)
<1>1. f.clean = (t = {})
  OBVIOUS
<1>2. f.deal = d /\ f.seed = seed
  OBVIOUS
<1> QED
  BY <1>1, <1>2 DEF Genuine

\* Every step keeps FileInv: what is written clean is the seed of all keys of one deal.
LEMMA FileStep ==
    ASSUME TypeOK, InitiatorInv, UndisturbedInv, FileInv, [Next]_vars
    PROVE  FileInv'
<1> USE DEF FileInv, dealVars, serverVars, clientVars
<1>1. CASE StartDeal
  BY <1>1 DEF StartDeal
<1>2. ASSUME NEW c \in Clients, NEW m \in {"enc", "dec"}, NEW a \in Addresses, Ask(c, m, a)
      PROVE  FileInv'
  BY <1>2 DEF Ask
<1>3. ASSUME NEW s \in Servers, Crash(s)
      PROVE  FileInv'
  BY <1>3 DEF Crash, Dies
<1>4. ASSUME NEW s \in Servers, Restart(s)
      PROVE  FileInv'
  BY <1>4 DEF Restart
<1>5. ASSUME NEW s \in Servers, TakeDeal(s)
      PROVE  FileInv'
  BY <1>5 DEF TakeDeal
<1>6. ASSUME NEW s \in Servers, ServeStale(s)
      PROVE  FileInv'
  BY <1>6 DEF ServeStale
<1>7. ASSUME NEW c \in Clients, GiveUp(c)
      PROVE  FileInv'
  BY <1>7 DEF GiveUp
<1>8. ASSUME NEW c \in Clients, ConnectionLost(c)
      PROVE  FileInv'
  BY <1>8 DEF ConnectionLost
<1>9. ASSUME NEW j \in Servers, NEW c \in Clients, Begin(j, c)
      PROVE  FileInv'
  BY <1>9 DEF Begin
<1>10. ASSUME NEW j \in Servers, NEW c \in Clients, BeginUndealt(j, c)
      PROVE  FileInv'
  <2>1. CASE Dies(j)
    BY <2>1 DEF Dies
  <2>2. CASE Answer(c, order[c].mode = "dec" => order[c].given.seed = NoKeys,
                    NoKeys, Undealt, {"undealt"})
    <3>1. \/ UNCHANGED file
          \/ file' = [seed |-> NoKeys, deal |-> Undealt, clean |-> {"undealt"} = {}, there |-> TRUE]
      BY <2>2 DEF Answer
    <3> QED
      BY <3>1, Written
  <2> QED
    BY <1>10, <2>1, <2>2 DEF BeginUndealt
<1>11. ASSUME NEW j \in Servers, NEW q \in Servers, Connect(j, q)
      PROVE  FileInv'
  BY <1>11 DEF Connect
<1>12. ASSUME NEW j \in Servers, NEW q \in Servers, NotConnected(j, q)
      PROVE  FileInv'
  BY <1>12 DEF NotConnected
<1>13. ASSUME NEW j \in Servers, NEW q \in Servers, PeerGone(j, q)
      PROVE  FileInv'
  BY <1>13 DEF PeerGone
<1>14. ASSUME NEW j \in Servers, NEW q \in Servers, RunsOut(j, q)
      PROVE  FileInv'
  BY <1>14 DEF RunsOut
<1>15. ASSUME NEW q \in Servers, NEW j \in Servers, Serve(q, j)
      PROVE  FileInv'
  BY <1>15 DEF Serve
<1>16. ASSUME NEW q \in Servers, NEW j \in Servers, ServeUndealt(q, j)
      PROVE  FileInv'
  BY <1>16 DEF ServeUndealt, Dies
<1>17. ASSUME NEW s \in Servers, ServeStaleUndealt(s)
      PROVE  FileInv'
  BY <1>17 DEF ServeStaleUndealt, Dies
<1>18. ASSUME NEW j \in Servers, Reply(j)
      PROVE  FileInv'
  <2>1. HasRequest(j) /\ Undisturbed(j) /\ job[j] = "initiating" /\ AllEnded(j)
    BY <1>18 DEF Reply, InitiatorInv, UndisturbedInv
  <2>2. \/ UNCHANGED file
        \/ file' = [seed |-> Seed(j), deal |-> env[j],
                    clean |-> trouble[cur[j]] = {}, there |-> TRUE]
    BY <1>18 DEF Reply, Answer
  <2>3. trouble[cur[j]] = {} => Seed(j) = Whole(env[j]).seed
    BY <2>1, UndisturbedVote
  <2>4. env[j] \in Deals
    BY <2>1 DEF HasRequest
  <2> QED
    BY <2>2, <2>3, <2>4, Written
<1>19. CASE UNCHANGED vars
  BY <1>19 DEF vars
<1> QED
  BY <1>1, <1>2, <1>3, <1>4, <1>5, <1>6, <1>7, <1>8, <1>9, <1>10,
     <1>11, <1>12, <1>13, <1>14, <1>15, <1>16, <1>17, <1>18, <1>19
     DEF Next, Progress, Server, Thread, Client

\* Every step keeps AlarmHasReason: the vote and the comparison of an undisturbed
\* transaction cannot fail.
LEMMA ReasonStep ==
    ASSUME TypeOK, ClientInv, InitiatorInv, UndisturbedInv, AlarmHasReason, [Next]_vars
    PROVE  AlarmHasReason'
<1> USE DEF TypeOK, AlarmHasReason, dealVars, serverVars, clientVars
<1>0. \A c \in Clients : \A what : trouble[c] \cup {what} # {}
  OBVIOUS
<1>1. CASE StartDeal
  BY <1>1 DEF StartDeal
<1>2. ASSUME NEW c \in Clients, NEW m \in {"enc", "dec"}, NEW a \in Addresses, Ask(c, m, a)
      PROVE  AlarmHasReason'
  BY <1>2 DEF Ask
<1>3. ASSUME NEW s \in Servers, Crash(s)
      PROVE  AlarmHasReason'
  BY <1>3 DEF Crash, Dies
<1>4. ASSUME NEW s \in Servers, Restart(s)
      PROVE  AlarmHasReason'
  BY <1>4 DEF Restart
<1>5. ASSUME NEW s \in Servers, TakeDeal(s)
      PROVE  AlarmHasReason'
  BY <1>5, <1>0 DEF TakeDeal, Disturbed
<1>6. ASSUME NEW s \in Servers, ServeStale(s)
      PROVE  AlarmHasReason'
  BY <1>6 DEF ServeStale
<1>7. ASSUME NEW c \in Clients, GiveUp(c)
      PROVE  AlarmHasReason'
  BY <1>7, <1>0 DEF GiveUp, Disturbed
<1>8. ASSUME NEW c \in Clients, ConnectionLost(c)
      PROVE  AlarmHasReason'
  BY <1>8, <1>0 DEF ConnectionLost, Disturbed
<1>9. ASSUME NEW j \in Servers, NEW c \in Clients, Begin(j, c)
      PROVE  AlarmHasReason'
  BY <1>9 DEF Begin
<1>10. ASSUME NEW j \in Servers, NEW c \in Clients, BeginUndealt(j, c)
      PROVE  AlarmHasReason'
  <2>1. \A b \in Clients : trouble'[b] = IF b = c THEN trouble[b] \cup {"undealt"} ELSE trouble[b]
    BY <1>10 DEF BeginUndealt, Disturbed
  <2>2. \A b \in Clients : b # c => outcome'[b] = outcome[b]
    BY <1>10 DEF BeginUndealt, Dies, Answer
  <2> QED
    BY <2>1, <2>2
<1>11. ASSUME NEW j \in Servers, NEW q \in Servers, Connect(j, q)
      PROVE  AlarmHasReason'
  BY <1>11 DEF Connect
<1>12. ASSUME NEW j \in Servers, NEW q \in Servers, NotConnected(j, q)
      PROVE  AlarmHasReason'
  <2>1. PICK what \in Troubles : Disturbed({cur[j]}, what)
    BY <1>12, NotConnectedTold
  <2> QED
    BY <1>12, <1>0, <2>1 DEF NotConnected, Disturbed
<1>13. ASSUME NEW j \in Servers, NEW q \in Servers, PeerGone(j, q)
      PROVE  AlarmHasReason'
  BY <1>13, <1>0 DEF PeerGone, Disturbed
<1>14. ASSUME NEW j \in Servers, NEW q \in Servers, RunsOut(j, q)
      PROVE  AlarmHasReason'
  BY <1>14, <1>0 DEF RunsOut, Disturbed
<1>15. ASSUME NEW q \in Servers, NEW j \in Servers, Serve(q, j)
      PROVE  AlarmHasReason'
  <2>1. UNCHANGED trouble \/ Disturbed({cur[j]}, "insert")
    BY <1>15, Served
  <2>2. UNCHANGED outcome
    BY <1>15 DEF Serve
  <2> QED
    BY <1>0, <2>1, <2>2 DEF Disturbed
<1>16. ASSUME NEW q \in Servers, NEW j \in Servers, ServeUndealt(q, j)
      PROVE  AlarmHasReason'
  BY <1>16 DEF ServeUndealt, Dies
<1>17. ASSUME NEW s \in Servers, ServeStaleUndealt(s)
      PROVE  AlarmHasReason'
  BY <1>17 DEF ServeStaleUndealt, Dies
<1>18. ASSUME NEW j \in Servers, Reply(j)
      PROVE  AlarmHasReason'
  <2>1. HasRequest(j) /\ Undisturbed(j) /\ job[j] = "initiating" /\ AllEnded(j)
    BY <1>18 DEF Reply, InitiatorInv, UndisturbedInv
  <2> DEFINE c  == cur[j]
             ok == RobustFlag(j) /\ (order[c].mode = "dec" => Seed(j) = order[c].given.seed)
  <2>2. c \in Clients
    BY <2>1 DEF HasRequest
  <2>3. trouble[c] = {} => ok
    <3> SUFFICES ASSUME trouble[c] = {} PROVE ok
      OBVIOUS
    <3>1. RobustFlag(j) /\ Seed(j) = Whole(env[j]).seed
      BY <2>1, UndisturbedVote
    <3>2. order[c].mode = "dec" => order[c].given.clean /\ order[c].given.deal = env[j]
      BY <2>1 DEF Undisturbed
    <3>3. order[c].mode = "dec" => Genuine(order[c].given)
      BY <2>2 DEF ClientInv, Told
    <3> QED
      BY <3>1, <3>2, <3>3 DEF Genuine
  <2>4. Answer(c, ok, Seed(j), env[j], trouble[c]) /\ UNCHANGED trouble
    BY <1>18 DEF Reply
  <2> HIDE DEF ok
  <2> QED
    BY <2>2, <2>3, <2>4 DEF Answer
<1>19. CASE UNCHANGED vars
  BY <1>19 DEF vars
<1> QED
  BY <1>1, <1>2, <1>3, <1>4, <1>5, <1>6, <1>7, <1>8, <1>9, <1>10,
     <1>11, <1>12, <1>13, <1>14, <1>15, <1>16, <1>17, <1>18, <1>19
     DEF Next, Progress, Server, Thread, Client

-----------------------------------------------------------------------------
(* The theorems.                                                           *)

\* The inductive invariant holds at the start.
LEMMA SystemInit == Init => SystemInv
<1> SUFFICES ASSUME Init PROVE SystemInv
  OBVIOUS
<1>1. TypeOK
  BY TypeInit
<1>2. ClientInv
  BY DEF Init, ClientInv, Told, NoOrder
<1>3. InitiatorInv /\ WaitInv /\ UndisturbedInv
  BY DEF Init, InitiatorInv, HasRequest, WaitInv, BegunAfterClient, UndisturbedInv, Undisturbed
<1>4. FileInv
  <2>1. 0 \in Deals
    BY Numbers DEF Deals
  <2>2. Whole(0).deal = 0 /\ ~NoFile.clean
    BY DEF Whole, NoFile
  <2>3. file = NoFile \/ file = Whole(0)
    BY DEF Init
  <2> QED
    BY <2>1, <2>2, <2>3 DEF FileInv, Genuine
<1>5. AlarmHasReason
  BY DEF Init, AlarmHasReason
<1> QED
  BY <1>1, <1>2, <1>3, <1>4, <1>5 DEF SystemInv

\* Every step keeps the inductive invariant, each part by its own lemma.
LEMMA SystemStep == SystemInv /\ [Next]_vars => SystemInv'
<1> SUFFICES ASSUME SystemInv, [Next]_vars PROVE SystemInv'
  OBVIOUS
<1> USE DEF SystemInv
<1>1. TypeOK'
  BY TypeStep
<1>2. ClientInv'
  BY ClientStep
<1>3. InitiatorInv'
  BY InitiatorStep
<1>4. WaitInv'
  BY WaitStep
<1>5. UndisturbedInv'
  BY UndisturbedStep
<1>6. FileInv'
  BY FileStep
<1>7. AlarmHasReason'
  BY ReasonStep
<1> QED
  BY <1>1, <1>2, <1>3, <1>4, <1>5, <1>6, <1>7

\* Every reachable state of the deployment satisfies the inductive invariant.
THEOREM SystemInvariant == Spec => []SystemInv
<1>1. Init => SystemInv
  BY SystemInit
<1>2. SystemInv /\ [Next]_vars => SystemInv'
  BY SystemStep
<1> QED
  BY <1>1, <1>2, PTL DEF Spec

\* The types hold, whatever is dealt, asked, answered, timed out or killed.
THEOREM TypeCorrect == Spec => []TypeOK
<1>1. SystemInv => TypeOK
  BY DEF SystemInv
<1> QED
  BY <1>1, SystemInvariant, PTL

\* Where nobody is compromised a client is told of a compromised server only after
\* something has disturbed its own transaction (Client.cpp:175): concurrent requests
\* of others, in any number and order, are no reason for an alarm.
THEOREM AlarmReasoned == Spec => []AlarmHasReason
<1>1. SystemInv => AlarmHasReason
  BY DEF SystemInv
<1> QED
  BY <1>1, SystemInvariant, PTL

\* A result that a client accepts was not made of an answer that its initiator's thread
\* has stopped waiting for: the client stopped waiting before (Client.cpp:98,
\* DISEServer.cpp:693).
THEOREM NoOkAfterTimeout == Spec => []OkWithoutTimeout
<1>1. SystemInv => OkWithoutTimeout
  BY DEF SystemInv, ClientInv, Told, OkWithoutTimeout
<1> QED
  BY <1>1, SystemInvariant, PTL
====
