----------------------------- MODULE RobustVote -----------------------------
(***************************************************************************)
(* What the robust step of a DiSE transaction promises, whatever the       *)
(* threads, the mutex and the early exit do: the answers of the            *)
(* participants are collected, and at the end they are declared robust     *)
(* exactly if no two of them disagree on a key; then the agreed value of   *)
(* each answered key is what the initiator goes on with.                   *)
(***************************************************************************)
CONSTANTS Keys,     \* the key ids an answer can hold
          Values,   \* the partial results a key can come with
          None      \* no partial result for the key

VARIABLES phase,     \* "closed", "open", then the verdict
          received,  \* the <<key, value>> pairs of the answers so far
          agreed     \* key -> partial result, once robust
vars == <<phase, received, agreed>>

NothingAgreed == [k \in Keys |-> None]

Consistent(pairs) == \A x, y \in pairs : x[1] = y[1] => x[2] = y[2]

\* The answers as a function, for a consistent set of pairs.
AsFunction(pairs) ==
    [k \in Keys |-> IF \E v \in Values : <<k, v>> \in pairs
                    THEN CHOOSE v \in Values : <<k, v>> \in pairs
                    ELSE None]

Init == phase = "closed" /\ received = {} /\ agreed = NothingAgreed

Open ==
    /\ phase = "closed"
    /\ phase' = "open" /\ received' = {} /\ agreed' = NothingAgreed

\* A participant's answer is added to those received; it may hold any keys.
Receive ==
    /\ phase = "open"
    /\ received \subseteq received' /\ received' \subseteq Keys \X Values
    /\ UNCHANGED <<phase, agreed>>

Conclude ==
    /\ phase = "open"
    /\ \/ /\ Consistent(received)
          /\ phase' = "robust" /\ agreed' = AsFunction(received)
       \/ /\ ~Consistent(received)
          /\ phase' = "compromised" /\ agreed' = agreed
    /\ UNCHANGED received

\* The result or the failure has been written to the client.
Close ==
    /\ phase \in {"robust", "compromised"}
    /\ phase' = "closed" /\ received' = {} /\ agreed' = NothingAgreed

Next == Open \/ Receive \/ Conclude \/ Close

Spec == Init /\ [][Next]_vars
=============================================================================
