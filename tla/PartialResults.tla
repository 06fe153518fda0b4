--------------------------- MODULE PartialResults ---------------------------
(***************************************************************************)
(* What an initiator can rely on when it asks one participant for partial  *)
(* results: it comes to have all that the participant computed, or none of *)
(* it; never a part.                                                       *)
(***************************************************************************)
CONSTANT Asked   \* key ids of the request

VARIABLES computed,   \* the participant's map of partial results
          received    \* what the initiator goes on with

NotYet == [state |-> "none", keys |-> {}]

\* As many entries are parsed as keys were asked for: of an answer that is short
\* some of them are zeros.
Parsed(ks) == [state |-> IF ks = Asked THEN "whole" ELSE "short", keys |-> ks]

Init == computed = NotYet /\ received = NotYet

Compute ==
    /\ computed = NotYet
    /\ \E ks \in SUBSET Asked : computed' = Parsed(ks)
    /\ UNCHANGED received

Receive ==
    /\ received = NotYet
    /\ \/ received' = Parsed({})
       \/ computed # NotYet /\ received' = computed
    /\ UNCHANGED computed

Next == Compute \/ Receive

Spec == Init /\ [][Next]_<<computed, received>>
=============================================================================
