-------------------------- MODULE TransactionKeys --------------------------
(***************************************************************************)
(* The keys of a transaction: what their assignment owes it, and what the  *)
(* encryption with a list of them leaves.  ServerKeyMap computes           *)
(* assignments; RobustTransaction and DiseSystem are given them as a       *)
(* constant and rest on what is said of them here.                         *)
(***************************************************************************)
EXTENDS Integers

CONSTANTS Servers,   \* machine numbers of the DiSE servers
          KeyCount   \* environment->get_total_key_num()

Keys == 0..(KeyCount - 1)

\* An assignment: the initiator, its participants, the keys each has to use.  A key the
\* initiator uses is no participant's, and nobody else uses any.
IsAssignment(a) ==
    /\ a \in [machine : Servers, participants : SUBSET Servers,
              keys : [Servers -> SUBSET Keys]]
    /\ a.machine \notin a.participants
    /\ \A s \in Servers : s \notin a.participants \cup {a.machine} => a.keys[s] = {}
    /\ \A s \in a.participants : a.keys[s] \cap a.keys[a.machine] = {}

UsesAllKeys(a) == UNION {a.keys[s] : s \in a.participants \cup {a.machine}} = Keys

\* Whatever a participant computes, another one computes too.
IsCrossChecked(a) ==
    \A s \in a.participants : \A k \in a.keys[s] : \E r \in a.participants \ {s} : k \in a.keys[r]

\* A compromised server that is given keys, or another one, shares one with an honest
\* participant.
SabotageShows(a, compromised) ==
    (\E s \in a.participants \cap compromised : a.keys[s] # {}) =>
        \E s \in a.participants \cap compromised, r \in a.participants \ compromised :
            a.keys[s] \cap a.keys[r] # {}

\* encryptWithKeyList: an insert into the QMap that its OpenMP threads share without a
\* lock can be lost to a later one; the last one stays (Exchange!EndInsert).
Kept(keys) == {kept \in SUBSET keys : keys # {} => kept # {}}
=============================================================================
