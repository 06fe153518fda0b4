------------------------------- MODULE Omega -------------------------------
(***************************************************************************)
(* The key matrix "omega" in closed form: key number k is held by the k-th *)
(* T-subset of the servers in lexicographic order.  KeyGenerator's search  *)
(* is checked against it; KeyAssignment and RobustTransaction run over it. *)
(***************************************************************************)
EXTENDS Integers, FiniteSets, FiniteSetsExt

CONSTANTS N,   \* number of DiSE servers
          T    \* servers holding each key, and participants per transaction

OmegaServers == 0..(N-1)

\* The sets of servers that find_combos hands to populate_omega_table.
Combos == kSubset(T, OmegaServers)

\* a comes before b when the smallest server in exactly one of them is in a.
LexBefore(a, b) ==
    \E s \in a \ b : \A r \in (a \ b) \cup (b \ a) : s <= r

\* key_idx when find_combos reaches combo.
KeyOf(combo) == Cardinality({c \in Combos : LexBefore(c, combo)})

OmegaKeyCount == Cardinality(Combos)

\* Environment::server_owns_key(server, keyId) is server \in OmegaOwners[keyId].
OmegaOwners == [k \in 0..(OmegaKeyCount - 1) |-> CHOOSE combo \in Combos : KeyOf(combo) = k]
=============================================================================
