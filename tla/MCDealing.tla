----------------------------- MODULE MCDealing -----------------------------
(***************************************************************************)
(* Dealing of the omega matrix of N servers, T to a key: row by row, each  *)
(* row in the order in which the key numbers were given out.               *)
(***************************************************************************)
EXTENDS Dealing, SequencesExt

CONSTANT T   \* holders of a key

Matrix == INSTANCE Omega

ASSUME MatrixShape ==
    /\ KeyCount = Matrix!OmegaKeyCount
    /\ N * KeysPerMachine = T * KeyCount

Row(s) == SetToSortSeq({k \in Keys : s \in Matrix!OmegaOwners[k]}, <)

MCOmegaMatrix ==
    [cell \in 0..(N * KeysPerMachine - 1) |->
        Row(cell \div KeysPerMachine)[(cell % KeysPerMachine) + 1]]

\* In the first run the first address is longer than the others; in the second all
\* are of one length.
EqualAddresses   == << <<"a", ":", "1">>, <<"b", ":", "2">>, <<"c", ":", "3">> >>
UnequalAddresses == << <<"a", "a", "a", ":", "1">>, <<"b", ":", "2">>, <<"c", ":", "3">> >>

MCAddressesOf  == <<UnequalAddresses, EqualAddresses>>
OneEqualDeal   == <<EqualAddresses>>
=============================================================================
