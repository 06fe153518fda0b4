---------------------------- MODULE MCEncResult ----------------------------
(***************************************************************************)
(* Ciphertexts of two bytes, an a||j of one: a plain result, one with a CR *)
(* in the ciphertext, one whose a||j is a CR, one that ends with the zero  *)
(* that is also read past the end.                                         *)
(***************************************************************************)
EXTENDS EncResult

CONSTANTS c1, c2, c3   \* runs of the client

MCAnswerSet ==
    {[cipher |-> <<65, 66>>, acatj |-> <<67>>],
     [cipher |-> <<68, CR>>, acatj |-> <<69>>],
     [cipher |-> <<70, 71>>, acatj |-> <<CR>>],
     [cipher |-> <<72, 73>>, acatj |-> <<0>>]}

ClientSymmetry == Permutations(Clients)
=============================================================================
