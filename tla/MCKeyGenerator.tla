--------------------------- MODULE MCKeyGenerator ---------------------------
(***************************************************************************)
(* KeyGenerator for the small deployment and its neighbours, t = n and     *)
(* t = 1 included.                                                         *)
(***************************************************************************)
EXTENDS KeyGenerator

MCDeployments == {<<5, 3>>, <<6, 4>>, <<6, 3>>, <<4, 4>>, <<4, 1>>, <<7, 4>>}
=============================================================================
