-------------------------- MODULE MCKeyAssignment --------------------------
(***************************************************************************)
(* KeyAssignment over the real omega matrix of N servers.                  *)
(***************************************************************************)
EXTENDS KeyAssignment

CONSTANT N   \* number of servers

Matrix == INSTANCE Omega

MCServers == Matrix!OmegaServers
MCKeyCount == Matrix!OmegaKeyCount
MCOwners  == Matrix!OmegaOwners

\* The caller goes on with the encryption when the assignment is done.
Terminated == pc \in {"done", "crashed"} /\ UNCHANGED vars
MCSpec == Init /\ [][Next \/ Terminated]_vars
=============================================================================
