--------------------------- MODULE MCDiseSystem ---------------------------
(***************************************************************************)
(* DiseSystem over the real omega matrix and the real key assignment.      *)
(***************************************************************************)
EXTENDS DiseSystem, SequencesExt

CONSTANTS N, T   \* servers, and participants of a transaction

Matrix == INSTANCE Omega
MCServers  == Matrix!OmegaServers
MCOwners   == Matrix!OmegaOwners

ASSUME KeyCountIsOmegas == KeyCount = Matrix!OmegaKeyCount

KeyLists == INSTANCE ServerKeyMap WITH Servers <- MCServers, Owners <- MCOwners

ParticipantLists(m) ==
    {l \in [1..T -> MCServers \ {m}] : \A a, b \in 1..T : a # b => l[a] # l[b]}

MCAssignmentsOf ==
    [m \in MCServers |-> {KeyLists!AssignmentOf(m, l) : l \in ParticipantLists(m)}]

\* The Dealer has reached all servers, or has missed the last.
Reached(servers) == [s \in MCServers |-> IF s \in servers THEN 0 ELSE Undealt]
AllOrNotTheLast  == {Reached(MCServers), Reached(MCServers \ {N - 1})}
=============================================================================
