------------------------ MODULE MCRobustTransaction ------------------------
(***************************************************************************)
(* RobustTransaction over the real omega matrix and the real key           *)
(* assignment.  Participant lists that lead to the same assignment are one *)
(* element of Assignments.                                                 *)
(***************************************************************************)
EXTENDS RobustTransaction, SequencesExt

CONSTANTS N, T   \* servers, and participants of a transaction

Matrix == INSTANCE Omega
MCServers  == Matrix!OmegaServers
MCOwners   == Matrix!OmegaOwners

ASSUME KeyCountIsOmegas == KeyCount = Matrix!OmegaKeyCount

KeyLists == INSTANCE ServerKeyMap WITH Servers <- MCServers, Owners <- MCOwners

ParticipantLists(m) ==
    {l \in [1..T -> MCServers \ {m}] : \A a, b \in 1..T : a # b => l[a] # l[b]}

MCAssignmentsOf ==
    [m \in Initiators |-> {KeyLists!AssignmentOf(m, l) : l \in ParticipantLists(m)}]

\* The hypotheses of the theorems VerdictExact and CipherIsWhole hold of the real matrix.
ASSUME OmegaUsesAllKeys     == AllKeysUsed
ASSUME OmegaCrossChecks     == KeysCrossChecked
ASSUME OmegaMeetsHonest     == SabotageMeetsHonest

\* No, one and two compromised servers, among the participants or not.
SomeCompromised == {{}, {1}, {1, 2}}
OneCompromised  == {{}, {1}}
=============================================================================
