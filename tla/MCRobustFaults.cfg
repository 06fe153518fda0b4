\* Three servers, two to a key, two transactions, all faults: inserts lost, connections refused,
\* timeouts and the death of a server; at most one compromised.
CONSTANTS
    N = 3
    T = 2
    Initiators = {0, 2}
    Servers <- MCServers
    KeyCount = 3
    AssignmentsOf <- MCAssignmentsOf
    CompromisedSets <- OneCompromised
    Faults = {"race", "refuse", "timeout", "crash"}
    MaxRequests = 2
    MaxCrashes = 1
SPECIFICATION FairSpec
INVARIANTS
    MergeInv
PROPERTIES
    ImplementsVote
    ConcludesOrSpins
\* No request is started after the last.
CHECK_DEADLOCK FALSE
