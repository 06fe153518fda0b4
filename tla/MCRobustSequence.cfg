\* Four servers, three to a key, three transactions through any initiators; at
\* most one server compromised; no other fault.
CONSTANTS
    N = 4
    T = 3
    Initiators = {0, 1, 3}
    Servers <- MCServers
    KeyCount = 4
    AssignmentsOf <- MCAssignmentsOf
    CompromisedSets <- OneCompromised
    Faults = {}
    MaxRequests = 3
    MaxCrashes = 0
SPECIFICATION FairSpec
INVARIANTS
    AlarmIsExact
    CipherUsesEveryKey
PROPERTIES
    RequestConcludes
\* No request is started after the last.
CHECK_DEADLOCK FALSE
