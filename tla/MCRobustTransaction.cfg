\* Five servers, three to a key, one transaction; up to two servers compromised,
\* so that there is an honest participant; no other fault.
CONSTANTS
    N = 5
    T = 3
    Initiators = {0}
    Servers <- MCServers
    KeyCount = 10
    AssignmentsOf <- MCAssignmentsOf
    CompromisedSets <- SomeCompromised
    Faults = {}
    MaxRequests = 1
    MaxCrashes = 0
SPECIFICATION Spec
INVARIANTS
    TypeOK
    MergeInv
    OneHonestHolderSuffices
    AlarmIsExact
PROPERTIES
    WrittenOnce
    ImplementsVote
\* No request is started after the last.
CHECK_DEADLOCK FALSE
