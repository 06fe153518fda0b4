\* Six servers, four to a key: the smallest deployment in which every branch of
\* the scan is taken (with five and three the first place is never pushed down).
CONSTANTS
    N = 6
    T = 4
    Servers <- MCServers
    KeyCount <- MCKeyCount
    Owners <- MCOwners
SPECIFICATION MCSpec
INVARIANTS
    TypeOK
    AssignmentInv
    TwofoldAssignment
    NeverCrashes
    SlotsHoldOwners
    ListsAscending
    StepsComputeKeyMap
