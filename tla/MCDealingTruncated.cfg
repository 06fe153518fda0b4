\* Are the keys dealt to every server that is connected to?
CONSTANTS
    N = 3
    T = 2
    KeyCount = 3
    KeysPerMachine = 2
    OmegaMatrix <- MCOmegaMatrix
    AddressesOf <- OneEqualDeal
    BlockSize = 2
    MaxWrite = 1
    Room = 1
    Faults = {"slow"}
    MaxDeals = 1
SPECIFICATION FairSpec
PROPERTY
    ConnectedIsDealt
\* The last deal is the end.
CHECK_DEADLOCK FALSE
