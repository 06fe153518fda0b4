\* Two runs of the Dealer for three servers; blocks of two chunks, a kernel buffer
\* that takes one, refused connections and waits that run out.
CONSTANTS
    N = 3
    T = 2
    KeyCount = 3
    KeysPerMachine = 2
    OmegaMatrix <- MCOmegaMatrix
    AddressesOf <- MCAddressesOf
    BlockSize = 2
    MaxWrite = 1
    Room = 1
    Faults = {"refuse", "slow"}
    MaxDeals = 2
SPECIFICATION Spec
INVARIANTS
    TypeOK
    HoldersAgree
    BytesConserved
    HangsOnlyIfTruncated
    AddressesAsGiven
\* The last deal is the end.
CHECK_DEADLOCK FALSE
