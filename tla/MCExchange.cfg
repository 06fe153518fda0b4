\* Four keys and three OpenMP threads; a request of three writes, an answer of up to
\* three; kernel buffers that take less than either.
CONSTANTS
    Asked <- MCAsked
    RequestSize = 5
    MaxWrite = 2
    Room = 2
    OmpThreads = 3
    Mortal = {"initiator", "participant"}
SPECIFICATION FairSpec
INVARIANTS
    TypeOK
    HangHasCause
PROPERTIES
    AllOrNothing
    ThreadEnds
\* The exchange is over, or its parties are.
CHECK_DEADLOCK FALSE
