\* Three servers, two to a key, two or all of which a Dealer has reached; two clients at two
\* of them; then a run of the Dealer that reaches some servers, or one mishap: a death, an
\* insert lost by an initiator, a connection refused, encResult.txt damaged.
CONSTANTS
    N = 3
    T = 2
    Servers <- MCServers
    KeyCount = 3
    AssignmentsOf <- MCAssignmentsOf
    Addresses = {0, 2}
    Clients = {1, 2}
    FirstEnvs <- AllOrNotTheLast
    Mortal = {0}
    MaxEvents = 1
SPECIFICATION FairSpec
INVARIANTS
    TypeOK
    AlarmHasReason
    OkWithoutTimeout
PROPERTIES
    RequestsEnd
\* When the clients are through nothing has to happen.
CHECK_DEADLOCK FALSE
