SPECIFICATION FairSpec
CONSTANTS
    Clients = {c1, c2}
    MaxRequests = 3
    MaxFaults = 2
    MaxOpens = 2
CHECK_DEADLOCK FALSE
INVARIANTS
    TypeOK
    LagIsDuplicates
PROPERTIES
    ReadReturns
