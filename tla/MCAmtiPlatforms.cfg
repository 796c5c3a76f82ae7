SPECIFICATION FairSpec
CONSTANTS
    Plates = {p1, p2}
    Strangers = {q1}
    NumPlatforms = 2
    UnsignedMax = 3
    Timeout = 1
    MaxTime = 2
    MaxPackets = 2
INVARIANTS
    TypeOK
    ReadsOwnPlatform
    GoodMeasurementIsRecent
    ShutDriverReportsError
PROPERTIES
    ImplementsMeasurementBoard
    PacketsAreFetched
CHECK_DEADLOCK FALSE
