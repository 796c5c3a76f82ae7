SPECIFICATION FairSpec
CONSTANTS
    Plates = {p1}
    Strangers = {q1}
    NumPlatforms = 1
    UnsignedMax = 3
    Timeout = 1
    MaxTime = 2
    MaxPackets = 1
PROPERTIES
    AttachFindsPlatform
CHECK_DEADLOCK FALSE
