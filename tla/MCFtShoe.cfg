SPECIFICATION FairSpec
CONSTANTS
    Clients = {reader}
    Calibrators = {calib}
    Answers = {"OK", "TIMEOUT"}
    Channels = {6, 12}
    RangeUpper = 11
    MaxSamples = 2
    NoThread = NoThread
INVARIANTS
    NoGoodStatusWhileDetached
    TypeOK
    ReadUsesOwnReadings
    OffsetsFromRawReadings
    OrderlyUseNeverCrashes
PROPERTIES
    CalibrationReturns
