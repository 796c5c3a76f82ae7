SPECIFICATION FairSpec
CONSTANTS
    NumSensors = 2
    Readers = {r1, r2}
    MaxLines = 3
    Run = Run
    Free = Free
    Lines <- MCLines
INVARIANTS
    TypeOK
    SerialDeviceOutlivesThread
    PairedWrenchesFromOneLine
PROPERTIES
    ImplementsBoard
    FreshPublication
    ReadsNeverGoBack
    DetachReturns
    CompleteWrenchPublished
