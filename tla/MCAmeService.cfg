SPECIFICATION FairSpec
CONSTANTS
    Readers = {r1, r2}
    MaxDatagrams = 2
    QueueLength = 2
    MaxOpens = 2
INVARIANTS
    TypeOK
    SoleReadingIsOneSample
    SoleReadingIsFresh
    OneReceiver
    DefinedWhileOpen
PROPERTIES
    ExitReturns
    SamplePublished
