SPECIFICATION FairSpec
CONSTANTS
    Clients = {reader}
    Calibrators = {}
    Answers = {"OK", "TIMEOUT"}
    Channels = {6, 12}
    RangeUpper = 11
    MaxSamples = 1
    NoThread = NoThread
PROPERTIES
    AttachSucceedsOnlyIfAllWell
