SPECIFICATION FairSpec
CONSTANTS
    StartTime = 4
    Float <- MCFloat
    MaxTime = 5
    MaxCloses = 1
    MaxAttachments = 1
PROPERTIES
    GivesUpOnlyIfReopeningFails
