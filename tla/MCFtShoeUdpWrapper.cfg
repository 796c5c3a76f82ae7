SPECIFICATION FairSpec
CONSTANTS
    StartTime = 4
    Float <- MCFloat
    MaxTime = 6
    MaxCloses = 2
    MaxAttachments = 2
INVARIANTS
    TypeOK
    OneAttachmentPerPacket
    OnlyOwnerEndsPublication
    PacketNotNewerThanReadings
PROPERTIES
    PacketTimesNeverGoBack
    PublicationResumes
