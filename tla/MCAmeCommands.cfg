SPECIFICATION FairSpec
CONSTANTS
    ContentWords = 13
    SizeModulus = 4096
    MaxCalls = 3
    Methods <- MCMethods
    Answered <- MCAnswered
    BoardData <- MCBoardData
INVARIANTS
    TypeOK
    OwnReply
    CheckedReplyIsOneReply
PROPERTIES
    QueryReturns
