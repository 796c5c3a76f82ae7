SPECIFICATION Spec
CONSTANTS
    ContentWords = 13
    SizeModulus = 4096
    MaxCalls = 2
    Methods <- MCMethods
    Answered <- MCAnswered
    BoardData <- MCBoardData
INVARIANT
    UnreportedAnswerIsSent
