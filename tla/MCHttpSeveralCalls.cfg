SPECIFICATION FairSpec
CONSTANTS
    RecvBuffer = 4
    MaxBody = 6
    Messages <- MCPlainMessages
    ReplySize = 1
    MaxMessages = 1
PROPERTY ReturnsAfterSeveralCalls
CHECK_DEADLOCK FALSE
