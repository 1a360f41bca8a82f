SPECIFICATION FairSpec
CONSTANTS
    RecvBuffer = 4
    MaxBody = 6
    Messages <- MCChunkedMessages
    ReplySize = 1
    MaxMessages = 2
INVARIANT HeaderErrorsAreErrors
CHECK_DEADLOCK FALSE
