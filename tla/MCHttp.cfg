SPECIFICATION FairSpec
CONSTANTS
    RecvBuffer = 4
    MaxBody = 6
    Messages <- MCMessages
    ReplySize = 1
    MaxMessages = 2
INVARIANTS RefusesOnlyBadMessages
PROPERTIES DeliversWhatWasSent MessagesAreReturned
CHECK_DEADLOCK FALSE
