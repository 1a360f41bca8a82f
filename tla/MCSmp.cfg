SPECIFICATION FairSpec
CONSTANTS
    Meta = 2
    HeaderBuffer = 2
    MAX_HEADER = 3
    MAX_DATA = 2
    HeaderSizes = {0, 1, 3}
    BodySizes = {0, 2, 3}
    MaxMessages = 2
INVARIANTS OnlyResumableErrors HeaderIsTheApplications
PROPERTIES DeliversWhatWasSent RequestsAreAnswered
CHECK_DEADLOCK FALSE
