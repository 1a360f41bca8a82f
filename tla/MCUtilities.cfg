SPECIFICATION UtilitiesSpec
CONSTANTS
    Handles = {h1, h2, h3}
    Impls = {i1, i2}
    None = None
    MaxSize = 2
    SizeRange = 4
    SourceBytes = {32, 43, 107, 255}
    MaxSource = 4
    TextChars = {37, 61, 65, 123, 200}
    MaxText = 4
    Base = 2
    OctetMax = 2
    IndexRange = 9
    MaxChildren = 3
    Threads = {t1, t2, t3}
INVARIANTS
    RefsCountHandles NoUseAfterFree ArraysFollowImpls WindowInArray
    RoundTrip DecodeInBounds OneChild OneHolder
PROPERTIES DeletedByLastHandle Ipv4IsParsed CrashedChildIsReplaced
CHECK_DEADLOCK FALSE
