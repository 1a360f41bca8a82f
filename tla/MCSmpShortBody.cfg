SPECIFICATION Spec
CONSTANTS
    Meta = 2
    HeaderBuffer = 3
    MAX_HEADER = 4
    MAX_DATA = 2
    HeaderSizes = {1}
    BodySizes = {2}
    MaxMessages = 1
INVARIANT NeverComesThere
CHECK_DEADLOCK FALSE
