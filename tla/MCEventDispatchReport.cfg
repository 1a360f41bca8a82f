SPECIFICATION FairSpec
CONSTANTS
    Conns = {c1}
    Fds = {f1}
    None = None
    MaxBytes = 1
PROPERTY CloseIsReported
CHECK_DEADLOCK FALSE
