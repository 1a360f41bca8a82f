SPECIFICATION FairSpec
CONSTANTS
    Conns = {c1, c2}
    Fds = {f1, f2}
    None = None
    MaxBytes = 2
INVARIANTS CallbacksReachTheirConnection EndFollowsData
PROPERTIES DataIsRead AnswersAreSent
CHECK_DEADLOCK FALSE
