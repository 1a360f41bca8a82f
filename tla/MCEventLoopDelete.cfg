SPECIFICATION Spec
CONSTANTS
    MaxWorkers = 1
    Stoppers = {s1}
    Clients = {}
    EventFds = {3, 4}
INVARIANT WorkersStopBeforeDelete
CHECK_DEADLOCK FALSE
