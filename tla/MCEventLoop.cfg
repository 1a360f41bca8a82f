SPECIFICATION LoopSpec
CONSTANTS
    MaxWorkers = 2
    Stoppers = {s1, s2}
    Clients = {c1}
    EventFds = {3, 4, 5}
INVARIANTS ClientsAreServed LeavesOnlyWhenSignalled OneStopFindsReader
PROPERTIES StopEndsMainLoop StartReturns SignalledWorkersEnd
CHECK_DEADLOCK FALSE
