SPECIFICATION MCSpec
CONSTANTS
    t1 = t1
    t2 = t2
    Threads <- MCThreads
    EventTypes = {1, 12}
    ReadTypes = {1}
    enable_empty_event_flag = 0
    Capacity = 2
    Fds = {2}
    DiskMayFail = TRUE
    EventBound = 5
    BufferBound = 3
SYMMETRY ThreadSymmetry
INVARIANTS TypeOK NothingLost MonitorSeesAll ConsumersOwnTheirBuffer RetryFits SubeventsGoToOwnEvent GapsShowLosses
PROPERTIES StableWhileInUse ImplementsFileStream ImplementsMonitorStream
