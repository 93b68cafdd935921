SPECIFICATION RCSpec
CONSTANTS
    evt = evt
    c1 = c1
    l1 = l1
    l2 = l2
    Cmds <- MCCmds
    Threads <- MCThreads
    Loops <- MCLoops
    Fds <- MCFds
    Commands = {"daq_begin", "daq_fake_trigger", "create_device"}
    RunNumbers = {0, 1}
    EventTypes = {1, 9, 12}
    ReadTypes = {1}
    enable_empty_event_flag = 0
    Capacity = 2
    EventBound = 3
    BufferBound = 3
    RunBound = 2
    max_events = 3
    MaxVolume = TRUE
    OpenMayFail = TRUE
    SizesMayFail = TRUE
    DiskMayFail = FALSE
    SleepCovers = TRUE
    LoopsEnd = TRUE
    BeginWaits = TRUE
    SenderKeepsUp = TRUE
    DeviceBound = 1
CHECK_DEADLOCK FALSE
SYMMETRY LoopSymmetry
 
PROPERTIES ClosedFilesKept
