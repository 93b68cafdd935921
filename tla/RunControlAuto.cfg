SPECIFICATION MCSpec
CONSTANTS
    evt = evt
    c1 = c1
    l1 = l1
    l2 = l2
    Cmds <- MCCmds
    Threads <- MCThreads
    Loops <- MCLoops
    Fds <- MCFds
    Commands = {"daq_begin", "daq_open", "daq_close"}
    RunNumbers = {0}
    EventTypes = {1, 9, 12}
    ReadTypes = {1, 9, 12}
    enable_empty_event_flag = 1
    Capacity = 2
    EventBound = 9
    BufferBound = 20
    DeviceBound = 0
    RunBound = 3
    max_events = 4
    MaxVolume = TRUE
    OpenMayFail = FALSE
    SizesMayFail = FALSE
    DiskMayFail = FALSE
    SleepCovers = TRUE
    LoopsEnd = TRUE
    BeginWaits = TRUE
    SenderKeepsUp = TRUE
SYMMETRY LoopSymmetry
INVARIANTS FileIsWholeRun MonitorIsBracketed NumbersAnnounced
