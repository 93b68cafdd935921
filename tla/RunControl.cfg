SPECIFICATION MCSpec
CONSTANTS
    evt = evt
    c1 = c1
    l1 = l1
    l2 = l2
    Cmds <- MCCmds
    Threads <- MCThreads
    Loops <- MCLoops
    Fds <- MCFds
    Commands = {"daq_begin", "daq_end"}
    RunNumbers = {0}
    EventTypes = {1, 9, 12}
    ReadTypes = {1, 9, 12}
    enable_empty_event_flag = 1
    Capacity = 2
    EventBound = 4
    BufferBound = 20
    DeviceBound = 0
    RunBound = 3
    max_events = 0
    MaxVolume = FALSE
    OpenMayFail = TRUE
    SizesMayFail = FALSE
    DiskMayFail = FALSE
    SleepCovers = TRUE
    LoopsEnd = TRUE
    BeginWaits = FALSE
    SenderKeepsUp = TRUE
SYMMETRY LoopSymmetry
INVARIANTS RCTypeOK ReadoutsDontOverlap FileIsWholeRun RunIsBracketed NumbersAnnounced
PROPERTIES StableWhileInUse ImplementsAcrossRuns
