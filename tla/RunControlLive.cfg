SPECIFICATION MCFairSpec
CONSTANTS
    evt = evt
    c1 = c1
    l1 = l1
    l2 = l2
    Cmds <- MCCmds
    Threads <- MCThreads
    Loops = {l1}
    Fds <- MCFds
    Commands = {"daq_begin", "daq_end"}
    RunNumbers = {0}
    EventTypes = {1, 9, 12}
    ReadTypes = {1}
    enable_empty_event_flag = 0
    Capacity = 2
    EventBound = 2
    BufferBound = 5
    DeviceBound = 0
    RunBound = 2
    max_events = 0
    MaxVolume = TRUE
    OpenMayFail = TRUE
    SizesMayFail = FALSE
    DiskMayFail = FALSE
    SleepCovers = TRUE
    LoopsEnd = TRUE
    BeginWaits = TRUE
    SenderKeepsUp = TRUE
PROPERTIES CallsReturn TriggerLoopTerminates SwitchCompletes SwitchedIsWritten
