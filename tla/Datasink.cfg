SPECIFICATION Spec
CONSTANTS
    s1 = s1
    Servers <- MCServers
    NoFile = NoFile
    Stdin = Stdin
    Fds = {0, 3, 4, 5}
    PubSub = TRUE
    Orderly = TRUE
    SendBound = 3
    EpochBound = 2
    RunBound = 3
CHECK_DEADLOCK FALSE
INVARIANTS InOneFile RunsKeptApart
