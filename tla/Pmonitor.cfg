SPECIFICATION FairSpec
CONSTANTS
    t1 = t1
    t2 = t2
    t3 = t3
    op = op
    Nobody = Nobody
    Threads <- MCThreads
    LastEvent = 3
    Requests = {0, 2}
INVARIANTS EventsOnceInOrder StopWorks
PROPERTIES WaitEnds
