SPECIFICATION FairSpec
CONSTANTS
    Procs = {idle, 0, 1, 2}
    idleproc = idle
    max_time_slice = 1
    N = 3
    TIMES = 2
    mutex = mutex
    next = next
    Sems = {mutex, next, 0, 1, 2}
    InitValue <- MCInitValue
INVARIANTS
    OneInside
    CountsMatch
PROPERTIES
    ImplementsDining
    AllQuit
