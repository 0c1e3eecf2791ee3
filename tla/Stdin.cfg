SPECIFICATION FairSpec
CONSTANTS
    Procs = {idle, a, b}
    idleproc = idle
    max_time_slice = 1
    STDIN_BUFSIZE = 2
    MaxLen = 2
    MaxTyped = 4
INVARIANTS
    NoSleepBesideChar
    WaitOnStack
    InOrder
PROPERTIES
    KillEndsRead
