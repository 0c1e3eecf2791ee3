SPECIFICATION FairSpec
CONSTANTS
    Procs = {idle, init, a, b}
    idleproc = idle
    initproc = init
    NULL = NULL
    max_time_slice = 1
    MAX_PROCESS = 4
    MaxSleep = 2
    Killable = {a, b}
PROPERTIES
    SleepEnds
    OrphanReaped
    CpuGivenUp
