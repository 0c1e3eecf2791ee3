SPECIFICATION Spec
CONSTANTS
    Procs = {idle, init, a, b}
    idleproc = idle
    initproc = init
    NULL = NULL
    max_time_slice = 1
    MAX_PROCESS = 4
    MaxSleep = 1
    Killable = {a, b}
INVARIANTS
    KilledIsInterrupted
