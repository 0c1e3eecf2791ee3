SPECIFICATION MCSpec
CONSTANTS
    Procs = {idle, init, a, b}
    idleproc = idle
    initproc = init
    NULL = NULL
    max_time_slice = 1
    WIDTH = 3
    Priorities = {1, 2, 4}
    OpenPriorities = {0, 2}
INVARIANTS
    HeapIsPool
    ClosedGapBounded
PROPERTIES
    ClosedPoolRuns
