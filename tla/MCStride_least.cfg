SPECIFICATION Spec
CONSTANTS
    Procs = {idle, init, a, b}
    idleproc = idle
    initproc = init
    NULL = NULL
    max_time_slice = 1
    WIDTH = 4
    Priorities = {1}
PROPERTIES
    PicksLeast
