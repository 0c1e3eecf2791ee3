SPECIFICATION Spec
CONSTANTS
    Procs = {idle, init, a, b, c}
    idleproc = idle
    initproc = init
    NULL = NULL
    max_time_slice = 1
    MAX_PROCESS = 5
    MaxSleep = 1
    Killable = {a, b, c}
SYMMETRY UserSymmetry
INVARIANTS
    ProcTypeOK
    RunPoolExact
    SleeperHasWaker
    TimersMatchSleepers
    WhereAsleep
    FamilyLinks
    InitExitsLast
PROPERTIES
    ZombieNeverWakes
    ReapedByParent
