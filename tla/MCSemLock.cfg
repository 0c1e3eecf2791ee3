SPECIFICATION FairSpec
CONSTANTS
    Procs = {idle, a, b, c}
    idleproc = idle
    max_time_slice = 1
    Sems = {mutex, pair}
    mutex = mutex
    pair = pair
    NoSem = NoSem
    Sleepers = {a}
    InitValue <- MCInitValue
    Inner <- MCInner
INVARIANTS
    NoUnitBesideWaiter
    Conservation
    WokenWithUnit
PROPERTIES
    WaiterServed
