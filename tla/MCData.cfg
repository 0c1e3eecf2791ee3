SPECIFICATION Spec
CONSTANTS
    Slots = {a, b, c, d}
    MAX_PID = 6
    Owners = {a, b, c}
    MaxSleep = 4
    NPAGE = 7
    Regions <- MCRegions
    SLOB_UNIT = 2
    PAGE = 4
    SLOB_PAGES = 3
    BIGBLOCK = 2
    Sizes = {1, 3, 7, 16}
    USERS = {u, v}
    FIRST = u
    NPHYS = 17
    NVIRT = 4
    PTENTRIES = 3
    KSTACKPAGE = 2
    USTACKPAGE = 2
    ARGPAGES = 1
    IMAGES <- MCImages
    VALUES = {0, 1, 2, 9}
    STORES = {1}
    ARGV = 2
    STALE = 9
    NOMM = NOMM
INVARIANTS
    UniquePids
    Coalesced
    HeapSound
    PagesExact
    AreasHold
PROPERTIES
    GetPidEnds
    ImplementsTimers
    ImplementsPageMemory
    ImplementsPrivateMemory
