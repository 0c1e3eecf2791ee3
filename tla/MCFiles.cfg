SPECIFICATION MCSpec
CONSTANTS
    p1 = p1
    p0 = p0
    p2 = p2
    f1 = f1
    f2 = f2
    d1 = d1
    d2 = d2
    PROCS = {p1, p2, p0}
    INITPROC = p0
    FILES = {f1, f2}
    DIRS = {d1, d2}
    ROOT = d1
    NENTRY = 2
    KEEP = 1
    MAX_INODE_COUNT = 6
    FLAGS <- MCFLAGS
    BUFS <- MCBUFS
    CLEAN = TRUE
    BLOCKS = {1, 2, 3}
    SEEKS = {0, 1, 3}
    SFS_BLKSIZE = 2
    SFS_NDIRECT = 1
    SFS_BLK_NENTRY = 1
    SFS_MAX_FILE_SIZE = 5
    STALE = STALE
    NONE = NONE
INVARIANTS
    CountsExact
    OneOwner
    ReadReturns
PROPERTIES
    ImplementsFiles
SYMMETRY Symm
