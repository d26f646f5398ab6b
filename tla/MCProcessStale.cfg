CONSTANTS
    PageCnt = 12
    PTE_CNT = 2
    HeapRoom = 2
    PageRoom = 3
    NPROC = 2
    IOMAX = 2
    NFILE = 2
    Files = {1, 2}
    Image <- MCImage
    INIT_PROC = 1
    Offsets = {0}
    MaxCalls = 4
SPECIFICATION Spec
INVARIANTS
    FreedIsUnmapped
CHECK_DEADLOCK FALSE
