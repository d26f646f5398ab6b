CONSTANTS
    PageCnt = 11
    PTE_CNT = 2
    HeapRoom = 2
    PageRoom = 3
    NPROC = 2
    IOMAX = 2
    NFILE = 3
    Files = {1, 2}
    Image <- MCImage
    INIT_PROC = 1
    Offsets = {0}
    MaxCalls = 4
SPECIFICATION Spec
INVARIANTS
    OneUsePerPage
    CountCoversDescriptors
    DescriptorKeepsFile
PROPERTIES
    SpacesAreSeparate
    ForkKeepsMemory
CHECK_DEADLOCK FALSE
