CONSTANTS
    Threads = {1, 2}
    First = 1
    Conditions = {"kfs", "vio", "used"}
    blksz = 2
    size = 24
    FS_BLKSZ = 4
    Image <- MCImage
    Sizes = {3}
    MaxCalls = 2
SPECIFICATION Spec
INVARIANTS
    CompletionSeen
PROPERTIES
    CallDoesItsJob
    OthersUntouched
    CallReturns
CHECK_DEADLOCK FALSE
