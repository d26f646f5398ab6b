CONSTANTS
    NTHR = 3
    NPAGES = 1
    IrqConds = {uart}
    LockConds = {kfs}
SPECIFICATION Spec
PROPERTIES
    SwtchReturnsPrevious
