CONSTANTS
    NTHR = 4
    NPAGES = 3
    IrqConds = {uart}
    LockConds = {kfs}
SPECIFICATION FairSpec
INVARIANTS
    TypeOK
    NoAssertFails
    ListsMatchStates
    OneRunning
    ContextReady
    NoSleepOnWork
    NoMissedExit
    ThreadTree
PROPERTIES
    ExitedIsFinal
    ImplementsScheduler
    ReadyRuns
