CONSTANTS
    Threads = {1, 2, 3}
    First = 1
    Conditions = {1, 2, 3}
    TICK_PERIOD = 3
    UINT64_MAX = 15
    MaxClock = 6
    Counts = {3, 15}
SPECIFICATION FairSpec
INVARIANTS
    TypeOK
    SleepListMatches
    AlarmsArmed
PROPERTIES
    NoEarlyWake
    AlarmRings
CHECK_DEADLOCK FALSE
