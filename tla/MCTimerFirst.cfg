CONSTANTS
    Threads = {1}
    First = 1
    Conditions = {1}
    TICK_PERIOD = 3
    UINT64_MAX = 15
    MaxClock = 7
    Counts = {1, 4, 15}
SPECIFICATION Spec
INVARIANTS
    FirstAlarmArmed
