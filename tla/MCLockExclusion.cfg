CONSTANTS
    Threads = {1, 2}
    First = 1
    lock_cond = lock_cond
    io_cond = io_cond
    Conditions = {lock_cond, io_cond}
SPECIFICATION Spec
INVARIANTS
    MutualExclusion
