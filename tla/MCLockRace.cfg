SPECIFICATION LockSpec
CONSTANTS
    Procs = {first, second}
    Pids = {pid1, pid2}
    Locks = {"learn"}
    LockOf <- AllLearn
    NoPid = NoPid
    MaxAlive = 2
INVARIANTS
    MutualExclusion
