SPECIFICATION MCSpec
CONSTANTS
    Procs = {LearnA}
    Learners = {LearnA}
    Pids = {pid1, pid2}
    Locks = {"learn"}
    LockOf <- CommandLock
    NoPid = NoPid
    MaxAlive = 1
    RunsShown = 2
    MaxRuns = 3
    TargetDays = 2
    MaxDays = 4
    MaxSessions = 3
PROPERTIES
    ClockKept
