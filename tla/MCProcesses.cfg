SPECIFICATION MCSpec
CONSTANTS
    Procs = {LearnA, LearnB, Observe}
    Learners = {LearnA, LearnB}
    Pids = {pid1, pid2, pid3}
    Locks = {"learn", "observe"}
    LockOf <- CommandLock
    NoPid = NoPid
    MaxAlive = 2
    RunsShown = 2
    MaxRuns = 3
    TargetDays = 2
    MaxDays = 3
    MaxSessions = 2
SYMMETRY Interchangeable
INVARIANTS
    SerialMutex
    OwnerNamed
    FirstWindowKept
    LiveRunIsRunning
    DashboardSeesLiveBot
PROPERTIES
    SettledWindowsStay
    FoldIsCanonical
