SPECIFICATION SharedSpec
CONSTANTS
    Procs = {"Learn", "Observe"}
    Pids = {pid1, pid2}
    Locks = {"learn", "observe"}
    LockOf <- EachItsOwn
    NoPid = NoPid
    MaxAlive = 2
    Symbols = {btc}
    MaxDbFaults = 0
    MaxRows = 1
PROPERTIES
    SoldOnce
