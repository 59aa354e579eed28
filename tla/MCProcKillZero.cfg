SPECIFICATION Spec
CONSTANTS
    NPROC = 3
    NCPU = 1
    MaxPid = 3
    MaxSleep = 0
    Tickets <- MCTickets
    KillPids <- MCZeroPid
    AllocMayFail = FALSE
INVARIANTS
    BornAlive
CHECK_DEADLOCK FALSE
