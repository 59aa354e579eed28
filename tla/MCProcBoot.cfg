SPECIFICATION Spec
CONSTANTS
    NPROC = 2
    NCPU = 2
    MaxPid = 2
    MaxSleep = 0
    Tickets <- MCTickets
    KillPids <- MCNoPids
    AllocMayFail = FALSE
INVARIANTS
    SchedulerLoops
CHECK_DEADLOCK FALSE
