SPECIFICATION Spec
CONSTANTS
    NPROC = 3
    NCPU = 2
    MaxPid = 3
    MaxSleep = 1
    Tickets <- MCOneTicket
    KillPids <- MCShell
    AllocMayFail = TRUE
INVARIANTS
    TypeOK
    OneCpuPerStack
    WaitNoLostWakeup
    KilledNotWaiting
    SleepNoLostTick
    ParentAlive
PROPERTIES
    ImplementsTree
CHECK_DEADLOCK FALSE
