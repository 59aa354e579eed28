SPECIFICATION FairSpec
CONSTANTS
    NPROC = 3
    NCPU = 1
    MaxPid = 3
    MaxSleep = 2
    Tickets <- MCTickets
    KillPids <- MCShell
    AllocMayFail = FALSE
PROPERTIES
    RunnableRuns
    KilledExits
    SleepReturns
