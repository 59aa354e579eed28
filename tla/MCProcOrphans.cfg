SPECIFICATION FairSpec
CONSTANTS
    NPROC = 4
    NCPU = 1
    MaxPid = 4
    MaxSleep = 0
    Tickets <- MCOneTicket
    KillPids <- MCNoPids
    AllocMayFail = FALSE
PROPERTIES
    OrphansReaped
CHECK_DEADLOCK FALSE
