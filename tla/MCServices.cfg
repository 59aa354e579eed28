SPECIFICATION FairSpec
CONSTANTS
    Parts = {"pipe", "console", "shell"}
    p1 = p1
    p2 = p2
    Proc = {p1, p2}
    Nobody = Nobody
    Byte = {0, 1}
    Readers = {p1}
    Writers = {p2}
    PIPESIZE = 2
    UINT = 4
    MaxN = 2
    Key = {"x", "nl", "eof"}
    Newline = "nl"
    Eof = "eof"
    INPUT_BUF = 2
    Wrap = 4
    MaxRead = 2
    NJOB = 6
    Lines <- MCLines
    NPIPES = 2
    PipeRoom = 1
    Output = 2
INVARIANTS
    TypeOK
    SleepersMustWait
    FreedUnused
PROPERTIES
    ImplementsFifo
    FullDrains
    ReadsEnd
    ImplementsTty
    LinesRead
    CommandEnds
CHECK_DEADLOCK FALSE
