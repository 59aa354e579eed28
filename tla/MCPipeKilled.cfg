SPECIFICATION Spec
CONSTANTS
    Parts = {"pipe"}
    p1 = p1
    p2 = p2
    Proc = {p1, p2}
    Nobody = Nobody
    Byte = {0}
    Readers = {p1}
    Writers = {p2}
    PIPESIZE = 2
    UINT = 4
    MaxN = 3
    Key = {"x", "nl", "eof"}
    Newline = "nl"
    Eof = "eof"
    INPUT_BUF = 2
    Wrap = 4
    MaxRead = 2
    NJOB = 6
    Lines <- MCLines
    NPIPES = 2
    PipeRoom = 1
    Output = 2
INVARIANT ReadersMustWait
CHECK_DEADLOCK FALSE
