SPECIFICATION StoreSpec
CONSTANTS
    Parts = {"log"}
    Proc = {p1, p2}
    Block = {b1, b2, b3, b4, b5, b6}
    Val = {v}
    NoBuf = NoBuf
    NoBlock = NoBlock
    LOGSIZE = 6
    MAXOPBLOCKS = 2
    NLOG = 7
    OpBlocks <- MCFileBlocks
    File = {"f", "g"}
    NBLOCK = 4
    BSIZE = 2
    NDIRECT = 1
    NINDIRECT = 2
    Byte = {1}
    MaxIO = 4
    Process = {u1, u2}
    NoProcess = NoProcess
    NPAGES = 14
    PGSIZE = 2
    SPAN = 3
    TOP = 5
    TEXT = 2
    Increments <- MCIncrements
    Value = {7}
    MaxCalls = 4
    Zero = 0
    Junk = 1
    Text = 2
    Args = 3
    NALLOC = 3
    HEAP = 10
    Sizes = {2, 3, 4}
SYMMETRY MCSymmetry
INVARIANT TransactionFits
