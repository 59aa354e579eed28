SPECIFICATION StoreSpec
CONSTANTS
    Parts = {"log", "content", "vm", "heap"}
    Proc = {p1, p2}
    Block = {b1, b2, b3}
    Val = {v1, v2}
    NoBuf = NoBuf
    NoBlock = NoBlock
    LOGSIZE = 4
    MAXOPBLOCKS = 2
    NLOG = 4
    OpBlocks = 2
    File = {"f", "g"}
    NBLOCK = 4
    BSIZE = 2
    NDIRECT = 1
    NINDIRECT = 2
    Byte = {1}
    MaxIO = 4
    Process = {u1, u2}
    NoProcess = NoProcess
    NPAGES = 16
    PGSIZE = 2
    SPAN = 2
    TOP = 7
    TEXT = 4
    Increments <- MCIncrements
    Value = {7}
    MaxCalls = 6
    Zero = 0
    Junk = 1
    Text = 2
    Args = 3
    NALLOC = 3
    HEAP = 10
    Sizes = {2, 3, 4}
SYMMETRY MCSymmetry
INVARIANTS
    StoreTypeOK
    CommitAlone
    SleepersMustWait
    LogSpace
    HeapTiled
PROPERTIES
    ImplementsStore
    FilesAreBytes
    MemoryIsOwn
CHECK_DEADLOCK FALSE
