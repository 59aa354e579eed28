SPECIFICATION Spec
CONSTANTS
  Layers = {"locks", "cache", "inodes", "directories", "files", "calculator", "sort", "rle", "parser",
            "roundrobin", "keyboard", "screen", "boot", "mkfs", "grep", "strings", "fileio", "draws"}
  Proc = {p1, p2}
  Caller = {p1, p2}
  InitProc = p1
  Nobody = Nobody
  Block = {b1, b2, b3}
  Val = {v0, v1}
  Zero = v0
  NoBlock = NoBlock
  NBUF = 2
  Inum = {n1, n2}
  NoInum = NoInum
  NINODE = 2
  MaxLink = 2
  Name = {"a", "b"}
  MaxNlink = 2
  NINODES = 3
  Request <- Requests
  Inodes = {i1}
  Pipes = {q1}
  NoObject = NoObject
  NOFILE = 2
  NFILE = 3
  Digit = {1, 2, 7, 8}
  MaxKeys = 4
  Char = {1, 2, 10}
  BUFSIZE = 2
  MaxText = 6
  Letter = {"a", "b"}
  Garbage = "?"
  NTHREADS = 4
  INPUT_THRESHOLD = 8
  MaxInput = 9
  Words = {"cat"}
  MAXARGS = 3
  Trees <- MCTrees
  MaxTokens = 4
  Process = {k1}
  CPU = {c1, c2}
  SpinLock = {icachelock, ptable}
  ptable = ptable
  NoCPU = NoCPU
  NSLOT = 3
  Core = {o1, o2}
  NoCore = NoCore
  MaxHeld = 2
  MaxWire = 3
  COLS = 2
  ROWS = 4
  Glyph = {"x", "y"}
  SECTSIZE = 2
  MaxAddress = 7
  NCPU = 3
  Segments <- MCSegments
  BCELLS = 2
  NDIR = 1
  NMETA = 2
  BITMAP = 15
  Arguments <- MCArguments
  ROOM = 2
  Patterns <- MCPatterns
  Texts <- MCTexts
  CELLS = 5
  DIRSIZ = 2
  Letters = {"a", "b"}
  WordBits = 8
  Sharer = {s1, s2}
  NoSharer = NoSharer
  PIECE = 2
  MAXFILESIZE = 3
  MaxCount = 3
  Drawer = {e1, e2}
  TABLE <- MCTable
  MaxDraws = 4
  MaxWc = 4
INVARIANTS TypeOK LocksRight SleepersWoken LockedCurrent NoLockCycle NamedLive FilesRight RoundRobinRight MachineRight ProgramsRight
PROPERTIES BlocksAreKept InodesAreFiles
CHECK_DEADLOCK FALSE
