SPECIFICATION Spec
CONSTANTS
  Layers = {"directories"}
  Proc = {p1, p2}
  Caller = {p1, p2}
  InitProc = p1
  Nobody = Nobody
  Block = {b1, b2, b3}
  Val = {v0, v1}
  Zero = v0
  NoBlock = NoBlock
  NBUF = 2
  Inum = {n1, n2}
  NoInum = NoInum
  NINODE = 2
  MaxLink = 2
  Name = {"a", "b"}
  MaxNlink = 2
  NINODES = 3
  Request <- DotdotRequests
  Inodes = {i1}
  Pipes = {q1}
  NoObject = NoObject
  NOFILE = 2
  NFILE = 3
  Digit = {1, 2, 8}
  MaxKeys = 4
  Char = {1, 2, 10}
  BUFSIZE = 3
  MaxText = 6
  Letter = {"a", "b"}
  Garbage = "?"
  NTHREADS = 3
  INPUT_THRESHOLD = 6
  MaxInput = 8
  Words = {"cat"}
  MAXARGS = 3
  Trees <- MCTrees
  MaxTokens = 4
  Process = {k1, k2}
  CPU = {c1, c2}
  SpinLock = {icachelock, ptable}
  ptable = ptable
  NoCPU = NoCPU
  NSLOT = 3
  Core = {o1, o2}
  NoCore = NoCore
  MaxHeld = 2
  MaxWire = 3
  COLS = 2
  ROWS = 4
  Glyph = {"x", "y"}
  SECTSIZE = 2
  MaxAddress = 7
  NCPU = 3
  Segments <- MCSegments
  BCELLS = 2
  NDIR = 1
  NMETA = 2
  BITMAP = 15
  Arguments <- MCArguments
  ROOM = 3
  Patterns <- MCPatterns
  Texts <- MCTexts
  CELLS = 5
  DIRSIZ = 2
  Letters = {"a", "b"}
  WordBits = 8
  Sharer = {s1, s2}
  NoSharer = NoSharer
  PIECE = 2
  MAXFILESIZE = 3
  MaxCount = 3
  Drawer = {e1, e2}
  TABLE <- MCTable
  MaxDraws = 4
  MaxWc = 4
INVARIANTS IlockFindsType
CHECK_DEADLOCK FALSE
