------------------------------ MODULE Content ------------------------------
(***************************************************************************)
(* Where kernel/fs.c keeps the bytes of a file: balloc() and bfree() in    *)
(* the bitmap, bmap() through direct blocks and an indirect one, readi(),  *)
(* writei() and itrunc().  The caller holds the inode's lock over a call;  *)
(* a step is one turn of the loop of readi() or writei(), and other files  *)
(* are used in between.  Log makes a call atomic in a crash.               *)
(***************************************************************************)
EXTENDS Integers, Sequences, FiniteSets, FiniteSetsExt, Functions

CONSTANTS
    File,            \* inodes
    NBLOCK,          \* blocks of the disk that balloc() may give
    BSIZE, NDIRECT, NINDIRECT,
    Byte,            \* what is written; a new block is full of 0
    MaxIO            \* bound: calls made

ASSUME ContentAssumption ==
    /\ {NBLOCK, BSIZE, NDIRECT, NINDIRECT} \subseteq Nat \ {0}
    /\ MaxIO \in Nat

DataBlock == 1..NBLOCK
NoAddr == 0
MAXFILE == NDIRECT + NINDIRECT
NoIO == [kind |-> "none", off |-> 0, left |-> 0, byte |-> 0, got |-> << >>]

VARIABLES
    used,            \* the bitmap
    bytesOf,         \* the data of each block,
    entryOf,         \* and what it holds as an indirect block
    inode,           \* the inode in memory: addrs and size ...
    dinode,          \* ... and on the disk
    io,              \* the call in progress on each file
    out,             \* what the last call read
    ios              \* calls made

onDisk == <<used, bytesOf, entryOf, dinode>>
contentVars == <<onDisk, inode, io, out, ios>>

Inode == [addrs : [0..NDIRECT -> DataBlock \cup {NoAddr}], size : 0..MAXFILE * BSIZE]
NewInode == [addrs |-> [i \in 0..NDIRECT |-> NoAddr], size |-> 0]

ContentTypeOK ==
    /\ used \subseteq DataBlock
    /\ bytesOf \in [DataBlock -> [0..BSIZE - 1 -> Byte \cup {0}]]
    /\ entryOf \in [DataBlock -> [0..NINDIRECT - 1 -> DataBlock \cup {NoAddr}]]
    /\ inode \in [File -> Inode] /\ dinode \in [File -> Inode]
    /\ \A f \in File : io[f].left \in 0..MAXFILE * BSIZE
    /\ ios \in 0..MaxIO

ContentInit ==
    /\ used = {}
    /\ bytesOf = [b \in DataBlock |-> [i \in 0..BSIZE - 1 |-> 0]]
    /\ entryOf = [b \in DataBlock |-> [i \in 0..NINDIRECT - 1 |-> NoAddr]]
    /\ inode = [f \in File |-> NewInode] /\ dinode = inode
    /\ io = [f \in File |-> NoIO]
    /\ out = << >> /\ ios = 0

-----------------------------------------------------------------------------
(* balloc() takes the first free block, a second call the second one.      *)
Free1 == Min(DataBlock \ used)
Free2 == Min(DataBlock \ (used \cup {Free1}))

(* bmap() of block i of a file whose addrs are a: the indirect block, what *)
(* is allocated, and the address.                                          *)
Indirect(i) == i >= NDIRECT
NoTable(a, i) == Indirect(i) /\ a[NDIRECT] = NoAddr
Mapped(a, i) ==
    IF ~Indirect(i) THEN a[i]
    ELSE IF NoTable(a, i) THEN NoAddr ELSE entryOf[a[NDIRECT]][i - NDIRECT]
New(a, i) ==
    IF NoTable(a, i) THEN {Free1, Free2} ELSE IF Mapped(a, i) = NoAddr THEN {Free1} ELSE {}
Addr(a, i) ==
    IF NoTable(a, i) THEN Free2 ELSE IF Mapped(a, i) = NoAddr THEN Free1 ELSE Mapped(a, i)

(* Otherwise balloc() panics. *)
Allocates(a, i) ==
    Cardinality(DataBlock \ used) >=
        IF NoTable(a, i) THEN 2 ELSE IF Mapped(a, i) = NoAddr THEN 1 ELSE 0

(* bzero() *)
Entries_stale(new) == entryOf
Entries(new) ==
    [b \in DataBlock |-> IF b \in new THEN [i \in 0..NINDIRECT - 1 |-> NoAddr] ELSE entryOf[b]]
Zeroed(new) ==
    [b \in DataBlock |-> IF b \in new THEN [i \in 0..BSIZE - 1 |-> 0] ELSE bytesOf[b]]

Addrs(a, i) ==
    IF NoTable(a, i) THEN [a EXCEPT ![NDIRECT] = Free1]
    ELSE IF Indirect(i) THEN a ELSE [a EXCEPT ![i] = Addr(a, i)]

-----------------------------------------------------------------------------
IO == ios < MaxIO /\ ios' = ios + 1

(* readi() and writei(): the checks                                        *)
ReadI(f) ==
    /\ IO /\ io[f] = NoIO
    /\ \E off \in 0..inode[f].size, n \in 0..MAXFILE * BSIZE :
          LET left == IF off + n > inode[f].size THEN inode[f].size - off ELSE n
              call == [NoIO EXCEPT !.kind = "read", !.off = off, !.left = left]
          IN  io' = [io EXCEPT ![f] = call]
    /\ UNCHANGED <<onDisk, inode, out>>

WriteI(f) ==
    /\ IO /\ io[f] = NoIO
    /\ \E off \in 0..inode[f].size, n \in 0..MAXFILE * BSIZE, x \in Byte :
          /\ off + n <= MAXFILE * BSIZE
          /\ io' = [io EXCEPT ![f] = [NoIO EXCEPT !.kind = "write", !.off = off, !.left = n,
                                                  !.byte = x]]
    /\ UNCHANGED <<onDisk, inode, out>>

(* A turn: what is left, or as far as the end of the block                 *)
Turn(c) == Min({c.left, BSIZE - (c.off % BSIZE)})

ReadTurn(f) ==
    LET c == io[f]
        i == c.off \div BSIZE
        b == bytesOf[Addr(inode[f].addrs, i)]
    IN  /\ c.kind = "read" /\ c.left > 0
        /\ New(inode[f].addrs, i) = {}
        /\ io' = [io EXCEPT ![f].off = @ + Turn(c), ![f].left = @ - Turn(c),
                            ![f].got = @ \o [k \in 1..Turn(c) |-> b[(c.off % BSIZE) + k - 1]]]
        /\ UNCHANGED <<onDisk, inode, out, ios>>

WriteTurn(f) ==
    LET c == io[f]
        a == inode[f].addrs
        i == c.off \div BSIZE
        new == New(a, i)
        b == Addr(a, i)
    IN  /\ c.kind = "write" /\ c.left > 0
        /\ Allocates(a, i)
        /\ used' = used \cup new
        /\ inode' = [inode EXCEPT ![f].addrs = Addrs(a, i)]
        /\ entryOf' = IF Indirect(i)
                      THEN [Entries(new) EXCEPT ![inode'[f].addrs[NDIRECT]][i - NDIRECT] = b]
                      ELSE Entries(new)
        /\ bytesOf' = [Zeroed(new) EXCEPT ![b] =
               [k \in 0..BSIZE - 1 |->
                   IF k \in (c.off % BSIZE)..(c.off % BSIZE) + Turn(c) - 1 THEN c.byte ELSE @[k]]]
        /\ io' = [io EXCEPT ![f].off = @ + Turn(c), ![f].left = @ - Turn(c)]
        /\ UNCHANGED <<dinode, out, ios>>

(* The size grows, and iupdate() saves the inode.                          *)
Grown(c, node) == IF c.off > node.size THEN [node EXCEPT !.size = c.off] ELSE node

Saved(f) == IF inode'[f].size # inode[f].size THEN [dinode EXCEPT ![f] = inode'[f]] ELSE dinode

IOReturns(f) ==
    /\ io[f].kind # "none" /\ io[f].left = 0
    /\ inode' = [inode EXCEPT ![f] = IF io[f].kind = "write" THEN Grown(io[f], @) ELSE @]
    /\ dinode' = Saved(f)
    /\ io' = [io EXCEPT ![f] = NoIO]
    /\ out' = io[f].got
    /\ UNCHANGED <<used, bytesOf, entryOf, ios>>

(* itrunc() *)
BlocksOf(a) ==
    ({a[i] : i \in 0..NDIRECT} \cup
        IF a[NDIRECT] = NoAddr THEN {} ELSE Range(entryOf[a[NDIRECT]])) \ {NoAddr}

Itrunc(f) ==
    /\ IO /\ io[f] = NoIO
    /\ used' = used \ BlocksOf(inode[f].addrs)
    /\ inode' = [inode EXCEPT ![f] = NewInode] /\ dinode' = [dinode EXCEPT ![f] = NewInode]
    /\ io' = [io EXCEPT ![f] = [NoIO EXCEPT !.kind = "trunc"]]
    /\ UNCHANGED <<bytesOf, entryOf, out>>

(* Its entry in the cache is used for another inode: ilock() reads it anew. *)
Reread(f) ==
    /\ io[f] = NoIO
    /\ inode' = [inode EXCEPT ![f] = dinode[f]]
    /\ UNCHANGED <<onDisk, io, out, ios>>

ContentNext ==
    \E f \in File :
        \/ ReadI(f) \/ WriteI(f) \/ ReadTurn(f) \/ WriteTurn(f) \/ IOReturns(f)
        \/ Itrunc(f) \/ Reread(f)

ContentSpec == ContentInit /\ [][ContentNext]_contentVars

-----------------------------------------------------------------------------
(* A file is a sequence of bytes of its own (Bytes): a read finds what was *)
(* written last at that place, whichever blocks the files took, gave back  *)
(* and took over from another, and no inode is read from the disk without  *)
(* an address that a write has added.                                      *)
Sized(f) == IF io[f].kind = "write" THEN Grown(io[f], inode[f]).size ELSE inode[f].size

FileContent ==
    [f \in File |-> [i \in 1..Sized(f) |->
        bytesOf[Mapped(inode[f].addrs, (i - 1) \div BSIZE)][(i - 1) % BSIZE]]]

Plain == INSTANCE Bytes WITH
    Limit <- MAXFILE * BSIZE, NoCall <- NoIO, Byte <- Byte \cup {0},
    content <- FileContent, call <- io

ImplementsBytes == Plain!BytesSpec
=============================================================================
