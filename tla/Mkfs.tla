-------------------------------- MODULE Mkfs --------------------------------
(***************************************************************************)
(* mkfs/mkfs.c: the file system that the kernel boots from.  A byte of a   *)
(* file, an entry of the root directory and a number in an indirect block  *)
(* take one cell each, and BSIZE cells make a block.  The byte order of    *)
(* numbers, the place of inodes in their blocks and the names of files are *)
(* left out.                                                               *)
(***************************************************************************)
EXTENDS Integers, Sequences, FiniteSets, SequencesExt

CONSTANTS
    BCELLS,       \* cells of a block
    NDIR,         \* NDIRECT
    NMETA,        \* nmeta: boot, super, log, inode and bitmap blocks
    BITMAP,       \* the bits of the bitmap block that balloc() writes
    Arguments     \* bound: what mkfs is called with, the length of each file

ASSUME MkfsAssumption ==
    /\ {BCELLS, NDIR, NMETA, BITMAP} \subseteq Nat \ {0}
    /\ Arguments \subseteq Seq(Nat)

VARIABLES
    lengths,      \* argv
    inodeBlocks,  \* the inode blocks; freeinode is the next one
    sector,       \* the data blocks
    freeblock,
    bitmap,
    nread,        \* cells that have been read of the last file
    todo,         \* what iappend() has still to append
    into,         \* and the inode it appends to
    mkpc          \* "files", "done", or "aborted" by an assertion

mkfsVars == <<lengths, inodeBlocks, sector, freeblock, bitmap, nread, todo, into, mkpc>>

RootIno == 1
FileIno(i) == i + 1       \* inodes are handed out in the order of argv
Unset == 0                \* no block, no inode, a zero byte
MAXFILE == NDIR + BCELLS
MaxBlock == NMETA + (Cardinality(UNION {DOMAIN a : a \in Arguments}) + 1) * (MAXFILE + 1)

(* A cell of a file: all are different.                                    *)
CellOf(i, k) == 100 * i + k

Zeroes == [i \in 0..BCELLS - 1 |-> Unset]

(* ialloc()                                                                *)
NewInode(type) ==
    [type |-> type, nlink |-> 1, size |-> 0, addrs |-> [i \in 0..NDIR |-> Unset]]

(* Up to the entries "." and ".." of the root directory                    *)
MkfsStart(args) ==
    /\ lengths = args
    /\ inodeBlocks = <<NewInode("T_DIR")>>
    /\ sector = [b \in NMETA..MaxBlock |-> Zeroes]
    /\ freeblock = NMETA
    /\ bitmap = {}
    /\ nread = 0
    /\ todo = <<RootIno, RootIno>> /\ into = RootIno
    /\ mkpc = "files"

MkfsInit == \E args \in Arguments : MkfsStart(args)

LastFile == Len(inodeBlocks) - 1
AllRead == nread = IF LastFile = 0 THEN 0 ELSE lengths[LastFile]

-----------------------------------------------------------------------------
(* One round of the loop of iappend()                                      *)
Offset == inodeBlocks[into].size
Fbn == Offset \div BCELLS
Addrs == inodeBlocks[into].addrs

(* The blocks that a round takes from freeblock on: an indirect block that *)
(* is not there yet, then the data block                                   *)
NeedsIndirect == Fbn >= NDIR /\ Addrs[NDIR] = Unset
IndirectBlock == IF NeedsIndirect THEN freeblock ELSE Addrs[NDIR]
OldBlock ==
    IF Fbn < NDIR THEN Addrs[Fbn]
    ELSE IF NeedsIndirect THEN Unset ELSE sector[IndirectBlock][Fbn - NDIR]
NextFree == IF NeedsIndirect THEN freeblock + 1 ELSE freeblock
DataBlock == IF OldBlock = Unset THEN NextFree ELSE OldBlock

Within == Offset % BCELLS
Piece == IF Len(todo) < BCELLS - Within THEN Len(todo) ELSE BCELLS - Within

PieceWritten(block) ==
    [k \in DOMAIN block |->
        IF k >= Within /\ k < Within + Piece THEN todo[k - Within + 1] ELSE block[k]]

Appends ==
    /\ mkpc = "files" /\ todo # <<>> /\ Fbn < MAXFILE
    /\ freeblock' = IF OldBlock = Unset THEN NextFree + 1 ELSE NextFree
    /\ LET indexed ==
             IF Fbn < NDIR THEN sector
             ELSE [sector EXCEPT ![IndirectBlock] = [@ EXCEPT ![Fbn - NDIR] = DataBlock]]
       IN  sector' = [indexed EXCEPT ![DataBlock] = PieceWritten(@)]
    /\ inodeBlocks' = [inodeBlocks EXCEPT ![into].size = @ + Piece,
                     ![into].addrs[IF Fbn < NDIR THEN Fbn ELSE NDIR] =
                        IF Fbn < NDIR THEN DataBlock ELSE IndirectBlock]
    /\ todo' = SubSeq(todo, Piece + 1, Len(todo))
    /\ UNCHANGED <<lengths, bitmap, nread, into, mkpc>>

(* assert(fbn < MAXFILE)                                                   *)
TooLarge ==
    /\ mkpc = "files" /\ todo # <<>> /\ Fbn >= MAXFILE
    /\ mkpc' = "aborted"
    /\ UNCHANGED <<lengths, inodeBlocks, sector, freeblock, bitmap, nread, todo, into>>

-----------------------------------------------------------------------------
(* The loop of main(): an inode and an entry for each file, ...            *)
NextFile ==
    /\ mkpc = "files" /\ todo = <<>> /\ AllRead /\ LastFile < Len(lengths)
    /\ inodeBlocks' = Append(inodeBlocks, NewInode("T_FILE"))
    /\ nread' = 0
    /\ todo' = <<Len(inodeBlocks) + 1>> /\ into' = RootIno
    /\ UNCHANGED <<lengths, sector, freeblock, bitmap, mkpc>>

(* ... and its bytes, up to a block at a time.                             *)
ReadFile ==
    /\ mkpc = "files" /\ todo = <<>> /\ ~AllRead
    /\ \E cc \in 1..BCELLS :
          /\ nread + cc <= lengths[LastFile]
          /\ nread' = nread + cc
          /\ todo' = [k \in 1..cc |-> CellOf(LastFile, nread + k)]
    /\ into' = FileIno(LastFile)
    /\ UNCHANGED <<lengths, inodeBlocks, sector, freeblock, bitmap, mkpc>>

(* The size of the root directory becomes one of whole blocks; balloc()    *)
(* has one block of bits.                                                  *)
Rounded(off) == (off \div BCELLS + 1) * BCELLS

Finish ==
    /\ mkpc = "files" /\ todo = <<>> /\ AllRead /\ LastFile = Len(lengths)
    /\ inodeBlocks' = [inodeBlocks EXCEPT ![RootIno].size = Rounded(@)]
    /\ IF freeblock < BITMAP
       THEN mkpc' = "done" /\ bitmap' = 0..freeblock - 1
       ELSE mkpc' = "aborted" /\ UNCHANGED bitmap
    /\ UNCHANGED <<lengths, sector, freeblock, nread, todo, into>>

MkfsNext == Appends \/ TooLarge \/ NextFile \/ ReadFile \/ Finish

MkfsSpec == MkfsInit /\ [][MkfsNext]_mkfsVars

-----------------------------------------------------------------------------
(* What the kernel's bmap() finds for a block of a file                    *)
Mapped(d, fbn) ==
    IF fbn < NDIR THEN d.addrs[fbn]
    ELSE IF d.addrs[NDIR] = Unset THEN Unset ELSE sector[d.addrs[NDIR]][fbn - NDIR]

(* The blocks of an inode, by where they are named                         *)
Named(n) ==
    {<<n, fbn>> : fbn \in {f \in 0..MAXFILE - 1 : Mapped(inodeBlocks[n], f) # Unset}}
        \cup (IF inodeBlocks[n].addrs[NDIR] # Unset THEN {<<n, -1>>} ELSE {})
BlockAt(place) ==
    IF place[2] = -1 THEN inodeBlocks[place[1]].addrs[NDIR] ELSE Mapped(inodeBlocks[place[1]], place[2])

CellAt(n, k) ==
    LET b == Mapped(inodeBlocks[n], k \div BCELLS)
    IN  IF b = Unset THEN Unset ELSE sector[b][k % BCELLS]

Contents(n) == [k \in 1..inodeBlocks[n].size |-> CellAt(n, k - 1)]

(* Each block up to freeblock is named once, and no other is marked used.  *)
BlocksAllotted ==
    LET places == UNION {Named(n) : n \in DOMAIN inodeBlocks} IN
        /\ {BlockAt(p) : p \in places} = NMETA..freeblock - 1
        /\ Cardinality(places) = freeblock - NMETA
        /\ bitmap = 0..freeblock - 1

(* The image is a file system that the kernel can go on with: every file   *)
(* has its bytes, the root directory an entry for each and free ones       *)
(* behind, and every block it takes is in one place and marked.  Only      *)
(* where the entries fill their blocks the size takes in one more, which   *)
(* is not there.                                                           *)
ImageRight == mkpc = "done" =>
    /\ BlocksAllotted
    /\ \A i \in DOMAIN lengths :
          Contents(FileIno(i)) = [k \in 1..lengths[i] |-> CellOf(i, k)]
    /\ LET entries == <<RootIno, RootIno>> \o [i \in DOMAIN lengths |-> FileIno(i)] IN
         /\ IsPrefix(entries, Contents(RootIno))
         /\ \A k \in Len(entries) + 1..inodeBlocks[RootIno].size : Contents(RootIno)[k] = Unset
         /\ inodeBlocks[RootIno].size % BCELLS = 0
         /\ Len(entries) % BCELLS # 0 =>
               Mapped(inodeBlocks[RootIno], inodeBlocks[RootIno].size \div BCELLS - 1) # Unset
=============================================================================
