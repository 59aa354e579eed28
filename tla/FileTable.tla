----------------------------- MODULE FileTable -----------------------------
(***************************************************************************)
(* Open files: kernel/file.c and the system calls that allocate, share and *)
(* drop them (sysfile.c, and fork() and exit() of proc.c).  A step is a    *)
(* critical section of ftable.lock, a change of the caller's own           *)
(* descriptors, or the release of what a file stood for.  Below, by        *)
(* itself, what fileread() and filewrite() do with the offset of a file.   *)
(***************************************************************************)
EXTENDS Callers, Integers, FiniteSets, FiniteSetsExt, SequencesExt

CONSTANTS
    InitProc,
    Inodes, Pipes, \* disjoint sets: what a file stands for
    NoObject,      \* of a file of type FD_NONE
    NOFILE, NFILE

Fd == 1..NOFILE
File == 1..NFILE
NoFile == 0
End == Pipes \X {"r", "w"}
Object == Inodes \cup End

ASSUME FileTableAssumption ==
    /\ IsFiniteSet(Proc) /\ InitProc \in Proc
    /\ NoObject \notin Inodes \cup (Pipes \X {"r", "w"})
    /\ NOFILE \in Nat \ {0} /\ NFILE \in Nat \ {0}

VARIABLES
    fref,      \* ftable: the references to each struct file,
    fobj,      \*   and its pipe end or inode, or FD_NONE
    ofile,     \* the descriptors of each process
    uses,      \* ip->ref of an inode, readopen and writeopen of a pipe
    fpc,
    arg,       \* the files a call has in hand
    obj,       \* the inode sys_open() has in hand, or NoObject
    ff,        \* what fileclose() has still to release, or NoObject
    child      \* the process that fork() makes

fileVars == <<fref, fobj, ofile, uses, fpc, arg, obj, ff, child>>

FileTypeOK ==
    /\ fref \in [File -> Nat]
    /\ fobj \in [File -> Object \cup {NoObject}]
    /\ ofile \in [Proc -> [Fd -> File \cup {NoFile}]]
    /\ uses \in [Object -> Nat]
    /\ fpc \in [Proc -> {"unused", "embryo", "user", "open", "fdalloc", "set", "pipe",
                         "pipe2", "fdalloc2", "fdalloc3", "dup", "fork", "drop", "exit"}]
    /\ arg \in [Proc -> BoundedSeq(File, 2)]
    /\ obj \in [Proc -> Inodes \cup {NoObject}]
    /\ ff \in [Proc -> Object \cup {NoObject}]
    /\ child \in [Proc -> Proc]

FileInit ==
    /\ fref = [f \in File |-> 0]
    /\ fobj = [f \in File |-> NoObject]
    /\ ofile = [p \in Proc |-> [fd \in Fd |-> NoFile]]
    /\ uses = [o \in Object |-> 0]
    /\ fpc = [p \in Proc |-> IF p = InitProc THEN "user" ELSE "unused"]
    /\ arg = [p \in Proc |-> <<>>]
    /\ obj = [p \in Proc |-> NoObject]
    /\ ff = [p \in Proc |-> NoObject]
    /\ child = [p \in Proc |-> p]

Steps(p, from, to) ==
    /\ fpc[p] = from
    /\ fpc' = [fpc EXCEPT ![p] = to]

Hand(p, files) == arg' = [arg EXCEPT ![p] = files]

FreeFiles == {f \in File : fref[f] = 0}
FreeFds(p) == {fd \in Fd : ofile[p][fd] = NoFile}
OpenFds(p) == Fd \ FreeFds(p)

(* filealloc() returns f. *)
Filealloc(f) ==
    /\ FreeFiles # {} /\ f = Min(FreeFiles)
    /\ fref' = [fref EXCEPT ![f] = 1]

(* filedup(f) *)
Filedup(f) ==
    /\ fref[f] >= 1
    /\ fref' = [fref EXCEPT ![f] = @ + 1]

Place(p, fd, f) == ofile' = [ofile EXCEPT ![p][fd] = f]

-----------------------------------------------------------------------------
(* sys_open(): the path leads to an inode, locked now ... *)
Open(p, n) ==
    /\ Steps(p, "user", "open")
    /\ uses' = [uses EXCEPT ![n] = @ + 1]
    /\ obj' = [obj EXCEPT ![p] = n]
    /\ UNCHANGED <<fref, fobj, ofile, arg, ff, child>>

OpenAllocs(p) ==
    /\ \/ /\ Steps(p, "open", "fdalloc")
          /\ \E f \in File : Filealloc(f) /\ Hand(p, <<f>>)
       \/ /\ Steps(p, "open", "drop")
          /\ FreeFiles = {}
          /\ UNCHANGED <<fref, arg>>
    /\ UNCHANGED <<fobj, ofile, uses, obj, ff, child>>

(* ... a descriptor for it, or fileclose() and iunlockput() ... *)
OpenFdalloc(p) ==
    /\ \/ /\ Steps(p, "fdalloc", "set")
          /\ FreeFds(p) # {}
          /\ Place(p, Min(FreeFds(p)), arg[p][1])
       \/ /\ Steps(p, "fdalloc", "drop")
          /\ FreeFds(p) = {}
          /\ UNCHANGED ofile
    /\ UNCHANGED <<fref, fobj, uses, arg, obj, ff, child>>

(* ... and f->type at last, when the inode is unlocked. *)
OpenSets(p) ==
    /\ Steps(p, "set", "user")
    /\ fobj' = [fobj EXCEPT ![arg[p][1]] = obj[p]]
    /\ Hand(p, <<>>)
    /\ obj' = [obj EXCEPT ![p] = NoObject]
    /\ UNCHANGED <<fref, ofile, uses, ff, child>>

-----------------------------------------------------------------------------
(* sys_pipe(), pipealloc(): the first file *)
MakePipe(p) ==
    /\ Steps(p, "user", "pipe")
    /\ \E f \in File : Filealloc(f) /\ Hand(p, <<f>>)
    /\ UNCHANGED <<fobj, ofile, uses, obj, ff, child>>

(* The second, and the page of the pipe; or what there is is dropped. *)
PipeAllocs(p) ==
    /\ \/ /\ Steps(p, "pipe", "pipe2")
          /\ \E f \in File : Filealloc(f) /\ Hand(p, Append(arg[p], f))
       \/ /\ Steps(p, "pipe", "drop")
          /\ FreeFiles = {}
          /\ UNCHANGED <<fref, arg>>
    /\ UNCHANGED <<fobj, ofile, uses, obj, ff, child>>

PipeFits(p) ==
    /\ Steps(p, "pipe2", "fdalloc2")
    /\ \E q \in Pipes :
          /\ uses[<<q, "r">>] = 0 /\ uses[<<q, "w">>] = 0
          /\ uses' = [uses EXCEPT ![<<q, "r">>] = 1, ![<<q, "w">>] = 1]
          /\ fobj' = [fobj EXCEPT ![arg[p][1]] = <<q, "r">>, ![arg[p][2]] = <<q, "w">>]
    /\ UNCHANGED <<fref, ofile, arg, obj, ff, child>>

PipeNoPage(p) ==
    /\ Steps(p, "pipe2", "drop")
    /\ UNCHANGED <<fref, fobj, ofile, uses, arg, obj, ff, child>>

(* A descriptor for the end to read ... *)
PipeFd0(p) ==
    /\ \/ /\ Steps(p, "fdalloc2", "fdalloc3")
          /\ FreeFds(p) # {}
          /\ Place(p, Min(FreeFds(p)), arg[p][1])
       \/ /\ Steps(p, "fdalloc2", "drop")
          /\ FreeFds(p) = {}
          /\ UNCHANGED ofile
    /\ UNCHANGED <<fref, fobj, uses, arg, obj, ff, child>>

(* ... and one for the other, or the first is taken back. *)
Fd0(p) == Min({fd \in Fd : ofile[p][fd] = arg[p][1]})

PipeFd1(p) ==
    /\ \/ /\ Steps(p, "fdalloc3", "user")
          /\ FreeFds(p) # {}
          /\ Place(p, Min(FreeFds(p)), arg[p][2])
          /\ Hand(p, <<>>)
       \/ /\ Steps(p, "fdalloc3", "drop")
          /\ FreeFds(p) = {}
          /\ Place(p, Fd0(p), NoFile)
          /\ UNCHANGED arg
    /\ UNCHANGED <<fref, fobj, uses, obj, ff, child>>

-----------------------------------------------------------------------------
(* sys_dup(): the descriptor, then the reference *)
Dup(p, fd) ==
    /\ Steps(p, "user", "dup")
    /\ ofile[p][fd] # NoFile /\ FreeFds(p) # {}
    /\ Place(p, Min(FreeFds(p)), ofile[p][fd])
    /\ Hand(p, <<ofile[p][fd]>>)
    /\ UNCHANGED <<fref, fobj, uses, obj, ff, child>>

DupCounts(p) ==
    /\ Steps(p, "dup", "user")
    /\ Filedup(arg[p][1])
    /\ Hand(p, <<>>)
    /\ UNCHANGED <<fobj, ofile, uses, obj, ff, child>>

(* fork(), one filedup() at a time *)
Fork(p, q) ==
    /\ fpc[p] = "user" /\ fpc[q] = "unused"
    /\ fpc' = [fpc EXCEPT ![p] = "fork", ![q] = "embryo"]
    /\ child' = [child EXCEPT ![p] = q]
    /\ UNCHANGED <<fref, fobj, ofile, uses, arg, obj, ff>>

ToCopy(p) == OpenFds(p) \ OpenFds(child[p])

ForkCopies(p) ==
    /\ fpc[p] = "fork" /\ ToCopy(p) # {}
    /\ LET fd == Min(ToCopy(p)) IN
          /\ Filedup(ofile[p][fd])
          /\ Place(child[p], fd, ofile[p][fd])
    /\ UNCHANGED <<fobj, uses, fpc, arg, obj, ff, child>>

ForkEnds(p) ==
    /\ fpc[p] = "fork" /\ ToCopy(p) = {}
    /\ fpc' = [fpc EXCEPT ![p] = "user", ![child[p]] = "user"]
    /\ child' = [child EXCEPT ![p] = p]
    /\ UNCHANGED <<fref, fobj, ofile, uses, arg, obj, ff>>

-----------------------------------------------------------------------------
(* fileclose() leaves nothing of the last use in the file. *)
Cleared_kept(f) == fobj
Cleared(f) == [fobj EXCEPT ![f] = NoObject]

LastRef(f) == fref[f] = 1

(* fileclose(f), under ftable.lock *)
Fileclose(p, f) ==
    /\ fref[f] >= 1
    /\ fref' = [fref EXCEPT ![f] = @ - 1]
    /\ IF LastRef(f)
       THEN fobj' = Cleared(f) /\ ff' = [ff EXCEPT ![p] = fobj[f]]
       ELSE UNCHANGED <<fobj, ff>>

(* The rest of it: pipeclose(), or iput() *)
FilecloseEnds(p) ==
    /\ ff[p] # NoObject
    /\ uses' = [uses EXCEPT ![ff[p]] = @ - 1]
    /\ ff' = [ff EXCEPT ![p] = NoObject]
    /\ UNCHANGED <<fref, fobj, ofile, fpc, arg, obj, child>>

(* sys_close() *)
Close(p, fd) ==
    /\ Steps(p, "user", "drop")
    /\ ofile[p][fd] # NoFile
    /\ Hand(p, <<ofile[p][fd]>>)
    /\ Place(p, fd, NoFile)
    /\ UNCHANGED <<fref, fobj, uses, obj, ff, child>>

(* A call closes the files it has in hand, ... *)
DropFile(p) ==
    /\ fpc[p] = "drop" /\ ff[p] = NoObject /\ arg[p] # <<>>
    /\ Fileclose(p, Head(arg[p]))
    /\ Hand(p, Tail(arg[p]))
    /\ UNCHANGED <<ofile, uses, fpc, obj, child>>

(* ... then puts its inode and returns. *)
DropEnds(p) ==
    /\ Steps(p, "drop", "user")
    /\ ff[p] = NoObject /\ arg[p] = <<>>
    /\ IF obj[p] = NoObject THEN UNCHANGED uses
       ELSE uses' = [uses EXCEPT ![obj[p]] = @ - 1]
    /\ obj' = [obj EXCEPT ![p] = NoObject]
    /\ UNCHANGED <<fref, fobj, ofile, arg, ff, child>>

-----------------------------------------------------------------------------
(* exit() *)
Exit(p) ==
    /\ p # InitProc
    /\ Steps(p, "user", "exit")
    /\ UNCHANGED <<fref, fobj, ofile, uses, arg, obj, ff, child>>

ExitCloses(p) ==
    /\ fpc[p] = "exit" /\ ff[p] = NoObject /\ OpenFds(p) # {}
    /\ LET fd == Min(OpenFds(p)) IN
          /\ Fileclose(p, ofile[p][fd])
          /\ Place(p, fd, NoFile)
    /\ UNCHANGED <<uses, fpc, arg, obj, child>>

(* A zombie, and after wait() a free slot *)
ExitEnds(p) ==
    /\ Steps(p, "exit", "unused")
    /\ ff[p] = NoObject /\ OpenFds(p) = {}
    /\ UNCHANGED <<fref, fobj, ofile, uses, arg, obj, ff, child>>

FileNext ==
    \E p \in Proc :
        \/ \E n \in Inodes : Open(p, n)
        \/ OpenAllocs(p) \/ OpenFdalloc(p) \/ OpenSets(p)
        \/ MakePipe(p) \/ PipeAllocs(p) \/ PipeFits(p) \/ PipeNoPage(p)
        \/ PipeFd0(p) \/ PipeFd1(p)
        \/ \E fd \in Fd : Dup(p, fd) \/ Close(p, fd)
        \/ DupCounts(p)
        \/ \E q \in Proc : Fork(p, q)
        \/ ForkCopies(p) \/ ForkEnds(p)
        \/ DropFile(p) \/ FilecloseEnds(p) \/ DropEnds(p)
        \/ Exit(p) \/ ExitCloses(p) \/ ExitEnds(p)

FileSpec == FileInit /\ [][FileNext]_fileVars

-----------------------------------------------------------------------------
(* What a process can use through its descriptors is open: no file, pipe   *)
(* end or inode goes while a descriptor is left, whatever calls fail and   *)
(* whoever shares it closes it.                                            *)
DescriptorsOpen ==
    \A p \in Proc : fpc[p] = "user" =>
        \A fd \in OpenFds(p) :
            LET f == ofile[p][fd] IN
                fref[f] > 0 /\ fobj[f] # NoObject /\ uses[fobj[f]] > 0

Descriptors(f) == {w \in Proc \X Fd : ofile[w[1]][w[2]] = f}

(* Nothing leaks: between calls a file has one reference for each          *)
(* descriptor, a free one stands for nothing, and every pipe end and every *)
(* reference to an inode belongs to a file in use.                         *)
NothingLeaked ==
    (\A p \in Proc : fpc[p] \in {"user", "unused"} /\ ff[p] = NoObject) =>
        /\ \A f \in File :
              /\ fref[f] = Cardinality(Descriptors(f))
              /\ fref[f] = 0 => fobj[f] = NoObject
        /\ \A o \in Object : uses[o] = Cardinality({f \in File : fobj[f] = o})

(* What a descriptor names is open, and what nobody names is closed.       *)
FilesRight == DescriptorsOpen /\ NothingLeaked

-----------------------------------------------------------------------------
(* fileread() and filewrite() on an inode: processes that share a struct   *)
(* file, as after fork() or dup(), share its offset.  Here all write       *)
(* through one and read through another, and no file is opened or closed.  *)
(* A call that writes much lets go of the inode between its pieces.        *)
CONSTANTS
    Sharer,       \* processes
    NoSharer,
    PIECE,        \* max, what one transaction may write
    MAXFILESIZE,
    MaxCount      \* bound: n of a call

ASSUME FileIOAssumption ==
    /\ NoSharer \notin Sharer
    /\ {PIECE, MAXFILESIZE, MaxCount} \subseteq Nat \ {0}

VARIABLES
    body,         \* what is in the file: who wrote it, and the how manieth of his
    woff, roff,   \* off of the file that is written, and of the one that is read
    ilocked,      \* who has the inode locked
    iocall,       \* by process: the call it is in, its n and i,
    at,           \* how far it is,
    res,          \* r of writei() or readi()
    before,       \* the cells that its calls had written before this one
    taken         \* what has been read, in that order

ioVars == <<body, woff, roff, ilocked, iocall, at, res, before, taken>>

NoCall == [op |-> "none", n |-> 0, i |-> 0]

IOTypeOK ==
    /\ Len(body) \in 0..MAXFILESIZE
    /\ {woff, roff} \subseteq 0..MAXFILESIZE
    /\ ilocked \in Sharer \cup {NoSharer}
    /\ iocall \in [Sharer -> [op : {"none", "read", "write"}, n : 0..MaxCount, i : 0..MaxCount]]
    /\ at \in [Sharer -> {"idle", "lock", "copy", "advance"}]
    /\ res \in [Sharer -> -1..MaxCount]

IOInit ==
    /\ body = <<>> /\ woff = 0 /\ roff = 0 /\ ilocked = NoSharer
    /\ iocall = [p \in Sharer |-> NoCall]
    /\ at = [p \in Sharer |-> "idle"]
    /\ res = [p \in Sharer |-> 0]
    /\ before = [p \in Sharer |-> 0]
    /\ taken = <<>>

FileCall(p, op, n) ==
    /\ at[p] = "idle"
    /\ iocall' = [iocall EXCEPT ![p] = [op |-> op, n |-> n, i |-> 0]]
    /\ at' = [at EXCEPT ![p] = "lock"]
    /\ UNCHANGED <<body, woff, roff, ilocked, res, before, taken>>

IOLocks(p) ==
    /\ at[p] = "lock" /\ ilocked = NoSharer
    /\ ilocked' = p
    /\ at' = [at EXCEPT ![p] = "copy"]
    /\ UNCHANGED <<body, woff, roff, iocall, res, before, taken>>

(* n1 of filewrite(); writei() refuses what does not fit as a whole.       *)
Part(p) == IF iocall[p].n - iocall[p].i < PIECE THEN iocall[p].n - iocall[p].i ELSE PIECE
Fits(p) == woff <= Len(body) /\ woff + Part(p) <= MAXFILESIZE

WriteCopies(p) ==
    /\ at[p] = "copy" /\ iocall[p].op = "write"
    /\ LET cell(k) == <<p, before[p] + iocall[p].i + k>>
           size == IF woff + Part(p) > Len(body) THEN woff + Part(p) ELSE Len(body)
       IN  IF Fits(p)
           THEN /\ body' = [j \in 1..size |->
                               IF j \in woff + 1..woff + Part(p) THEN cell(j - woff) ELSE body[j]]
                /\ res' = [res EXCEPT ![p] = Part(p)]
           ELSE res' = [res EXCEPT ![p] = -1] /\ UNCHANGED body
    /\ at' = [at EXCEPT ![p] = "advance"]
    /\ UNCHANGED <<woff, roff, ilocked, iocall, before, taken>>

(* readi() gives what there is, up to n.                                   *)
ReadCopies(p) ==
    /\ at[p] = "copy" /\ iocall[p].op = "read"
    /\ LET there == Len(body) - roff
           n == IF iocall[p].n < there THEN iocall[p].n ELSE there
       IN  /\ res' = [res EXCEPT ![p] = n]
           /\ taken' = taken \o SubSeq(body, roff + 1, roff + n)
    /\ at' = [at EXCEPT ![p] = "advance"]
    /\ UNCHANGED <<body, woff, roff, ilocked, iocall, before>>

(* The call ends, and has written so much.                                 *)
CallEnds(p, written) ==
    /\ before' = [before EXCEPT ![p] = @ + written]
    /\ iocall' = [iocall EXCEPT ![p] = NoCall]
    /\ at' = [at EXCEPT ![p] = "idle"]

(* f->off += r before the inode is unlocked; then the loop goes on.        *)
WriteAdvances(p) ==
    /\ at[p] = "advance" /\ iocall[p].op = "write"
    /\ woff' = IF res[p] > 0 THEN woff + res[p] ELSE woff
    /\ ilocked' = NoSharer
    /\ IF res[p] < 0 THEN CallEnds(p, iocall[p].i)
       ELSE IF iocall[p].i + res[p] = iocall[p].n THEN CallEnds(p, iocall[p].n)
       ELSE /\ iocall' = [iocall EXCEPT ![p].i = @ + res[p]]
            /\ at' = [at EXCEPT ![p] = "lock"]
            /\ UNCHANGED before
    /\ UNCHANGED <<body, roff, res, taken>>

ReadAdvances(p) ==
    /\ at[p] = "advance" /\ iocall[p].op = "read"
    /\ roff' = roff + res[p]
    /\ ilocked' = NoSharer
    /\ CallEnds(p, 0)
    /\ UNCHANGED <<body, woff, res, taken>>

IONext ==
    \E p \in Sharer :
        \/ \E n \in 1..MaxCount : FileCall(p, "write", n) \/ FileCall(p, "read", n)
        \/ IOLocks(p) \/ WriteCopies(p) \/ ReadCopies(p) \/ WriteAdvances(p) \/ ReadAdvances(p)

IOSpec == IOInit /\ [][IONext]_ioVars

-----------------------------------------------------------------------------
(* What p has got into the file: of its earlier calls and of this one      *)
Done(p) ==
    before[p] + iocall[p].i +
        (IF at[p] = "advance" /\ iocall[p].op = "write" /\ res[p] > 0 THEN res[p] ELSE 0)

(* Nothing that was written through the shared offset is written over:     *)
(* each process's bytes are there once and in order, however the calls     *)
(* were mixed.  And nothing is read twice or passed over.                  *)
OffsetsRight ==
    /\ \A p \in Sharer :
          SelectSeq(body, LAMBDA cell : cell[1] = p) = [k \in 1..Done(p) |-> <<p, k>>]
    /\ IsPrefix(taken, body)
    /\ ilocked = NoSharer => woff = Len(body) /\ roff = Len(taken)
=============================================================================
