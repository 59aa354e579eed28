----------------------------- MODULE InodeCache -----------------------------
(***************************************************************************)
(* The inode cache of kernel/fs.c: iget(), idup(), ilock(), iunlock(),     *)
(* iput() and ialloc(), as the system calls use them.  A process has one   *)
(* inode at a time; a step is a critical section of icache.lock, or the    *)
(* use of the buffer of a disk inode.  Directory models the directories:   *)
(* here an inode has a number of entries, somewhere.                       *)
(***************************************************************************)
EXTENDS Callers, Integers, FiniteSets

CONSTANTS
    Caller,       \* processes
    Inum,
    NoInum,       \* of a cache entry that never had one
    NINODE,
    MaxLink       \* bound on the links of an inode

Entry == 1..NINODE
NoEntry == 0

ASSUME InodeAssumption ==
    /\ IsFiniteSet(Caller) /\ Nobody \notin Caller /\ NoInum \notin Inum
    /\ NINODE \in Nat \ {0} /\ MaxLink \in Nat \ {0}

VARIABLES
    (* struct dinode, of each inode *)
    dtype, dnlink,
    entries,      \* the directory entries that name it
    (* icache: struct inode *)
    inum, ref, ivalid, ibusy, itype, inlink,
    (* processes *)
    ipc,
    task,         \* what a process locks its inode for
    ip, new       \* its entry, the inode it allocates

dinodes == <<dtype, dnlink>>
copies == <<itype, inlink>>
icache == <<inum, ref, ivalid, ibusy, copies>>
inodeVars == <<dinodes, entries, icache, ipc, task, ip, new>>

InodeTypeOK ==
    /\ dtype \in [Inum -> {"free", "file"}]
    /\ dnlink \in [Inum -> 0..MaxLink]
    /\ entries \in [Inum -> 0..MaxLink]
    /\ inum \in [Entry -> Inum \cup {NoInum}]
    /\ ref \in [Entry -> Nat]
    /\ ivalid \subseteq Entry /\ ibusy \subseteq Entry
    /\ itype \in [Entry -> {"free", "file"}]
    /\ inlink \in [Entry -> 0..MaxLink]
    /\ ipc \in [Caller -> {"out", "alloc", "ref", "lock", "asleep", "read", "locked",
                         "linked", "free", "freed"}]
    /\ task \in [Caller -> {"use", "create", "undo"}]
    /\ ip \in [Caller -> Entry \cup {NoEntry}]
    /\ new \in [Caller -> Inum \cup {NoInum}]

InodeInit ==
    /\ dtype = [n \in Inum |-> "free"]
    /\ dnlink = [n \in Inum |-> 0]
    /\ entries = [n \in Inum |-> 0]
    /\ inum = [i \in Entry |-> NoInum]
    /\ ref = [i \in Entry |-> 0]
    /\ ivalid = {} /\ ibusy = {}
    /\ itype = [i \in Entry |-> "free"]
    /\ inlink = [i \in Entry |-> 0]
    /\ ipc = [p \in Caller |-> "out"]
    /\ task = [p \in Caller |-> "use"]
    /\ ip = [p \in Caller |-> NoEntry]
    /\ new = [p \in Caller |-> NoInum]

At(p, from, to) ==
    /\ ipc[p] = from
    /\ ipc' = [ipc EXCEPT ![p] = to]

(* wakeup(i), then p goes on *)
Wakeup(i, p, to) ==
    [q \in Caller |->
        IF q = p THEN to
        ELSE IF ipc[q] = "asleep" /\ ip[q] = i THEN "lock" ELSE ipc[q]]

-----------------------------------------------------------------------------
InUse(n) == {i \in Entry : ref[i] > 0 /\ inum[i] = n}
Empty == {i \in Entry : ref[i] = 0}

(* iget(n): without an empty entry it panics. *)
Iget(p, n) ==
    \/ \E i \in InUse(n) :
          /\ ref' = [ref EXCEPT ![i] = @ + 1]
          /\ ip' = [ip EXCEPT ![p] = i]
          /\ UNCHANGED <<inum, ivalid, ibusy>>
    \/ /\ InUse(n) = {}
       /\ \E i \in Empty :
             /\ \A j \in Empty : i <= j
             /\ inum' = [inum EXCEPT ![i] = n]
             /\ ref' = [ref EXCEPT ![i] = 1]
             /\ ivalid' = ivalid \ {i} /\ ibusy' = ibusy \ {i}
             /\ ip' = [ip EXCEPT ![p] = i]

(* dirlookup(), by namex() or by the calls, under the directory's lock *)
Lookup(p, n) ==
    /\ entries[n] > 0
    /\ At(p, "out", "ref")
    /\ Iget(p, n)
    /\ UNCHANGED <<dinodes, entries, copies, task, new>>

(* idup(), of another process' inode as in fork() *)
Idup(p, q) ==
    /\ ipc[q] = "ref" /\ task[q] = "use"
    /\ At(p, "out", "ref")
    /\ ref' = [ref EXCEPT ![ip[q]] = @ + 1]
    /\ ip' = [ip EXCEPT ![p] = ip[q]]
    /\ UNCHANGED <<dinodes, entries, inum, ivalid, ibusy, copies, task, new>>

FreeInodes == {n \in Inum : dtype[n] = "free"}

(* ialloc() finds a free inode; iget() of it comes later. *)
Ialloc(p, n) ==
    /\ n \in FreeInodes
    /\ At(p, "out", "alloc")
    /\ dtype' = [dtype EXCEPT ![n] = "file"]
    /\ dnlink' = [dnlink EXCEPT ![n] = 0]
    /\ new' = [new EXCEPT ![p] = n]
    /\ UNCHANGED <<entries, icache, task, ip>>

IallocIget(p) ==
    /\ At(p, "alloc", "lock")
    /\ Iget(p, new[p])
    /\ task' = [task EXCEPT ![p] = "create"]
    /\ new' = [new EXCEPT ![p] = NoInum]
    /\ UNCHANGED <<dinodes, entries, copies>>

-----------------------------------------------------------------------------
CallIlock(p) ==
    /\ At(p, "ref", "lock")
    /\ UNCHANGED <<dinodes, entries, icache, task, ip, new>>

Ilock(p) ==
    /\ \/ /\ ip[p] \in ibusy
          /\ At(p, "lock", "asleep")
          /\ UNCHANGED ibusy
       \/ /\ ip[p] \notin ibusy
          /\ At(p, "lock", "read")
          /\ ibusy' = ibusy \cup {ip[p]}
    /\ UNCHANGED <<dinodes, entries, inum, ref, ivalid, copies, task, ip, new>>

(* The rest of ilock(): read the inode if it is not valid. *)
IlockRead(p) ==
    /\ At(p, "read", "locked")
    /\ \/ /\ ip[p] \in ivalid
          /\ UNCHANGED <<ivalid, copies>>
       \/ /\ ip[p] \notin ivalid
          /\ itype' = [itype EXCEPT ![ip[p]] = dtype[inum[ip[p]]]]
          /\ inlink' = [inlink EXCEPT ![ip[p]] = dnlink[inum[ip[p]]]]
          /\ ivalid' = ivalid \cup {ip[p]}
    /\ UNCHANGED <<dinodes, entries, inum, ref, ibusy, task, ip, new>>

(* ip->nlink = k and iupdate(ip) *)
SetLinks(p, k) ==
    /\ k \in 0..MaxLink
    /\ inlink' = [inlink EXCEPT ![ip[p]] = k]
    /\ dnlink' = [dnlink EXCEPT ![inum[ip[p]]] = k]
    /\ dtype' = [dtype EXCEPT ![inum[ip[p]]] = itype[ip[p]]]

Entered(p, d) ==
    LET n == inum[ip[p]] IN
        /\ entries[n] + d \in 0..MaxLink
        /\ entries' = [entries EXCEPT ![n] = @ + d]

(* create(): nlink is 1, dirlink() *)
Create(p) ==
    /\ ipc[p] = "locked" /\ task[p] = "create"
    /\ SetLinks(p, 1)
    /\ Entered(p, 1)
    /\ task' = [task EXCEPT ![p] = "use"]
    /\ UNCHANGED <<inum, ref, ivalid, ibusy, itype, ipc, ip, new>>

(* sys_unlink(), which holds the directory's lock too *)
Unlink(p) ==
    /\ ipc[p] = "locked" /\ task[p] = "use"
    /\ Entered(p, -1)
    /\ SetLinks(p, inlink[ip[p]] - 1)
    /\ UNCHANGED <<inum, ref, ivalid, ibusy, itype, ipc, task, ip, new>>

Iunlock(p, to) ==
    /\ ibusy' = ibusy \ {ip[p]}
    /\ ipc' = Wakeup(ip[p], p, to)

CallIunlock(p) ==
    /\ ipc[p] = "locked" /\ task[p] = "use"
    /\ Iunlock(p, "ref")
    /\ UNCHANGED <<dinodes, entries, inum, ref, ivalid, copies, task, ip, new>>

(* sys_link(): one link more, for the entry that comes after the lock *)
Link(p) ==
    /\ ipc[p] = "locked" /\ task[p] = "use"
    /\ SetLinks(p, inlink[ip[p]] + 1)
    /\ Iunlock(p, "linked")
    /\ UNCHANGED <<entries, inum, ref, ivalid, itype, task, ip, new>>

LinkEnters(p) ==
    /\ At(p, "linked", "ref")
    /\ Entered(p, 1)
    /\ UNCHANGED <<dinodes, icache, task, ip, new>>

(* sys_link() fails: the link goes again, under the lock. *)
LinkFails(p) ==
    /\ At(p, "linked", "lock")
    /\ task' = [task EXCEPT ![p] = "undo"]
    /\ UNCHANGED <<dinodes, entries, icache, ip, new>>

LinkUndone(p) ==
    /\ ipc[p] = "locked" /\ task[p] = "undo"
    /\ SetLinks(p, inlink[ip[p]] - 1)
    /\ Iunlock(p, "ref")
    /\ task' = [task EXCEPT ![p] = "use"]
    /\ UNCHANGED <<entries, inum, ref, ivalid, itype, ip, new>>

-----------------------------------------------------------------------------
LastUse_shared(i) == i \in ivalid /\ inlink[i] = 0
LastUse(i) == ref[i] = 1 /\ i \in ivalid /\ inlink[i] = 0

(* ip->flags after the inode is free *)
FlagsKept_valid(i) == ivalid
FlagsKept(i) == ivalid \ {i}

PutRef(p) ==
    /\ ref' = [ref EXCEPT ![ip[p]] = @ - 1]
    /\ ip' = [ip EXCEPT ![p] = NoEntry]

(* iput(), up to the release of icache.lock *)
Iput(p) ==
    \/ /\ At(p, "ref", "out")
       /\ ~LastUse(ip[p])
       /\ PutRef(p)
       /\ UNCHANGED <<dinodes, entries, inum, ivalid, ibusy, copies, task, new>>
    \/ /\ At(p, "ref", "free")
       /\ LastUse(ip[p]) /\ ip[p] \notin ibusy
       /\ ibusy' = ibusy \cup {ip[p]}
       /\ UNCHANGED <<dinodes, entries, inum, ref, ivalid, copies, task, ip, new>>

(* itrunc(), type 0, iupdate() *)
IputFrees(p) ==
    /\ At(p, "free", "freed")
    /\ itype' = [itype EXCEPT ![ip[p]] = "free"]
    /\ dtype' = [dtype EXCEPT ![inum[ip[p]]] = "free"]
    /\ dnlink' = [dnlink EXCEPT ![inum[ip[p]]] = inlink[ip[p]]]
    /\ UNCHANGED <<entries, inum, ref, ivalid, ibusy, inlink, task, ip, new>>

(* The rest of iput() *)
IputEnds(p) ==
    /\ ipc[p] = "freed"
    /\ ipc' = Wakeup(ip[p], p, "out")
    /\ ibusy' = ibusy \ {ip[p]}
    /\ ivalid' = FlagsKept(ip[p])
    /\ PutRef(p)
    /\ UNCHANGED <<dinodes, entries, inum, copies, task, new>>

InodeNext ==
    \E p \in Caller :
        \/ \E n \in Inum : Lookup(p, n) \/ Ialloc(p, n)
        \/ \E q \in Caller : Idup(p, q)
        \/ IallocIget(p)
        \/ CallIlock(p) \/ Ilock(p) \/ IlockRead(p) \/ CallIunlock(p)
        \/ Create(p) \/ Unlink(p)
        \/ Link(p) \/ LinkEnters(p) \/ LinkFails(p) \/ LinkUndone(p)
        \/ Iput(p) \/ IputFrees(p) \/ IputEnds(p)

InodeSpec == InodeInit /\ [][InodeNext]_inodeVars
-----------------------------------------------------------------------------
(* ilock() returns with the inode as it is on the disk, and allocated: it  *)
(* never panics for want of a type (fs.c:275), even where the entry was    *)
(* that of a file that is being freed.                                     *)
LockedCurrent ==
    \A p \in Caller :
        ipc[p] = "locked" =>
            LET i == ip[p] IN
                /\ itype[i] = "file" /\ dtype[inum[i]] = "file"
                /\ inlink[i] = dnlink[inum[i]]

(* No lost wakeup: who sleeps in ilock() waits for a process that has the  *)
(* inode locked.                                                           *)
LockHeld ==
    \A p \in Caller :
        ipc[p] = "asleep" =>
            \E q \in Caller : ip[q] = ip[p] /\ ipc[q] \in {"read", "locked", "free", "freed"}

(* The processes whose reference keeps an inode allocated *)
Users(n) ==
    {p \in Caller :
        \/ new[p] = n
        \/ ip[p] # NoEntry /\ ipc[p] # "freed" /\ inum[ip[p]] = n}

Owners(n) ==
    {p \in Users(n) : ip[p] # NoEntry /\ ipc[p] \in {"read", "locked"}}

OwnerOf(n) == IF Owners(n) = {} THEN Nobody ELSE CHOOSE p \in Owners(n) : TRUE

Fi == INSTANCE Files WITH
    Proc <- Caller,
    alloc <- {n \in Inum : dtype[n] = "file"},
    names <- entries,
    users <- [n \in Inum |-> Users(n)],
    owner <- [n \in Inum |-> OwnerOf(n)]

(* The inode cache keeps what fs.c promises of inodes: one process at a    *)
(* time has an inode locked, through whichever entry, and an inode is      *)
(* freed, and may be allocated again, exactly when nothing names it and    *)
(* nobody refers to it any more.                                           *)
ImplementsFiles == Fi!FilesSpec
=============================================================================
