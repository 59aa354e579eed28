-------------------------------- MODULE Log --------------------------------
(***************************************************************************)
(* The redo log of kernel/log.c over the buffer cache: begin_op(),         *)
(* log_write(), end_op(), commit() and the recovery of initlog(), with a   *)
(* crash between any two disk writes.  A step is a critical section of     *)
(* log.lock or one disk write; a disk block is one sector, so its write is *)
(* atomic.  Of the cache it keeps what each block's buffer holds and       *)
(* whether it is pinned; Cache.tla models the buffers themselves.          *)
(***************************************************************************)
EXTENDS Integers, SequencesExt

CONSTANTS
    Proc,          \* processes that make file system calls
    Block,         \* disk blocks outside the log
    Val,           \* contents of a block
    NoBuf,         \* a block with no buffer in the cache
    NoBlock,       \* a process with no buffer in hand
    LOGSIZE, MAXOPBLOCKS,
    NLOG,          \* sb.nlog: blocks of the log on the disk, its header included
    OpBlocks       \* the blocks one system call writes, at most

ASSUME LogAssumption ==
    /\ NoBuf \notin Val /\ NoBlock \notin Block
    /\ IsFiniteSet(Proc) /\ IsFiniteSet(Block)
    /\ LOGSIZE \in Nat /\ NLOG \in Nat \ {0}
    /\ MAXOPBLOCKS \in 1..LOGSIZE /\ OpBlocks \in Nat

VARIABLES
    (* the disk *)
    home, logblk,
    hdr,          \* the header block: the home blocks of the logged ones
    (* struct log; lh.n is Len(lh) *)
    lh, outstanding, committing,
    (* buffer cache *)
    buf,
    dirty,        \* blocks with B_DIRTY set
    (* processes *)
    pc, tail,
    writing,      \* the block whose buffer it holds in log_write()
    wrote,        \* the blocks its system call has logged
    up            \* has initlog() returned?

disk == <<home, logblk, hdr>>
log == <<lh, outstanding, committing>>
cache == <<buf, dirty>>
procs == <<pc, tail, writing, wrote, up>>
vars == <<disk, log, cache, procs>>

TypeOK ==
    /\ home \in [Block -> Val]
    /\ logblk \in [1..LOGSIZE -> Val]
    /\ hdr \in BoundedSeq(Block, LOGSIZE) /\ IsInjective(hdr)
    /\ lh \in BoundedSeq(Block, LOGSIZE) /\ IsInjective(lh)
    /\ outstanding \in 0..Cardinality(Proc)
    /\ committing \in BOOLEAN
    /\ buf \in [Block -> Val \cup {NoBuf}]
    /\ dirty \subseteq Block
    /\ pc \in [Proc -> {"out", "asleep", "woken", "in", "logging", "write",
                        "install", "done", "panic"}]
    /\ tail \in [Proc -> 1..LOGSIZE + 1]
    /\ writing \in [Proc -> Block \cup {NoBlock}]
    /\ wrote \in [Proc -> SUBSET Block]
    /\ up \in BOOLEAN

Init ==
    /\ home \in [Block -> Val]
    /\ \E v \in Val : logblk = [i \in 1..LOGSIZE |-> v]
    /\ hdr = <<>>
    /\ lh = <<>> /\ outstanding = 0 /\ committing = FALSE
    /\ buf = [b \in Block |-> NoBuf] /\ dirty = {}
    /\ pc = [p \in Proc |-> "out"]
    /\ tail = [p \in Proc |-> 1]
    /\ writing = [p \in Proc |-> NoBlock]
    /\ wrote = [p \in Proc |-> {}]
    /\ up = FALSE

-----------------------------------------------------------------------------
(* bread(b): the buffer of the block, or its copy on the disk. *)
Read(b) == IF buf[b] = NoBuf THEN home[b] ELSE buf[b]

(* Blocks whose buffers are locked in the middle of log_write() *)
Busy == {b \in Block : \E p \in Proc : writing[p] = b}

(* bget() takes a clean buffer for another block. *)
Recyclable == Block \ (dirty \cup Busy)

Recycle(b) ==
    /\ up /\ b \in Recyclable /\ buf[b] # NoBuf
    /\ buf' = [buf EXCEPT ![b] = NoBuf]
    /\ UNCHANGED <<disk, log, dirty, procs>>

(* wakeup(&log), and p goes to l *)
WakeAll_none(p, l) == [pc EXCEPT ![p] = l]
WakeAll(p, l) ==
    [q \in Proc |-> IF q = p THEN l ELSE IF pc[q] = "asleep" THEN "woken" ELSE pc[q]]

NoSpace_one == Len(lh) + MAXOPBLOCKS > LOGSIZE
NoSpace == Len(lh) + (outstanding + 1) * MAXOPBLOCKS > LOGSIZE

MustWait_space == NoSpace
MustWait == committing \/ NoSpace

(* One turn of begin_op()'s loop. *)
BeginOp(p) ==
    /\ up /\ pc[p] \in {"out", "woken"}
    /\ \/ /\ MustWait
          /\ pc' = [pc EXCEPT ![p] = "asleep"]
          /\ UNCHANGED outstanding
       \/ /\ ~MustWait
          /\ outstanding' = outstanding + 1
          /\ pc' = [pc EXCEPT ![p] = "in"]
    /\ UNCHANGED <<disk, lh, committing, cache, tail, writing, wrote, up>>

LogFull == Len(lh) >= LOGSIZE \/ Len(lh) >= NLOG - 1

(* bread(), a change of the data, and the check of log_write(), which is   *)
(* made before log.lock is taken.                                          *)
LogWrite(p, b, v) ==
    /\ pc[p] = "in" /\ b \notin Busy
    /\ b \in wrote[p] \/ Cardinality(wrote[p]) < OpBlocks
    /\ buf' = [buf EXCEPT ![b] = v]
    /\ writing' = [writing EXCEPT ![p] = b]
    /\ wrote' = [wrote EXCEPT ![p] = @ \cup {b}]
    /\ \/ LogFull /\ pc' = [pc EXCEPT ![p] = "panic"]
       \/ ~LogFull /\ pc' = [pc EXCEPT ![p] = "logging"]
    /\ UNCHANGED <<disk, log, dirty, tail, up>>

(* A block is logged once in a transaction ("absorption"). *)
Recorded_again(b) == Append(lh, b)
Recorded(b) == IF b \in ToSet(lh) THEN lh ELSE Append(lh, b)

(* The rest of log_write(), and brelse() *)
LogAppend(p) ==
    /\ pc[p] = "logging"
    /\ lh' = Recorded(writing[p])
    /\ dirty' = dirty \cup {writing[p]}
    /\ writing' = [writing EXCEPT ![p] = NoBlock]
    /\ pc' = [pc EXCEPT ![p] = "in"]
    /\ UNCHANGED <<disk, outstanding, committing, buf, tail, wrote, up>>

(* end_op(): the last one out commits. *)
EndOp(p) ==
    /\ pc[p] = "in"
    /\ outstanding' = outstanding - 1
    /\ \/ /\ outstanding = 1
          /\ committing' = TRUE
          /\ pc' = [pc EXCEPT ![p] = IF lh = <<>> THEN "done" ELSE "write"]
       \/ /\ outstanding > 1
          /\ pc' = WakeAll(p, "out")
          /\ UNCHANGED committing
    /\ wrote' = [wrote EXCEPT ![p] = {}]
    /\ UNCHANGED <<disk, lh, cache, tail, writing, up>>

(* write_log(): the modified blocks, from the cache to the log. *)
WriteLog(p) ==
    /\ pc[p] = "write" /\ tail[p] <= Len(lh)
    /\ logblk' = [logblk EXCEPT ![tail[p]] = Read(lh[tail[p]])]
    /\ tail' = [tail EXCEPT ![p] = @ + 1]
    /\ UNCHANGED <<home, hdr, log, cache, pc, writing, wrote, up>>

(* When write_head() commits: all of write_log() comes before. *)
Logged_early(p) == TRUE
Logged(p) == tail[p] = Len(lh) + 1

WriteHead(p) ==
    /\ pc[p] = "write" /\ Logged(p)
    /\ hdr' = lh
    /\ pc' = [pc EXCEPT ![p] = "install"]
    /\ tail' = [tail EXCEPT ![p] = 1]
    /\ UNCHANGED <<home, logblk, log, cache, writing, wrote, up>>

(* install_trans(): from the log to the home blocks; bwrite() unpins. *)
InstallTrans(p) ==
    /\ pc[p] = "install" /\ tail[p] <= Len(lh)
    /\ home' = [home EXCEPT ![lh[tail[p]]] = logblk[tail[p]]]
    /\ buf' = [buf EXCEPT ![lh[tail[p]]] = logblk[tail[p]]]
    /\ dirty' = dirty \ {lh[tail[p]]}
    /\ tail' = [tail EXCEPT ![p] = @ + 1]
    /\ UNCHANGED <<logblk, hdr, log, pc, writing, wrote, up>>

(* lh.n = 0, write_head(): the end of commit() and of recovery. *)
Erase(p) ==
    /\ pc[p] = "install" /\ tail[p] = Len(lh) + 1
    /\ lh' = <<>> /\ hdr' = <<>>
    /\ pc' = [pc EXCEPT ![p] = IF up THEN "done" ELSE "out"]
    /\ up' = TRUE
    /\ tail' = [tail EXCEPT ![p] = 1]
    /\ UNCHANGED <<home, logblk, outstanding, committing, cache, writing, wrote>>

(* The end of end_op() after commit(). *)
Committed(p) ==
    /\ pc[p] = "done"
    /\ committing' = FALSE
    /\ pc' = WakeAll(p, "out")
    /\ UNCHANGED <<disk, lh, outstanding, cache, tail, writing, wrote, up>>

-----------------------------------------------------------------------------
(* The kernel's memory is lost. *)
Crash ==
    /\ lh' = <<>> /\ outstanding' = 0 /\ committing' = FALSE
    /\ buf' = [b \in Block |-> NoBuf] /\ dirty' = {}
    /\ pc' = [p \in Proc |-> "out"]
    /\ tail' = [p \in Proc |-> 1]
    /\ writing' = [p \in Proc |-> NoBlock]
    /\ wrote' = [p \in Proc |-> {}]
    /\ up' = FALSE
    /\ UNCHANGED disk

(* recover_from_log(), run by the first process before there are others. *)
ReadHead(p) ==
    /\ ~up /\ \A q \in Proc : pc[q] = "out"
    /\ lh' = hdr
    /\ pc' = [pc EXCEPT ![p] = "install"]
    /\ UNCHANGED <<disk, outstanding, committing, cache, tail, writing, wrote, up>>

Call(p) == LogAppend(p) \/ \E b \in Block, v \in Val : LogWrite(p, b, v)

Commit(p) ==
    WriteLog(p) \/ WriteHead(p) \/ InstallTrans(p) \/ Erase(p) \/ Committed(p)

Next ==
    \/ Crash
    \/ \E b \in Block : Recycle(b)
    \/ \E p \in Proc : BeginOp(p) \/ Call(p) \/ EndOp(p) \/ Commit(p) \/ ReadHead(p)

Spec == Init /\ [][Next]_vars

-----------------------------------------------------------------------------
(* The processes between begin_op() and end_op() *)
Inside == {p \in Proc : pc[p] \in {"in", "logging", "panic"}}

(* end_op() never finds committing set (its panic, log.c:137): the commit  *)
(* has the log and the cached blocks for itself.                           *)
CommitAlone == committing => Inside = {}

(* No lost wakeup in begin_op(): whoever sleeps there would have to wait   *)
(* again, although space comes back in the end_op() of other processes.    *)
SleepersMustWait == (\E p \in Proc : pc[p] = "asleep") => MustWait

(* begin_op() sets enough of the log aside: every call finds room for the  *)
(* MAXOPBLOCKS it may write, less those of its blocks that are logged.     *)
Logs == {w \in Inside \X Block : w[2] \in wrote[w[1]] \cap ToSet(lh)}

LogSpace ==
    OpBlocks <= MAXOPBLOCKS =>
        Len(lh) + outstanding * MAXOPBLOCKS - Cardinality(Logs) <= LOGSIZE

(* The blocks that one turn of filewrite()'s loop may log: max bytes are   *)
(* one block more when they are not aligned, and there are the bitmap, the *)
(* indirect block and the inode.                                           *)
FileBlocks == LET max == (LOGSIZE - 1 - 1 - 2) \div 2 IN (max + 1) + 3

(* Stated by filewrite() (file.c:110-111, "write a few blocks at a time to *)
(* avoid exceeding the maximum log transaction size"): log_write() never   *)
(* finds a transaction too big.                                            *)
TransactionFits == \A p \in Proc : pc[p] # "panic"

(* Asserted by log_write() (log.c:195): a transaction never has more       *)
(* blocks than the log on the disk has behind its header.                  *)
LogInside == Len(lh) <= NLOG - 1

(* What a crash leaves: recovery copies the blocks a header names.         *)
Recovered ==
    [b \in Block |-> IF \E i \in DOMAIN hdr : hdr[i] = b
                     THEN logblk[CHOOSE i \in DOMAIN hdr : hdr[i] = b] ELSE home[b]]

(* What a read finds, after recovery *)
FileSystem == IF up THEN [b \in Block |-> Read(b)] ELSE Recovered

Store == INSTANCE LogStore WITH
    fs <- FileSystem,
    stable <- Recovered,
    open <- Inside

(* The log makes system calls atomic: through every crash, during commit   *)
(* and during recovery too, the disk is what the file system was at a      *)
(* moment when no call was half done, and reading never goes back.         *)
ImplementsStore == Store!StoreSpec

-----------------------------------------------------------------------------
(* The inductive invariant: who is inside a system call, who commits, and  *)
(* what the disk, the log and the cache hold meanwhile.                    *)
Committer == {p \in Proc : pc[p] \in {"write", "install", "done"}}

ControlTypes ==
    /\ hdr \in Seq(Block) /\ IsInjective(hdr)
    /\ lh \in Seq(Block) /\ IsInjective(lh)
    /\ committing \in BOOLEAN /\ up \in BOOLEAN
    /\ pc \in [Proc -> {"out", "asleep", "woken", "in", "logging", "write",
                        "install", "done", "panic"}]
    /\ tail \in [Proc -> Nat \ {0}]
    /\ writing \in [Proc -> Block \cup {NoBlock}]
    /\ wrote \in [Proc -> SUBSET Block]

CountInv == outstanding = Cardinality(Inside) /\ outstanding \in Nat

(* One process commits; before recovery ends nobody calls.                 *)
OneCommitter == \A p, q \in Committer : p = q
CommitFlag == up => (committing <=> Committer # {})
BootIdle == ~up => ~committing /\ \A p \in Proc : pc[p] \in {"out", "install"}

TailInv ==
    \A p \in Proc : IF pc[p] \in {"write", "install"} THEN tail[p] <= Len(lh) + 1
                    ELSE tail[p] = 1

(* What a call has written, and the buffer it holds in log_write()         *)
CallWrites ==
    /\ \A p \in Proc : p \notin Inside => wrote[p] = {}
    /\ \A p \in Proc : Cardinality(wrote[p]) <= OpBlocks

CallHolds ==
    /\ \A p \in Proc : IF pc[p] \in {"logging", "panic"} THEN writing[p] \in wrote[p]
                       ELSE writing[p] = NoBlock
    /\ \A p, q \in Proc : writing[p] = writing[q] /\ writing[p] # NoBlock => p = q

ControlInv ==
    /\ ControlTypes /\ CountInv /\ CommitAlone /\ OneCommitter /\ CommitFlag
    /\ BootIdle /\ TailInv /\ CallWrites /\ CallHolds /\ SleepersMustWait

-----------------------------------------------------------------------------
(* No call writes more than begin_op() sets aside for it. *)
Polite == OpBlocks <= MAXOPBLOCKS

(* The header on the disk was once the transaction in memory. *)
HeaderSpace == Polite => Len(hdr) <= LOGSIZE

SpaceInv == LogSpace /\ HeaderSpace

-----------------------------------------------------------------------------
DataTypes ==
    /\ home \in [Block -> Val] /\ logblk \in [1..LOGSIZE -> Val]
    /\ buf \in [Block -> Val \cup {NoBuf}] /\ dirty \subseteq Block

(* Buffers that differ from the disk are dirty, or being changed. *)
CacheInv ==
    /\ \A b \in dirty : buf[b] # NoBuf
    /\ \A b \in Block \ (dirty \cup Busy) : buf[b] # NoBuf => buf[b] = home[b]
    /\ \A p \in Proc : writing[p] # NoBlock => buf[writing[p]] # NoBuf

(* Between transactions the disk's log is empty, and what is logged in     *)
(* memory is pinned in the cache.                                          *)
CallPhase ==
    /\ up /\ (\A p \in Proc : pc[p] # "install") => hdr = <<>> /\ dirty = ToSet(lh)
    /\ \A p \in Proc : pc[p] = "done" => lh = <<>>

(* Before recovery has read the header the cache is empty. *)
BootPhase ==
    ~up => /\ dirty = {}
           /\ (\A p \in Proc : pc[p] # "install") => \A b \in Block : buf[b] = NoBuf

(* write_log() has copied the first blocks to the log. *)
WritePhase ==
    \A p \in Proc : pc[p] = "write" =>
        \A i \in 1..tail[p] - 1 : logblk[i] = buf[lh[i]]

(* install_trans() has copied the first blocks home; those to come are in  *)
(* the log, and during a commit in pinned buffers as well.                 *)
InstallPhase ==
    \A p \in Proc : pc[p] = "install" =>
        /\ hdr = lh /\ dirty \subseteq ToSet(lh)
        /\ \A i \in 1..tail[p] - 1 : home[lh[i]] = logblk[i] /\ lh[i] \notin dirty
        /\ up => \A i \in tail[p]..Len(lh) : lh[i] \in dirty /\ buf[lh[i]] = logblk[i]

DataInv ==
    DataTypes /\ CacheInv /\ CallPhase /\ BootPhase /\ WritePhase /\ InstallPhase
=============================================================================
