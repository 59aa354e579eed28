-------------------------------- MODULE Pipe --------------------------------
(***************************************************************************)
(* One pipe of kernel/pipe.c and the processes that hold its ends:         *)
(* piperead(), pipewrite(), the pipeclose() of fileclose(), and kill() at  *)
(* any moment.  A step is what one process does between two moments when   *)
(* another one may see it: p->lock is held over several steps, because     *)
(* kill() does not take it.                                                *)
(***************************************************************************)
EXTENDS Callers, Integers, Sequences

CONSTANTS
    Byte,
    Readers, Writers,   \* who has the read end and the write end open at first
    PIPESIZE,
    UINT,               \* nread and nwrite count modulo this: 2^32 in the code
    MaxN                \* bound: the most bytes one call asks for

ASSUME PipeAssumption ==
    /\ PIPESIZE \in Nat \ {0} /\ UINT \in Nat /\ MaxN \in Nat
    /\ UINT > PIPESIZE /\ UINT % PIPESIZE = 0
    /\ Readers \subseteq Proc /\ Writers \subseteq Proc

VARIABLES
    (* struct pipe *)
    data, nread, nwrite, readopen, writeopen, lock,
    freed,        \* has pipeclose() called kfree()?
    (* who has each end open *)
    readers, writers,
    (* processes *)
    pc, killed,
    left,         \* n - i, the bytes a call has still to move
    got           \* the last byte piperead() has copied out

ring == <<data, nread, nwrite>>
ends == <<readopen, writeopen, freed, readers, writers>>
pipeVars == <<ring, lock, ends, pc, killed, left, got>>

Writing == {"write", "wsleep", "wasleep", "wwoken"}
Reading == {"read", "rsleep", "rasleep", "rwoken", "copy"}

PipeTypeOK ==
    /\ data \in [0..PIPESIZE - 1 -> Byte]
    /\ nread \in 0..UINT - 1 /\ nwrite \in 0..UINT - 1
    /\ readopen \in BOOLEAN /\ writeopen \in BOOLEAN /\ freed \in BOOLEAN
    /\ lock \in Proc \cup {Nobody}
    /\ readers \subseteq Proc /\ writers \subseteq Proc
    /\ pc \in [Proc -> {"user"} \cup Writing \cup Reading]
    /\ killed \in [Proc -> BOOLEAN]
    /\ left \in [Proc -> 0..MaxN]
    /\ got \in Byte

(* pipealloc(), and the fork()s and close()s that spread the ends *)
PipeInit ==
    /\ \E b \in Byte : data = [i \in 0..PIPESIZE - 1 |-> b]
    /\ nread = 0 /\ nwrite = 0
    /\ readopen = TRUE /\ writeopen = TRUE /\ freed = FALSE
    /\ lock = Nobody
    /\ readers = Readers /\ writers = Writers
    /\ pc = [p \in Proc |-> "user"]
    /\ killed = [p \in Proc |-> FALSE]
    /\ left = [p \in Proc |-> 0]
    /\ got = data[0]

-----------------------------------------------------------------------------
Acquire(p) == lock = Nobody /\ lock' = p
Release(p) == lock = p /\ lock' = Nobody

(* p goes to l and wakes the processes asleep on the channel. *)
Goto(p, l) == pc' = [pc EXCEPT ![p] = l]
GotoWaking(p, l, asleep, woken) ==
    pc' = [q \in Proc |-> IF q = p THEN l ELSE IF pc[q] = asleep THEN woken ELSE pc[q]]
WakeReaders_none(p, l) == Goto(p, l)
WakeReaders(p, l) == GotoWaking(p, l, "rasleep", "rwoken")
WakeWriters(p, l) == GotoWaking(p, l, "wasleep", "wwoken")

Full_late == nwrite = (nread + PIPESIZE + 1) % UINT
Full == nwrite = (nread + PIPESIZE) % UINT
Empty == nread = nwrite

(* sys_write() and sys_read() of n bytes, by a process that has not exited *)
WriteCall(p) ==
    /\ pc[p] = "user" /\ ~killed[p] /\ p \in writers
    /\ Acquire(p)
    /\ Goto(p, "write")
    /\ \E n \in 0..MaxN : left' = [left EXCEPT ![p] = n]
    /\ UNCHANGED <<ring, ends, killed, got>>

ReadCall(p) ==
    /\ pc[p] = "user" /\ ~killed[p] /\ p \in readers
    /\ Acquire(p)
    /\ Goto(p, "read")
    /\ \E n \in 0..MaxN : left' = [left EXCEPT ![p] = n]
    /\ UNCHANGED <<ring, ends, killed, got>>

(* unsigned ++ *)
Inc_wide(n) == n + 1
Inc(n) == (n + 1) % UINT

(* p->data[p->nwrite++ % PIPESIZE] = addr[i] *)
WriteByte(p) ==
    /\ pc[p] = "write" /\ left[p] > 0 /\ ~Full
    /\ \E b \in Byte : data' = [data EXCEPT ![nwrite % PIPESIZE] = b]
    /\ nwrite' = Inc(nwrite)
    /\ left' = [left EXCEPT ![p] = @ - 1]
    /\ UNCHANGED <<nread, lock, ends, pc, killed, got>>

(* The pipe is full: give up, or wake the readers before sleeping. *)
WriteFails(p) ==
    /\ pc[p] = "write" /\ left[p] > 0 /\ Full
    /\ ~readopen \/ killed[p]
    /\ Release(p)
    /\ Goto(p, "user")
    /\ left' = [left EXCEPT ![p] = 0]
    /\ UNCHANGED <<ring, ends, killed, got>>

WriteWaits(p) ==
    /\ pc[p] = "write" /\ left[p] > 0 /\ Full
    /\ readopen /\ ~killed[p]
    /\ WakeReaders(p, "wsleep")
    /\ UNCHANGED <<ring, lock, ends, killed, left, got>>

WriteReturns(p) ==
    /\ pc[p] = "write" /\ left[p] = 0
    /\ WakeReaders(p, "user")
    /\ Release(p)
    /\ UNCHANGED <<ring, ends, killed, left, got>>

ReadFails(p) ==
    /\ pc[p] = "read" /\ Empty /\ writeopen
    /\ killed[p]
    /\ Release(p)
    /\ Goto(p, "user")
    /\ left' = [left EXCEPT ![p] = 0]
    /\ UNCHANGED <<ring, ends, killed, got>>

ReadWaits(p) ==
    /\ pc[p] = "read" /\ Empty /\ writeopen
    /\ ~killed[p]
    /\ Goto(p, "rsleep")
    /\ UNCHANGED <<ring, lock, ends, killed, left, got>>

(* There is something to read, or nobody will write. *)
ReadStarts(p) ==
    /\ pc[p] = "read" /\ ~(Empty /\ writeopen)
    /\ Goto(p, "copy")
    /\ UNCHANGED <<ring, lock, ends, killed, left, got>>

ReadByte(p) ==
    /\ pc[p] = "copy" /\ left[p] > 0 /\ ~Empty
    /\ got' = data[nread % PIPESIZE]
    /\ nread' = Inc(nread)
    /\ left' = [left EXCEPT ![p] = @ - 1]
    /\ UNCHANGED <<data, nwrite, lock, ends, pc, killed>>

ReadReturns(p) ==
    /\ pc[p] = "copy" /\ (left[p] = 0 \/ Empty)
    /\ WakeWriters(p, "user")
    /\ Release(p)
    /\ left' = [left EXCEPT ![p] = 0]
    /\ UNCHANGED <<ring, ends, killed, got>>

(* sleep(): the lock is released once the process is SLEEPING.             *)
Sleep(p) ==
    /\ \/ pc[p] = "wsleep" /\ Goto(p, "wasleep")
       \/ pc[p] = "rsleep" /\ Goto(p, "rasleep")
    /\ Release(p)
    /\ UNCHANGED <<ring, ends, killed, left, got>>

(* sleep() returns once it has the lock again. *)
Wake(p) ==
    /\ \/ pc[p] = "wwoken" /\ Goto(p, "write")
       \/ pc[p] = "rwoken" /\ Goto(p, "read")
    /\ Acquire(p)
    /\ UNCHANGED <<ring, ends, killed, left, got>>

(* kill(), under ptable.lock only *)
Kill(p) ==
    /\ ~killed[p] /\ p \in readers \cup writers
    /\ killed' = [killed EXCEPT ![p] = TRUE]
    /\ Goto(p, CASE pc[p] = "wasleep" -> "wwoken"
                 [] pc[p] = "rasleep" -> "rwoken"
                 [] OTHER -> pc[p])
    /\ UNCHANGED <<ring, lock, ends, left, got>>

-----------------------------------------------------------------------------
(* close() and exit(): the last close of an end is a pipeclose().          *)

BothClosed_either(r, w) == ~r \/ ~w
BothClosed(r, w) == ~r /\ ~w

CloseRead(p) ==
    /\ pc[p] = "user" /\ p \in readers
    /\ readers' = readers \ {p}
    /\ \/ /\ readers' # {}
          /\ UNCHANGED <<readopen, freed, pc>>
       \/ /\ readers' = {} /\ lock = Nobody
          /\ readopen' = FALSE
          /\ WakeWriters(p, "user")
          /\ freed' = BothClosed(FALSE, writeopen)
    /\ UNCHANGED <<ring, lock, writeopen, writers, killed, left, got>>

CloseWrite(p) ==
    /\ pc[p] = "user" /\ p \in writers
    /\ writers' = writers \ {p}
    /\ \/ /\ writers' # {}
          /\ UNCHANGED <<writeopen, freed, pc>>
       \/ /\ writers' = {} /\ lock = Nobody
          /\ writeopen' = FALSE
          /\ WakeReaders(p, "user")
          /\ freed' = BothClosed(readopen, FALSE)
    /\ UNCHANGED <<ring, lock, readopen, readers, killed, left, got>>

-----------------------------------------------------------------------------
Write(p) == WriteByte(p) \/ WriteFails(p) \/ WriteWaits(p) \/ WriteReturns(p)

Read(p) ==
    ReadFails(p) \/ ReadWaits(p) \/ ReadStarts(p) \/ ReadByte(p) \/ ReadReturns(p)

Close(p) == CloseRead(p) \/ CloseWrite(p)

PipeNext ==
    \E p \in Proc :
        \/ WriteCall(p) \/ ReadCall(p) \/ Write(p) \/ Read(p)
        \/ Sleep(p) \/ Wake(p) \/ Kill(p) \/ Close(p)

PipeSpec == PipeInit /\ [][PipeNext]_pipeVars

-----------------------------------------------------------------------------
Blocked == {p \in Proc : pc[p] \in Writing}

(* Has a writer been killed?  It then gives up without a wakeup().         *)
KilledWriter == \E p \in Writers : killed[p]

(* No lost wakeup on either channel: when the lock is free, whoever sleeps *)
(* would have to sleep again, for the other end is open and the ring is as *)
(* full, or as empty, as he found it.                                      *)
SleepersMustWait ==
    lock = Nobody => \A p \in Proc :
        /\ pc[p] = "wasleep" => Full /\ readopen
        /\ pc[p] = "rasleep" => (Empty /\ writeopen) \/ KilledWriter

(* Stated by the loop of piperead() (pipe.c:97, "pipe-empty"): a process   *)
(* sleeps in piperead() only while the pipe is empty.                      *)
ReadersMustWait ==
    lock = Nobody => \A p \in Proc : pc[p] = "rasleep" => Empty

(* kfree() takes the page from nobody: no process is inside a call, holds  *)
(* the lock or has an end open, although pipeclose() looks at the two      *)
(* flags only and several processes share an end.                          *)
FreedUnused ==
    freed => /\ lock = Nobody /\ readers = {} /\ writers = {}
             /\ \A p \in Proc : pc[p] = "user"

(* The ring is a first-in first-out queue, also when nread and nwrite wrap *)
(* around and readers and writers share it.                                *)
Queue == INSTANCE Fifo WITH
    Size <- PIPESIZE,
    q <- [i \in 1..(nwrite - nread) % UINT |-> data[(nread + i - 1) % PIPESIZE]]

ImplementsFifo == Queue!FifoSpec

(* Fairness: a process in the kernel goes on, and gets a spinlock that is  *)
(* free again and again.  As for the programs: who has the read end open   *)
(* keeps reading, and a killed process exits.                              *)
InKernel(p) == Write(p) \/ Read(p) \/ Sleep(p)
Proceeds(p) == Wake(p) \/ (ReadCall(p) /\ left'[p] > 0) \/ (killed[p] /\ Close(p))

PipeFairSpec ==
    PipeSpec /\ \A p \in Proc : WF_pipeVars(InKernel(p)) /\ SF_pipeVars(Proceeds(p))

(* A full pipe is drained, unless those who could read it are all stuck    *)
(* writing: a writer wakes the readers before it sleeps.                   *)
FullDrains == Full ~> ~Full \/ readers \subseteq Blocked \/ KilledWriter

(* When the last write end is closed every blocked read() returns.         *)
ReadsEnd == \A p \in Proc : writers = {} ~> pc[p] \notin Reading
=============================================================================
