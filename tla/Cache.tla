------------------------------- MODULE Cache -------------------------------
(***************************************************************************)
(* The buffer cache of kernel/bio.c over the request queue of              *)
(* kernel/ide.c.  A step is a critical section of bcache.lock or of        *)
(* idelock, or the use of a buffer by the process that holds it.  Nobody   *)
(* holds two buffers here; where the file system does (an indirect block   *)
(* and the bitmap, a logged block and its log block) the order is fixed.   *)
(***************************************************************************)
EXTENDS Callers, Integers, FiniteSets, SequencesExt

CONSTANTS
    Block, Val,
    Zero,         \* the contents of memory and of a new disk
    NoBlock,      \* the block of a buffer that never had one (dev = -1)
    NBUF

Buf == 1..NBUF
NoBuf == 0

ASSUME CacheAssumption ==
    /\ Zero \in Val /\ NoBlock \notin Block
    /\ IsFiniteSet(Proc) /\ NBUF \in Nat \ {0}

VARIABLES
    disk,
    (* struct buf *)
    bno, busy, valid, dirty, data,
    lru,          \* its place in bcache.head's list, the most recently used first
    idequeue,
    ide,          \* the buffer that the disk works on
    (* processes *)
    bpc, want, held

bufs == <<bno, busy, valid, dirty, data, lru>>
queue == <<idequeue, ide>>
users == <<bpc, want, held>>
cacheVars == <<disk, bufs, queue, users>>

CacheTypeOK ==
    /\ disk \in [Block -> Val]
    /\ bno \in [Buf -> Block \cup {NoBlock}]
    /\ busy \subseteq Buf /\ valid \subseteq Buf /\ dirty \subseteq Buf
    /\ data \in [Buf -> Val]
    /\ lru \in [Buf -> Buf] /\ \A i, j \in Buf : lru[i] = lru[j] => i = j
    /\ idequeue \in BoundedSeq(Buf, NBUF) /\ IsInjective(idequeue)
    /\ ide \in Buf \cup {NoBuf}
    /\ bpc \in [Proc -> {"out", "bget", "asleep", "got", "queued", "woken", "use"}]
    /\ want \in [Proc -> Block \cup {NoBlock}]
    /\ held \in [Proc -> Buf \cup {NoBuf}]

CacheInit ==
    /\ disk = [b \in Block |-> Zero]
    /\ bno = [i \in Buf |-> NoBlock]
    /\ busy = {} /\ valid = {} /\ dirty = {}
    /\ data = [i \in Buf |-> Zero]
    /\ lru = [i \in Buf |-> NBUF + 1 - i]
    /\ idequeue = <<>> /\ ide = NoBuf
    /\ bpc = [p \in Proc |-> "out"]
    /\ want = [p \in Proc |-> NoBlock]
    /\ held = [p \in Proc |-> NoBuf]

-----------------------------------------------------------------------------
(* wakeup(i), from brelse() and from ideintr(): bget() and iderw() sleep   *)
(* on the same channel.                                                    *)
WakeBuf_none(i) == bpc
WakeBuf(i) ==
    [p \in Proc |->
        IF bpc[p] = "asleep" /\ bno[i] = want[p] THEN "bget"
        ELSE IF bpc[p] = "queued" /\ held[p] = i THEN "woken"
        ELSE bpc[p]]

Cached(b) == {i \in Buf : bno[i] = b}

(* Buffers in use, pinned by the log, or about to be needed *)
Demand ==
    Cardinality(busy \cup dirty) + Cardinality({p \in Proc : bpc[p] \in {"bget", "asleep"}})

(* bread(b).  Callers leave a buffer for one another, without which bget() *)
(* panics (bio.c:91): in the code only the few blocks that a transaction   *)
(* writes see to it, for NBUF is no more than the LOGSIZE it may pin.      *)
Bread(p, b) ==
    /\ bpc[p] = "out"
    /\ Demand < NBUF \/ Cached(b) \cap dirty # {}
    /\ bpc' = [bpc EXCEPT ![p] = "bget"]
    /\ want' = [want EXCEPT ![p] = b]
    /\ UNCHANGED <<disk, bufs, queue, held>>

Take(p, i) ==
    /\ busy' = busy \cup {i}
    /\ held' = [held EXCEPT ![p] = i]
    /\ bpc' = [bpc EXCEPT ![p] = "got"]

(* bget() finds the block: one turn of its loop. *)
BgetFound(p) ==
    /\ bpc[p] = "bget"
    /\ \E i \in Cached(want[p]) :
          \/ i \notin busy /\ Take(p, i)
          \/ /\ i \in busy
             /\ bpc' = [bpc EXCEPT ![p] = "asleep"]
             /\ UNCHANGED <<busy, held>>
    /\ UNCHANGED <<disk, bno, valid, dirty, data, lru, queue, want>>

(* Clean buffers nobody uses *)
Recyclable == Buf \ (busy \cup dirty)

(* The one of them that was used least recently *)
Victim(i) ==
    /\ i \in Recyclable
    /\ \A j \in Recyclable : lru[j] <= lru[i]

KeepValid_stale(i) == valid
KeepValid(i) == valid \ {i}

BgetRecycle(p) ==
    /\ bpc[p] = "bget" /\ Cached(want[p]) = {}
    /\ \E i \in Buf :
          /\ Victim(i)
          /\ Take(p, i)
          /\ bno' = [bno EXCEPT ![i] = want[p]]
          /\ valid' = KeepValid(i)
    /\ UNCHANGED <<disk, dirty, data, lru, queue, want>>

-----------------------------------------------------------------------------
(* iderw(): queue the request, start the disk if it is idle, sleep.        *)
Iderw(p) ==
    /\ idequeue' = Append(idequeue, held[p])
    /\ ide' = IF idequeue = <<>> THEN held[p] ELSE ide
    /\ bpc' = [bpc EXCEPT ![p] = "queued"]

(* The rest of bread() *)
ReadBlock(p) ==
    /\ bpc[p] = "got"
    /\ \/ held[p] \in valid /\ bpc' = [bpc EXCEPT ![p] = "use"] /\ UNCHANGED queue
       \/ held[p] \notin valid /\ Iderw(p)
    /\ UNCHANGED <<disk, bufs, want, held>>

(* bwrite() of new data, as in the log's commit *)
Bwrite(p, v) ==
    /\ bpc[p] = "use"
    /\ data' = [data EXCEPT ![held[p]] = v]
    /\ dirty' = dirty \cup {held[p]}
    /\ Iderw(p)
    /\ UNCHANGED <<disk, bno, busy, valid, lru, want, held>>

(* The request at the head of the queue, and the next one to start *)
NextRequest == IF Len(idequeue) > 1 THEN idequeue[2] ELSE NoBuf

(* The disk has done its work. *)
Ideintr ==
    /\ ide # NoBuf
    /\ LET i == Head(idequeue) IN
          /\ IF i \in dirty
             THEN disk' = [disk EXCEPT ![bno[ide]] = data[ide]] /\ UNCHANGED data
             ELSE data' = [data EXCEPT ![i] = disk[bno[ide]]] /\ UNCHANGED disk
          /\ valid' = valid \cup {i}
          /\ dirty' = dirty \ {i}
          /\ bpc' = WakeBuf(i)
    /\ idequeue' = Tail(idequeue)
    /\ ide' = NextRequest
    /\ UNCHANGED <<bno, busy, lru, want, held>>

(* iderw() wakes up, and finds its request done or sleeps again. *)
IderwWakes(p) ==
    /\ bpc[p] = "woken"
    /\ bpc' = [bpc EXCEPT ![p] = IF held[p] \in valid \ dirty THEN "use" ELSE "queued"]
    /\ UNCHANGED <<disk, bufs, queue, want, held>>

-----------------------------------------------------------------------------
(* A change of the data, and log_write(), which pins the buffer. *)
LogWrite(p, v) ==
    /\ bpc[p] = "use"
    /\ data' = [data EXCEPT ![held[p]] = v]
    /\ dirty' = dirty \cup {held[p]}
    /\ UNCHANGED <<disk, bno, busy, valid, lru, queue, users>>

(* The buffer moves to the front of bcache.head's list.                    *)
ToFront(i) ==
    [j \in Buf |-> IF j = i THEN 1 ELSE IF lru[j] < lru[i] THEN lru[j] + 1 ELSE lru[j]]

Brelse(p) ==
    /\ bpc[p] = "use"
    /\ lru' = ToFront(held[p])
    /\ busy' = busy \ {held[p]}
    /\ bpc' = [WakeBuf(held[p]) EXCEPT ![p] = "out"]
    /\ held' = [held EXCEPT ![p] = NoBuf]
    /\ want' = [want EXCEPT ![p] = NoBlock]
    /\ UNCHANGED <<disk, bno, valid, dirty, data, queue>>

Bget(p) == BgetFound(p) \/ BgetRecycle(p)

UseBuffer(p) == Brelse(p) \/ \E v \in Val : Bwrite(p, v) \/ LogWrite(p, v)

CacheNext ==
    \/ Ideintr
    \/ \E p \in Proc :
          \/ \E b \in Block : Bread(p, b)
          \/ Bget(p) \/ ReadBlock(p) \/ IderwWakes(p) \/ UseBuffer(p)

CacheSpec == CacheInit /\ [][CacheNext]_cacheVars

-----------------------------------------------------------------------------
(* No lost wakeup: who sleeps in bget() waits for a buffer in use, who     *)
(* sleeps in iderw() for a request in the queue that the disk works on.    *)
SleepersServed ==
    /\ \A p \in Proc : bpc[p] = "asleep" => Cached(want[p]) \cap busy # {}
    /\ \A p \in Proc : bpc[p] = "queued" => held[p] \in ToSet(idequeue)
    /\ idequeue # <<>> => ide = Head(idequeue)

(* What bread() of a block would return *)
Newest(b) ==
    IF \E i \in Cached(b) : i \in valid
    THEN data[CHOOSE i \in Cached(b) : i \in valid] ELSE disk[b]

UserOf(b) ==
    IF \E p \in Proc : want[p] = b /\ bpc[p] \in {"use", "queued", "woken"} /\ held[p] \in valid
    THEN CHOOSE p \in Proc :
            want[p] = b /\ bpc[p] \in {"use", "queued", "woken"} /\ held[p] \in valid
    ELSE Nobody

Bl == INSTANCE Blocks WITH
    content <- [b \in Block |-> Newest(b)],
    user <- [b \in Block |-> UserOf(b)]

(* A block has one buffer, one process uses it at a time, and finds what   *)
(* the last one left there, although buffers are recycled, pinned and      *)
(* written in between.                                                     *)
ImplementsBlocks == Bl!BlocksSpec
=============================================================================
