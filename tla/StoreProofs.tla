---------------------------- MODULE StoreProofs ----------------------------
(***************************************************************************)
(* For any number of processes, buffers, blocks, inodes and cache entries: *)
(* the buffer cache and the inode cache keep what they promise.            *)
(***************************************************************************)
EXTENDS StoreLayers, FiniteSetTheorems, SequenceTheorems, TLAPS

CacheTypes ==
    /\ disk \in [Block -> Val]
    /\ bno \in [Buf -> Block \cup {NoBlock}]
    /\ busy \subseteq Buf /\ valid \subseteq Buf /\ dirty \subseteq Buf
    /\ data \in [Buf -> Val]
    /\ lru \in [Buf -> Buf] /\ \A i, j \in Buf : lru[i] = lru[j] => i = j
    /\ ide \in Buf \cup {NoBuf}
    /\ bpc \in [Proc -> {"out", "bget", "asleep", "got", "queued", "woken", "use"}]
    /\ want \in [Proc -> Block \cup {NoBlock}]
    /\ held \in [Proc -> Buf \cup {NoBuf}]

(* A process that asks for a block holds at most the buffer of that block. *)
HoldInv ==
    /\ \A p \in Proc : held[p] # NoBuf <=> bpc[p] \in {"got", "queued", "woken", "use"}
    /\ \A p \in Proc : want[p] = NoBlock <=> bpc[p] = "out"
    /\ \A p \in Proc : held[p] # NoBuf => bno[held[p]] = want[p] /\ held[p] \in busy
    /\ \A i \in busy : \E p \in Proc : held[p] = i
    /\ \A p, q \in Proc : held[p] = held[q] /\ held[p] # NoBuf => p = q

(* A block has at most one buffer.                                         *)
OneBuffer == \A i, j \in Buf : bno[i] = bno[j] /\ bno[i] # NoBlock => i = j

(* The disk works on the first request; the requests are those of the      *)
(* processes that sleep in iderw().                                        *)
QueueInv ==
    /\ idequeue \in Seq(Buf)
    /\ \A k, l \in 1..Len(idequeue) : idequeue[k] = idequeue[l] => k = l
    /\ ide = IF idequeue = <<>> THEN NoBuf ELSE Head(idequeue)
    /\ \A k \in 1..Len(idequeue) : \E p \in Proc : bpc[p] = "queued" /\ held[p] = idequeue[k]
    /\ \A p \in Proc : bpc[p] = "queued" => \E k \in 1..Len(idequeue) : idequeue[k] = held[p]

(* A valid buffer without B_DIRTY has what the disk has; a request reads   *)
(* what is not valid, and writes what is dirty.                            *)
DataInv ==
    /\ dirty \subseteq valid
    /\ \A i \in valid : bno[i] \in Block
    /\ \A i \in valid \ dirty : data[i] = disk[bno[i]]
    /\ \A p \in Proc :
          /\ bpc[p] = "woken" => held[p] \in valid \ dirty
          /\ bpc[p] = "use" => held[p] \in valid
          /\ bpc[p] = "queued" => (held[p] \in valid <=> held[p] \in dirty)

(* Who sleeps in bget() does so for a buffer in use.                       *)
AsleepInv == \A p \in Proc : bpc[p] = "asleep" => Cached(want[p]) \cap busy # {}

CacheInv == CacheTypes /\ HoldInv /\ OneBuffer /\ QueueInv /\ DataInv /\ AsleepInv

-----------------------------------------------------------------------------
Holding == {"read", "locked", "free", "freed"}

(* What a process has in hand, by the place in its call                    *)
HandInv ==
    \A p \in Caller :
        /\ ip[p] = NoEntry <=> ipc[p] \in {"out", "alloc"}
        /\ new[p] = NoInum <=> ipc[p] # "alloc"
        /\ task[p] # "use" => ipc[p] \in {"lock", "asleep", "read", "locked"}

(* ref counts the processes that refer to an entry.                        *)
RefInv == \A i \in Entry : ref[i] = Cardinality({p \in Caller : ip[p] = i})

(* An inode has one entry.                                                 *)
EntryInv ==
    /\ \A i \in Entry : ref[i] > 0 => inum[i] \in Inum
    /\ \A i, j \in Entry : ref[i] > 0 /\ ref[j] > 0 /\ inum[i] = inum[j] => i = j

(* I_BUSY is one process'.                                                 *)
BusyInv ==
    /\ \A p \in Caller : ipc[p] \in Holding => ip[p] \in ibusy
    /\ \A i \in ibusy : \E p \in Caller : ipc[p] \in Holding /\ ip[p] = i
    /\ \A p, q \in Caller : ipc[p] \in Holding /\ ipc[q] \in Holding /\ ip[p] = ip[q] => p = q
    /\ \A p \in Caller : ipc[p] = "asleep" => ip[p] \in ibusy

(* The processes that sys_link() owes an entry, or a link less             *)
Owes(p) == ipc[p] = "linked" \/ task[p] = "undo"

Owing(n) == {p \in Caller : ip[p] # NoEntry /\ inum[ip[p]] = n /\ Owes(p)}

LinkInv == \A n \in Inum : dnlink[n] = entries[n] + Cardinality(Owing(n))

(* A valid copy is that of the disk, but for an inode that was just freed. *)
CopyInv ==
    \A i \in Entry :
        /\ i \in ivalid /\ ref[i] > 0 =>
              /\ inlink[i] = dnlink[inum[i]]
              /\ itype[i] = "file" \/ \E p \in Caller : ip[p] = i /\ ipc[p] = "freed"
        /\ i \notin ivalid /\ ref[i] > 0 =>
              \/ entries[inum[i]] > 0
              \/ \E p \in Caller : ip[p] = i /\ task[p] = "create"

Creating(p, n) == new[p] = n \/ (task[p] = "create" /\ inum[ip[p]] = n)

(* Inodes are allocated while somebody names or uses them; create() and    *)
(* the end of iput() have theirs alone.                                    *)
AllocInv ==
    /\ \A n \in Inum : dtype[n] = "file" <=> entries[n] > 0 \/ Users(n) # {}
    /\ \A p \in Caller, n \in Inum : Creating(p, n) => entries[n] = 0 /\ Users(n) = {p}

FreeInv ==
    \A p \in Caller :
        /\ ipc[p] \in {"locked", "free", "freed"} => ip[p] \in ivalid
        /\ ipc[p] \in {"free", "freed"} => inlink[ip[p]] = 0
        /\ ipc[p] = "free" => ref[ip[p]] = 1
        /\ ipc[p] = "freed" =>
              \A q \in Caller \ {p} : ip[q] = ip[p] => task[q] = "create"

InodeInv ==
    /\ InodeTypeOK /\ HandInv /\ RefInv /\ EntryInv /\ BusyInv
    /\ LinkInv /\ CopyInv /\ AllocInv /\ FreeInv

-----------------------------------------------------------------------------
(* What the queue is after a request, and after its first one is done      *)
LEMMA QueueGrows ==
    ASSUME CacheInv, NEW p \in Proc, Iderw(p), bpc[p] \in {"got", "use"}
    PROVE  /\ idequeue' \in Seq(Buf) /\ Len(idequeue') = Len(idequeue) + 1
           /\ \A k \in 1..Len(idequeue) : idequeue'[k] = idequeue[k]
           /\ idequeue'[Len(idequeue')] = held[p]
           /\ \A k, l \in 1..Len(idequeue') : idequeue'[k] = idequeue'[l] => k = l
           /\ ide' = Head(idequeue') /\ idequeue' # <<>> /\ held[p] \in Buf
<1>1. held[p] \in Buf /\ idequeue \in Seq(Buf) /\ idequeue' = Append(idequeue, held[p])
    BY DEF CacheInv, CacheTypes, HoldInv, QueueInv, Iderw
<1>2. /\ idequeue' \in Seq(Buf) /\ Len(idequeue') = Len(idequeue) + 1 /\ Len(idequeue) \in Nat
      /\ \A k \in 1..Len(idequeue) : idequeue'[k] = idequeue[k]
      /\ idequeue'[Len(idequeue) + 1] = held[p] /\ idequeue' # <<>>
    BY ONLY <1>1, AppendProperties, LenProperties
<1>3. \A k \in 1..Len(idequeue) : idequeue[k] # held[p]
    BY <1>1 DEF CacheInv, HoldInv, QueueInv, NoBuf, Buf
<1>4. \A k, l \in 1..Len(idequeue) : idequeue[k] = idequeue[l] => k = l
    BY DEF CacheInv, QueueInv
<1>5. \A k, l \in 1..Len(idequeue') : idequeue'[k] = idequeue'[l] => k = l
    BY ONLY <1>2, <1>3, <1>4
<1>6. ide' = Head(idequeue')
    BY <1>1, HeadTailAppend DEF Iderw, CacheInv, QueueInv
<1> QED
    BY <1>1, <1>2, <1>5, <1>6

LEMMA QueueShrinks ==
    ASSUME CacheInv, Ideintr
    PROVE  /\ ide \in Buf /\ ide = Head(idequeue) /\ idequeue[1] = ide /\ Len(idequeue) \in Nat \ {0}
           /\ idequeue' \in Seq(Buf) /\ Len(idequeue') = Len(idequeue) - 1
           /\ \A k \in 1..Len(idequeue') : idequeue'[k] = idequeue[k + 1]
           /\ \A k, l \in 1..Len(idequeue') : idequeue'[k] = idequeue'[l] => k = l
           /\ ide' = IF idequeue' = <<>> THEN NoBuf ELSE Head(idequeue')
<1>1. idequeue # <<>> /\ ide = Head(idequeue) /\ idequeue \in Seq(Buf) /\ idequeue' = Tail(idequeue)
    BY DEF CacheInv, QueueInv, Ideintr
<1>2. /\ ide \in Buf /\ idequeue[1] = ide /\ Len(idequeue) \in Nat \ {0}
      /\ idequeue' \in Seq(Buf) /\ Len(idequeue') = Len(idequeue) - 1
      /\ \A k \in 1..Len(idequeue') : idequeue'[k] = idequeue[k + 1]
    BY ONLY <1>1, HeadTailProperties, LenProperties, EmptySeq
<1>3. \A k, l \in 1..Len(idequeue) : idequeue[k] = idequeue[l] => k = l
    BY DEF CacheInv, QueueInv
<1>4. \A k, l \in 1..Len(idequeue') : idequeue'[k] = idequeue'[l] => k = l
    BY ONLY <1>2, <1>3
<1>5. ide' = IF idequeue' = <<>> THEN NoBuf ELSE Head(idequeue')
    <2>1. ide' = IF Len(idequeue) > 1 THEN idequeue[2] ELSE NoBuf
        BY DEF Ideintr, NextRequest
    <2>2. idequeue' # <<>> => Head(idequeue') = idequeue'[1] /\ Len(idequeue') > 0
        BY ONLY <1>2, HeadTailProperties, LenProperties, EmptySeq
    <2>3. idequeue' = <<>> => Len(idequeue') = 0
        OBVIOUS
    <2> QED
        BY ONLY <1>2, <2>1, <2>2, <2>3
<1> QED
    BY <1>1, <1>2, <1>4, <1>5

(* The disk works for a process that holds the buffer.                     *)
LEMMA HeadHeld ==
    ASSUME CacheInv, Ideintr
    PROVE  \E p \in Proc : /\ bpc[p] = "queued" /\ held[p] = ide
                          /\ bno[ide] = want[p] /\ bno[ide] \in Block /\ ide \in busy
<1>1. idequeue[1] = ide /\ Len(idequeue) \in Nat \ {0} /\ ide \in Buf
    BY QueueShrinks
<1>2. 1 \in 1..Len(idequeue)
    BY <1>1
<1>3. PICK p \in Proc : bpc[p] = "queued" /\ held[p] = ide
    BY <1>1, <1>2 DEF CacheInv, QueueInv
<1> QED
    BY CacheAssumption, <1>1, <1>3 DEF CacheInv, CacheTypes, HoldInv, Buf, NoBuf

(* Every step keeps the types, and the order of use is one of all buffers. *)
LEMMA CacheTypesKept ==
    ASSUME CacheInv, [CacheNext]_cacheVars
    PROVE  CacheTypes'
<1> USE CacheAssumption DEF CacheInv, CacheTypes, Buf, NoBuf
<1>0. CASE UNCHANGED cacheVars
    BY <1>0 DEF cacheVars, bufs, queue, users, HoldInv
<1>1. CASE Ideintr
    <2>1. ide \in Buf /\ Head(idequeue) = ide /\ ide' \in Buf \cup {NoBuf}
        <3>1. /\ ide \in Buf /\ Head(idequeue) = ide /\ idequeue' \in Seq(Buf)
              /\ ide' = IF idequeue' = <<>> THEN NoBuf ELSE Head(idequeue')
            BY <1>1, QueueShrinks
        <3> QED
            BY ONLY <3>1, HeadTailProperties
    <2>2. /\ data' \in [Buf -> Val] /\ disk' \in [Block -> Val]
        <3>1. bno[ide] \in Block
            BY <1>1, HeadHeld
        <3>2. CASE ide \in dirty
            BY <1>1, <2>1, <3>1, <3>2 DEF Ideintr
        <3>3. CASE ide \notin dirty
            <4>1. data' = [data EXCEPT ![ide] = disk[bno[ide]]] /\ disk' = disk
                BY <1>1, <2>1, <3>3 DEF Ideintr
            <4> QED
                BY <3>1, <4>1
        <3> QED
            BY <3>2, <3>3
    <2>3. bpc' \in [Proc -> {"out", "bget", "asleep", "got", "queued", "woken", "use"}]
        BY <1>1 DEF Ideintr, WakeBuf
    <2>4. valid' = valid \cup {ide} /\ dirty' = dirty \ {ide} /\ UNCHANGED <<bno, busy, lru, want, held>>
        BY <1>1, <2>1 DEF Ideintr
    <2> QED
        BY <2>1, <2>2, <2>3, <2>4
<1>2. ASSUME NEW p \in Proc, NEW b \in Block, Bread(p, b) PROVE CacheTypes'
    BY <1>2 DEF Bread, bufs, queue, users, HoldInv
<1>3. ASSUME NEW p \in Proc, BgetFound(p) PROVE CacheTypes'
    <2>1. /\ busy' \subseteq Buf /\ held' \in [Proc -> Buf \cup {NoBuf}]
          /\ bpc' \in [Proc -> {"out", "bget", "asleep", "got", "queued", "woken", "use"}]
        <3>1. PICK i \in Buf :
                 \/ Take(p, i)
                 \/ bpc' = [bpc EXCEPT ![p] = "asleep"] /\ UNCHANGED <<busy, held>>
            BY <1>3 DEF BgetFound, Cached
        <3> QED
            BY <3>1 DEF Take
    <2>2. UNCHANGED <<disk, bno, valid, dirty, data, lru, ide, want>>
        BY <1>3 DEF BgetFound, queue
    <2> QED
        BY <2>1, <2>2
<1>4. ASSUME NEW p \in Proc, BgetRecycle(p) PROVE CacheTypes'
    <2>1. PICK i \in Buf : /\ busy' = busy \cup {i} /\ held' = [held EXCEPT ![p] = i]
                           /\ bpc' = [bpc EXCEPT ![p] = "got"]
                           /\ bno' = [bno EXCEPT ![i] = want[p]] /\ valid' = valid \ {i}
        BY <1>4 DEF BgetRecycle, Take, KeepValid
    <2>2. UNCHANGED <<disk, dirty, data, lru, ide, want>>
        BY <1>4 DEF BgetRecycle, queue
    <2> QED
        BY <2>1, <2>2
<1>5. ASSUME NEW p \in Proc, ReadBlock(p) PROVE CacheTypes'
    <2>1. ide' \in Buf \cup {NoBuf} /\ bpc' \in [Proc -> {"out", "bget", "asleep", "got", "queued", "woken", "use"}]
        BY <1>5 DEF ReadBlock, Iderw, queue
    <2> QED
        BY <1>5, <2>1 DEF ReadBlock, bufs
<1>6. ASSUME NEW p \in Proc, IderwWakes(p) PROVE CacheTypes'
    BY <1>6 DEF IderwWakes, bufs, queue, users, HoldInv
<1>7. ASSUME NEW p \in Proc, Brelse(p) PROVE CacheTypes'
    <2>1. held[p] \in Buf
        BY <1>7 DEF Brelse, HoldInv
    <2>2. /\ lru' \in [Buf -> Buf]
          /\ \A i, j \in Buf : lru'[i] = lru'[j] => i = j
        <3>1. /\ lru' = ToFront(held[p]) /\ NBUF \in Nat \ {0}
              /\ lru \in [Buf -> Buf] /\ \A i, j \in Buf : lru[i] = lru[j] => i = j
            BY <1>7 DEF Brelse
        <3>2. /\ lru'[held[p]] = 1
              /\ \A i \in Buf : i # held[p] => lru'[i] = IF lru[i] < lru[held[p]] THEN lru[i] + 1 ELSE lru[i]
            BY ONLY <2>1, <3>1 DEF ToFront
        <3> DEFINE h == held[p]
        <3> HIDE DEF h
        <3>3. /\ h \in Buf /\ lru'[h] = 1 /\ \A i \in Buf : lru[i] \in 1..NBUF
              /\ \A i \in Buf : i # h => lru'[i] = IF lru[i] < lru[h] THEN lru[i] + 1 ELSE lru[i]
              /\ \A i \in Buf : i # h => lru[i] # lru[h]
            BY <2>1, <3>1, <3>2 DEF h
        <3>4. ASSUME NEW i \in Buf, i # h
              PROVE  lru'[i] \in 2..NBUF
            <4>1. /\ lru[i] \in 1..NBUF /\ lru[h] \in 1..NBUF /\ lru[i] # lru[h] /\ NBUF \in Nat
                  /\ lru'[i] = IF lru[i] < lru[h] THEN lru[i] + 1 ELSE lru[i]
                BY ONLY <3>1, <3>3, <3>4
            <4> QED
                BY ONLY <4>1
        <3>5. lru' \in [Buf -> Buf]
            <4>1. ASSUME NEW i \in Buf
                  PROVE  lru'[i] \in Buf
                <5>1. NBUF \in Nat \ {0} /\ (i = h => lru'[i] = 1) /\ (i # h => lru'[i] \in 2..NBUF)
                    BY ONLY <3>1, <3>3, <3>4
                <5> QED
                    BY ONLY <5>1
            <4> QED
                BY ONLY <3>1, <4>1 DEF ToFront
        <3>6. ASSUME NEW i \in Buf, NEW j \in Buf, lru'[i] = lru'[j], i # h, j # h
              PROVE  i = j
            <4>1. /\ lru[i] \in 1..NBUF /\ lru[j] \in 1..NBUF /\ lru[h] \in 1..NBUF
                  /\ lru[i] # lru[h] /\ lru[j] # lru[h] /\ (lru[i] = lru[j] => i = j)
                  /\ lru'[i] = IF lru[i] < lru[h] THEN lru[i] + 1 ELSE lru[i]
                  /\ lru'[j] = IF lru[j] < lru[h] THEN lru[j] + 1 ELSE lru[j]
                BY ONLY <3>1, <3>3, <3>6
            <4>2. lru'[i] = lru'[j]
                BY ONLY <3>6
            <4>3. lru[i] = lru[j]
                BY ONLY <4>1, <4>2
            <4> QED
                BY ONLY <4>1, <4>3
        <3>7. ASSUME NEW i \in Buf, i # h
              PROVE  lru'[i] # 1
            BY <3>4, <3>7
        <3> QED
            BY ONLY <3>3, <3>5, <3>6, <3>7
    <2>3. /\ busy' \subseteq Buf /\ held' \in [Proc -> Buf \cup {NoBuf}]
          /\ want' \in [Proc -> Block \cup {NoBlock}]
          /\ UNCHANGED <<disk, bno, valid, dirty, data, ide>>
        BY <1>7 DEF Brelse, queue
    <2>4. bpc' \in [Proc -> {"out", "bget", "asleep", "got", "queued", "woken", "use"}]
        BY <1>7 DEF Brelse, WakeBuf
    <2> QED
        BY <2>2, <2>3, <2>4
<1>8. ASSUME NEW p \in Proc, NEW v \in Val, Bwrite(p, v) PROVE CacheTypes'
    <2>1. ide' \in Buf \cup {NoBuf} /\ bpc' \in [Proc -> {"out", "bget", "asleep", "got", "queued", "woken", "use"}]
          /\ held[p] \in Buf
        BY <1>8 DEF Bwrite, Iderw, HoldInv
    <2> QED
        BY <1>8, <2>1 DEF Bwrite
<1>9. ASSUME NEW p \in Proc, NEW v \in Val, LogWrite(p, v) PROVE CacheTypes'
    <2>1. held[p] \in Buf
        BY <1>9 DEF LogWrite, HoldInv
    <2>2. /\ data' \in [Buf -> Val] /\ dirty' \subseteq Buf
          /\ UNCHANGED <<disk, bno, busy, valid, lru, ide, bpc, want, held>>
        BY <1>9, <2>1 DEF LogWrite, queue, users
    <2> QED
        BY <2>2
<1> QED
    BY <1>0, <1>1, <1>2, <1>3, <1>4, <1>5, <1>6, <1>7, <1>8, <1>9 DEF CacheNext, Bget, UseBuffer

(* bget() gives a free buffer to a process that has none.                  *)
LEMMA HoldTaken ==
    ASSUME CacheInv, NEW p \in Proc, bpc[p] = "bget", NEW i \in Buf, i \notin busy,
           Take(p, i), bno' = [bno EXCEPT ![i] = want[p]], UNCHANGED want
    PROVE  HoldInv'
<1> USE CacheAssumption DEF CacheInv, CacheTypes, Buf, NoBuf
<1>1. busy' = busy \cup {i} /\ held' = [held EXCEPT ![p] = i] /\ bpc' = [bpc EXCEPT ![p] = "got"]
    BY DEF Take
<1>2. held[p] = NoBuf /\ want[p] # NoBlock /\ \A q \in Proc : held[q] # i
    <2>1. i # NoBuf
        OBVIOUS
    <2> QED
        BY <2>1 DEF HoldInv
<1>3. \A q \in Proc : held'[q] # NoBuf <=> bpc'[q] \in {"got", "queued", "woken", "use"}
    BY <1>1, <1>2 DEF HoldInv
<1>4. \A q \in Proc : want'[q] = NoBlock <=> bpc'[q] = "out"
    BY <1>1, <1>2 DEF HoldInv
<1>5. ASSUME NEW q \in Proc, held'[q] # NoBuf
      PROVE  bno'[held'[q]] = want'[q] /\ held'[q] \in busy'
    BY <1>1, <1>2, <1>5 DEF HoldInv
<1>6. \A j \in busy' : \E q \in Proc : held'[q] = j
    BY <1>1, <1>2 DEF HoldInv
<1>7. \A q, r \in Proc : held'[q] = held'[r] /\ held'[q] # NoBuf => q = r
    BY <1>1, <1>2 DEF HoldInv
<1> QED
    BY <1>3, <1>4, <1>5, <1>6, <1>7 DEF HoldInv

(* A buffer is taken by one process, which releases it.                    *)
LEMMA HoldKept ==
    ASSUME CacheInv, [CacheNext]_cacheVars
    PROVE  HoldInv'
<1> USE CacheAssumption DEF CacheInv, CacheTypes, Buf, NoBuf
<1>0. CASE UNCHANGED cacheVars
    BY <1>0 DEF cacheVars, bufs, queue, users, HoldInv
<1>1. CASE Ideintr
    BY <1>1 DEF Ideintr, WakeBuf, NextRequest, bufs, queue, users, HoldInv
<1>2. ASSUME NEW p \in Proc, NEW b \in Block, Bread(p, b) PROVE HoldInv'
    BY <1>2 DEF Bread, bufs, queue, users, HoldInv
<1>3. ASSUME NEW p \in Proc, BgetFound(p) PROVE HoldInv'
    <2>1. ASSUME NEW i \in Cached(want[p]), i \notin busy, Take(p, i)
          PROVE  HoldInv'
        <3>1. i \in Buf /\ bno[i] = want[p] /\ bno' = bno /\ want' = want /\ bpc[p] = "bget"
            BY <1>3, <2>1 DEF BgetFound, Cached
        <3>2. bno' = [bno EXCEPT ![i] = want[p]]
            BY <3>1
        <3> QED
            BY <2>1, <3>1, <3>2, HoldTaken
    <2>2. CASE bpc' = [bpc EXCEPT ![p] = "asleep"] /\ UNCHANGED <<busy, held>>
        BY <1>3, <2>2 DEF BgetFound, HoldInv
    <2> QED
        BY <1>3, <2>1, <2>2 DEF BgetFound
<1>4. ASSUME NEW p \in Proc, BgetRecycle(p) PROVE HoldInv'
    <2>1. PICK i \in Buf \ busy : Take(p, i) /\ bno' = [bno EXCEPT ![i] = want[p]]
        BY <1>4 DEF BgetRecycle, Victim, Recyclable
    <2>2. bpc[p] = "bget" /\ want' = want
        BY <1>4 DEF BgetRecycle
    <2> QED
        BY <2>1, <2>2, HoldTaken
<1>5. ASSUME NEW p \in Proc, ReadBlock(p) PROVE HoldInv'
    <2>1. bpc'[p] \in {"queued", "use"} /\ \A q \in Proc \ {p} : bpc'[q] = bpc[q]
        BY <1>5 DEF ReadBlock, Iderw
    <2> QED
        BY SMTT(20), <1>5, <2>1 DEF ReadBlock, HoldInv, bufs
<1>6. ASSUME NEW p \in Proc, IderwWakes(p) PROVE HoldInv'
    BY <1>6 DEF IderwWakes, bufs, queue, users, HoldInv
<1>7. ASSUME NEW p \in Proc, Brelse(p) PROVE HoldInv'
    BY <1>7 DEF Brelse, WakeBuf, ToFront, bufs, queue, users, HoldInv
<1>8. ASSUME NEW p \in Proc, NEW v \in Val, Bwrite(p, v) PROVE HoldInv'
    BY <1>8 DEF Bwrite, Iderw, bufs, queue, users, HoldInv
<1>9. ASSUME NEW p \in Proc, NEW v \in Val, LogWrite(p, v) PROVE HoldInv'
    BY <1>9 DEF LogWrite, bufs, queue, users, HoldInv
<1> QED
    BY <1>0, <1>1, <1>2, <1>3, <1>4, <1>5, <1>6, <1>7, <1>8, <1>9 DEF CacheNext, Bget, UseBuffer

(* A buffer is recycled for a block that has none.                         *)
LEMMA OneBufferKept ==
    ASSUME CacheInv, [CacheNext]_cacheVars
    PROVE  OneBuffer'
<1> USE CacheAssumption DEF CacheInv, CacheTypes, Buf, NoBuf
<1>0. CASE UNCHANGED cacheVars
    BY <1>0 DEF cacheVars, bufs, queue, users, HoldInv, OneBuffer
<1>1. CASE Ideintr
    BY <1>1 DEF Ideintr, WakeBuf, NextRequest, bufs, queue, users, HoldInv, OneBuffer
<1>2. ASSUME NEW p \in Proc, NEW b \in Block, Bread(p, b) PROVE OneBuffer'
    BY <1>2 DEF Bread, bufs, queue, users, HoldInv, OneBuffer
<1>3. ASSUME NEW p \in Proc, BgetFound(p) PROVE OneBuffer'
    BY <1>3 DEF BgetFound, Take, Cached, bufs, queue, users, HoldInv, OneBuffer
<1>4. ASSUME NEW p \in Proc, BgetRecycle(p) PROVE OneBuffer'
    <2>1. PICK i \in Buf : bno' = [bno EXCEPT ![i] = want[p]]
        BY <1>4 DEF BgetRecycle
    <2>2. \A j \in Buf : bno[j] # want[p]
        BY <1>4 DEF BgetRecycle, Cached
    <2> QED
        BY <2>1, <2>2 DEF OneBuffer
<1>5. ASSUME NEW p \in Proc, ReadBlock(p) PROVE OneBuffer'
    BY <1>5 DEF ReadBlock, Iderw, bufs, queue, users, HoldInv, OneBuffer
<1>6. ASSUME NEW p \in Proc, IderwWakes(p) PROVE OneBuffer'
    BY <1>6 DEF IderwWakes, bufs, queue, users, HoldInv, OneBuffer
<1>7. ASSUME NEW p \in Proc, Brelse(p) PROVE OneBuffer'
    BY <1>7 DEF Brelse, WakeBuf, ToFront, bufs, queue, users, HoldInv, OneBuffer
<1>8. ASSUME NEW p \in Proc, NEW v \in Val, Bwrite(p, v) PROVE OneBuffer'
    BY <1>8 DEF Bwrite, Iderw, bufs, queue, users, HoldInv, OneBuffer
<1>9. ASSUME NEW p \in Proc, NEW v \in Val, LogWrite(p, v) PROVE OneBuffer'
    BY <1>9 DEF LogWrite, bufs, queue, users, HoldInv, OneBuffer
<1> QED
    BY <1>0, <1>1, <1>2, <1>3, <1>4, <1>5, <1>6, <1>7, <1>8, <1>9 DEF CacheNext, Bget, UseBuffer

(* The queue stays as it is while the same processes sleep in iderw().     *)
LEMMA QueueSame ==
    ASSUME CacheInv, UNCHANGED queue,
           \A p \in Proc : bpc'[p] = "queued" <=> bpc[p] = "queued",
           \A p \in Proc : bpc[p] = "queued" => held'[p] = held[p]
    PROVE  QueueInv'
BY DEF CacheInv, QueueInv, queue

LEMMA QueueLonger ==
    ASSUME CacheInv, NEW p \in Proc, Iderw(p), bpc[p] \in {"got", "use"}, UNCHANGED held
    PROVE  QueueInv'
<1>1. /\ idequeue' \in Seq(Buf) /\ Len(idequeue') = Len(idequeue) + 1
      /\ \A k \in 1..Len(idequeue) : idequeue'[k] = idequeue[k]
      /\ idequeue'[Len(idequeue')] = held[p]
      /\ \A k, l \in 1..Len(idequeue') : idequeue'[k] = idequeue'[l] => k = l
      /\ ide' = Head(idequeue') /\ idequeue' # <<>>
    BY QueueGrows
<1>2. /\ Len(idequeue) \in Nat /\ held' = held /\ bpc' = [bpc EXCEPT ![p] = "queued"]
      /\ bpc \in [Proc -> {"out", "bget", "asleep", "got", "queued", "woken", "use"}]
      /\ \A k \in 1..Len(idequeue) : \E q \in Proc : bpc[q] = "queued" /\ held[q] = idequeue[k]
      /\ \A q \in Proc : bpc[q] = "queued" => \E k \in 1..Len(idequeue) : idequeue[k] = held[q]
    BY LenProperties DEF Iderw, CacheInv, CacheTypes, QueueInv
<1>3. \A k \in 1..Len(idequeue') : \E q \in Proc : bpc'[q] = "queued" /\ held'[q] = idequeue'[k]
    BY ONLY <1>1, <1>2, p \in Proc
<1>4. \A q \in Proc : bpc'[q] = "queued" => \E k \in 1..Len(idequeue') : idequeue'[k] = held'[q]
    BY ONLY <1>1, <1>2, p \in Proc
<1> QED
    BY <1>1, <1>3, <1>4 DEF QueueInv

LEMMA QueueShorter ==
    ASSUME CacheInv, Ideintr
    PROVE  QueueInv'
<1>1. /\ idequeue[1] = ide /\ Len(idequeue) \in Nat \ {0} /\ Head(idequeue) = ide
      /\ idequeue' \in Seq(Buf) /\ Len(idequeue') = Len(idequeue) - 1
      /\ \A k \in 1..Len(idequeue') : idequeue'[k] = idequeue[k + 1]
      /\ \A k, l \in 1..Len(idequeue') : idequeue'[k] = idequeue'[l] => k = l
      /\ ide' = IF idequeue' = <<>> THEN NoBuf ELSE Head(idequeue')
    BY QueueShrinks
<1>2. /\ \A k, l \in 1..Len(idequeue) : idequeue[k] = idequeue[l] => k = l
      /\ \A k \in 1..Len(idequeue) : \E q \in Proc : bpc[q] = "queued" /\ held[q] = idequeue[k]
      /\ \A q \in Proc : bpc[q] = "queued" => \E k \in 1..Len(idequeue) : idequeue[k] = held[q]
    BY DEF CacheInv, QueueInv
<1>3. held' = held /\ \A q \in Proc : bpc'[q] = "queued" <=> bpc[q] = "queued" /\ held[q] # ide
    BY <1>1 DEF Ideintr, WakeBuf, CacheInv, CacheTypes, HoldInv
<1>4. \A k \in 1..Len(idequeue') : k + 1 \in 1..Len(idequeue) /\ idequeue[k + 1] # ide
    BY ONLY <1>1, <1>2
<1>5. \A k \in 1..Len(idequeue) : idequeue[k] # ide => k - 1 \in 1..Len(idequeue') /\ idequeue'[k - 1] = idequeue[k]
    BY ONLY <1>1
<1>6. \A k \in 1..Len(idequeue') : \E q \in Proc : bpc'[q] = "queued" /\ held'[q] = idequeue'[k]
    BY ONLY <1>1, <1>2, <1>3, <1>4
<1>7. \A q \in Proc : bpc'[q] = "queued" => \E k \in 1..Len(idequeue') : idequeue'[k] = held'[q]
    BY ONLY <1>2, <1>3, <1>5
<1> QED
    BY <1>1, <1>6, <1>7 DEF QueueInv

(* A request leaves the queue with its process woken.                      *)
LEMMA QueueKept ==
    ASSUME CacheInv, [CacheNext]_cacheVars
    PROVE  QueueInv'
<1> USE CacheAssumption DEF CacheInv, CacheTypes, Buf, NoBuf
<1>0. CASE UNCHANGED cacheVars
    BY <1>0 DEF cacheVars, bufs, queue, users, HoldInv, QueueInv
<1>1. CASE Ideintr
    BY <1>1, QueueShorter
<1>2. ASSUME NEW p \in Proc, NEW b \in Block, Bread(p, b) PROVE QueueInv'
    <2>1. /\ UNCHANGED queue
          /\ \A q \in Proc : bpc'[q] = "queued" <=> bpc[q] = "queued"
          /\ \A q \in Proc : bpc[q] = "queued" => held'[q] = held[q]
        BY <1>2 DEF Bread, queue, users, HoldInv
    <2> QED
        BY <2>1, QueueSame
<1>3. ASSUME NEW p \in Proc, BgetFound(p) PROVE QueueInv'
    <2>1. /\ UNCHANGED queue
          /\ \A q \in Proc : bpc'[q] = "queued" <=> bpc[q] = "queued"
          /\ \A q \in Proc : bpc[q] = "queued" => held'[q] = held[q]
        BY <1>3 DEF BgetFound, Take, queue, users, HoldInv
    <2> QED
        BY <2>1, QueueSame
<1>4. ASSUME NEW p \in Proc, BgetRecycle(p) PROVE QueueInv'
    <2>1. /\ UNCHANGED queue
          /\ \A q \in Proc : bpc'[q] = "queued" <=> bpc[q] = "queued"
          /\ \A q \in Proc : bpc[q] = "queued" => held'[q] = held[q]
        BY <1>4 DEF BgetRecycle, Take, queue, users, HoldInv
    <2> QED
        BY <2>1, QueueSame
<1>5. ASSUME NEW p \in Proc, ReadBlock(p) PROVE QueueInv'
    <2>1. CASE UNCHANGED queue /\ bpc' = [bpc EXCEPT ![p] = "use"]
        <3>1. /\ \A q \in Proc : bpc'[q] = "queued" <=> bpc[q] = "queued"
              /\ \A q \in Proc : bpc[q] = "queued" => held'[q] = held[q]
            BY <1>5, <2>1 DEF ReadBlock
        <3> QED
            BY <2>1, <3>1, QueueSame
    <2>2. CASE Iderw(p)
        BY <1>5, <2>2, QueueLonger DEF ReadBlock
    <2> QED
        BY <1>5, <2>1, <2>2 DEF ReadBlock
<1>6. ASSUME NEW p \in Proc, IderwWakes(p) PROVE QueueInv'
    <2>1. /\ UNCHANGED queue
          /\ \A q \in Proc : bpc'[q] = "queued" <=> bpc[q] = "queued"
          /\ \A q \in Proc : bpc[q] = "queued" => held'[q] = held[q]
        BY <1>6 DEF IderwWakes, DataInv, queue, users, HoldInv
    <2> QED
        BY <2>1, QueueSame
<1>7. ASSUME NEW p \in Proc, Brelse(p) PROVE QueueInv'
    <2>1. /\ UNCHANGED queue
          /\ \A q \in Proc : bpc'[q] = "queued" <=> bpc[q] = "queued"
          /\ \A q \in Proc : bpc[q] = "queued" => held'[q] = held[q]
        BY <1>7 DEF Brelse, WakeBuf, queue, users, HoldInv
    <2> QED
        BY <2>1, QueueSame
<1>8. ASSUME NEW p \in Proc, NEW v \in Val, Bwrite(p, v) PROVE QueueInv'
    BY <1>8, QueueLonger DEF Bwrite
<1>9. ASSUME NEW p \in Proc, NEW v \in Val, LogWrite(p, v) PROVE QueueInv'
    <2>1. /\ UNCHANGED queue
          /\ \A q \in Proc : bpc'[q] = "queued" <=> bpc[q] = "queued"
          /\ \A q \in Proc : bpc[q] = "queued" => held'[q] = held[q]
        BY <1>9 DEF LogWrite, queue, users, HoldInv
    <2> QED
        BY <2>1, QueueSame
<1> QED
    BY <1>0, <1>1, <1>2, <1>3, <1>4, <1>5, <1>6, <1>7, <1>8, <1>9 DEF CacheNext, Bget, UseBuffer

(* A clean valid buffer is what the disk has.                              *)
LEMMA DataKept ==
    ASSUME CacheInv, [CacheNext]_cacheVars
    PROVE  DataInv'
<1> USE CacheAssumption DEF CacheInv, CacheTypes, Buf, NoBuf
<1>0. CASE UNCHANGED cacheVars
    BY <1>0 DEF cacheVars, bufs, queue, users, HoldInv, DataInv
<1>1. CASE Ideintr
    <2>1. ide \in Buf /\ Head(idequeue) = ide
        BY <1>1, QueueShrinks
    <2>2. PICK p \in Proc : bpc[p] = "queued" /\ held[p] = ide
        BY <1>1, HeadHeld
    <2>3. /\ valid' = valid \cup {ide} /\ dirty' = dirty \ {ide} /\ bpc' = WakeBuf(ide)
          /\ UNCHANGED <<bno, want, held>>
        BY <1>1, <2>1 DEF Ideintr
    <2>4. /\ bno[ide] \in Block /\ \A i \in Buf : bno[i] = bno[ide] => i = ide
        BY <2>1, <2>2 DEF HoldInv, OneBuffer
    <2>5. \A i \in valid' \ dirty' : data'[i] = disk'[bno[i]]
        <3>1. CASE ide \in dirty
            <4>1. disk' = [disk EXCEPT ![bno[ide]] = data[ide]] /\ data' = data
                BY <1>1, <2>1, <3>1 DEF Ideintr
            <4> QED
                BY <2>1, <2>3, <2>4, <4>1 DEF DataInv
        <3>2. CASE ide \notin dirty
            <4>1. data' = [data EXCEPT ![ide] = disk[bno[ide]]] /\ disk' = disk
                BY <1>1, <2>1, <3>2 DEF Ideintr
            <4> QED
                BY <2>1, <2>3, <2>4, <4>1 DEF DataInv
        <3> QED
            BY <3>1, <3>2
    <2>6. ASSUME NEW q \in Proc
          PROVE  /\ bpc'[q] = "woken" => held[q] \in valid' \ dirty'
                 /\ bpc'[q] = "use" => held[q] \in valid'
                 /\ bpc'[q] = "queued" => (held[q] \in valid' <=> held[q] \in dirty')
        BY <2>1, <2>2, <2>3 DEF WakeBuf, DataInv, HoldInv
    <2> QED
        BY <2>3, <2>4, <2>5, <2>6 DEF DataInv
<1>2. ASSUME NEW p \in Proc, NEW b \in Block, Bread(p, b) PROVE DataInv'
    BY <1>2 DEF Bread, bufs, queue, users, HoldInv, DataInv
<1>3. ASSUME NEW p \in Proc, BgetFound(p) PROVE DataInv'
    BY <1>3 DEF BgetFound, Take, Cached, bufs, queue, users, HoldInv, DataInv
<1>4. ASSUME NEW p \in Proc, BgetRecycle(p) PROVE DataInv'
    <2>1. PICK i \in Buf \ (busy \cup dirty) :
              /\ held' = [held EXCEPT ![p] = i] /\ bpc' = [bpc EXCEPT ![p] = "got"]
              /\ bno' = [bno EXCEPT ![i] = want[p]] /\ valid' = valid \ {i}
        BY <1>4 DEF BgetRecycle, Victim, Recyclable, Take, KeepValid
    <2>2. UNCHANGED <<disk, data, dirty>>
        BY <1>4 DEF BgetRecycle
    <2>3. \A q \in Proc : held[q] # i
        BY <2>1 DEF HoldInv
    <2> QED
        BY <2>1, <2>2, <2>3 DEF DataInv, HoldInv
<1>5. ASSUME NEW p \in Proc, ReadBlock(p) PROVE DataInv'
    <2>1. /\ \A q \in Proc \ {p} : bpc'[q] = bpc[q]
          /\ \/ bpc'[p] = "use" /\ held[p] \in valid
             \/ bpc'[p] = "queued" /\ held[p] \notin valid
          /\ UNCHANGED <<disk, bno, valid, dirty, data, held>>
        BY <1>5 DEF ReadBlock, Iderw, bufs
    <2> QED
        BY <2>1 DEF DataInv
<1>6. ASSUME NEW p \in Proc, IderwWakes(p) PROVE DataInv'
    BY <1>6 DEF IderwWakes, bufs, queue, users, HoldInv, DataInv
<1>7. ASSUME NEW p \in Proc, Brelse(p) PROVE DataInv'
    BY <1>7 DEF Brelse, WakeBuf, ToFront, bufs, queue, users, HoldInv, DataInv
<1>8. ASSUME NEW p \in Proc, NEW v \in Val, Bwrite(p, v) PROVE DataInv'
    <2>1. bpc' = [bpc EXCEPT ![p] = "queued"]
        BY <1>8 DEF Bwrite, Iderw
    <2>2. /\ data' = [data EXCEPT ![held[p]] = v] /\ dirty' = dirty \cup {held[p]} /\ bpc[p] = "use"
          /\ UNCHANGED <<disk, bno, valid, held>>
        BY <1>8 DEF Bwrite
    <2>3. held[p] \in valid /\ \A q \in Proc \ {p} : held[q] # held[p]
        BY <2>2 DEF DataInv, HoldInv
    <2>4. dirty' \subseteq valid' /\ \A j \in valid' : bno'[j] \in Block
        BY <2>1, <2>2, <2>3 DEF DataInv
    <2>5. \A j \in valid' \ dirty' : data'[j] = disk'[bno'[j]]
        BY <2>1, <2>2, <2>3 DEF DataInv
    <2>6. ASSUME NEW q \in Proc
          PROVE  /\ bpc'[q] = "woken" => held'[q] \in valid' \ dirty'
                 /\ bpc'[q] = "use" => held'[q] \in valid'
                 /\ bpc'[q] = "queued" => (held'[q] \in valid' <=> held'[q] \in dirty')
        BY <2>1, <2>2, <2>3 DEF DataInv
    <2> QED
        BY <2>4, <2>5, <2>6 DEF DataInv
<1>9. ASSUME NEW p \in Proc, NEW v \in Val, LogWrite(p, v) PROVE DataInv'
    <2>1. /\ data' = [data EXCEPT ![held[p]] = v] /\ dirty' = dirty \cup {held[p]} /\ bpc[p] = "use"
          /\ UNCHANGED <<disk, bno, valid, held, bpc>>
        BY <1>9 DEF LogWrite, users
    <2>2. held[p] \in valid /\ \A q \in Proc \ {p} : held[q] # held[p]
        BY <2>1 DEF DataInv, HoldInv
    <2>3. dirty' \subseteq valid' /\ \A j \in valid' : bno'[j] \in Block
        BY <2>1, <2>2 DEF DataInv
    <2>4. \A j \in valid' \ dirty' : data'[j] = disk'[bno'[j]]
        BY <2>1, <2>2 DEF DataInv
    <2>5. ASSUME NEW q \in Proc
          PROVE  /\ bpc'[q] = "woken" => held'[q] \in valid' \ dirty'
                 /\ bpc'[q] = "use" => held'[q] \in valid'
                 /\ bpc'[q] = "queued" => (held'[q] \in valid' <=> held'[q] \in dirty')
        BY <2>1, <2>2 DEF DataInv
    <2> QED
        BY <2>3, <2>4, <2>5 DEF DataInv
<1> QED
    BY <1>0, <1>1, <1>2, <1>3, <1>4, <1>5, <1>6, <1>7, <1>8, <1>9 DEF CacheNext, Bget, UseBuffer

(* brelse() wakes who sleeps for its buffer.                               *)
LEMMA AsleepKept ==
    ASSUME CacheInv, [CacheNext]_cacheVars
    PROVE  AsleepInv'
<1> USE CacheAssumption DEF CacheInv, CacheTypes, Buf, NoBuf
<1>0. CASE UNCHANGED cacheVars
    BY <1>0 DEF cacheVars, bufs, queue, users, HoldInv, AsleepInv, Cached
<1>1. CASE Ideintr
    BY <1>1 DEF Ideintr, WakeBuf, NextRequest, bufs, queue, users, HoldInv, AsleepInv, Cached
<1>2. ASSUME NEW p \in Proc, NEW b \in Block, Bread(p, b) PROVE AsleepInv'
    BY <1>2 DEF Bread, bufs, queue, users, HoldInv, AsleepInv, Cached
<1>3. ASSUME NEW p \in Proc, BgetFound(p) PROVE AsleepInv'
    <2>1. PICK i \in Cached(want[p]) :
              \/ i \notin busy /\ Take(p, i)
              \/ i \in busy /\ bpc' = [bpc EXCEPT ![p] = "asleep"] /\ UNCHANGED <<busy, held>>
        BY <1>3 DEF BgetFound
    <2>2. bno' = bno /\ want' = want
        BY <1>3 DEF BgetFound
    <2> QED
        BY <2>1, <2>2 DEF Take, AsleepInv, Cached
<1>4. ASSUME NEW p \in Proc, BgetRecycle(p) PROVE AsleepInv'
    <2>1. PICK i \in Buf \ busy :
              /\ busy' = busy \cup {i} /\ bpc' = [bpc EXCEPT ![p] = "got"]
              /\ bno' = [bno EXCEPT ![i] = want[p]]
        BY <1>4 DEF BgetRecycle, Victim, Recyclable, Take
    <2>2. want' = want
        BY <1>4 DEF BgetRecycle
    <2> QED
        BY <2>1, <2>2 DEF AsleepInv, Cached
<1>5. ASSUME NEW p \in Proc, ReadBlock(p) PROVE AsleepInv'
    <2>1. (\A q \in Proc : bpc'[q] = "asleep" => bpc[q] = "asleep") /\ UNCHANGED <<bno, want, busy>>
        BY <1>5 DEF ReadBlock, Iderw, bufs
    <2> QED
        BY <2>1 DEF AsleepInv, Cached
<1>6. ASSUME NEW p \in Proc, IderwWakes(p) PROVE AsleepInv'
    BY <1>6 DEF IderwWakes, bufs, queue, users, HoldInv, AsleepInv, Cached
<1>7. ASSUME NEW p \in Proc, Brelse(p) PROVE AsleepInv'
    <2>1. ASSUME NEW q \in Proc, bpc'[q] = "asleep"
          PROVE  \E i \in busy' : i \in Buf /\ bno'[i] = want'[q]
        <3>1. q # p /\ bpc[q] = "asleep" /\ want'[q] = want[q] /\ bno[held[p]] # want[q] /\ bno' = bno
            BY <1>7, <2>1 DEF Brelse, WakeBuf
        <3>2. busy' = busy \ {held[p]}
            BY <1>7 DEF Brelse
        <3> QED
            BY <3>1, <3>2 DEF AsleepInv, Cached
    <2> QED
        BY <2>1 DEF AsleepInv, Cached
<1>8. ASSUME NEW p \in Proc, NEW v \in Val, Bwrite(p, v) PROVE AsleepInv'
    BY <1>8 DEF Bwrite, Iderw, bufs, queue, users, HoldInv, AsleepInv, Cached
<1>9. ASSUME NEW p \in Proc, NEW v \in Val, LogWrite(p, v) PROVE AsleepInv'
    BY <1>9 DEF LogWrite, bufs, queue, users, HoldInv, AsleepInv, Cached
<1> QED
    BY <1>0, <1>1, <1>2, <1>3, <1>4, <1>5, <1>6, <1>7, <1>8, <1>9 DEF CacheNext, Bget, UseBuffer

-----------------------------------------------------------------------------
LEMMA CacheInitInv == CacheInit => CacheInv
<1> SUFFICES ASSUME CacheInit PROVE CacheInv
    OBVIOUS
<1> USE CacheAssumption DEF CacheInit, Buf, NoBuf
<1>1. CacheTypes
    BY DEF CacheTypes
<1>2. HoldInv /\ OneBuffer /\ DataInv /\ AsleepInv
    BY DEF HoldInv, OneBuffer, DataInv, AsleepInv
<1>3. QueueInv
    BY EmptySeq DEF QueueInv
<1> QED
    BY <1>1, <1>2, <1>3 DEF CacheInv

LEMMA CacheInvKept == CacheInv /\ [CacheNext]_cacheVars => CacheInv'
BY CacheTypesKept, HoldKept, OneBufferKept, QueueKept, DataKept, AsleepKept DEF CacheInv

LEMMA CacheInvariant == CacheSpec => []CacheInv
BY CacheInitInv, CacheInvKept, PTL DEF CacheSpec

(* The variables keep their types: the queue has at most every buffer.     *)
THEOREM CacheTypesHold == CacheSpec => []CacheTypeOK
<1>1. CacheInv => CacheTypeOK
    <2> SUFFICES ASSUME CacheInv PROVE CacheTypeOK
        OBVIOUS
    <2> DEFINE n == Len(idequeue)
    <2>1. n \in Nat /\ idequeue \in [1..n -> Buf] /\ DOMAIN idequeue = 1..n
        BY LenProperties DEF CacheInv, QueueInv
    <2>2. \A k, l \in 1..n : idequeue[k] = idequeue[l] => k = l
        BY DEF CacheInv, QueueInv
    <2>3. IsInjective(idequeue)
        BY <2>1, <2>2 DEF IsInjective
    <2>4. idequeue \in Injection(1..n, Buf)
        BY <2>1, <2>3 DEF Injection
    <2>5. IsFiniteSet(Buf) /\ Cardinality(Buf) = NBUF /\ IsFiniteSet(1..n) /\ Cardinality(1..n) = n
        <3>1. \A m \in Nat : IsFiniteSet(1..m) /\ Cardinality(1..m) = m
            BY FS_Interval
        <3> QED
            BY ONLY <2>1, <3>1, CacheAssumption DEF Buf
    <2>6. n <= NBUF
        BY <2>4, <2>5, FS_Injection
    <2>7. idequeue \in BoundedSeq(Buf, NBUF)
        <3>1. n \in 0..NBUF
            BY ONLY <2>1, <2>6, CacheAssumption
        <3> QED
            BY ONLY <2>1, <3>1 DEF BoundedSeq, SeqOf
    <2> QED
        BY <2>3, <2>7 DEF CacheInv, CacheTypes, CacheTypeOK
<1> QED
    BY <1>1, CacheInvariant, PTL

(* Who sleeps in bget() or iderw() has somebody to wait for.               *)
THEOREM BufferSleepersServed == CacheSpec => []SleepersServed
<1>1. CacheInv => SleepersServed
    <2> SUFFICES ASSUME CacheInv PROVE SleepersServed
        OBVIOUS
    <2>1. \A p \in Proc : bpc[p] = "queued" => held[p] \in ToSet(idequeue)
        BY LenProperties DEF CacheInv, QueueInv, ToSet
    <2> QED
        BY <2>1 DEF CacheInv, QueueInv, AsleepInv, SleepersServed
<1> QED
    BY <1>1, CacheInvariant, PTL

-----------------------------------------------------------------------------
(***************************************************************************)
(* Cache implements Blocks: bread() returns the newest contents of a block *)
(* to one process at a time.                                               *)
(***************************************************************************)
BlocksStep == [Bl!BlocksNext]_(Bl!blocksVars)

Uses(p, b) == want[p] = b /\ bpc[p] \in {"use", "queued", "woken"} /\ held[p] \in valid

(* What UserOf and Newest choose is all there is.                          *)
Chosen ==
    /\ \A p \in Proc, b \in Block : Uses(p, b) => UserOf(b) = p
    /\ \A b \in Block : (\A p \in Proc : ~Uses(p, b)) => UserOf(b) = Nobody
    /\ \A i \in valid : Newest(bno[i]) = data[i]
    /\ \A b \in Block : (\A i \in valid : bno[i] # b) => Newest(b) = disk[b]

LEMMA OneChosen == CacheInv => Chosen
<1> SUFFICES ASSUME CacheInv PROVE Chosen
    OBVIOUS
<1> USE CacheAssumption DEF CacheInv, CacheTypes, Buf, NoBuf
<1>1. ASSUME NEW p \in Proc, NEW b \in Block, Uses(p, b)
      PROVE  UserOf(b) = p
    <2>1. \A q \in Proc : Uses(q, b) => q = p
        BY <1>1 DEF Uses, HoldInv, OneBuffer
    <2> QED
        BY <1>1, <2>1 DEF UserOf, Uses
<1>2. \A b \in Block : (\A p \in Proc : ~Uses(p, b)) => UserOf(b) = Nobody
    BY DEF UserOf, Uses
<1>3. ASSUME NEW i \in valid
      PROVE  Newest(bno[i]) = data[i]
    <2>1. i \in Cached(bno[i]) /\ \A j \in Cached(bno[i]) : j = i
        BY DEF Cached, OneBuffer, DataInv
    <2> QED
        BY <2>1 DEF Newest
<1>4. \A b \in Block : (\A i \in valid : bno[i] # b) => Newest(b) = disk[b]
    BY DEF Newest, Cached
<1> QED
    BY <1>1, <1>2, <1>3, <1>4 DEF Chosen

(* What holds after a step, when it keeps the invariant                    *)
LEMMA ChosenAfter == CacheInv' => Chosen'
BY OneChosen, PTL

LEMMA SameUser ==
    ASSUME CacheInv, CacheInv', NEW b \in Block, \A p \in Proc : Uses(p, b)' <=> Uses(p, b)
    PROVE  UserOf(b)' = UserOf(b)
BY OneChosen, ChosenAfter DEF Chosen

(* A buffer keeps its contents, and a block without one is on the disk.    *)
LEMMA SameNewest ==
    ASSUME CacheInv, CacheInv', UNCHANGED <<disk, bno, valid, data>>, NEW b \in Block
    PROVE  Newest(b)' = Newest(b)
BY DEF Newest, Cached

LEMMA BlocksStutter ==
    ASSUME \A b \in Block : UserOf(b)' = UserOf(b) /\ Newest(b)' = Newest(b)
    PROVE  BlocksStep
BY DEF BlocksStep, Bl!blocksVars

(* What a block's user and contents become, in the abstract                *)
LEMMA BlockGotten ==
    ASSUME NEW p \in Proc, NEW b \in Block, UserOf(b) = Nobody, UserOf(b)' = p,
           \A c \in Block : c # b => UserOf(c)' = UserOf(c),
           \A c \in Block : Newest(c)' = Newest(c)
    PROVE  BlocksStep
<1>1. Bl!Get(p, b)
    BY DEF Bl!Get
<1> QED
    BY <1>1 DEF BlocksStep, Bl!BlocksNext

LEMMA BlockChanged ==
    ASSUME NEW p \in Proc, NEW b \in Block, NEW v \in Val, UserOf(b) = p, Newest(b)' = v,
           \A c \in Block : c # b => Newest(c)' = Newest(c),
           \A c \in Block : UserOf(c)' = UserOf(c)
    PROVE  BlocksStep
<1>1. [c \in Block |-> Newest(c)]' = [[c \in Block |-> Newest(c)] EXCEPT ![b] = v]
    OBVIOUS
<1>2. Bl!Change(p, b)
    BY <1>1 DEF Bl!Change
<1> QED
    BY <1>2 DEF BlocksStep, Bl!BlocksNext

LEMMA BlockPut ==
    ASSUME NEW p \in Proc, NEW b \in Block, UserOf(b) = p, UserOf(b)' = Nobody,
           \A c \in Block : c # b => UserOf(c)' = UserOf(c),
           \A c \in Block : Newest(c)' = Newest(c)
    PROVE  BlocksStep
<1>1. Bl!Put(p, b)
    BY DEF Bl!Put
<1> QED
    BY <1>1 DEF BlocksStep, Bl!BlocksNext

(* A process that uses a block is the one that holds its buffer.           *)
LEMMA HolderUses ==
    ASSUME CacheInv, NEW p \in Proc, held[p] # NoBuf
    PROVE  /\ want[p] \in Block /\ bno[held[p]] = want[p] /\ held[p] \in Buf
           /\ \A q \in Proc : Uses(q, want[p]) => q = p
BY CacheAssumption DEF CacheInv, CacheTypes, HoldInv, OneBuffer, Uses, Buf, NoBuf

-----------------------------------------------------------------------------
(* bread() asks, and bget() finds or waits: the caller has nothing yet.    *)
LEMMA BreadStep ==
    ASSUME CacheInv, CacheInv', NEW p \in Proc, NEW b \in Block, Bread(p, b)
    PROVE  BlocksStep
<1>1. \A q \in Proc, c \in Block : Uses(q, c)' <=> Uses(q, c)
    BY DEF Bread, Uses, CacheInv, CacheTypes, bufs
<1>2. UNCHANGED <<disk, bno, valid, data>>
    BY DEF Bread, bufs
<1> QED
    BY <1>1, <1>2, SameUser, SameNewest, BlocksStutter

LEMMA BgetFoundStep ==
    ASSUME CacheInv, CacheInv', NEW p \in Proc, BgetFound(p)
    PROVE  BlocksStep
<1>1. /\ bpc[p] = "bget" /\ bpc'[p] \in {"got", "asleep"}
      /\ \A q \in Proc \ {p} : bpc'[q] = bpc[q] /\ held'[q] = held[q]
      /\ UNCHANGED <<disk, bno, valid, data, want>>
    BY DEF BgetFound, Take, CacheInv, CacheTypes
<1>2. \A q \in Proc, c \in Block : Uses(q, c)' <=> Uses(q, c)
    BY <1>1 DEF Uses
<1> QED
    BY <1>1, <1>2, SameUser, SameNewest, BlocksStutter

(* A clean buffer goes to another block: the disk has what it had.         *)
LEMMA BgetRecycleStep ==
    ASSUME CacheInv, CacheInv', NEW p \in Proc, BgetRecycle(p)
    PROVE  BlocksStep
<1>1. PICK i \in Buf \ (busy \cup dirty) :
          /\ held' = [held EXCEPT ![p] = i] /\ bpc' = [bpc EXCEPT ![p] = "got"]
          /\ bno' = [bno EXCEPT ![i] = want[p]] /\ valid' = valid \ {i}
    BY DEF BgetRecycle, Victim, Recyclable, Take, KeepValid
<1>2. UNCHANGED <<disk, data, want>> /\ bpc[p] = "bget" /\ \A j \in Buf : bno[j] # want[p]
    BY DEF BgetRecycle, Cached
<1>3. \A q \in Proc : held[q] # i
    BY <1>1 DEF CacheInv, HoldInv, Buf, NoBuf
<1>4. \A q \in Proc, c \in Block : Uses(q, c)' <=> Uses(q, c)
    BY <1>1, <1>2, <1>3 DEF Uses, CacheInv, CacheTypes
<1>5. ASSUME NEW b \in Block
      PROVE  Newest(b)' = Newest(b)
    <2>1. CASE \E j \in valid \ {i} : bno[j] = b
        <3>1. PICK j \in valid \ {i} : bno[j] = b
            BY <2>1
        <3>2. j \in valid' /\ bno'[j] = b /\ data'[j] = data[j]
            BY <1>1, <1>2, <3>1 DEF CacheInv, CacheTypes
        <3> QED
            BY <3>1, <3>2, OneChosen, ChosenAfter DEF Chosen
    <2>2. CASE \A j \in valid \ {i} : bno[j] # b
        <3>1. \A j \in valid' : bno'[j] # b
            BY <1>1, <2>2 DEF CacheInv, CacheTypes
        <3>2. Newest(b)' = disk[b]
            BY <1>2, <3>1, ChosenAfter DEF Chosen
        <3>3. CASE i \in valid /\ bno[i] = b
            BY <1>1, <3>2, <3>3, OneChosen DEF Chosen, CacheInv, DataInv
        <3>4. CASE ~(i \in valid /\ bno[i] = b)
            BY <2>2, <3>2, <3>4, OneChosen DEF Chosen
        <3> QED
            BY <3>3, <3>4
    <2> QED
        BY <2>1, <2>2
<1> QED
    BY <1>4, <1>5, SameUser, BlocksStutter

(* bread() returns a valid buffer, or asks the disk.                       *)
LEMMA ReadBlockStep ==
    ASSUME CacheInv, CacheInv', NEW p \in Proc, ReadBlock(p)
    PROVE  BlocksStep
<1>1. /\ bpc[p] = "got" /\ UNCHANGED <<disk, bno, valid, data, want, held>>
      /\ \A q \in Proc \ {p} : bpc'[q] = bpc[q]
    BY DEF ReadBlock, Iderw, bufs, CacheInv, CacheTypes
<1>2. held[p] # NoBuf
    BY <1>1 DEF CacheInv, HoldInv
<1>3. CASE held[p] \in valid /\ bpc' = [bpc EXCEPT ![p] = "use"]
    <2>1. Uses(p, want[p])' /\ \A q \in Proc : ~Uses(q, want[p])
        BY <1>1, <1>2, <1>3, HolderUses DEF Uses, CacheInv, CacheTypes
    <2>2. \A c \in Block, q \in Proc : c # want[p] => (Uses(q, c)' <=> Uses(q, c))
        BY <1>1, <1>3 DEF Uses, CacheInv, CacheTypes
    <2>3. want[p] \in Block /\ want' = want
        BY <1>1, <1>2, HolderUses
    <2>4. UserOf(want[p]) = Nobody
        BY <2>1, <2>3, OneChosen DEF Chosen
    <2>5. ASSUME NEW b \in Block, b = want[p]
          PROVE  UserOf(b)' = p
        BY <2>1, <2>3, <2>5, ChosenAfter DEF Chosen, Uses
    <2>6. \A c \in Block : c # want[p] => UserOf(c)' = UserOf(c)
        BY <2>2, SameUser
    <2>7. PICK b \in Block : b = want[p]
        BY <2>3
    <2> QED
        BY <1>1, <2>4, <2>5, <2>6, <2>7, SameNewest, BlockGotten
<1>4. CASE held[p] \notin valid /\ Iderw(p)
    <2>1. \A q \in Proc, c \in Block : Uses(q, c)' <=> Uses(q, c)
        BY <1>1, <1>4 DEF Uses
    <2> QED
        BY <1>1, <2>1, SameUser, SameNewest, BlocksStutter
<1> QED
    BY <1>3, <1>4 DEF ReadBlock

LEMMA IderwWakesStep ==
    ASSUME CacheInv, CacheInv', NEW p \in Proc, IderwWakes(p)
    PROVE  BlocksStep
<1>1. \A q \in Proc, c \in Block : Uses(q, c)' <=> Uses(q, c)
    BY DEF IderwWakes, Uses, CacheInv, CacheTypes, bufs
<1>2. UNCHANGED <<disk, bno, valid, data>>
    BY DEF IderwWakes, bufs
<1> QED
    BY <1>1, <1>2, SameUser, SameNewest, BlocksStutter

(* New data in a buffer in use                                             *)
LEMMA DataChanges ==
    ASSUME CacheInv, CacheInv', NEW p \in Proc, NEW v \in Val, bpc[p] = "use",
           data' = [data EXCEPT ![held[p]] = v], bpc'[p] \in {"use", "queued"},
           \A q \in Proc \ {p} : bpc'[q] = bpc[q],
           UNCHANGED <<disk, bno, valid, want, held>>
    PROVE  BlocksStep
<1>1. held[p] # NoBuf /\ held[p] \in valid
    BY DEF CacheInv, HoldInv, DataInv
<1>2. want[p] \in Block /\ bno[held[p]] = want[p] /\ held[p] \in Buf
    BY <1>1, HolderUses
<1>3. Uses(p, want[p])
    BY <1>1 DEF Uses
<1>4. \A q \in Proc, c \in Block : Uses(q, c)' <=> Uses(q, c)
    BY DEF Uses
<1>5. PICK b \in Block : b = want[p]
    BY <1>2
<1>6. UserOf(b) = p
    BY <1>3, <1>5, OneChosen DEF Chosen
<1>7. Newest(b)' = v
    <2>1. held[p] \in valid' /\ bno'[held[p]] = b /\ data'[held[p]] = v
        BY <1>1, <1>2, <1>5 DEF CacheInv, CacheTypes
    <2> QED
        BY <2>1, ChosenAfter DEF Chosen
<1>8. ASSUME NEW c \in Block, c # b
      PROVE  Newest(c)' = Newest(c)
    <2>1. CASE \E j \in valid : bno[j] = c
        <3>1. PICK j \in valid : bno[j] = c
            BY <2>1
        <3>2. j \in valid' /\ bno'[j] = c /\ data'[j] = data[j]
            BY <1>2, <1>5, <1>8, <3>1 DEF CacheInv, CacheTypes
        <3> QED
            BY <3>1, <3>2, OneChosen, ChosenAfter DEF Chosen
    <2>2. CASE \A j \in valid : bno[j] # c
        BY <2>2, OneChosen, ChosenAfter DEF Chosen
    <2> QED
        BY <2>1, <2>2
<1>9. \A c \in Block : UserOf(c)' = UserOf(c)
    BY <1>4, SameUser
<1> QED
    BY <1>6, <1>7, <1>8, <1>9, BlockChanged

LEMMA BwriteStep ==
    ASSUME CacheInv, CacheInv', NEW p \in Proc, NEW v \in Val, Bwrite(p, v)
    PROVE  BlocksStep
<1>1. /\ bpc[p] = "use" /\ data' = [data EXCEPT ![held[p]] = v]
      /\ bpc'[p] = "queued" /\ \A q \in Proc \ {p} : bpc'[q] = bpc[q]
      /\ UNCHANGED <<disk, bno, valid, want, held>>
    BY DEF Bwrite, Iderw, CacheInv, CacheTypes
<1> QED
    BY <1>1, DataChanges

LEMMA LogWriteStep ==
    ASSUME CacheInv, CacheInv', NEW p \in Proc, NEW v \in Val, LogWrite(p, v)
    PROVE  BlocksStep
<1>1. /\ bpc[p] = "use" /\ data' = [data EXCEPT ![held[p]] = v]
      /\ bpc' = bpc /\ UNCHANGED <<disk, bno, valid, want, held>>
    BY DEF LogWrite, users
<1> QED
    BY <1>1, DataChanges

(* The disk has read a block for its reader, or written what it knows.     *)
LEMMA IdeintrStep ==
    ASSUME CacheInv, CacheInv', Ideintr
    PROVE  BlocksStep
<1>1. PICK p \in Proc : /\ bpc[p] = "queued" /\ held[p] = ide
                        /\ bno[ide] = want[p] /\ bno[ide] \in Block
    BY HeadHeld
<1>2. ide \in Buf /\ Head(idequeue) = ide
    BY QueueShrinks
<1>3. /\ valid' = valid \cup {ide} /\ dirty' = dirty \ {ide}
      /\ bpc' = WakeBuf(ide) /\ UNCHANGED <<bno, want, held>>
    BY <1>2 DEF Ideintr
<1>4. \A j \in Buf : bno[j] = bno[ide] => j = ide
    BY <1>1, <1>2, CacheAssumption DEF CacheInv, OneBuffer
<1>5. \A q \in Proc : bpc'[q] \in {"use", "queued", "woken"} <=> bpc[q] \in {"use", "queued", "woken"}
    BY <1>3 DEF WakeBuf, CacheInv, CacheTypes
<1>6. CASE ide \in dirty
    <2>1. disk' = [disk EXCEPT ![bno[ide]] = data[ide]] /\ data' = data /\ valid' = valid
        BY <1>2, <1>3, <1>6 DEF Ideintr, CacheInv, DataInv
    <2>2. \A q \in Proc, c \in Block : Uses(q, c)' <=> Uses(q, c)
        BY <1>3, <1>5, <2>1 DEF Uses
    <2>3. ASSUME NEW b \in Block
          PROVE  Newest(b)' = Newest(b)
        <3>1. CASE \E j \in valid : bno[j] = b
            BY <1>3, <2>1, <3>1, OneChosen, ChosenAfter DEF Chosen
        <3>2. CASE \A j \in valid : bno[j] # b
            <4>1. b # bno[ide] /\ disk'[b] = disk[b]
                BY <1>6, <2>1, <3>2 DEF CacheInv, DataInv, CacheTypes
            <4> QED
                BY <1>3, <2>1, <3>2, <4>1, OneChosen, ChosenAfter DEF Chosen
        <3> QED
            BY <3>1, <3>2
    <2> QED
        BY <2>2, <2>3, SameUser, BlocksStutter
<1>7. CASE ide \notin dirty
    <2>1. data' = [data EXCEPT ![ide] = disk[bno[ide]]] /\ disk' = disk
        BY <1>2, <1>7 DEF Ideintr
    <2>2. ide \notin valid
        BY <1>1, <1>7 DEF CacheInv, DataInv
    <2>3. ASSUME NEW b \in Block
          PROVE  Newest(b)' = Newest(b)
        <3>1. CASE b = bno[ide]
            <4>1. Newest(b)' = disk[b]
                BY <1>2, <1>3, <2>1, <3>1, ChosenAfter DEF Chosen, CacheInv, CacheTypes
            <4>2. \A j \in valid : bno[j] # b
                BY <1>4, <2>2, <3>1 DEF CacheInv, CacheTypes
            <4> QED
                BY <4>1, <4>2, OneChosen DEF Chosen
        <3>2. CASE b # bno[ide] /\ \E j \in valid : bno[j] = b
            <4>1. PICK j \in valid : bno[j] = b /\ j # ide
                BY <3>2
            <4>2. j \in valid' /\ bno'[j] = b /\ data'[j] = data[j]
                BY <1>3, <2>1, <4>1 DEF CacheInv, CacheTypes
            <4> QED
                BY <4>1, <4>2, OneChosen, ChosenAfter DEF Chosen
        <3>3. CASE b # bno[ide] /\ \A j \in valid : bno[j] # b
            <4>1. \A j \in valid' : bno'[j] # b
                BY <1>3, <3>3
            <4> QED
                BY <2>1, <3>3, <4>1, OneChosen, ChosenAfter DEF Chosen
        <3> QED
            BY <3>1, <3>2, <3>3
    <2>4. PICK b \in Block : b = bno[ide]
        BY <1>1
    <2>5. UserOf(b)' = p
        <3>1. Uses(p, b)'
            BY <1>1, <1>3, <1>5, <2>4 DEF Uses
        <3> QED
            BY <3>1, ChosenAfter DEF Chosen
    <2>6. UserOf(b) = Nobody
        <3>1. held[p] # NoBuf
            BY <1>1 DEF CacheInv, HoldInv
        <3>2. \A q \in Proc : ~Uses(q, b)
            BY <1>1, <2>2, <2>4, <3>1, HolderUses DEF Uses
        <3> QED
            BY <3>2, OneChosen DEF Chosen
    <2>7. ASSUME NEW c \in Block, c # b
          PROVE  UserOf(c)' = UserOf(c)
        <3>1. \A q \in Proc : want[q] = c => held[q] # ide
            BY <1>2, <2>4, <2>7 DEF CacheInv, HoldInv, Buf, NoBuf
        <3>2. \A q \in Proc : Uses(q, c)' <=> Uses(q, c)
            BY <1>3, <1>5, <3>1 DEF Uses
        <3> QED
            BY <3>2, SameUser
    <2> QED
        BY <2>3, <2>5, <2>6, <2>7, BlockGotten
<1> QED
    BY <1>6, <1>7

(* brelse() leaves what its caller wrote, in the buffer.                   *)
LEMMA BrelseStep ==
    ASSUME CacheInv, CacheInv', NEW p \in Proc, Brelse(p)
    PROVE  BlocksStep
<1>1. /\ bpc[p] = "use" /\ bpc'[p] = "out" /\ UNCHANGED <<disk, bno, valid, data>>
      /\ \A q \in Proc \ {p} :
            /\ want'[q] = want[q] /\ held'[q] = held[q]
            /\ bpc'[q] \in {"use", "queued", "woken"} <=> bpc[q] \in {"use", "queued", "woken"}
    BY DEF Brelse, WakeBuf, CacheInv, CacheTypes
<1>2. held[p] # NoBuf /\ held[p] \in valid
    BY <1>1 DEF CacheInv, HoldInv, DataInv
<1>3. PICK b \in Block : b = want[p]
    BY <1>2, HolderUses
<1>4. Uses(p, b) /\ ~Uses(p, b)' /\ \A q \in Proc \ {p} : ~Uses(q, b)
    BY <1>1, <1>2, <1>3, HolderUses DEF Uses
<1>5. \A q \in Proc \ {p}, c \in Block : Uses(q, c)' <=> Uses(q, c)
    BY <1>1 DEF Uses
<1>6. UserOf(b) = p
    BY <1>4, OneChosen DEF Chosen
<1>7. UserOf(b)' = Nobody
    BY <1>4, <1>5, ChosenAfter DEF Chosen
<1>8. ASSUME NEW c \in Block, c # b
      PROVE  UserOf(c)' = UserOf(c)
    <2>1. ~Uses(p, c) /\ ~Uses(p, c)'
        BY <1>1, <1>3, <1>8 DEF Uses
    <2>2. \A q \in Proc : Uses(q, c)' <=> Uses(q, c)
        BY <1>5, <2>1
    <2> QED
        BY <2>2, SameUser
<1> QED
    BY <1>1, <1>6, <1>7, <1>8, SameNewest, BlockPut

LEMMA CacheStep ==
    ASSUME CacheInv, [CacheNext]_cacheVars
    PROVE  BlocksStep
<1>0. CacheInv'
    BY CacheInvKept
<1>1. CASE UNCHANGED cacheVars
    <2>1. UNCHANGED <<disk, bno, valid, data, bpc, want, held>>
        BY <1>1 DEF cacheVars, bufs, users
    <2>2. \A q \in Proc, c \in Block : Uses(q, c)' <=> Uses(q, c)
        BY <2>1 DEF Uses
    <2> QED
        BY <1>0, <2>1, <2>2, SameUser, SameNewest, BlocksStutter
<1>2. CASE CacheNext
    BY <1>0, <1>2, IdeintrStep, BreadStep, BgetFoundStep, BgetRecycleStep, ReadBlockStep,
       IderwWakesStep, BrelseStep, BwriteStep, LogWriteStep DEF CacheNext, Bget, UseBuffer
<1> QED
    BY <1>1, <1>2

LEMMA CacheInitBlocks == CacheInit => Bl!BlocksInit
<1> SUFFICES ASSUME CacheInit PROVE Bl!BlocksInit
    OBVIOUS
<1>1. \A b \in Block : Newest(b) = Zero /\ UserOf(b) = Nobody
    BY CacheAssumption DEF CacheInit, Newest, Cached, UserOf, NoBuf
<1> QED
    BY <1>1, CacheAssumption DEF Bl!BlocksInit

(* The buffer cache keeps what bio.c promises of bread() and brelse().     *)
THEOREM CacheImplementsBlocks == CacheSpec => ImplementsBlocks
<1>1. CacheInv /\ [CacheNext]_cacheVars => [Bl!BlocksNext]_(Bl!blocksVars)
    BY CacheStep DEF BlocksStep
<1> QED
    BY <1>1, CacheInitBlocks, CacheInvariant, PTL DEF CacheSpec, ImplementsBlocks, Bl!BlocksSpec

(* What the runs check of it                                               *)
THEOREM BlocksAreKeptAlways == CacheSpec => BlocksAreKept
<1>1. [Bl!BlocksNext]_(Bl!blocksVars) => [layer = "cache" => Bl!BlocksNext]_(Bl!blocksVars)
    OBVIOUS
<1> QED
    BY <1>1, CacheImplementsBlocks, PTL DEF ImplementsBlocks, Bl!BlocksSpec, BlocksAreKept

-----------------------------------------------------------------------------
(***************************************************************************)
(* The inode cache: what a step does to the processes' inodes              *)
(***************************************************************************)

(* ref, as a count of the processes                                        *)
LEMMA RefCounts ==
    ASSUME InodeInv, NEW i \in Entry
    PROVE  /\ IsFiniteSet({p \in Caller : ip[p] = i}) /\ ref[i] \in Nat
           /\ \A p \in Caller : ip[p] = i => ref[i] > 0
           /\ ref[i] > 0 => \E p \in Caller : ip[p] = i
           /\ ref[i] = 1 => \A p, q \in Caller : ip[p] = i /\ ip[q] = i => p = q
           /\ \A p \in Caller : ip[p] = i /\ ref[i] # 1 => \E q \in Caller \ {p} : ip[q] = i
<1> DEFINE S == {p \in Caller : ip[p] = i}
<1>1. IsFiniteSet(S)
    BY FS_Subset, InodeAssumption
<1>2. ref[i] = Cardinality(S) /\ Cardinality(S) \in Nat
    BY <1>1, FS_CardinalityType DEF InodeInv, RefInv
<1>3. Cardinality(S) = 0 <=> S = {}
    BY <1>1, FS_EmptySet
<1>4. Cardinality(S) = 1 <=> \E x : S = {x}
    BY <1>1, FS_Singleton
<1>5. ref[i] = 1 => \A p, q \in Caller : ip[p] = i /\ ip[q] = i => p = q
    BY <1>2, <1>4
<1>6. ASSUME NEW p \in Caller, ip[p] = i, ref[i] # 1
      PROVE  \E q \in Caller \ {p} : ip[q] = i
    <2>1. S # {p}
        BY <1>2, <1>4, <1>6
    <2> QED
        BY <1>6, <2>1
<1> QED
    BY <1>1, <1>2, <1>3, <1>5, <1>6

(* p refers to entry i, which has, or gets, the inode n.                   *)
Got(p, n, i) ==
    /\ ip' = [ip EXCEPT ![p] = i]
    /\ ref' = [ref EXCEPT ![i] = @ + 1]
    /\ inum' = [inum EXCEPT ![i] = n]
    /\ ibusy' = ibusy
    /\ ref[i] > 0 => inum[i] = n /\ ivalid' = ivalid
    /\ ref[i] = 0 => ivalid' = ivalid \ {i} /\ \A j \in Entry : ref[j] > 0 => inum[j] # n

LEMMA IgetGot ==
    ASSUME InodeInv, NEW p \in Caller, NEW n \in Inum, Iget(p, n)
    PROVE  \E i \in Entry : Got(p, n, i)
<1>1. ASSUME NEW i \in InUse(n),
             ref' = [ref EXCEPT ![i] = @ + 1], ip' = [ip EXCEPT ![p] = i], UNCHANGED <<inum, ivalid, ibusy>>
      PROVE  \E j \in Entry : Got(p, n, j)
    <2>1. i \in Entry /\ ref[i] > 0 /\ inum[i] = n
        BY DEF InUse
    <2>2. inum' = [inum EXCEPT ![i] = n] /\ ref[i] # 0
        BY <1>1, <2>1 DEF InodeInv, InodeTypeOK
    <2>3. Got(p, n, i)
        BY ONLY <1>1, <2>1, <2>2 DEF Got
    <2> QED
        BY <2>1, <2>3
<1>2. ASSUME InUse(n) = {}, NEW i \in Empty,
             inum' = [inum EXCEPT ![i] = n], ref' = [ref EXCEPT ![i] = 1],
             ivalid' = ivalid \ {i}, ibusy' = ibusy \ {i}, ip' = [ip EXCEPT ![p] = i]
      PROVE  \E j \in Entry : Got(p, n, j)
    <2>1. i \in Entry /\ ref[i] = 0 /\ \A q \in Caller : ip[q] # i
        <3>1. i \in Entry /\ ref[i] = 0 /\ ~(ref[i] > 0)
            BY DEF Empty
        <3> QED
            BY <3>1, RefCounts
    <2>2. i \notin ibusy
        BY <2>1 DEF InodeInv, BusyInv
    <2>3. \A j \in Entry : ref[j] > 0 => inum[j] # n
        BY <1>2 DEF InUse
    <2>4. Got(p, n, i)
        BY <1>2, <2>1, <2>2, <2>3 DEF Got, InodeInv, InodeTypeOK
    <2> QED
        BY <2>1, <2>4
<1> QED
    BY <1>1, <1>2 DEF Iget

(* How a process comes to an inode: by its name, by idup() or by ialloc()  *)
LEMMA LookupGot ==
    ASSUME InodeInv, NEW p \in Caller, NEW n \in Inum, Lookup(p, n)
    PROVE  \E i \in Entry : Got(p, n, i)
BY IgetGot DEF Lookup

LEMMA IdupGot ==
    ASSUME InodeInv, NEW p \in Caller, NEW q \in Caller, Idup(p, q)
    PROVE  ip[q] \in Entry /\ inum[ip[q]] \in Inum /\ Got(p, inum[ip[q]], ip[q])
<1>1. ip[q] \in Entry
    BY DEF Idup, InodeInv, InodeTypeOK, HandInv
<1>2. ref[ip[q]] > 0 /\ inum[ip[q]] \in Inum
    BY <1>1, RefCounts DEF InodeInv, EntryInv
<1>3. inum' = [inum EXCEPT ![ip[q]] = inum[ip[q]]]
    BY <1>1 DEF Idup, InodeInv, InodeTypeOK
<1>4. /\ ip' = [ip EXCEPT ![p] = ip[q]] /\ ref' = [ref EXCEPT ![ip[q]] = @ + 1]
      /\ ibusy' = ibusy /\ ivalid' = ivalid
    BY DEF Idup
<1>5. ref[ip[q]] # 0
    BY <1>2
<1> QED
    BY ONLY <1>1, <1>2, <1>3, <1>4, <1>5 DEF Got

LEMMA IallocGot ==
    ASSUME InodeInv, NEW p \in Caller, IallocIget(p)
    PROVE  new[p] \in Inum /\ \E i \in Entry : Got(p, new[p], i)
<1>1. new[p] \in Inum
    BY DEF IallocIget, At, InodeInv, InodeTypeOK, HandInv
<1> QED
    BY <1>1, IgetGot DEF IallocIget

(* The three, together                                                     *)
Arrives(p, n, i) ==
    /\ Got(p, n, i) /\ ip[p] = NoEntry
    /\ \/ /\ ipc[p] = "out" /\ ipc' = [ipc EXCEPT ![p] = "ref"]
          /\ UNCHANGED <<task, new>>
          /\ \/ entries[n] > 0
             \/ \E q \in Caller : ip[q] = i /\ ipc[q] = "ref" /\ task[q] = "use" /\ inum[i] = n
       \/ /\ ipc[p] = "alloc" /\ ipc' = [ipc EXCEPT ![p] = "lock"]
          /\ task' = [task EXCEPT ![p] = "create"]
          /\ new' = [new EXCEPT ![p] = NoInum] /\ new[p] = n
    /\ UNCHANGED <<dtype, dnlink, entries, itype, inlink>>

LEMMA LookupArrives ==
    ASSUME InodeInv, NEW p \in Caller, NEW n \in Inum, Lookup(p, n)
    PROVE  \E i \in Entry : Arrives(p, n, i)
<1>1. PICK i \in Entry : Got(p, n, i)
    BY LookupGot
<1>2. Arrives(p, n, i)
    BY <1>1 DEF Lookup, Arrives, At, dinodes, copies, InodeInv, HandInv
<1> QED
    BY <1>2

LEMMA IdupArrives ==
    ASSUME InodeInv, NEW p \in Caller, NEW q \in Caller, Idup(p, q)
    PROVE  \E n \in Inum, i \in Entry : Arrives(p, n, i)
<1>1. ip[q] \in Entry /\ inum[ip[q]] \in Inum /\ Got(p, inum[ip[q]], ip[q])
    BY IdupGot
<1>2. Arrives(p, inum[ip[q]], ip[q])
    BY <1>1 DEF Idup, Arrives, At, dinodes, copies, InodeInv, HandInv
<1> QED
    BY <1>1, <1>2

LEMMA IallocArrives ==
    ASSUME InodeInv, NEW p \in Caller, IallocIget(p)
    PROVE  \E n \in Inum, i \in Entry : Arrives(p, n, i)
<1>1. new[p] \in Inum /\ \E i \in Entry : Got(p, new[p], i)
    BY IallocGot
<1>2. PICK i \in Entry : Got(p, new[p], i)
    BY <1>1
<1>3. Arrives(p, new[p], i)
    BY <1>2 DEF IallocIget, Arrives, At, dinodes, copies, InodeInv, HandInv
<1> QED
    BY <1>1, <1>3

(* The inode in hand                                                       *)
LEMMA InHand ==
    ASSUME InodeInv, NEW p \in Caller, ipc[p] \notin {"out", "alloc"}
    PROVE  /\ ip[p] \in Entry /\ ref[ip[p]] > 0 /\ ref[ip[p]] \in Nat /\ inum[ip[p]] \in Inum
           /\ ip[p] # NoEntry
<1>1. ip[p] \in Entry /\ ip[p] # NoEntry
    BY DEF InodeInv, InodeTypeOK, HandInv
<1> QED
    BY <1>1, RefCounts DEF InodeInv, EntryInv

(* What is owed is a use.                                                  *)
LEMMA Owed ==
    ASSUME InodeInv, NEW n \in Inum
    PROVE  /\ Owing(n) \subseteq Users(n) /\ IsFiniteSet(Owing(n))
           /\ Cardinality(Owing(n)) \in Nat
           /\ dnlink[n] = entries[n] + Cardinality(Owing(n))
           /\ dnlink[n] \in Nat /\ entries[n] \in Nat
           /\ dnlink[n] = 0 => entries[n] = 0
           /\ Owing(n) = {} => dnlink[n] = entries[n]
<1>1. Owing(n) \subseteq Users(n)
    BY DEF Owing, Owes, Users, InodeInv, HandInv
<1>2. IsFiniteSet(Owing(n)) /\ Cardinality(Owing(n)) \in Nat
    BY FS_Subset, FS_CardinalityType, InodeAssumption DEF Owing
<1>3. Owing(n) = {} => Cardinality(Owing(n)) = 0
    BY FS_EmptySet
<1>4. /\ dnlink[n] = entries[n] + Cardinality(Owing(n))
      /\ dnlink[n] \in 0..MaxLink /\ entries[n] \in 0..MaxLink /\ MaxLink \in Nat
    BY InodeAssumption DEF InodeInv, InodeTypeOK, LinkInv
<1> QED
    BY <1>1, <1>2, <1>3, <1>4

(* A use of an inode, through its one entry                                *)
LEMMA OneEntry ==
    ASSUME InodeInv, NEW p \in Caller, NEW q \in Caller,
           ip[p] # NoEntry, ip[q] # NoEntry, inum[ip[p]] = inum[ip[q]]
    PROVE  ip[p] = ip[q]
<1>1. ip[p] \in Entry /\ ip[q] \in Entry
    BY DEF InodeInv, InodeTypeOK
<1>2. ref[ip[p]] > 0 /\ ref[ip[q]] > 0
    BY <1>1, RefCounts
<1> QED
    BY <1>1, <1>2 DEF InodeInv, EntryInv

(* What it is for another process to come to an inode                      *)
LEMMA Arrived ==
    ASSUME InodeInv, NEW p \in Caller, NEW n \in Inum, NEW i \in Entry, Arrives(p, n, i)
    PROVE  /\ ip'[p] = i /\ ref'[i] = ref[i] + 1 /\ inum'[i] = n /\ ref[i] \in Nat /\ i # NoEntry
           /\ ip[p] = NoEntry /\ ipc[p] \in {"out", "alloc"}
           /\ \A q \in Caller \ {p} :
                 /\ ip'[q] = ip[q] /\ ipc'[q] = ipc[q] /\ task'[q] = task[q] /\ new'[q] = new[q]
                 /\ ip[q] # NoEntry => inum'[ip[q]] = inum[ip[q]] /\ ip[q] \in Entry
           /\ \A j \in Entry \ {i} :
                 ref'[j] = ref[j] /\ inum'[j] = inum[j] /\ (j \in ivalid' <=> j \in ivalid)
           /\ i \in ivalid' <=> i \in ivalid /\ ref[i] > 0
           /\ \A q \in Caller : ip[q] = i => inum[i] = n /\ ref[i] > 0
           /\ ref[i] > 0 => inum[i] = n
           /\ UNCHANGED <<ibusy, dtype, dnlink, entries, itype, inlink>>
<1>1. /\ ip' = [ip EXCEPT ![p] = i] /\ ref' = [ref EXCEPT ![i] = @ + 1]
      /\ inum' = [inum EXCEPT ![i] = n] /\ UNCHANGED <<ibusy, dtype, dnlink, entries, itype, inlink>>
      /\ ref[i] > 0 => inum[i] = n /\ ivalid' = ivalid
      /\ ref[i] = 0 => ivalid' = ivalid \ {i}
      /\ ip[p] = NoEntry
    BY DEF Arrives, Got
<1>2. /\ ipc[p] \in {"out", "alloc"} /\ i # NoEntry
      /\ \A q \in Caller \ {p} : ipc'[q] = ipc[q] /\ task'[q] = task[q] /\ new'[q] = new[q]
    BY InodeAssumption DEF Arrives, InodeInv, InodeTypeOK, Entry, NoEntry
<1>3. /\ ref[i] \in Nat /\ ref \in [Entry -> Nat] /\ ip \in [Caller -> Entry \cup {NoEntry}]
      /\ inum \in [Entry -> Inum \cup {NoInum}]
    BY DEF InodeInv, InodeTypeOK
<1>4. \A q \in Caller : ip[q] = i => ref[i] > 0
    BY RefCounts
<1> QED
    BY ONLY <1>1, <1>2, <1>3, <1>4

LEMMA ArrivesHand ==
    ASSUME InodeInv, NEW p \in Caller, NEW n \in Inum, NEW i \in Entry, Arrives(p, n, i)
    PROVE  HandInv'
<1>1. /\ ip'[p] = i /\ i # NoEntry
      /\ \A q \in Caller \ {p} : ip'[q] = ip[q] /\ ipc'[q] = ipc[q] /\ task'[q] = task[q] /\ new'[q] = new[q]
    BY Arrived
<1>2. \/ ipc'[p] = "ref" /\ task'[p] = task[p] /\ new'[p] = new[p] /\ ipc[p] = "out"
      \/ ipc'[p] = "lock" /\ new'[p] = NoInum
    BY DEF Arrives, InodeInv, InodeTypeOK
<1> QED
    BY <1>1, <1>2 DEF InodeInv, HandInv

LEMMA ArrivesEntry ==
    ASSUME InodeInv, NEW p \in Caller, NEW n \in Inum, NEW i \in Entry, Arrives(p, n, i)
    PROVE  EntryInv'
<1>1. /\ inum'[i] = n /\ ref[i] \in Nat
      /\ \A j \in Entry \ {i} : ref'[j] = ref[j] /\ inum'[j] = inum[j]
      /\ ref[i] > 0 => inum[i] = n
    BY Arrived
<1>2. ref[i] = 0 => \A j \in Entry : ref[j] > 0 => inum[j] # n
    BY DEF Arrives, Got
<1>3. ASSUME NEW j \in Entry \ {i}, ref[j] > 0
      PROVE  inum[j] # n
    BY <1>1, <1>2, <1>3 DEF InodeInv, EntryInv
<1> QED
    BY <1>1, <1>3 DEF InodeInv, EntryInv

LEMMA ArrivesCopy ==
    ASSUME InodeInv, NEW p \in Caller, NEW n \in Inum, NEW i \in Entry, Arrives(p, n, i)
    PROVE  CopyInv'
<1> USE Arrived
<1>1. ASSUME NEW j \in Entry, j \in ivalid', ref'[j] > 0
      PROVE  /\ inlink'[j] = dnlink'[inum'[j]]
             /\ itype'[j] = "file" \/ \E q \in Caller : ip'[q] = j /\ ipc'[q] = "freed"
    <2>1. j \in ivalid /\ ref[j] > 0 /\ inum'[j] = inum[j]
        BY <1>1
    <2>2. /\ inlink[j] = dnlink[inum[j]]
          /\ itype[j] = "file" \/ \E q \in Caller : ip[q] = j /\ ipc[q] = "freed"
        BY <2>1 DEF InodeInv, CopyInv
    <2>3. \A q \in Caller : ipc[q] = "freed" => q # p
        OBVIOUS
    <2> QED
        BY <2>1, <2>2, <2>3
<1>2. ASSUME NEW j \in Entry, j \notin ivalid', ref'[j] > 0, ref[j] > 0
      PROVE  \/ entries'[inum'[j]] > 0
             \/ \E q \in Caller : ip'[q] = j /\ task'[q] = "create"
    <2>1. j \notin ivalid /\ inum'[j] = inum[j]
        BY <1>2
    <2>2. entries[inum[j]] > 0 \/ \E q \in Caller : ip[q] = j /\ task[q] = "create"
        BY <1>2, <2>1 DEF InodeInv, CopyInv
    <2>3. ip[p] # j
        BY InodeAssumption DEF Entry, NoEntry
    <2> QED
        BY <2>1, <2>2, <2>3
<1>3. ASSUME ~(ref[i] > 0)
      PROVE  entries'[n] > 0 \/ (ip'[p] = i /\ task'[p] = "create")
    BY SMTT(20), <1>3 DEF Arrives, InodeInv, InodeTypeOK
<1>4. /\ inum'[i] = n
      /\ \A j \in Entry : ref'[j] > 0 => ref[j] > 0 \/ j = i
    OBVIOUS
<1> HIDE Arrived
<1> QED
    BY <1>1, <1>2, <1>3, <1>4 DEF CopyInv

(* Who comes to an inode whose last reference goes creates it.             *)
LEMMA ArrivesApart ==
    ASSUME InodeInv, NEW p \in Caller, NEW n \in Inum, NEW i \in Entry, Arrives(p, n, i),
           NEW q \in Caller, ip[q] = i, ipc[q] \in {"free", "freed"}
    PROVE  ipc[q] = "freed" /\ task'[p] = "create"
<1>1. inum[i] = n /\ ref[i] > 0
    BY Arrived
<1>2. dnlink[n] = 0
    BY <1>1 DEF InodeInv, FreeInv, CopyInv
<1>3. entries[n] = 0
    BY <1>2, Owed
<1>4. ASSUME NEW r \in Caller, ip[r] = i, ipc[r] = "ref", task[r] = "use" PROVE FALSE
    <2>1. r # q
        BY <1>4
    <2>2. ref[i] # 1
        BY <1>4, <2>1, RefCounts
    <2> QED
        BY <1>4, <2>1, <2>2 DEF InodeInv, FreeInv
<1>5. ipc[p] = "alloc" /\ task'[p] = "create" /\ new[p] = n
    BY <1>3, <1>4 DEF Arrives, InodeInv, InodeTypeOK
<1>6. Users(n) = {p} /\ q # p
    BY <1>5 DEF InodeInv, AllocInv, Creating
<1>7. q \notin Users(n)
    BY <1>6
<1>8. ip[q] # NoEntry
    BY InodeAssumption DEF Entry, NoEntry
<1>9. ipc[q] = "freed"
    BY <1>1, <1>7, <1>8 DEF Users
<1> QED
    BY <1>5, <1>9

LEMMA ArrivesFree ==
    ASSUME InodeInv, NEW p \in Caller, NEW n \in Inum, NEW i \in Entry, Arrives(p, n, i)
    PROVE  FreeInv'
<1> SUFFICES ASSUME NEW q \in Caller, ipc'[q] \in {"locked", "free", "freed"}
             PROVE  /\ ip'[q] \in ivalid'
                    /\ ipc'[q] \in {"free", "freed"} => inlink'[ip'[q]] = 0
                    /\ ipc'[q] = "free" => ref'[ip'[q]] = 1
                    /\ ipc'[q] = "freed" =>
                          \A r \in Caller \ {q} : ip'[r] = ip'[q] => task'[r] = "create"
    BY DEF FreeInv
<1>1. q # p
    BY DEF Arrives, InodeInv, InodeTypeOK
<1>2. /\ ip'[q] = ip[q] /\ ipc'[q] = ipc[q] /\ ip[q] \in Entry /\ ip[q] \in ivalid
    BY <1>1, Arrived DEF InodeInv, InodeTypeOK, HandInv, FreeInv
<1>3. ip[q] \in ivalid'
    BY <1>2, Arrived
<1>4. ipc[q] \in {"free", "freed"} => inlink'[ip'[q]] = 0
    BY <1>2, Arrived DEF InodeInv, FreeInv
<1>5. ipc[q] = "free" => ref'[ip[q]] = 1
    <2>1. ipc[q] = "free" => ip[q] # i
        BY ArrivesApart
    <2> QED
        BY <1>2, <2>1, Arrived DEF InodeInv, FreeInv
<1>6. ASSUME ipc[q] = "freed", NEW r \in Caller \ {q}, ip'[r] = ip[q]
      PROVE  task'[r] = "create"
    <2>1. CASE r = p
        BY <2>1, <1>6, ArrivesApart, Arrived
    <2>2. CASE r # p
        BY <2>2, <1>6, Arrived DEF InodeInv, FreeInv
    <2> QED
        BY <2>1, <2>2
<1> QED
    BY <1>2, <1>3, <1>4, <1>5, <1>6

LEMMA ArrivesUsers ==
    ASSUME InodeInv, NEW p \in Caller, NEW n \in Inum, NEW i \in Entry, Arrives(p, n, i)
    PROVE  /\ \A m \in Inum : Users(m)' = IF m = n THEN Users(n) \cup {p} ELSE Users(m)
           /\ \A m \in Inum, q \in Caller : Creating(q, m)' <=> Creating(q, m)
           /\ \A m \in Inum : Owing(m)' = Owing(m)
<1>1. /\ ip'[p] = i /\ inum'[i] = n /\ i # NoEntry /\ ip[p] = NoEntry /\ inum[i] \in Inum \cup {NoInum}
      /\ \A q \in Caller \ {p} :
            /\ ip'[q] = ip[q] /\ ipc'[q] = ipc[q] /\ task'[q] = task[q] /\ new'[q] = new[q]
            /\ ip[q] # NoEntry => inum'[ip[q]] = inum[ip[q]]
    BY Arrived DEF InodeInv, InodeTypeOK
<1>2. \/ /\ ipc'[p] = "ref" /\ task'[p] = "use" /\ task[p] = "use" /\ new'[p] = NoInum /\ new[p] = NoInum
      \/ ipc'[p] = "lock" /\ task'[p] = "create" /\ task[p] = "use" /\ new'[p] = NoInum /\ new[p] = n
    BY DEF Arrives, InodeInv, InodeTypeOK, HandInv
<1>3. NoInum \notin Inum /\ \A q \in Caller : task[q] # "use" => ip[q] # NoEntry
    BY InodeAssumption DEF InodeInv, HandInv
<1>4. ASSUME NEW m \in Inum, NEW q \in Caller
      PROVE  /\ q \in Users(m)' <=> q \in Users(m) \/ (m = n /\ q = p)
             /\ Creating(q, m)' <=> Creating(q, m)
             /\ q \in Owing(m)' <=> q \in Owing(m)
    <2>1. CASE q = p
        BY <1>1, <1>2, <1>3, <2>1 DEF Users, Creating, Owing, Owes
    <2>2. CASE q # p
        BY <1>1, <1>3, <2>2 DEF Users, Creating, Owing, Owes
    <2> QED
        BY <2>1, <2>2
<1>5. \A m \in Inum : Users(m) \subseteq Caller /\ Users(m)' \subseteq Caller
                   /\ Owing(m) \subseteq Caller /\ Owing(m)' \subseteq Caller
    BY DEF Users, Owing
<1> QED
    BY <1>4, <1>5

LEMMA ArrivesAlloc ==
    ASSUME InodeInv, NEW p \in Caller, NEW n \in Inum, NEW i \in Entry, Arrives(p, n, i)
    PROVE  AllocInv'
<1>1. UNCHANGED <<dtype, entries>>
    BY Arrived
<1>2. /\ \A m \in Inum : Users(m)' = IF m = n THEN Users(n) \cup {p} ELSE Users(m)
      /\ \A m \in Inum, q \in Caller : Creating(q, m)' <=> Creating(q, m)
    BY ArrivesUsers
<1>3. /\ \A m \in Inum : dtype[m] = "file" <=> entries[m] > 0 \/ Users(m) # {}
      /\ \A q \in Caller, m \in Inum : Creating(q, m) => entries[m] = 0 /\ Users(m) = {q}
    BY DEF InodeInv, AllocInv
<1>4. \/ entries[n] > 0
      \/ \E q \in Caller : ~Creating(q, n) /\ q \in Users(n)
      \/ Creating(p, n)
    <2>1. ASSUME NEW q \in Caller, ip[q] = i, ipc[q] = "ref", task[q] = "use", inum[i] = n
          PROVE  ~Creating(q, n) /\ q \in Users(n)
        BY <2>1, InodeAssumption DEF Creating, Users, InodeInv, HandInv, Entry, NoEntry
    <2> QED
        BY <2>1 DEF Arrives, Creating
<1>5. dtype[n] = "file"
    BY <1>3, <1>4
<1>6. \A q \in Caller : Creating(q, n) => q = p
    BY <1>3, <1>4
<1>7. Users(n) \cup {p} # {}
    OBVIOUS
<1>8. ASSUME NEW m \in Inum
      PROVE  dtype'[m] = "file" <=> entries'[m] > 0 \/ Users(m)' # {}
    BY <1>1, <1>2, <1>3, <1>5, <1>7
<1>9. ASSUME NEW m \in Inum, NEW q \in Caller, Creating(q, m)'
      PROVE  entries'[m] = 0 /\ Users(m)' = {q}
    BY <1>1, <1>2, <1>3, <1>6, <1>9
<1> QED
    BY <1>8, <1>9 DEF AllocInv

(* A free inode: nothing names or uses it.                                 *)
LEMMA FreeAlone ==
    ASSUME InodeInv, NEW n \in Inum, dtype[n] = "free"
    PROVE  /\ entries[n] = 0 /\ Users(n) = {} /\ Owing(n) = {}
           /\ \A q \in Caller : ~Creating(q, n)
           /\ \A i \in Entry : ref[i] > 0 /\ inum[i] = n =>
                 inlink[i] = 0 \/ i \notin ivalid
<1>1. entries[n] = 0 /\ Users(n) = {}
    BY DEF InodeInv, InodeTypeOK, AllocInv
<1>2. Owing(n) = {}
    BY <1>1, Owed
<1>3. \A q \in Caller : ~Creating(q, n)
    BY <1>1 DEF InodeInv, AllocInv
<1>4. dnlink[n] = 0
    BY <1>1, <1>2, Owed
<1>5. ASSUME NEW i \in Entry, ref[i] > 0, inum[i] = n
      PROVE  inlink[i] = 0 \/ i \notin ivalid
    BY <1>4, <1>5 DEF InodeInv, CopyInv
<1> QED
    BY <1>1, <1>2, <1>3, <1>5

LEMMA IallocCopy ==
    ASSUME InodeInv, NEW p \in Caller, NEW n \in Inum, Ialloc(p, n)
    PROVE  CopyInv'
<1>1. /\ dtype[n] = "free" /\ dnlink' = [dnlink EXCEPT ![n] = 0] /\ dnlink \in [Inum -> 0..MaxLink]
      /\ UNCHANGED <<entries, inum, ref, ivalid, itype, inlink, task, ip>>
      /\ \A q \in Caller : ipc[q] = "freed" => ipc'[q] = "freed"
    BY DEF Ialloc, FreeInodes, At, icache, copies, InodeInv, InodeTypeOK
<1>2. \A i \in Entry : ref[i] > 0 /\ inum[i] = n => inlink[i] = 0 \/ i \notin ivalid
    BY <1>1, FreeAlone
<1>3. \A i \in Entry : ref[i] > 0 => inum[i] \in Inum
    BY DEF InodeInv, EntryInv
<1>4. CopyInv
    BY DEF InodeInv
<1> QED
    BY ONLY <1>1, <1>2, <1>3, <1>4 DEF CopyInv

LEMMA IlockReadCopy ==
    ASSUME InodeInv, NEW p \in Caller, IlockRead(p)
    PROVE  CopyInv'
<1> DEFINE i == ip[p]
<1>1. /\ i \in Entry /\ ref[i] > 0 /\ inum[i] \in Inum /\ i # NoEntry
      /\ ipc[p] = "read"
    BY InHand DEF IlockRead, At
<1>2. /\ UNCHANGED <<dnlink, entries, inum, ref, task, ip>>
      /\ \A q \in Caller : ipc[q] = "freed" => ipc'[q] = "freed"
    BY DEF IlockRead, At, dinodes, InodeInv, InodeTypeOK
<1>3. \/ UNCHANGED <<ivalid, itype, inlink>>
      \/ /\ itype' = [itype EXCEPT ![i] = dtype[inum[i]]]
         /\ inlink' = [inlink EXCEPT ![i] = dnlink[inum[i]]]
         /\ ivalid' = ivalid \cup {i}
    BY DEF IlockRead, copies
<1>4. /\ itype \in [Entry -> {"free", "file"}] /\ inlink \in [Entry -> 0..MaxLink]
      /\ CopyInv
    BY DEF InodeInv, InodeTypeOK
<1>5. dtype[inum[i]] = "file"
    BY <1>1 DEF InodeInv, AllocInv, Users
<1> HIDE DEF i
<1>6. CASE UNCHANGED <<ivalid, itype, inlink>>
    BY ONLY <1>2, <1>4, <1>6 DEF CopyInv
<1>7. CASE /\ itype' = [itype EXCEPT ![i] = dtype[inum[i]]]
           /\ inlink' = [inlink EXCEPT ![i] = dnlink[inum[i]]]
           /\ ivalid' = ivalid \cup {i}
    <2>1. ASSUME NEW j \in Entry, j # i
          PROVE  itype'[j] = itype[j] /\ inlink'[j] = inlink[j] /\ (j \in ivalid' <=> j \in ivalid)
        BY ONLY <1>4, <1>7, <2>1
    <2>2. itype'[i] = "file" /\ inlink'[i] = dnlink[inum[i]] /\ i \in ivalid'
        BY <1>1, <1>4, <1>5, <1>7
    <2> QED
        BY ONLY <1>1, <1>2, <1>4, <2>1, <2>2 DEF CopyInv
<1> QED
    BY <1>3, <1>6, <1>7

(* What goes with a reference                                              *)
LEMMA PutRefs ==
    ASSUME InodeInv, NEW p \in Caller, ip[p] \in Entry, PutRef(p)
    PROVE  /\ ip'[p] = NoEntry /\ ref'[ip[p]] = ref[ip[p]] - 1 /\ ref[ip[p]] \in Nat \ {0}
           /\ ip[p] # NoEntry
           /\ \A q \in Caller \ {p} : ip'[q] = ip[q]
           /\ \A j \in Entry \ {ip[p]} : ref'[j] = ref[j]
           /\ ref'[ip[p]] > 0 => \E q \in Caller \ {p} : ip[q] = ip[p]
<1>1. /\ ip \in [Caller -> Entry \cup {NoEntry}] /\ ref \in [Entry -> Nat]
      /\ ip' = [ip EXCEPT ![p] = NoEntry] /\ ref' = [ref EXCEPT ![ip[p]] = @ - 1]
    BY DEF InodeInv, InodeTypeOK, PutRef
<1>2. ref[ip[p]] > 0 /\ (ref[ip[p]] # 1 => \E q \in Caller \ {p} : ip[q] = ip[p])
    BY RefCounts
<1>3. ip[p] # NoEntry
    BY InodeAssumption DEF Entry, NoEntry
<1> QED
    BY ONLY <1>1, <1>2, <1>3, ip[p] \in Entry

LEMMA IputEnded ==
    ASSUME InodeInv, NEW p \in Caller, IputEnds(p)
    PROVE  /\ ip[p] \in Entry /\ ip[p] # NoEntry /\ PutRef(p) /\ ipc[p] = "freed" /\ task[p] = "use"
           /\ ipc'[p] = "out"
           /\ \A q \in Caller \ {p} : ipc'[q] = ipc[q] \/ (ipc[q] = "asleep" /\ ipc'[q] = "lock")
           /\ ivalid' = ivalid \ {ip[p]}
           /\ UNCHANGED <<dtype, dnlink, entries, inum, itype, inlink, task, new>>
BY InHand DEF IputEnds, Wakeup, FlagsKept, dinodes, copies, InodeInv, HandInv, InodeTypeOK

LEMMA IputEndsCopy ==
    ASSUME InodeInv, NEW p \in Caller, IputEnds(p)
    PROVE  CopyInv'
<1>1. /\ ip[p] \in Entry /\ PutRef(p) /\ ipc[p] = "freed"
      /\ \A q \in Caller \ {p} : ipc'[q] = ipc[q] \/ ipc[q] = "asleep"
      /\ ivalid' = ivalid \ {ip[p]}
      /\ UNCHANGED <<dnlink, entries, inum, itype, inlink, task>>
    BY IputEnded
<1>2. /\ \A q \in Caller \ {p} : ip'[q] = ip[q]
      /\ \A j \in Entry \ {ip[p]} : ref'[j] = ref[j]
      /\ ref'[ip[p]] > 0 => \E q \in Caller \ {p} : ip[q] = ip[p]
    BY <1>1, PutRefs
<1>3. /\ \A q \in Caller \ {p} : ip[q] = ip[p] => task[q] = "create"
      /\ task[p] # "create"
    BY <1>1 DEF InodeInv, FreeInv, HandInv
<1>4. CopyInv
    BY DEF InodeInv
<1>5. \A j \in Entry \ {ip[p]} :
          /\ \A q \in Caller : ip[q] = j => q # p
          /\ \A q \in Caller : ip[q] = j /\ ipc[q] = "freed" => ip'[q] = j /\ ipc'[q] = "freed"
          /\ \A q \in Caller : ip[q] = j /\ task[q] = "create" => ip'[q] = j /\ task'[q] = "create"
    BY ONLY <1>1, <1>2
<1>6. ref'[ip[p]] > 0 => \E q \in Caller : ip'[q] = ip[p] /\ task'[q] = "create"
    BY ONLY <1>1, <1>2, <1>3
<1>7. ASSUME NEW j \in Entry \ {ip[p]}
      PROVE  /\ j \in ivalid' /\ ref'[j] > 0 =>
                   /\ inlink'[j] = dnlink'[inum'[j]]
                   /\ itype'[j] = "file" \/ \E q \in Caller : ip'[q] = j /\ ipc'[q] = "freed"
             /\ j \notin ivalid' /\ ref'[j] > 0 =>
                   \/ entries'[inum'[j]] > 0
                   \/ \E q \in Caller : ip'[q] = j /\ task'[q] = "create"
    BY ONLY <1>1, <1>2, <1>4, <1>5, <1>7 DEF CopyInv
<1> QED
    BY ONLY <1>1, <1>6, <1>7 DEF CopyInv

LEMMA IlockReadFree ==
    ASSUME InodeInv, NEW p \in Caller, IlockRead(p)
    PROVE  FreeInv'
<1> DEFINE i == ip[p]
<1>1. /\ i \in Entry /\ ipc[p] = "read" /\ ipc'[p] = "locked"
      /\ UNCHANGED <<ref, task, ip>>
      /\ \A q \in Caller \ {p} : ipc'[q] = ipc[q]
    BY InHand DEF IlockRead, At, dinodes, InodeInv, InodeTypeOK
<1>2. \/ i \in ivalid /\ UNCHANGED <<ivalid, inlink>>
      \/ /\ inlink' = [inlink EXCEPT ![i] = dnlink[inum[i]]]
         /\ ivalid' = ivalid \cup {i} /\ i \notin ivalid
    BY DEF IlockRead, copies
<1>3. /\ i \in ivalid' /\ \A j \in Entry : j \in ivalid => j \in ivalid' /\ inlink'[j] = inlink[j]
    BY <1>2 DEF InodeInv, InodeTypeOK
<1>4. FreeInv /\ ivalid \subseteq Entry
    BY DEF InodeInv, InodeTypeOK
<1> HIDE DEF i
<1> QED
    BY ONLY <1>1, <1>3, <1>4 DEF FreeInv, i

LEMMA IputFreed ==
    ASSUME InodeInv, NEW p \in Caller, IputFrees(p)
    PROVE  /\ ip[p] \in Entry /\ ip[p] # NoEntry /\ inum[ip[p]] \in Inum
           /\ ipc[p] = "free" /\ ipc'[p] = "freed" /\ task[p] = "use" /\ new[p] = NoInum
           /\ \A q \in Caller \ {p} : ipc'[q] = ipc[q]
           /\ \A q \in Caller : ip[q] = ip[p] => q = p
           /\ dtype' = [dtype EXCEPT ![inum[ip[p]]] = "free"]
           /\ inlink[ip[p]] = 0 /\ dnlink[inum[ip[p]]] = 0 /\ dnlink' = dnlink
           /\ entries[inum[ip[p]]] = 0 /\ Users(inum[ip[p]]) = {p}
           /\ UNCHANGED <<entries, inum, ref, ivalid, ibusy, inlink, task, ip, new>>
<1> DEFINE n == inum[ip[p]]
<1>1. /\ ip[p] \in Entry /\ ip[p] # NoEntry /\ n \in Inum /\ ref[ip[p]] > 0
      /\ ipc[p] = "free" /\ ipc'[p] = "freed" /\ task[p] = "use" /\ new[p] = NoInum
      /\ \A q \in Caller \ {p} : ipc'[q] = ipc[q]
      /\ dtype' = [dtype EXCEPT ![n] = "free"] /\ dnlink' = [dnlink EXCEPT ![n] = inlink[ip[p]]]
      /\ UNCHANGED <<entries, inum, ref, ivalid, ibusy, inlink, task, ip, new>>
    BY InHand DEF IputFrees, At, InodeInv, InodeTypeOK, HandInv
<1>2. ref[ip[p]] = 1 /\ ip[p] \in ivalid /\ inlink[ip[p]] = 0
    BY <1>1 DEF InodeInv, FreeInv
<1>3. \A q \in Caller : ip[q] = ip[p] => q = p
    BY <1>1, <1>2, RefCounts
<1>4. dnlink[n] = 0
    BY <1>1, <1>2 DEF InodeInv, CopyInv
<1>5. entries[n] = 0
    BY <1>1, <1>4, Owed
<1>6. p \in Users(n)
    BY <1>1 DEF Users
<1>7. ASSUME NEW q \in Users(n) PROVE q = p
    <2>1. q \in Caller
        BY DEF Users
    <2>2. new[q] = n => q = p
        BY <1>1, <1>6, <2>1 DEF InodeInv, AllocInv, Creating
    <2>3. ip[q] # NoEntry /\ inum[ip[q]] = n => q = p
        BY <1>1, <1>3, <2>1, OneEntry
    <2> QED
        BY <2>1, <2>2, <2>3 DEF Users
<1>8. dnlink' = dnlink
    BY <1>1, <1>2, <1>4 DEF InodeInv, InodeTypeOK
<1> QED
    BY <1>1, <1>2, <1>3, <1>4, <1>5, <1>6, <1>7, <1>8

LEMMA IputFreesFree ==
    ASSUME InodeInv, NEW p \in Caller, IputFrees(p)
    PROVE  FreeInv'
<1>1. /\ ipc[p] = "free" /\ ipc'[p] = "freed"
      /\ \A q \in Caller \ {p} : ipc'[q] = ipc[q]
      /\ \A q \in Caller : ip[q] = ip[p] => q = p
      /\ UNCHANGED <<ref, ivalid, inlink, task, ip>>
    BY IputFreed
<1>2. FreeInv
    BY DEF InodeInv
<1> QED
    BY ONLY <1>1, <1>2 DEF FreeInv

LEMMA IallocUsers ==
    ASSUME InodeInv, NEW p \in Caller, NEW n \in Inum, Ialloc(p, n)
    PROVE  /\ dtype[n] = "free" /\ dtype' = [dtype EXCEPT ![n] = "file"] /\ UNCHANGED <<entries, inum, ip>>
           /\ entries[n] = 0 /\ Users(n) = {} /\ \A q \in Caller : ~Creating(q, n)
           /\ \A m \in Inum : Users(m)' = IF m = n THEN {p} ELSE Users(m)
           /\ \A m \in Inum, q \in Caller : Creating(q, m)' <=> Creating(q, m) \/ (q = p /\ m = n)
           /\ ipc[p] = "out" /\ ipc'[p] = "alloc" /\ \A q \in Caller \ {p} : ipc'[q] = ipc[q]
<1>1. /\ dtype[n] = "free" /\ dtype' = [dtype EXCEPT ![n] = "file"] /\ dtype \in [Inum -> {"free", "file"}]
      /\ ipc[p] = "out" /\ ipc'[p] = "alloc" /\ new'[p] = n /\ new[p] = NoInum /\ task[p] = "use"
      /\ ip[p] = NoEntry
      /\ UNCHANGED <<entries, inum, task, ip>>
      /\ \A q \in Caller \ {p} : ipc'[q] = ipc[q] /\ new'[q] = new[q]
    BY DEF Ialloc, FreeInodes, At, icache, InodeInv, InodeTypeOK, HandInv
<1>2. entries[n] = 0 /\ Users(n) = {} /\ \A q \in Caller : ~Creating(q, n)
    BY <1>1, FreeAlone
<1>3. ASSUME NEW m \in Inum, NEW q \in Caller
      PROVE  /\ q \in Users(m)' <=> q \in Users(m) \/ (q = p /\ m = n)
             /\ Creating(q, m)' <=> Creating(q, m) \/ (q = p /\ m = n)
    <2>1. CASE q = p
        BY <1>1, <2>1, InodeAssumption DEF Users, Creating
    <2>2. CASE q # p
        BY <1>1, <2>2 DEF Users, Creating
    <2> QED
        BY <2>1, <2>2
<1>4. \A m \in Inum : Users(m)' = IF m = n THEN {p} ELSE Users(m)
    <2>1. \A m \in Inum : Users(m)' \subseteq Caller /\ Users(m) \subseteq Caller
        BY DEF Users
    <2> QED
        BY <1>2, <1>3, <2>1
<1> QED
    BY <1>1, <1>2, <1>3, <1>4

LEMMA IallocAlloc ==
    ASSUME InodeInv, NEW p \in Caller, NEW n \in Inum, Ialloc(p, n)
    PROVE  AllocInv'
<1>1. /\ dtype[n] = "free" /\ dtype' = [dtype EXCEPT ![n] = "file"] /\ UNCHANGED entries
      /\ entries[n] = 0 /\ Users(n) = {} /\ \A q \in Caller : ~Creating(q, n)
      /\ \A m \in Inum : Users(m)' = IF m = n THEN {p} ELSE Users(m)
      /\ \A m \in Inum, q \in Caller : Creating(q, m)' <=> Creating(q, m) \/ (q = p /\ m = n)
    BY IallocUsers
<1>2. AllocInv /\ dtype \in [Inum -> {"free", "file"}]
    BY DEF InodeInv, InodeTypeOK
<1>3. \A m \in Inum : dtype'[m] = "file" <=> entries'[m] > 0 \/ Users(m)' # {}
    BY <1>1, <1>2 DEF AllocInv
<1>4. \A q \in Caller, m \in Inum : Creating(q, m)' => entries'[m] = 0 /\ Users(m)' = {q}
    BY <1>1, <1>2 DEF AllocInv
<1> QED
    BY <1>3, <1>4 DEF AllocInv

(* The inode that a process lets go, and the rest of its users             *)
LEMMA NotTheLast ==
    ASSUME InodeInv, NEW p \in Caller, ipc[p] = "ref", ~LastUse(ip[p])
    PROVE  entries[inum[ip[p]]] > 0 \/ \E q \in Users(inum[ip[p]]) : q # p
<1> DEFINE i == ip[p]
           n == inum[i]
<1>1. /\ i \in Entry /\ i # NoEntry /\ n \in Inum /\ ref[i] > 0 /\ ref[i] \in Nat
      /\ task[p] = "use"
    BY InHand DEF InodeInv, HandInv
<1>2. ASSUME ref[i] # 1
      PROVE  \E q \in Users(n) : q # p
    <2>1. PICK q \in Caller \ {p} : ip[q] = i
        BY <1>1, <1>2, RefCounts
    <2>2. ipc[q] # "freed"
        BY <1>1, <2>1 DEF InodeInv, FreeInv
    <2> QED
        BY <1>1, <2>1, <2>2 DEF Users
<1>3. ASSUME ref[i] = 1
      PROVE  entries[n] > 0
    <2>1. \A q \in Caller : ip[q] = i => q = p
        BY <1>1, <1>3, RefCounts
    <2>2. CASE i \notin ivalid
        BY <1>1, <2>1, <2>2 DEF InodeInv, CopyInv
    <2>3. CASE i \in ivalid
        <3>1. inlink[i] # 0
            BY <1>3, <2>3 DEF LastUse
        <3>2. dnlink[n] # 0
            BY <1>1, <2>3, <3>1 DEF InodeInv, CopyInv
        <3>3. Owing(n) = {}
            <4>1. ASSUME NEW q \in Owing(n) PROVE FALSE
                <5>1. q \in Caller /\ ip[q] = i /\ (ipc[q] = "linked" \/ task[q] = "undo")
                    BY <1>1, OneEntry DEF Owing, Owes
                <5> QED
                    BY <1>1, <2>1, <5>1
            <4> QED
                BY <4>1
        <3> QED
            BY <1>1, <3>2, <3>3, Owed
    <2> QED
        BY <2>2, <2>3
<1> QED
    BY <1>2, <1>3

(* A process that keeps an inode no more, while the rest stays             *)
LEMMA UserLeaves ==
    ASSUME InodeInv, NEW p \in Caller,
           ip[p] \in Entry, ip[p] # NoEntry, new[p] = NoInum, task[p] = "use", ipc[p] # "freed",
           ip'[p] = NoEntry \/ (ip'[p] = ip[p] /\ ipc'[p] = "freed"),
           \A q \in Caller \ {p} : ip'[q] = ip[q] /\ ipc'[q] = ipc[q],
           UNCHANGED <<inum, task, new>>
    PROVE  /\ \A m \in Inum : Users(m)' = Users(m) \ {p}
           /\ p \in Users(inum[ip[p]])
           /\ \A m \in Inum, q \in Caller : Creating(q, m)' => Creating(q, m) /\ q # p
<1>1. p \in Users(inum[ip[p]])
    BY DEF Users
<1>2. \A m \in Inum : new[p] # m
    BY InodeAssumption
<1>3. ASSUME NEW m \in Inum, NEW q \in Caller
      PROVE  /\ q \in Users(m)' <=> q \in Users(m) /\ q # p
             /\ Creating(q, m)' => Creating(q, m) /\ q # p
    <2>1. CASE q = p
        BY <1>2, <2>1 DEF Users, Creating
    <2>2. CASE q # p
        BY <2>2 DEF Users, Creating
    <2> QED
        BY <2>1, <2>2
<1>4. \A m \in Inum : Users(m)' \subseteq Caller /\ Users(m) \subseteq Caller
    BY DEF Users
<1> QED
    BY <1>1, <1>3, <1>4

LEMMA LeavingAlloc ==
    ASSUME InodeInv, NEW p \in Caller, NEW n \in Inum, p \in Users(n),
           \A m \in Inum : m # n => p \notin Users(m),
           \A m \in Inum : Users(m)' = Users(m) \ {p},
           \A m \in Inum, q \in Caller : Creating(q, m)' => Creating(q, m) /\ q # p,
           entries' = entries, \A m \in Inum : m # n => dtype'[m] = dtype[m],
           dtype'[n] = "file" <=> entries[n] > 0 \/ Users(n) \ {p} # {}
    PROVE  AllocInv'
<1>1. AllocInv
    BY DEF InodeInv
<1>2. \A m \in Inum : dtype'[m] = "file" <=> entries'[m] > 0 \/ Users(m)' # {}
    BY <1>1 DEF AllocInv
<1>3. \A q \in Caller, m \in Inum : Creating(q, m)' => entries'[m] = 0 /\ Users(m)' = {q}
    BY <1>1 DEF AllocInv
<1> QED
    BY <1>2, <1>3 DEF AllocInv

(* One process has one inode.                                              *)
LEMMA OneInode ==
    ASSUME InodeInv, NEW p \in Caller, ip[p] # NoEntry
    PROVE  \A m \in Inum : m # inum[ip[p]] => p \notin Users(m)
BY InodeAssumption DEF Users, InodeInv, HandInv

LEMMA IputLeft ==
    ASSUME InodeInv, NEW p \in Caller, At(p, "ref", "out"), PutRef(p), UNCHANGED <<inum, task, new>>
    PROVE  /\ ip[p] \in Entry /\ inum[ip[p]] \in Inum /\ p \in Users(inum[ip[p]])
           /\ \A m \in Inum : m # inum[ip[p]] => p \notin Users(m)
           /\ \A m \in Inum : Users(m)' = Users(m) \ {p}
           /\ \A m \in Inum, q \in Caller : Creating(q, m)' => Creating(q, m) /\ q # p
<1>1. /\ ip[p] \in Entry /\ ip[p] # NoEntry /\ inum[ip[p]] \in Inum /\ new[p] = NoInum /\ task[p] = "use"
      /\ ipc[p] = "ref" /\ \A q \in Caller \ {p} : ipc'[q] = ipc[q]
    BY InHand DEF At, InodeInv, InodeTypeOK, HandInv
<1>2. ip'[p] = NoEntry /\ \A q \in Caller \ {p} : ip'[q] = ip[q]
    BY <1>1, PutRefs
<1>3. \A m \in Inum : m # inum[ip[p]] => p \notin Users(m)
    BY <1>1, OneInode
<1>4. /\ \A m \in Inum : Users(m)' = Users(m) \ {p}
      /\ p \in Users(inum[ip[p]])
      /\ \A m \in Inum, q \in Caller : Creating(q, m)' => Creating(q, m) /\ q # p
    BY <1>1, <1>2, UserLeaves
<1> QED
    BY <1>1, <1>3, <1>4

LEMMA IputAlloc ==
    ASSUME InodeInv, NEW p \in Caller, Iput(p)
    PROVE  AllocInv'
<1>1. CASE /\ At(p, "ref", "out") /\ ~LastUse(ip[p]) /\ PutRef(p)
           /\ UNCHANGED <<dinodes, entries, inum, ivalid, ibusy, copies, task, new>>
    <2> DEFINE n == inum[ip[p]]
    <2>1. /\ n \in Inum /\ p \in Users(n)
          /\ \A m \in Inum : m # n => p \notin Users(m)
          /\ \A m \in Inum : Users(m)' = Users(m) \ {p}
          /\ \A m \in Inum, q \in Caller : Creating(q, m)' => Creating(q, m) /\ q # p
        BY <1>1, IputLeft
    <2>2. entries[n] > 0 \/ \E q \in Users(n) : q # p
        BY <1>1, NotTheLast DEF At
    <2>3. dtype[n] = "file"
        BY <2>1 DEF InodeInv, AllocInv
    <2>4. UNCHANGED <<dtype, entries>>
        BY <1>1 DEF dinodes
    <2>5. dtype'[n] = "file" <=> entries[n] > 0 \/ Users(n) \ {p} # {}
        BY <2>2, <2>3, <2>4
    <2> QED
        BY <2>1, <2>4, <2>5, LeavingAlloc
<1>2. CASE /\ At(p, "ref", "free")
           /\ UNCHANGED <<dinodes, entries, inum, ref, ivalid, copies, task, ip, new>>
    <2>1. /\ \A q \in Caller : ipc'[q] = "freed" <=> ipc[q] = "freed"
          /\ UNCHANGED <<dtype, entries, inum, task, ip, new>>
        BY <1>2 DEF At, dinodes, InodeInv, InodeTypeOK
    <2>2. /\ \A m \in Inum : Users(m)' = Users(m)
          /\ \A m \in Inum, q \in Caller : Creating(q, m)' <=> Creating(q, m)
        BY ONLY <2>1 DEF Users, Creating
    <2>3. AllocInv
        BY DEF InodeInv
    <2> QED
        BY ONLY <2>1, <2>2, <2>3 DEF AllocInv
<1> QED
    BY <1>1, <1>2 DEF Iput

LEMMA IputFreesAlloc ==
    ASSUME InodeInv, NEW p \in Caller, IputFrees(p)
    PROVE  AllocInv'
<1> DEFINE n == inum[ip[p]]
<1>1. /\ ip[p] \in Entry /\ ip[p] # NoEntry /\ n \in Inum
      /\ ipc[p] = "free" /\ ipc'[p] = "freed" /\ task[p] = "use" /\ new[p] = NoInum
      /\ \A q \in Caller \ {p} : ipc'[q] = ipc[q]
      /\ dtype' = [dtype EXCEPT ![n] = "free"]
      /\ entries[n] = 0 /\ Users(n) = {p}
      /\ UNCHANGED <<entries, inum, task, ip, new>>
    BY IputFreed
<1>2. /\ \A m \in Inum : Users(m)' = Users(m) \ {p}
      /\ \A m \in Inum, q \in Caller : Creating(q, m)' => Creating(q, m) /\ q # p
    BY <1>1, UserLeaves
<1>3. \A m \in Inum : m # n => p \notin Users(m)
    BY <1>1, OneInode
<1>4. /\ \A m \in Inum : m # n => dtype'[m] = dtype[m]
      /\ dtype'[n] = "free"
    BY <1>1 DEF InodeInv, InodeTypeOK
<1>5. dtype'[n] = "file" <=> entries[n] > 0 \/ Users(n) \ {p} # {}
    BY <1>1, <1>4
<1> HIDE DEF n
<1> QED
    BY <1>1, <1>2, <1>3, <1>4, <1>5, LeavingAlloc

LEMMA IputEndsAlloc ==
    ASSUME InodeInv, NEW p \in Caller, IputEnds(p)
    PROVE  AllocInv'
<1>1. /\ ip[p] \in Entry /\ ip[p] # NoEntry /\ PutRef(p) /\ ipc[p] = "freed" /\ task[p] = "use"
      /\ ipc'[p] = "out" /\ new[p] = NoInum
      /\ \A q \in Caller \ {p} : ipc'[q] = "freed" <=> ipc[q] = "freed"
      /\ UNCHANGED <<dtype, entries, inum, task, new>>
    BY IputEnded DEF InodeInv, HandInv
<1>2. ip'[p] = NoEntry /\ \A q \in Caller \ {p} : ip'[q] = ip[q]
    BY <1>1, PutRefs
<1>3. ASSUME NEW m \in Inum, NEW q \in Caller
      PROVE  /\ q \in Users(m)' <=> q \in Users(m)
             /\ Creating(q, m)' <=> Creating(q, m)
    <2>1. CASE q = p
        BY <1>1, <1>2, <2>1, InodeAssumption DEF Users, Creating
    <2>2. CASE q # p
        BY <1>1, <1>2, <2>2 DEF Users, Creating
    <2> QED
        BY <2>1, <2>2
<1>4. \A m \in Inum : Users(m)' = Users(m)
    <2>1. \A m \in Inum : Users(m)' \subseteq Caller /\ Users(m) \subseteq Caller
        BY DEF Users
    <2> QED
        BY <1>3, <2>1
<1>5. AllocInv
    BY DEF InodeInv
<1> QED
    BY <1>1, <1>3, <1>4, <1>5 DEF AllocInv

(* Every step keeps the types. *)
LEMMA InodeTypesKept ==
    ASSUME InodeInv, [InodeNext]_inodeVars
    PROVE  InodeTypeOK'
<1> USE InodeAssumption DEF InodeInv, InodeTypeOK, HandInv, At
<1>0. CASE UNCHANGED inodeVars
    BY <1>0 DEF inodeVars, dinodes, icache, copies, EntryInv
<1>1. ASSUME NEW p \in Caller, NEW n \in Inum, NEW i \in Entry, Arrives(p, n, i) PROVE InodeTypeOK'
    BY <1>1 DEF Arrives, Got, EntryInv
<1>2. ASSUME NEW p \in Caller, NEW n \in Inum, Lookup(p, n) PROVE InodeTypeOK'
    BY <1>1, <1>2, LookupArrives
<1>3. ASSUME NEW p \in Caller, NEW n \in Inum, Ialloc(p, n) PROVE InodeTypeOK'
    BY <1>3 DEF Ialloc, icache, copies, EntryInv
<1>4. ASSUME NEW p \in Caller, NEW q \in Caller, Idup(p, q) PROVE InodeTypeOK'
    BY <1>1, <1>4, IdupArrives
<1>5. ASSUME NEW p \in Caller, IallocIget(p) PROVE InodeTypeOK'
    BY <1>1, <1>5, IallocArrives
<1>6. ASSUME NEW p \in Caller, CallIlock(p) PROVE InodeTypeOK'
    BY <1>6, InHand DEF CallIlock, dinodes, icache, copies, EntryInv
<1>7. ASSUME NEW p \in Caller, Ilock(p) PROVE InodeTypeOK'
    BY <1>7, InHand DEF Ilock, dinodes, copies, EntryInv
<1>8. ASSUME NEW p \in Caller, IlockRead(p) PROVE InodeTypeOK'
    <2>1. ip[p] \in Entry /\ inum[ip[p]] \in Inum
        BY <1>8, InHand DEF IlockRead
    <2>2. /\ itype' \in [Entry -> {"free", "file"}] /\ inlink' \in [Entry -> 0..MaxLink]
          /\ ivalid' \subseteq Entry
        BY <1>8, <2>1 DEF IlockRead, copies
    <2>3. /\ ipc' = [ipc EXCEPT ![p] = "locked"]
          /\ UNCHANGED <<dtype, dnlink, entries, inum, ref, ibusy, task, ip, new>>
        BY <1>8 DEF IlockRead, dinodes
    <2> QED
        BY <2>2, <2>3
<1>9. ASSUME NEW p \in Caller, CallIunlock(p) PROVE InodeTypeOK'
    BY <1>9, InHand DEF CallIunlock, Iunlock, Wakeup, dinodes, copies, EntryInv
<1>10. ASSUME NEW p \in Caller, Create(p) PROVE InodeTypeOK'
    BY <1>10, InHand DEF Create, SetLinks, Entered, EntryInv
<1>11. ASSUME NEW p \in Caller, Unlink(p) PROVE InodeTypeOK'
    BY <1>11, InHand DEF Unlink, SetLinks, Entered, EntryInv
<1>12. ASSUME NEW p \in Caller, Link(p) PROVE InodeTypeOK'
    BY <1>12, InHand DEF Link, SetLinks, Iunlock, Wakeup, EntryInv
<1>13. ASSUME NEW p \in Caller, LinkEnters(p) PROVE InodeTypeOK'
    BY <1>13, InHand DEF LinkEnters, Entered, dinodes, icache, copies, EntryInv
<1>14. ASSUME NEW p \in Caller, LinkFails(p) PROVE InodeTypeOK'
    BY <1>14, InHand DEF LinkFails, dinodes, icache, copies, EntryInv
<1>15. ASSUME NEW p \in Caller, LinkUndone(p) PROVE InodeTypeOK'
    BY <1>15, InHand DEF LinkUndone, SetLinks, Iunlock, Wakeup, EntryInv
<1>16. ASSUME NEW p \in Caller, Iput(p) PROVE InodeTypeOK'
    BY <1>16, InHand DEF Iput, LastUse, PutRef, dinodes, copies, EntryInv
<1>17. ASSUME NEW p \in Caller, IputFrees(p) PROVE InodeTypeOK'
    BY <1>17, InHand DEF IputFrees, EntryInv
<1>18. ASSUME NEW p \in Caller, IputEnds(p) PROVE InodeTypeOK'
    BY <1>18, InHand DEF IputEnds, PutRef, Wakeup, FlagsKept, dinodes, copies, EntryInv
<1> QED
    BY <1>0, <1>1, <1>2, <1>3, <1>4, <1>5, <1>6, <1>7, <1>8, <1>9, <1>10, <1>11, <1>12, <1>13, <1>14, <1>15, <1>16, <1>17, <1>18 DEF InodeNext

(* A process has an inode from iget() to iput().                           *)
LEMMA HandKept ==
    ASSUME InodeInv, [InodeNext]_inodeVars
    PROVE  HandInv'
<1> USE InodeAssumption DEF InodeInv, InodeTypeOK, HandInv, At
<1>0. CASE UNCHANGED inodeVars
    BY <1>0 DEF inodeVars, dinodes, icache, copies, EntryInv
<1>1. ASSUME NEW p \in Caller, NEW n \in Inum, NEW i \in Entry, Arrives(p, n, i) PROVE HandInv'
    BY <1>1, ArrivesHand
<1>2. ASSUME NEW p \in Caller, NEW n \in Inum, Lookup(p, n) PROVE HandInv'
    BY <1>1, <1>2, LookupArrives
<1>3. ASSUME NEW p \in Caller, NEW n \in Inum, Ialloc(p, n) PROVE HandInv'
    BY <1>3 DEF Ialloc, icache, copies, EntryInv
<1>4. ASSUME NEW p \in Caller, NEW q \in Caller, Idup(p, q) PROVE HandInv'
    BY <1>1, <1>4, IdupArrives
<1>5. ASSUME NEW p \in Caller, IallocIget(p) PROVE HandInv'
    BY <1>1, <1>5, IallocArrives
<1>6. ASSUME NEW p \in Caller, CallIlock(p) PROVE HandInv'
    BY <1>6, InHand DEF CallIlock, dinodes, icache, copies, EntryInv
<1>7. ASSUME NEW p \in Caller, Ilock(p) PROVE HandInv'
    BY <1>7, InHand DEF Ilock, dinodes, copies, EntryInv
<1>8. ASSUME NEW p \in Caller, IlockRead(p) PROVE HandInv'
    BY <1>8, InHand DEF IlockRead, dinodes, EntryInv
<1>9. ASSUME NEW p \in Caller, CallIunlock(p) PROVE HandInv'
    BY <1>9, InHand DEF CallIunlock, Iunlock, Wakeup, dinodes, copies, EntryInv
<1>10. ASSUME NEW p \in Caller, Create(p) PROVE HandInv'
    BY <1>10, InHand DEF Create, SetLinks, Entered, EntryInv
<1>11. ASSUME NEW p \in Caller, Unlink(p) PROVE HandInv'
    BY <1>11, InHand DEF Unlink, SetLinks, Entered, EntryInv
<1>12. ASSUME NEW p \in Caller, Link(p) PROVE HandInv'
    BY <1>12, InHand DEF Link, SetLinks, Iunlock, Wakeup, EntryInv
<1>13. ASSUME NEW p \in Caller, LinkEnters(p) PROVE HandInv'
    BY <1>13, InHand DEF LinkEnters, Entered, dinodes, icache, copies, EntryInv
<1>14. ASSUME NEW p \in Caller, LinkFails(p) PROVE HandInv'
    BY <1>14, InHand DEF LinkFails, dinodes, icache, copies, EntryInv
<1>15. ASSUME NEW p \in Caller, LinkUndone(p) PROVE HandInv'
    BY <1>15, InHand DEF LinkUndone, SetLinks, Iunlock, Wakeup, EntryInv
<1>16. ASSUME NEW p \in Caller, Iput(p) PROVE HandInv'
    BY <1>16, InHand DEF Iput, LastUse, PutRef, dinodes, copies, EntryInv
<1>17. ASSUME NEW p \in Caller, IputFrees(p) PROVE HandInv'
    BY <1>17, InHand DEF IputFrees, EntryInv
<1>18. ASSUME NEW p \in Caller, IputEnds(p) PROVE HandInv'
    BY <1>18, InHand DEF IputEnds, PutRef, Wakeup, FlagsKept, dinodes, copies, EntryInv
<1> QED
    BY <1>0, <1>1, <1>2, <1>3, <1>4, <1>5, <1>6, <1>7, <1>8, <1>9, <1>10, <1>11, <1>12, <1>13, <1>14, <1>15, <1>16, <1>17, <1>18 DEF InodeNext

(* iget() takes the entry that an inode has.                               *)
LEMMA EntryKept ==
    ASSUME InodeInv, [InodeNext]_inodeVars
    PROVE  EntryInv'
<1> USE InodeAssumption DEF InodeInv, InodeTypeOK, HandInv, At
<1>0. CASE UNCHANGED inodeVars
    BY <1>0 DEF inodeVars, dinodes, icache, copies, EntryInv
<1>1. ASSUME NEW p \in Caller, NEW n \in Inum, NEW i \in Entry, Arrives(p, n, i) PROVE EntryInv'
    BY <1>1, ArrivesEntry
<1>2. ASSUME NEW p \in Caller, NEW n \in Inum, Lookup(p, n) PROVE EntryInv'
    BY <1>1, <1>2, LookupArrives
<1>3. ASSUME NEW p \in Caller, NEW n \in Inum, Ialloc(p, n) PROVE EntryInv'
    BY <1>3 DEF Ialloc, icache, copies, EntryInv
<1>4. ASSUME NEW p \in Caller, NEW q \in Caller, Idup(p, q) PROVE EntryInv'
    BY <1>1, <1>4, IdupArrives
<1>5. ASSUME NEW p \in Caller, IallocIget(p) PROVE EntryInv'
    BY <1>1, <1>5, IallocArrives
<1>6. ASSUME NEW p \in Caller, CallIlock(p) PROVE EntryInv'
    BY <1>6, InHand DEF CallIlock, dinodes, icache, copies, EntryInv
<1>7. ASSUME NEW p \in Caller, Ilock(p) PROVE EntryInv'
    BY <1>7, InHand DEF Ilock, dinodes, copies, EntryInv
<1>8. ASSUME NEW p \in Caller, IlockRead(p) PROVE EntryInv'
    BY <1>8, InHand DEF IlockRead, dinodes, EntryInv
<1>9. ASSUME NEW p \in Caller, CallIunlock(p) PROVE EntryInv'
    BY <1>9, InHand DEF CallIunlock, Iunlock, Wakeup, dinodes, copies, EntryInv
<1>10. ASSUME NEW p \in Caller, Create(p) PROVE EntryInv'
    BY <1>10, InHand DEF Create, SetLinks, Entered, EntryInv
<1>11. ASSUME NEW p \in Caller, Unlink(p) PROVE EntryInv'
    BY <1>11, InHand DEF Unlink, SetLinks, Entered, EntryInv
<1>12. ASSUME NEW p \in Caller, Link(p) PROVE EntryInv'
    BY <1>12, InHand DEF Link, SetLinks, Iunlock, Wakeup, EntryInv
<1>13. ASSUME NEW p \in Caller, LinkEnters(p) PROVE EntryInv'
    BY <1>13, InHand DEF LinkEnters, Entered, dinodes, icache, copies, EntryInv
<1>14. ASSUME NEW p \in Caller, LinkFails(p) PROVE EntryInv'
    BY <1>14, InHand DEF LinkFails, dinodes, icache, copies, EntryInv
<1>15. ASSUME NEW p \in Caller, LinkUndone(p) PROVE EntryInv'
    BY <1>15, InHand DEF LinkUndone, SetLinks, Iunlock, Wakeup, EntryInv
<1>16. ASSUME NEW p \in Caller, Iput(p) PROVE EntryInv'
    BY <1>16, InHand DEF Iput, LastUse, PutRef, dinodes, copies, EntryInv
<1>17. ASSUME NEW p \in Caller, IputFrees(p) PROVE EntryInv'
    BY <1>17, InHand DEF IputFrees, EntryInv
<1>18. ASSUME NEW p \in Caller, IputEnds(p) PROVE EntryInv'
    BY <1>18, InHand DEF IputEnds, PutRef, Wakeup, FlagsKept, dinodes, copies, EntryInv
<1> QED
    BY <1>0, <1>1, <1>2, <1>3, <1>4, <1>5, <1>6, <1>7, <1>8, <1>9, <1>10, <1>11, <1>12, <1>13, <1>14, <1>15, <1>16, <1>17, <1>18 DEF InodeNext

(* ilock() takes an entry that nobody has locked.                          *)
LEMMA BusyKept ==
    ASSUME InodeInv, [InodeNext]_inodeVars
    PROVE  BusyInv'
<1> USE InodeAssumption DEF InodeInv, InodeTypeOK, HandInv, At
<1>0. CASE UNCHANGED inodeVars
    BY <1>0 DEF inodeVars, dinodes, icache, copies, BusyInv, Holding
<1>1. ASSUME NEW p \in Caller, NEW n \in Inum, NEW i \in Entry, Arrives(p, n, i) PROVE BusyInv'
    BY <1>1 DEF Arrives, Got, BusyInv, Holding
<1>2. ASSUME NEW p \in Caller, NEW n \in Inum, Lookup(p, n) PROVE BusyInv'
    BY <1>1, <1>2, LookupArrives
<1>3. ASSUME NEW p \in Caller, NEW n \in Inum, Ialloc(p, n) PROVE BusyInv'
    BY <1>3 DEF Ialloc, icache, copies, BusyInv, Holding
<1>4. ASSUME NEW p \in Caller, NEW q \in Caller, Idup(p, q) PROVE BusyInv'
    BY <1>1, <1>4, IdupArrives
<1>5. ASSUME NEW p \in Caller, IallocIget(p) PROVE BusyInv'
    BY <1>1, <1>5, IallocArrives
<1>6. ASSUME NEW p \in Caller, CallIlock(p) PROVE BusyInv'
    BY <1>6, InHand DEF CallIlock, dinodes, icache, copies, BusyInv, Holding
<1>7. ASSUME NEW p \in Caller, Ilock(p) PROVE BusyInv'
    BY <1>7, InHand DEF Ilock, dinodes, copies, BusyInv, Holding
<1>8. ASSUME NEW p \in Caller, IlockRead(p) PROVE BusyInv'
    BY <1>8, InHand DEF IlockRead, dinodes, BusyInv, Holding
<1>9. ASSUME NEW p \in Caller, CallIunlock(p) PROVE BusyInv'
    BY <1>9, InHand DEF CallIunlock, Iunlock, Wakeup, dinodes, copies, BusyInv, Holding
<1>10. ASSUME NEW p \in Caller, Create(p) PROVE BusyInv'
    BY <1>10, InHand DEF Create, SetLinks, Entered, BusyInv, Holding
<1>11. ASSUME NEW p \in Caller, Unlink(p) PROVE BusyInv'
    BY <1>11, InHand DEF Unlink, SetLinks, Entered, BusyInv, Holding
<1>12. ASSUME NEW p \in Caller, Link(p) PROVE BusyInv'
    BY <1>12, InHand DEF Link, SetLinks, Iunlock, Wakeup, BusyInv, Holding
<1>13. ASSUME NEW p \in Caller, LinkEnters(p) PROVE BusyInv'
    BY <1>13, InHand DEF LinkEnters, Entered, dinodes, icache, copies, BusyInv, Holding
<1>14. ASSUME NEW p \in Caller, LinkFails(p) PROVE BusyInv'
    BY <1>14, InHand DEF LinkFails, dinodes, icache, copies, BusyInv, Holding
<1>15. ASSUME NEW p \in Caller, LinkUndone(p) PROVE BusyInv'
    BY <1>15, InHand DEF LinkUndone, SetLinks, Iunlock, Wakeup, BusyInv, Holding
<1>16. ASSUME NEW p \in Caller, Iput(p) PROVE BusyInv'
    BY <1>16, InHand DEF Iput, LastUse, PutRef, dinodes, copies, BusyInv, Holding
<1>17. ASSUME NEW p \in Caller, IputFrees(p) PROVE BusyInv'
    BY <1>17, InHand DEF IputFrees, BusyInv, Holding
<1>18. ASSUME NEW p \in Caller, IputEnds(p) PROVE BusyInv'
    BY <1>18, InHand DEF IputEnds, PutRef, Wakeup, FlagsKept, dinodes, copies, BusyInv, Holding
<1> QED
    BY <1>0, <1>1, <1>2, <1>3, <1>4, <1>5, <1>6, <1>7, <1>8, <1>9, <1>10, <1>11, <1>12, <1>13, <1>14, <1>15, <1>16, <1>17, <1>18 DEF InodeNext

(* A copy is read under the lock, and changed with the disk.               *)
LEMMA CopyKept ==
    ASSUME InodeInv, [InodeNext]_inodeVars
    PROVE  CopyInv'
<1> USE InodeAssumption DEF InodeInv, InodeTypeOK, HandInv, At
<1>0. CASE UNCHANGED inodeVars
    BY <1>0 DEF inodeVars, dinodes, icache, copies, CopyInv, BusyInv, EntryInv, FreeInv, AllocInv, Users, Holding
<1>1. ASSUME NEW p \in Caller, NEW n \in Inum, NEW i \in Entry, Arrives(p, n, i) PROVE CopyInv'
    BY <1>1, ArrivesCopy
<1>2. ASSUME NEW p \in Caller, NEW n \in Inum, Lookup(p, n) PROVE CopyInv'
    BY <1>1, <1>2, LookupArrives
<1>3. ASSUME NEW p \in Caller, NEW n \in Inum, Ialloc(p, n) PROVE CopyInv'
    BY <1>3, IallocCopy
<1>4. ASSUME NEW p \in Caller, NEW q \in Caller, Idup(p, q) PROVE CopyInv'
    BY <1>1, <1>4, IdupArrives
<1>5. ASSUME NEW p \in Caller, IallocIget(p) PROVE CopyInv'
    BY <1>1, <1>5, IallocArrives
<1>6. ASSUME NEW p \in Caller, CallIlock(p) PROVE CopyInv'
    BY <1>6, InHand DEF CallIlock, dinodes, icache, copies, CopyInv, BusyInv, EntryInv, FreeInv, AllocInv, Users, Holding
<1>7. ASSUME NEW p \in Caller, Ilock(p) PROVE CopyInv'
    BY <1>7, InHand DEF Ilock, dinodes, copies, CopyInv, BusyInv, EntryInv, FreeInv, AllocInv, Users, Holding
<1>8. ASSUME NEW p \in Caller, IlockRead(p) PROVE CopyInv'
    BY <1>8, IlockReadCopy
<1>9. ASSUME NEW p \in Caller, CallIunlock(p) PROVE CopyInv'
    BY <1>9, InHand DEF CallIunlock, Iunlock, Wakeup, dinodes, copies, CopyInv, BusyInv, EntryInv, FreeInv, AllocInv, Users, Holding
<1>10. ASSUME NEW p \in Caller, Create(p) PROVE CopyInv'
    BY <1>10, InHand DEF Create, SetLinks, Entered, CopyInv, BusyInv, EntryInv, FreeInv, AllocInv, Users, Holding
<1>11. ASSUME NEW p \in Caller, Unlink(p) PROVE CopyInv'
    BY <1>11, InHand DEF Unlink, SetLinks, Entered, CopyInv, BusyInv, EntryInv, FreeInv, AllocInv, Users, Holding
<1>12. ASSUME NEW p \in Caller, Link(p) PROVE CopyInv'
    BY <1>12, InHand DEF Link, SetLinks, Iunlock, Wakeup, CopyInv, BusyInv, EntryInv, FreeInv, AllocInv, Users, Holding
<1>13. ASSUME NEW p \in Caller, LinkEnters(p) PROVE CopyInv'
    BY <1>13, InHand DEF LinkEnters, Entered, dinodes, icache, copies, CopyInv, BusyInv, EntryInv, FreeInv, AllocInv, Users, Holding
<1>14. ASSUME NEW p \in Caller, LinkFails(p) PROVE CopyInv'
    BY <1>14, InHand DEF LinkFails, dinodes, icache, copies, CopyInv, BusyInv, EntryInv, FreeInv, AllocInv, Users, Holding
<1>15. ASSUME NEW p \in Caller, LinkUndone(p) PROVE CopyInv'
    BY <1>15, InHand DEF LinkUndone, SetLinks, Iunlock, Wakeup, CopyInv, BusyInv, EntryInv, FreeInv, AllocInv, Users, Holding
<1>16. ASSUME NEW p \in Caller, Iput(p) PROVE CopyInv'
    BY SMTT(20), <1>16, InHand DEF Iput, LastUse, PutRef, dinodes, copies, CopyInv, BusyInv, EntryInv, FreeInv, AllocInv, Users, Holding
<1>17. ASSUME NEW p \in Caller, IputFrees(p) PROVE CopyInv'
    BY <1>17, InHand DEF IputFrees, CopyInv, BusyInv, EntryInv, FreeInv, AllocInv, Users, Holding
<1>18. ASSUME NEW p \in Caller, IputEnds(p) PROVE CopyInv'
    BY <1>18, IputEndsCopy
<1> QED
    BY <1>0, <1>1, <1>2, <1>3, <1>4, <1>5, <1>6, <1>7, <1>8, <1>9, <1>10, <1>11, <1>12, <1>13, <1>14, <1>15, <1>16, <1>17, <1>18 DEF InodeNext

(* iput() frees an inode that is nobody else's.                            *)
LEMMA FreeKept ==
    ASSUME InodeInv, [InodeNext]_inodeVars
    PROVE  FreeInv'
<1> USE InodeAssumption DEF InodeInv, InodeTypeOK, HandInv, At
<1>0. CASE UNCHANGED inodeVars
    BY <1>0 DEF inodeVars, dinodes, icache, copies, FreeInv, CopyInv, BusyInv, EntryInv, AllocInv, Users, Creating, LinkInv, Owing, Owes, Holding
<1>1. ASSUME NEW p \in Caller, NEW n \in Inum, NEW i \in Entry, Arrives(p, n, i) PROVE FreeInv'
    BY <1>1, ArrivesFree
<1>2. ASSUME NEW p \in Caller, NEW n \in Inum, Lookup(p, n) PROVE FreeInv'
    BY <1>1, <1>2, LookupArrives
<1>3. ASSUME NEW p \in Caller, NEW n \in Inum, Ialloc(p, n) PROVE FreeInv'
    BY <1>3 DEF Ialloc, icache, copies, FreeInv, CopyInv, BusyInv, EntryInv, AllocInv, Users, Creating, LinkInv, Owing, Owes, Holding
<1>4. ASSUME NEW p \in Caller, NEW q \in Caller, Idup(p, q) PROVE FreeInv'
    BY <1>1, <1>4, IdupArrives
<1>5. ASSUME NEW p \in Caller, IallocIget(p) PROVE FreeInv'
    BY <1>1, <1>5, IallocArrives
<1>6. ASSUME NEW p \in Caller, CallIlock(p) PROVE FreeInv'
    BY <1>6, InHand DEF CallIlock, dinodes, icache, copies, FreeInv, CopyInv, BusyInv, EntryInv, AllocInv, Users, Creating, LinkInv, Owing, Owes, Holding
<1>7. ASSUME NEW p \in Caller, Ilock(p) PROVE FreeInv'
    BY <1>7, InHand DEF Ilock, dinodes, copies, FreeInv, CopyInv, BusyInv, EntryInv, AllocInv, Users, Creating, LinkInv, Owing, Owes, Holding
<1>8. ASSUME NEW p \in Caller, IlockRead(p) PROVE FreeInv'
    BY <1>8, IlockReadFree
<1>9. ASSUME NEW p \in Caller, CallIunlock(p) PROVE FreeInv'
    BY <1>9, InHand DEF CallIunlock, Iunlock, Wakeup, dinodes, copies, FreeInv, CopyInv, BusyInv, EntryInv, AllocInv, Users, Creating, LinkInv, Owing, Owes, Holding
<1>10. ASSUME NEW p \in Caller, Create(p) PROVE FreeInv'
    BY <1>10, InHand DEF Create, SetLinks, Entered, FreeInv, CopyInv, BusyInv, EntryInv, AllocInv, Users, Creating, LinkInv, Owing, Owes, Holding
<1>11. ASSUME NEW p \in Caller, Unlink(p) PROVE FreeInv'
    BY <1>11, InHand DEF Unlink, SetLinks, Entered, FreeInv, CopyInv, BusyInv, EntryInv, AllocInv, Users, Creating, LinkInv, Owing, Owes, Holding
<1>12. ASSUME NEW p \in Caller, Link(p) PROVE FreeInv'
    BY <1>12, InHand DEF Link, SetLinks, Iunlock, Wakeup, FreeInv, CopyInv, BusyInv, EntryInv, AllocInv, Users, Creating, LinkInv, Owing, Owes, Holding
<1>13. ASSUME NEW p \in Caller, LinkEnters(p) PROVE FreeInv'
    BY <1>13, InHand DEF LinkEnters, Entered, dinodes, icache, copies, FreeInv, CopyInv, BusyInv, EntryInv, AllocInv, Users, Creating, LinkInv, Owing, Owes, Holding
<1>14. ASSUME NEW p \in Caller, LinkFails(p) PROVE FreeInv'
    BY <1>14, InHand DEF LinkFails, dinodes, icache, copies, FreeInv, CopyInv, BusyInv, EntryInv, AllocInv, Users, Creating, LinkInv, Owing, Owes, Holding
<1>15. ASSUME NEW p \in Caller, LinkUndone(p) PROVE FreeInv'
    BY <1>15, InHand DEF LinkUndone, SetLinks, Iunlock, Wakeup, FreeInv, CopyInv, BusyInv, EntryInv, AllocInv, Users, Creating, LinkInv, Owing, Owes, Holding
<1>16. ASSUME NEW p \in Caller, Iput(p) PROVE FreeInv'
    BY <1>16, InHand DEF Iput, LastUse, PutRef, dinodes, copies, FreeInv, CopyInv, BusyInv, EntryInv, AllocInv, Users, Creating, LinkInv, Owing, Owes, Holding
<1>17. ASSUME NEW p \in Caller, IputFrees(p) PROVE FreeInv'
    BY <1>17, IputFreesFree
<1>18. ASSUME NEW p \in Caller, IputEnds(p) PROVE FreeInv'
    BY <1>18, InHand DEF IputEnds, PutRef, Wakeup, FlagsKept, dinodes, copies, FreeInv, CopyInv, BusyInv, EntryInv, AllocInv, Users, Creating, LinkInv, Owing, Owes, Holding
<1> QED
    BY <1>0, <1>1, <1>2, <1>3, <1>4, <1>5, <1>6, <1>7, <1>8, <1>9, <1>10, <1>11, <1>12, <1>13, <1>14, <1>15, <1>16, <1>17, <1>18 DEF InodeNext

(* An inode is allocated for as long as it is named or used.               *)
LEMMA AllocKept ==
    ASSUME InodeInv, [InodeNext]_inodeVars
    PROVE  AllocInv'
<1> USE InodeAssumption DEF InodeInv, InodeTypeOK, HandInv, At
<1>0. CASE UNCHANGED inodeVars
    BY <1>0 DEF inodeVars, dinodes, icache, copies, AllocInv, FreeInv, CopyInv, BusyInv, EntryInv, LinkInv, Users, Creating, Owing, Owes, Holding
<1>1. ASSUME NEW p \in Caller, NEW n \in Inum, NEW i \in Entry, Arrives(p, n, i) PROVE AllocInv'
    BY <1>1, ArrivesAlloc
<1>2. ASSUME NEW p \in Caller, NEW n \in Inum, Lookup(p, n) PROVE AllocInv'
    BY <1>1, <1>2, LookupArrives
<1>3. ASSUME NEW p \in Caller, NEW n \in Inum, Ialloc(p, n) PROVE AllocInv'
    BY <1>3, IallocAlloc
<1>4. ASSUME NEW p \in Caller, NEW q \in Caller, Idup(p, q) PROVE AllocInv'
    BY <1>1, <1>4, IdupArrives
<1>5. ASSUME NEW p \in Caller, IallocIget(p) PROVE AllocInv'
    BY <1>1, <1>5, IallocArrives
<1>6. ASSUME NEW p \in Caller, CallIlock(p) PROVE AllocInv'
    BY <1>6, InHand DEF CallIlock, dinodes, icache, copies, AllocInv, FreeInv, CopyInv, BusyInv, EntryInv, LinkInv, Users, Creating, Owing, Owes, Holding
<1>7. ASSUME NEW p \in Caller, Ilock(p) PROVE AllocInv'
    BY <1>7, InHand DEF Ilock, dinodes, copies, AllocInv, FreeInv, CopyInv, BusyInv, EntryInv, LinkInv, Users, Creating, Owing, Owes, Holding
<1>8. ASSUME NEW p \in Caller, IlockRead(p) PROVE AllocInv'
    BY <1>8, InHand DEF IlockRead, dinodes, AllocInv, FreeInv, CopyInv, BusyInv, EntryInv, LinkInv, Users, Creating, Owing, Owes, Holding
<1>9. ASSUME NEW p \in Caller, CallIunlock(p) PROVE AllocInv'
    BY <1>9, InHand DEF CallIunlock, Iunlock, Wakeup, dinodes, copies, AllocInv, FreeInv, CopyInv, BusyInv, EntryInv, LinkInv, Users, Creating, Owing, Owes, Holding
<1>10. ASSUME NEW p \in Caller, Create(p) PROVE AllocInv'
    BY <1>10, InHand DEF Create, SetLinks, Entered, AllocInv, FreeInv, CopyInv, BusyInv, EntryInv, LinkInv, Users, Creating, Owing, Owes, Holding
<1>11. ASSUME NEW p \in Caller, Unlink(p) PROVE AllocInv'
    BY <1>11, InHand DEF Unlink, SetLinks, Entered, AllocInv, FreeInv, CopyInv, BusyInv, EntryInv, LinkInv, Users, Creating, Owing, Owes, Holding
<1>12. ASSUME NEW p \in Caller, Link(p) PROVE AllocInv'
    BY SMTT(20), <1>12, InHand DEF Link, SetLinks, Iunlock, Wakeup, AllocInv, FreeInv, CopyInv, BusyInv, EntryInv, LinkInv, Users, Creating, Owing, Owes, Holding
<1>13. ASSUME NEW p \in Caller, LinkEnters(p) PROVE AllocInv'
    BY <1>13, InHand DEF LinkEnters, Entered, dinodes, icache, copies, AllocInv, FreeInv, CopyInv, BusyInv, EntryInv, LinkInv, Users, Creating, Owing, Owes, Holding
<1>14. ASSUME NEW p \in Caller, LinkFails(p) PROVE AllocInv'
    BY <1>14, InHand DEF LinkFails, dinodes, icache, copies, AllocInv, FreeInv, CopyInv, BusyInv, EntryInv, LinkInv, Users, Creating, Owing, Owes, Holding
<1>15. ASSUME NEW p \in Caller, LinkUndone(p) PROVE AllocInv'
    BY SMTT(20), <1>15, InHand DEF LinkUndone, SetLinks, Iunlock, Wakeup, AllocInv, FreeInv, CopyInv, BusyInv, EntryInv, LinkInv, Users, Creating, Owing, Owes, Holding
<1>16. ASSUME NEW p \in Caller, Iput(p) PROVE AllocInv'
    BY <1>16, IputAlloc
<1>17. ASSUME NEW p \in Caller, IputFrees(p) PROVE AllocInv'
    BY <1>17, IputFreesAlloc
<1>18. ASSUME NEW p \in Caller, IputEnds(p) PROVE AllocInv'
    BY <1>18, IputEndsAlloc
<1> QED
    BY <1>0, <1>1, <1>2, <1>3, <1>4, <1>5, <1>6, <1>7, <1>8, <1>9, <1>10, <1>11, <1>12, <1>13, <1>14, <1>15, <1>16, <1>17, <1>18 DEF InodeNext

LEMMA RefKept ==
    ASSUME InodeInv, [InodeNext]_inodeVars
    PROVE  RefInv'
<1>0. ASSUME UNCHANGED <<ip, ref>>
      PROVE  RefInv'
    <2>1. RefInv
        BY DEF InodeInv
    <2> QED
        BY ONLY <1>0, <2>1 DEF RefInv
<1>1. ASSUME NEW p \in Caller, NEW n \in Inum, NEW i \in Entry, Arrives(p, n, i)
      PROVE  RefInv'
    <2> SUFFICES ASSUME NEW j \in Entry
                 PROVE  ref'[j] = Cardinality({q \in Caller : ip'[q] = j})
        BY DEF RefInv
    <2>1. /\ ip'[p] = i /\ ip[p] = NoEntry /\ ref'[i] = ref[i] + 1 /\ i # NoEntry /\ ref[i] \in Nat
          /\ \A q \in Caller \ {p} : ip'[q] = ip[q]
          /\ \A k \in Entry \ {i} : ref'[k] = ref[k]
        BY <1>1, Arrived
    <2>2. /\ IsFiniteSet({q \in Caller : ip[q] = j})
          /\ ref[j] = Cardinality({q \in Caller : ip[q] = j})
        BY RefCounts DEF InodeInv, RefInv
    <2>3. CASE j = i
        <3>1. {q \in Caller : ip'[q] = i} = {q \in Caller : ip[q] = i} \cup {p}
            BY <2>1
        <3>2. p \notin {q \in Caller : ip[q] = i} /\ IsFiniteSet({q \in Caller : ip[q] = i})
            BY <2>1, <2>2, <2>3
        <3>3. Cardinality({q \in Caller : ip[q] = i} \cup {p}) = Cardinality({q \in Caller : ip[q] = i}) + 1
            BY ONLY <3>2, FS_AddElement
        <3>4. ref'[j] = ref[j] + 1
            BY <2>1, <2>3
        <3> QED
            BY <2>2, <2>3, <3>1, <3>3, <3>4
    <2>4. CASE j # i
        <3>1. {q \in Caller : ip'[q] = j} = {q \in Caller : ip[q] = j}
            BY <2>1, <2>4, InodeAssumption DEF Entry, NoEntry
        <3> QED
            BY <2>1, <2>2, <2>4, <3>1
    <2> QED
        BY <2>3, <2>4
<1>2. ASSUME NEW p \in Caller, ip[p] \in Entry, PutRef(p)
      PROVE  RefInv'
    <2> SUFFICES ASSUME NEW j \in Entry
                 PROVE  ref'[j] = Cardinality({q \in Caller : ip'[q] = j})
        BY DEF RefInv
    <2>1. /\ ip'[p] = NoEntry /\ ref'[ip[p]] = ref[ip[p]] - 1 /\ ip[p] # NoEntry
          /\ \A q \in Caller \ {p} : ip'[q] = ip[q]
          /\ \A k \in Entry \ {ip[p]} : ref'[k] = ref[k]
        BY <1>2, PutRefs
    <2>2. /\ IsFiniteSet({q \in Caller : ip[q] = j})
          /\ ref[j] = Cardinality({q \in Caller : ip[q] = j})
        BY RefCounts DEF InodeInv, RefInv
    <2>3. CASE j = ip[p]
        <3>1. {q \in Caller : ip'[q] = j} = {q \in Caller : ip[q] = j} \ {p}
            BY <2>1, <2>3
        <3>2. p \in {q \in Caller : ip[q] = j}
            BY <2>3
        <3> QED
            BY <2>1, <2>2, <2>3, <3>1, <3>2, FS_RemoveElement
    <2>4. CASE j # ip[p]
        <3>1. {q \in Caller : ip'[q] = j} = {q \in Caller : ip[q] = j}
            BY <2>1, <2>4, InodeAssumption DEF Entry, NoEntry
        <3> QED
            BY <2>1, <2>2, <2>4, <3>1
    <2> QED
        BY <2>3, <2>4
<1>3. ASSUME NEW p \in Caller, NEW n \in Inum, Lookup(p, n) PROVE RefInv'
    BY <1>1, <1>3, LookupArrives
<1>4. ASSUME NEW p \in Caller, NEW q \in Caller, Idup(p, q) PROVE RefInv'
    BY <1>1, <1>4, IdupArrives
<1>5. ASSUME NEW p \in Caller, IallocIget(p) PROVE RefInv'
    BY <1>1, <1>5, IallocArrives
<1>6. ASSUME NEW p \in Caller, Iput(p) PROVE RefInv'
    <2>1. ip[p] \in Entry
        BY <1>6, InHand DEF Iput, At
    <2> QED
        BY <1>0, <1>2, <1>6, <2>1 DEF Iput
<1>7. ASSUME NEW p \in Caller, IputEnds(p) PROVE RefInv'
    BY <1>2, <1>7, IputEnded
<1>8. ASSUME NEW p \in Caller, NEW n \in Inum, Ialloc(p, n) PROVE RefInv'
    BY <1>0, <1>8 DEF Ialloc, icache
<1>9. ASSUME NEW p \in Caller,
             CallIlock(p) \/ Ilock(p) \/ IlockRead(p) \/ CallIunlock(p) \/ Create(p) \/ Unlink(p)
             \/ Link(p) \/ LinkEnters(p) \/ LinkFails(p) \/ LinkUndone(p) \/ IputFrees(p)
      PROVE  RefInv'
    BY <1>0, <1>9 DEF CallIlock, Ilock, IlockRead, CallIunlock, Create, Unlink, Link, LinkEnters,
        LinkFails, LinkUndone, IputFrees, icache
<1>10. CASE UNCHANGED inodeVars
    BY <1>0, <1>10 DEF inodeVars, icache
<1> QED
    BY <1>3, <1>4, <1>5, <1>6, <1>7, <1>8, <1>9, <1>10 DEF InodeNext

(* What a process that has its inode locked reads of it                    *)
LEMMA LockedLinks ==
    ASSUME InodeInv, NEW p \in Caller, ipc[p] = "locked"
    PROVE  /\ ip[p] \in Entry /\ ip[p] # NoEntry /\ inum[ip[p]] \in Inum /\ new[p] = NoInum
           /\ inlink[ip[p]] = dnlink[inum[ip[p]]] /\ itype[ip[p]] = "file"
           /\ p \in Users(inum[ip[p]]) /\ dtype[inum[ip[p]]] = "file"
<1>1. /\ ip[p] \in Entry /\ ip[p] # NoEntry /\ inum[ip[p]] \in Inum /\ new[p] = NoInum
      /\ ref[ip[p]] > 0
    BY InHand DEF InodeInv, HandInv
<1>2. ip[p] \in ivalid
    BY DEF InodeInv, FreeInv
<1>3. \A q \in Caller : ip[q] = ip[p] => ipc[q] # "freed"
    BY DEF InodeInv, BusyInv, Holding
<1>4. inlink[ip[p]] = dnlink[inum[ip[p]]] /\ itype[ip[p]] = "file"
    BY <1>1, <1>2, <1>3 DEF InodeInv, CopyInv
<1>5. p \in Users(inum[ip[p]])
    BY <1>1 DEF Users
<1>6. dtype[inum[ip[p]]] = "file"
    BY <1>1, <1>5 DEF InodeInv, AllocInv
<1> QED
    BY <1>1, <1>4, <1>5, <1>6

(* Who owes what, after a step                                             *)
LEMMA OwingSame ==
    ASSUME inum' = inum,
           \A q \in Caller : \/ ip'[q] = ip[q] /\ (Owes(q)' <=> Owes(q))
                             \/ ~Owes(q) /\ ~Owes(q)'
    PROVE  \A m \in Inum : Owing(m)' = Owing(m)
BY DEF Owing

LEMMA OwingMore ==
    ASSUME UNCHANGED <<inum, ip>>, NEW p \in Caller, ip[p] # NoEntry, ~Owes(p), Owes(p)',
           \A q \in Caller \ {p} : Owes(q)' <=> Owes(q)
    PROVE  \A m \in Inum : IF m = inum[ip[p]] THEN p \notin Owing(m) /\ Owing(m)' = Owing(m) \cup {p}
                                             ELSE Owing(m)' = Owing(m)
BY DEF Owing

LEMMA OwingLess ==
    ASSUME UNCHANGED <<inum, ip>>, NEW p \in Caller, ip[p] # NoEntry, Owes(p), ~Owes(p)',
           \A q \in Caller \ {p} : Owes(q)' <=> Owes(q)
    PROVE  \A m \in Inum : IF m = inum[ip[p]] THEN p \in Owing(m) /\ Owing(m)' = Owing(m) \ {p}
                                             ELSE Owing(m)' = Owing(m)
BY DEF Owing

(* The links of one inode change, in step with what names and owes them.   *)
LEMMA LinksChange ==
    ASSUME InodeInv, NEW n \in Inum, NEW a \in Int, NEW b \in Int, NEW c \in Int, a = b + c,
           dnlink'[n] = dnlink[n] + a, entries'[n] = entries[n] + b,
           \/ Owing(n)' = Owing(n) /\ c = 0
           \/ \E p : p \notin Owing(n) /\ Owing(n)' = Owing(n) \cup {p} /\ c = 1
           \/ \E p : p \in Owing(n) /\ Owing(n)' = Owing(n) \ {p} /\ c = -1,
           \A m \in Inum : m # n => dnlink'[m] = dnlink[m] /\ entries'[m] = entries[m] /\ Owing(m)' = Owing(m)
    PROVE  LinkInv'
<1>1. /\ \A m \in Inum : dnlink[m] = entries[m] + Cardinality(Owing(m))
      /\ IsFiniteSet(Owing(n)) /\ Cardinality(Owing(n)) \in Nat
      /\ entries[n] \in Nat
    BY Owed
<1>2. Cardinality(Owing(n)') = Cardinality(Owing(n)) + c
    <2>1. CASE Owing(n)' = Owing(n) /\ c = 0
        BY <1>1, <2>1
    <2>2. ASSUME NEW p, p \notin Owing(n), Owing(n)' = Owing(n) \cup {p}, c = 1
          PROVE  Cardinality(Owing(n)') = Cardinality(Owing(n)) + 1
        <3>1. Cardinality(Owing(n) \cup {p}) = Cardinality(Owing(n)) + 1
            BY <1>1, <2>2, FS_AddElement
        <3> QED
            BY <2>2, <3>1
    <2>3. ASSUME NEW p, p \in Owing(n), Owing(n)' = Owing(n) \ {p}, c = -1
          PROVE  Cardinality(Owing(n)') = Cardinality(Owing(n)) - 1
        BY <1>1, <2>3, FS_RemoveElement
    <2>4. Cardinality(Owing(n)) - 1 = Cardinality(Owing(n)) + (-1)
        BY <1>1
    <2> QED
        BY <2>1, <2>2, <2>3, <2>4
<1>3. dnlink'[n] = entries'[n] + Cardinality(Owing(n)')
    BY <1>1, <1>2
<1>4. ASSUME NEW m \in Inum, m # n
      PROVE  dnlink'[m] = entries'[m] + Cardinality(Owing(m)')
    BY <1>1, <1>4
<1> QED
    BY <1>3, <1>4 DEF LinkInv

LEMMA LinksSame ==
    ASSUME InodeInv, UNCHANGED <<dnlink, entries>>, \A m \in Inum : Owing(m)' = Owing(m)
    PROVE  LinkInv'
<1>1. LinkInv
    BY DEF InodeInv
<1> QED
    BY ONLY <1>1, UNCHANGED <<dnlink, entries>>, \A m \in Inum : Owing(m)' = Owing(m) DEF LinkInv

LEMMA LinkKept ==
    ASSUME InodeInv, [InodeNext]_inodeVars
    PROVE  LinkInv'
<1>1. ASSUME NEW p \in Caller, NEW n \in Inum, NEW i \in Entry, Arrives(p, n, i)
      PROVE  LinkInv'
    BY <1>1, Arrived, ArrivesUsers, LinksSame
<1>2. ASSUME NEW p \in Caller, NEW n \in Inum, Lookup(p, n) PROVE LinkInv'
    BY <1>1, <1>2, LookupArrives
<1>3. ASSUME NEW p \in Caller, NEW q \in Caller, Idup(p, q) PROVE LinkInv'
    BY <1>1, <1>3, IdupArrives
<1>4. ASSUME NEW p \in Caller, IallocIget(p) PROVE LinkInv'
    BY <1>1, <1>4, IallocArrives
<1>5. ASSUME NEW p \in Caller, NEW n \in Inum, Ialloc(p, n) PROVE LinkInv'
    <2>1. /\ dtype[n] = "free" /\ dnlink' = [dnlink EXCEPT ![n] = 0]
          /\ ipc[p] = "out" /\ ipc'[p] = "alloc" /\ \A q \in Caller \ {p} : ipc'[q] = ipc[q]
          /\ UNCHANGED <<entries, inum, ip, task>>
        BY <1>5 DEF Ialloc, FreeInodes, At, icache, InodeInv, InodeTypeOK
    <2>2. \A m \in Inum : Owing(m)' = Owing(m)
        <3>1. \A q \in Caller : Owes(q)' <=> Owes(q)
            BY <2>1 DEF Owes
        <3> QED
            BY <2>1, <3>1, OwingSame
    <2>3. dnlink[n] = 0
        BY <2>1, FreeAlone, Owed
    <2>4. dnlink' = dnlink
        BY <2>1, <2>3 DEF InodeInv, InodeTypeOK
    <2> QED
        BY <2>1, <2>2, <2>4, LinksSame
<1>6. ASSUME NEW p \in Caller, CallIlock(p) \/ Ilock(p) \/ IlockRead(p) \/ CallIunlock(p) \/ LinkFails(p)
      PROVE  LinkInv'
    <2>1. UNCHANGED <<dnlink, entries, inum, ip>>
        BY <1>6 DEF CallIlock, Ilock, IlockRead, CallIunlock, LinkFails, dinodes, icache
    <2>2. \A q \in Caller : Owes(q)' <=> Owes(q)
        BY <1>6 DEF CallIlock, Ilock, IlockRead, CallIunlock, LinkFails, Iunlock, Wakeup, At, Owes,
            InodeInv, InodeTypeOK, HandInv
    <2> QED
        BY <2>1, <2>2, OwingSame, LinksSame
<1>7. ASSUME NEW p \in Caller, Create(p) PROVE LinkInv'
    <2>0. PICK n \in Inum : n = inum[ip[p]]
        BY <1>7, LockedLinks DEF Create
    <2>1. /\ ip[p] # NoEntry /\ n \in Inum /\ p \in Users(n) /\ task[p] = "create"
        BY <2>0, <1>7, LockedLinks DEF Create
    <2>2. entries[n] = 0 /\ Users(n) = {p}
        BY <2>0, <2>1 DEF InodeInv, AllocInv, Creating
    <2>3. Owing(n) = {}
        <3>1. p \notin Owing(n)
            BY <2>0, <1>7 DEF Create, Owing, Owes
        <3> QED
            BY <2>0, <2>1, <2>2, <3>1, Owed
    <2>4. dnlink[n] = 0
        BY <2>0, <2>1, <2>2, <2>3, Owed
    <2>5. /\ dnlink' = [dnlink EXCEPT ![n] = 1] /\ entries' = [entries EXCEPT ![n] = @ + 1]
          /\ UNCHANGED <<inum, ip, ipc>> /\ task' = [task EXCEPT ![p] = "use"]
        BY <2>0, <1>7 DEF Create, SetLinks, Entered
    <2>6. \A m \in Inum : Owing(m)' = Owing(m)
        <3>1. \A q \in Caller : Owes(q)' <=> Owes(q)
            BY <2>0, <2>1, <2>5 DEF Owes, InodeInv, InodeTypeOK
        <3> QED
            BY <2>0, <2>5, <3>1, OwingSame
    <2>7. /\ dnlink'[n] = dnlink[n] + 1 /\ entries'[n] = entries[n] + 1 /\ 1 = 1 + 0
          /\ \A m \in Inum : m # n => dnlink'[m] = dnlink[m] /\ entries'[m] = entries[m]
        BY <2>0, <2>1, <2>4, <2>5 DEF InodeInv, InodeTypeOK
    <2> QED
        BY <2>0, <2>1, <2>6, <2>7, LinksChange
<1>8. ASSUME NEW p \in Caller, Unlink(p) PROVE LinkInv'
    <2>0. PICK n \in Inum : n = inum[ip[p]]
        BY <1>8, LockedLinks DEF Unlink
    <2>1. /\ n \in Inum /\ inlink[ip[p]] = dnlink[n]
        BY <2>0, <1>8, LockedLinks DEF Unlink
    <2>2. /\ dnlink' = [dnlink EXCEPT ![n] = inlink[ip[p]] - 1] /\ entries' = [entries EXCEPT ![n] = @ + (-1)]
          /\ UNCHANGED <<inum, ip, ipc, task>>
        BY <2>0, <1>8 DEF Unlink, SetLinks, Entered
    <2>3. \A m \in Inum : Owing(m)' = Owing(m)
        BY <2>0, <2>2, OwingSame DEF Owes
    <2>4. /\ dnlink'[n] = dnlink[n] + (-1) /\ entries'[n] = entries[n] + (-1) /\ -1 = (-1) + 0
          /\ \A m \in Inum : m # n => dnlink'[m] = dnlink[m] /\ entries'[m] = entries[m]
        BY <2>0, <2>1, <2>2, InodeAssumption DEF InodeInv, InodeTypeOK
    <2> QED
        BY <2>0, <2>1, <2>3, <2>4, LinksChange
<1>9. ASSUME NEW p \in Caller, Link(p) PROVE LinkInv'
    <2>0. PICK n \in Inum : n = inum[ip[p]]
        BY <1>9, LockedLinks DEF Link
    <2>1. /\ n \in Inum /\ inlink[ip[p]] = dnlink[n] /\ ip[p] # NoEntry
        BY <2>0, <1>9, LockedLinks DEF Link
    <2>2. /\ dnlink' = [dnlink EXCEPT ![n] = inlink[ip[p]] + 1]
          /\ UNCHANGED <<entries, inum, ip, task>>
          /\ ipc[p] = "locked" /\ task[p] = "use" /\ ipc'[p] = "linked"
          /\ \A q \in Caller \ {p} : ipc'[q] = ipc[q] \/ (ipc[q] = "asleep" /\ ipc'[q] = "lock")
        BY <2>0, <1>9 DEF Link, SetLinks, Iunlock, Wakeup
    <2>3. \A m \in Inum : IF m = n THEN p \notin Owing(m) /\ Owing(m)' = Owing(m) \cup {p}
                                  ELSE Owing(m)' = Owing(m)
        <3>1. ~Owes(p) /\ Owes(p)' /\ \A q \in Caller \ {p} : Owes(q)' <=> Owes(q)
            BY <2>0, <2>2 DEF Owes
        <3> QED
            BY <2>0, <2>1, <2>2, <3>1, OwingMore
    <2>4. /\ dnlink'[n] = dnlink[n] + 1 /\ entries'[n] = entries[n] + 0 /\ 1 = 0 + 1
          /\ \A m \in Inum : m # n => dnlink'[m] = dnlink[m] /\ entries'[m] = entries[m]
        BY <2>0, <2>1, <2>2, InodeAssumption DEF InodeInv, InodeTypeOK
    <2> QED
        BY <2>0, <2>1, <2>3, <2>4, LinksChange
<1>10. ASSUME NEW p \in Caller, LinkEnters(p) PROVE LinkInv'
    <2>0. PICK n \in Inum : n = inum[ip[p]]
        BY <1>10, InHand DEF LinkEnters, At
    <2>1. /\ n \in Inum /\ ip[p] # NoEntry
        BY <2>0, <1>10, InHand DEF LinkEnters, At
    <2>2. /\ entries' = [entries EXCEPT ![n] = @ + 1]
          /\ UNCHANGED <<dnlink, inum, ip, task>>
          /\ ipc[p] = "linked" /\ task[p] = "use" /\ ipc' = [ipc EXCEPT ![p] = "ref"]
        BY <2>0, <1>10 DEF LinkEnters, Entered, At, dinodes, icache, InodeInv, HandInv
    <2>3. \A m \in Inum : IF m = n THEN p \in Owing(m) /\ Owing(m)' = Owing(m) \ {p}
                                  ELSE Owing(m)' = Owing(m)
        <3>1. Owes(p) /\ ~Owes(p)' /\ \A q \in Caller \ {p} : Owes(q)' <=> Owes(q)
            BY <2>0, <2>2 DEF Owes, InodeInv, InodeTypeOK
        <3> QED
            BY <2>0, <2>1, <2>2, <3>1, OwingLess
    <2>4. /\ dnlink'[n] = dnlink[n] + 0 /\ entries'[n] = entries[n] + 1 /\ 0 = 1 + (-1)
          /\ \A m \in Inum : m # n => dnlink'[m] = dnlink[m] /\ entries'[m] = entries[m]
        BY <2>0, <2>1, <2>2, InodeAssumption DEF InodeInv, InodeTypeOK
    <2>5. p \in Owing(n) /\ Owing(n)' = Owing(n) \ {p}
        BY <2>0, <2>3
    <2>6. Cardinality(Owing(n)') = Cardinality(Owing(n)) - 1 /\ Cardinality(Owing(n)) \in Nat
        BY <2>5, Owed, FS_RemoveElement
    <2>7. dnlink'[n] = entries'[n] + Cardinality(Owing(n)')
        BY <2>4, <2>6, Owed
    <2>8. ASSUME NEW m \in Inum, m # n
          PROVE  dnlink'[m] = entries'[m] + Cardinality(Owing(m)')
        BY <2>0, <2>3, <2>4, <2>8, Owed
    <2> QED
        BY <2>7, <2>8 DEF LinkInv
<1>11. ASSUME NEW p \in Caller, LinkUndone(p) PROVE LinkInv'
    <2>0. PICK n \in Inum : n = inum[ip[p]]
        BY <1>11, LockedLinks DEF LinkUndone
    <2>1. /\ n \in Inum /\ inlink[ip[p]] = dnlink[n] /\ ip[p] # NoEntry
        BY <2>0, <1>11, LockedLinks DEF LinkUndone
    <2>2. /\ dnlink' = [dnlink EXCEPT ![n] = inlink[ip[p]] - 1]
          /\ UNCHANGED <<entries, inum, ip>> /\ task' = [task EXCEPT ![p] = "use"]
          /\ task[p] = "undo" /\ ipc'[p] = "ref"
          /\ \A q \in Caller \ {p} : ipc'[q] = ipc[q] \/ (ipc[q] = "asleep" /\ ipc'[q] = "lock")
        BY <2>0, <1>11 DEF LinkUndone, SetLinks, Iunlock, Wakeup
    <2>3. \A m \in Inum : IF m = n THEN p \in Owing(m) /\ Owing(m)' = Owing(m) \ {p}
                                  ELSE Owing(m)' = Owing(m)
        <3>1. Owes(p) /\ ~Owes(p)' /\ \A q \in Caller \ {p} : Owes(q)' <=> Owes(q)
            BY <2>0, <2>2 DEF Owes, InodeInv, InodeTypeOK
        <3> QED
            BY <2>0, <2>1, <2>2, <3>1, OwingLess
    <2>4. /\ dnlink'[n] = dnlink[n] + (-1) /\ entries'[n] = entries[n] + 0 /\ -1 = 0 + (-1)
          /\ \A m \in Inum : m # n => dnlink'[m] = dnlink[m] /\ entries'[m] = entries[m]
        BY <2>0, <2>1, <2>2, InodeAssumption DEF InodeInv, InodeTypeOK
    <2> QED
        BY <2>0, <2>1, <2>3, <2>4, LinksChange
<1>12. ASSUME NEW p \in Caller, Iput(p) \/ IputFrees(p) \/ IputEnds(p) PROVE LinkInv'
    <2>1. UNCHANGED <<dnlink, entries, inum>>
        BY <1>12, IputFreed DEF Iput, IputEnds, dinodes
    <2>2. /\ ~Owes(p) /\ ~Owes(p)'
          /\ \A q \in Caller \ {p} : Owes(q)' <=> Owes(q)
        BY <1>12 DEF Iput, IputFrees, IputEnds, At, Wakeup, Owes, InodeInv, InodeTypeOK, HandInv
    <2>3. \A q \in Caller \ {p} : ip'[q] = ip[q]
        BY <1>12 DEF Iput, IputFrees, IputEnds, PutRef, InodeInv, InodeTypeOK
    <2>4. \A m \in Inum : Owing(m)' = Owing(m)
        BY <2>1, <2>2, <2>3, OwingSame
    <2> QED
        BY <2>1, <2>4, LinksSame
<1>13. CASE UNCHANGED inodeVars
    BY <1>13, OwingSame, LinksSame DEF inodeVars, dinodes, icache, Owes
<1> QED
    BY <1>2, <1>3, <1>4, <1>5, <1>6, <1>7, <1>8, <1>9, <1>10, <1>11, <1>12, <1>13 DEF InodeNext

LEMMA InodeInitInv == InodeInit => InodeInv
<1> SUFFICES ASSUME InodeInit PROVE InodeInv
    OBVIOUS
<1>1. InodeTypeOK /\ HandInv /\ EntryInv /\ BusyInv /\ CopyInv /\ FreeInv
    BY InodeAssumption DEF InodeInit, InodeTypeOK, HandInv, EntryInv, BusyInv, CopyInv, FreeInv,
        Holding, Entry, NoEntry
<1>2. \A i \in Entry : {p \in Caller : ip[p] = i} = {}
    BY DEF InodeInit, Entry, NoEntry
<1>3. RefInv
    BY <1>2, FS_EmptySet DEF InodeInit, RefInv
<1>4. \A n \in Inum : Owing(n) = {} /\ Users(n) = {} /\ \A p \in Caller : ~Creating(p, n)
    BY InodeAssumption DEF InodeInit, Owing, Users, Creating
<1>5. LinkInv
    <2>1. ASSUME NEW n \in Inum PROVE dnlink[n] = entries[n] + Cardinality(Owing(n))
        <3>1. Owing(n) = {} /\ Cardinality({}) = 0
            BY <1>4, FS_EmptySet
        <3>2. dnlink[n] = 0 /\ entries[n] = 0
            BY DEF InodeInit
        <3> QED
            BY <3>1, <3>2
    <2> QED
        BY <2>1 DEF LinkInv
<1>6. AllocInv
    BY <1>4 DEF InodeInit, AllocInv
<1> QED
    BY <1>1, <1>3, <1>5, <1>6 DEF InodeInv

LEMMA InodeInvKept == InodeInv /\ [InodeNext]_inodeVars => InodeInv'
BY InodeTypesKept, HandKept, RefKept, EntryKept, BusyKept, LinkKept, CopyKept, AllocKept, FreeKept
    DEF InodeInv

(* The inductive invariant of the inode cache                              *)
THEOREM InodeInvariant == InodeSpec => []InodeInv
BY InodeInitInv, InodeInvKept, PTL DEF InodeSpec

(* The variables of the inode cache have their types.                      *)
THEOREM InodeTypesHold == InodeSpec => []InodeTypeOK
BY InodeInvariant, PTL DEF InodeInv

(* ilock() returns an inode that is allocated, as it is on the disk.       *)
THEOREM LockedIsCurrent == InodeSpec => []LockedCurrent
<1>1. InodeInv => LockedCurrent
    BY LockedLinks DEF LockedCurrent
<1> QED
    BY <1>1, InodeInvariant, PTL

(* Who sleeps in ilock() waits for a process that has the inode locked.    *)
THEOREM InodeSleepersServed == InodeSpec => []LockHeld
<1>1. InodeInv => LockHeld
    BY DEF InodeInv, BusyInv, Holding, LockHeld
<1> QED
    BY <1>1, InodeInvariant, PTL

(* No wakeup is lost, of the buffers and of the inodes.                    *)
THEOREM NoSleeperForgotten == CacheSpec /\ InodeSpec => []SleepersWoken
BY BufferSleepersServed, InodeSleepersServed, PTL DEF SleepersWoken

-----------------------------------------------------------------------------
(***************************************************************************)
(* InodeCache implements Files: one process at a time has an inode locked, *)
(* and an inode is free when nobody names or uses it.                      *)
(***************************************************************************)
FilesStep == [Fi!FilesNext]_(Fi!filesVars)

HasLocked(p, n) == ip[p] # NoEntry /\ ipc[p] \in {"read", "locked"} /\ inum[ip[p]] = n

(* OwnerOf chooses the only one there is.                                  *)
OwnerChosen ==
    /\ \A p \in Caller, n \in Inum : HasLocked(p, n) => OwnerOf(n) = p
    /\ \A p \in Caller, n \in Inum : OwnerOf(n) = p => HasLocked(p, n)
    /\ \A n \in Inum : (\A p \in Caller : ~HasLocked(p, n)) => OwnerOf(n) = Nobody

LEMMA OneOwner == InodeInv => OwnerChosen
<1> SUFFICES ASSUME InodeInv PROVE OwnerChosen
    OBVIOUS
<1>1. ASSUME NEW n \in Inum, NEW p \in Caller
      PROVE  p \in Owners(n) <=> HasLocked(p, n)
    BY InodeAssumption DEF Owners, Users, HasLocked, InodeInv, HandInv
<1>2. ASSUME NEW n \in Inum, NEW p \in Caller, NEW q \in Caller, HasLocked(p, n), HasLocked(q, n)
      PROVE  p = q
    <2>1. ip[p] = ip[q]
        BY <1>2, OneEntry DEF HasLocked
    <2> QED
        BY <1>2, <2>1 DEF HasLocked, InodeInv, BusyInv, Holding
<1>3. \A n \in Inum : Owners(n) \subseteq Caller
    BY DEF Owners, Users
<1>4. \A n \in Inum : IF Owners(n) = {} THEN OwnerOf(n) = Nobody ELSE OwnerOf(n) \in Owners(n)
    BY DEF OwnerOf
<1> QED
    BY <1>1, <1>2, <1>3, <1>4, InodeAssumption DEF OwnerChosen

LEMMA OwnerAfter == InodeInv' => OwnerChosen'
BY OneOwner, PTL

LEMMA SameOwner ==
    ASSUME InodeInv, InodeInv', NEW n \in Inum, \A p \in Caller : HasLocked(p, n)' <=> HasLocked(p, n)
    PROVE  OwnerOf(n)' = OwnerOf(n)
BY OneOwner, OwnerAfter DEF OwnerChosen

(* Who has what locked, while the entries stay                             *)
LEMMA SameOwners ==
    ASSUME InodeInv, InodeInv', inum' = inum,
           \A q \in Caller :
              \/ ip'[q] = ip[q] /\ (ipc'[q] \in {"read", "locked"} <=> ipc[q] \in {"read", "locked"})
              \/ ipc[q] \notin {"read", "locked"} /\ ipc'[q] \notin {"read", "locked"}
    PROVE  \A n \in Inum : OwnerOf(n)' = OwnerOf(n)
<1>1. \A n \in Inum, q \in Caller : HasLocked(q, n)' <=> HasLocked(q, n)
    BY DEF HasLocked
<1> QED
    BY <1>1, SameOwner

LEMMA SameUsers ==
    ASSUME UNCHANGED <<inum, new>>,
           \A q \in Caller :
              \/ ip'[q] = ip[q] /\ (ipc'[q] = "freed" <=> ipc[q] = "freed")
              \/ ip'[q] = NoEntry /\ ipc[q] = "freed"
    PROVE  \A n \in Inum : Users(n)' = Users(n)
BY DEF Users

-----------------------------------------------------------------------------
(* The abstract steps, by what they do to each inode                       *)
LEMMA FilesStutter ==
    ASSUME UNCHANGED <<dtype, entries>>,
           \A n \in Inum : Users(n)' = Users(n), \A n \in Inum : OwnerOf(n)' = OwnerOf(n)
    PROVE  FilesStep
BY DEF FilesStep, Fi!filesVars

LEMMA FileOpened ==
    ASSUME NEW p \in Caller, NEW n \in Inum, UNCHANGED <<dtype, entries>>,
           entries[n] > 0 \/ Users(n) # {},
           \A m \in Inum : Users(m)' = IF m = n THEN Users(n) \cup {p} ELSE Users(m),
           \A m \in Inum : OwnerOf(m)' = OwnerOf(m)
    PROVE  FilesStep
<1>1. Fi!Open(p, n)
    BY DEF Fi!Open, Fi!Refer
<1> QED
    BY <1>1 DEF FilesStep, Fi!FilesNext

LEMMA FileCreated ==
    ASSUME NEW p \in Caller, NEW n \in Inum, dtype \in [Inum -> {"free", "file"}],
           dtype[n] = "free", dtype' = [dtype EXCEPT ![n] = "file"], entries' = entries,
           \A m \in Inum : Users(m)' = IF m = n THEN Users(n) \cup {p} ELSE Users(m),
           \A m \in Inum : OwnerOf(m)' = OwnerOf(m)
    PROVE  FilesStep
<1>1. {m \in Inum : dtype'[m] = "file"} = {m \in Inum : dtype[m] = "file"} \cup {n}
    OBVIOUS
<1>2. [m \in Inum |-> Users(m)]' = [[m \in Inum |-> Users(m)] EXCEPT ![n] = @ \cup {p}]
    OBVIOUS
<1>3. Fi!Create(p, n)
    BY <1>1, <1>2 DEF Fi!Create, Fi!Refer
<1> QED
    BY <1>3 DEF FilesStep, Fi!FilesNext

LEMMA FileLocked ==
    ASSUME NEW p \in Caller, NEW n \in Inum, UNCHANGED <<dtype, entries>>,
           p \in Users(n), OwnerOf(n) = Nobody, OwnerOf(n)' = p,
           \A m \in Inum : m # n => OwnerOf(m)' = OwnerOf(m),
           \A m \in Inum : Users(m)' = Users(m)
    PROVE  FilesStep
<1>1. Fi!Lock(p, n)
    BY DEF Fi!Lock
<1> QED
    BY <1>1 DEF FilesStep, Fi!FilesNext

LEMMA FileUnlocked ==
    ASSUME NEW p \in Caller, NEW n \in Inum, UNCHANGED <<dtype, entries>>,
           OwnerOf(n) = p, OwnerOf(n)' = Nobody,
           \A m \in Inum : m # n => OwnerOf(m)' = OwnerOf(m),
           \A m \in Inum : Users(m)' = Users(m)
    PROVE  FilesStep
<1>1. Fi!Unlock(p, n)
    BY DEF Fi!Unlock
<1> QED
    BY <1>1 DEF FilesStep, Fi!FilesNext

LEMMA FileLinked ==
    ASSUME NEW p \in Caller, NEW n \in Inum, dtype' = dtype,
           p \in Users(n), entries[n] < MaxLink, entries' = [entries EXCEPT ![n] = @ + 1],
           \A m \in Inum : Users(m)' = Users(m), \A m \in Inum : OwnerOf(m)' = OwnerOf(m)
    PROVE  FilesStep
<1>1. Fi!Link(p, n)
    BY DEF Fi!Link
<1> QED
    BY <1>1 DEF FilesStep, Fi!FilesNext

LEMMA FileUnlinked ==
    ASSUME NEW p \in Caller, NEW n \in Inum, dtype' = dtype,
           OwnerOf(n) = p, entries[n] > 0, entries' = [entries EXCEPT ![n] = @ - 1],
           \A m \in Inum : Users(m)' = Users(m), \A m \in Inum : OwnerOf(m)' = OwnerOf(m)
    PROVE  FilesStep
<1>1. Fi!Unlink(p, n)
    BY DEF Fi!Unlink
<1> QED
    BY <1>1 DEF FilesStep, Fi!FilesNext

LEMMA FileForgotten ==
    ASSUME NEW p \in Caller, NEW n \in Inum, dtype \in [Inum -> {"free", "file"}], entries' = entries,
           p \in Users(n), OwnerOf(n) # p,
           \A m \in Inum : Users(m)' = IF m = n THEN Users(n) \ {p} ELSE Users(m),
           IF entries[n] = 0 /\ Users(n) \ {p} = {} THEN dtype' = [dtype EXCEPT ![n] = "free"] ELSE dtype' = dtype,
           \A m \in Inum : OwnerOf(m)' = OwnerOf(m)
    PROVE  FilesStep
<1>1. {m \in Inum : dtype'[m] = "file"} =
        IF entries[n] = 0 /\ Users(n) \ {p} = {} THEN {m \in Inum : dtype[m] = "file"} \ {n}
                                                 ELSE {m \in Inum : dtype[m] = "file"}
    OBVIOUS
<1>2. [m \in Inum |-> Users(m)]' = [[m \in Inum |-> Users(m)] EXCEPT ![n] = @ \ {p}]
    OBVIOUS
<1>3. Fi!Forget(p, n)
    BY <1>1, <1>2 DEF Fi!Forget
<1> QED
    BY <1>3 DEF FilesStep, Fi!FilesNext

-----------------------------------------------------------------------------
(* iget() and idup() open a file: it is there.                             *)
LEMMA ArrivesStep ==
    ASSUME InodeInv, InodeInv', NEW p \in Caller, NEW n \in Inum, NEW i \in Entry, Arrives(p, n, i)
    PROVE  FilesStep
<1>1. \A m \in Inum : Users(m)' = IF m = n THEN Users(n) \cup {p} ELSE Users(m)
    BY ArrivesUsers
<1>2. UNCHANGED <<dtype, entries>>
    BY Arrived
<1>3. dtype'[n] = "file"
    <2>1. Users(n)' # {}
        BY <1>1
    <2> QED
        BY <2>1 DEF InodeInv, AllocInv
<1>4. entries[n] > 0 \/ Users(n) # {}
    BY <1>2, <1>3 DEF InodeInv, AllocInv
<1>5. /\ ipc[p] \notin {"read", "locked"} /\ ipc'[p] \notin {"read", "locked"}
      /\ \A q \in Caller \ {p} :
            /\ ip'[q] = ip[q] /\ ipc'[q] = ipc[q]
            /\ ip[q] # NoEntry => inum'[ip[q]] = inum[ip[q]]
    <2>1. ipc'[p] \in {"ref", "lock"}
        BY DEF Arrives, InodeInv, InodeTypeOK
    <2>2. ipc[p] \in {"out", "alloc"}
        BY Arrived
    <2>3. \A q \in Caller \ {p} :
            /\ ip'[q] = ip[q] /\ ipc'[q] = ipc[q]
            /\ ip[q] # NoEntry => inum'[ip[q]] = inum[ip[q]]
        BY Arrived
    <2> QED
        BY <2>1, <2>2, <2>3
<1>6. \A m \in Inum, q \in Caller : HasLocked(q, m)' <=> HasLocked(q, m)
    BY <1>5 DEF HasLocked
<1> QED
    BY <1>1, <1>2, <1>4, <1>6, SameOwner, FileOpened

LEMMA IallocStep ==
    ASSUME InodeInv, InodeInv', NEW p \in Caller, NEW n \in Inum, Ialloc(p, n)
    PROVE  FilesStep
<1>1. /\ dtype[n] = "free" /\ dtype' = [dtype EXCEPT ![n] = "file"] /\ UNCHANGED <<entries, inum, ip>>
      /\ Users(n) = {} /\ \A m \in Inum : Users(m)' = IF m = n THEN {p} ELSE Users(m)
      /\ ipc[p] = "out" /\ ipc'[p] = "alloc" /\ \A q \in Caller \ {p} : ipc'[q] = ipc[q]
    BY IallocUsers
<1>2. \A m \in Inum : Users(m)' = IF m = n THEN Users(n) \cup {p} ELSE Users(m)
    BY <1>1
<1>3. \A m \in Inum : OwnerOf(m)' = OwnerOf(m)
    BY <1>1, SameOwners
<1>4. dtype \in [Inum -> {"free", "file"}]
    BY DEF InodeInv, InodeTypeOK
<1> QED
    BY <1>1, <1>2, <1>3, <1>4, FileCreated

(* Steps that the promise does not speak of                                *)
LEMMA QuietStep ==
    ASSUME InodeInv, InodeInv', NEW p \in Caller,
           CallIlock(p) \/ LinkFails(p) \/ IlockRead(p) \/ IputEnds(p)
    PROVE  FilesStep
<1>1. UNCHANGED <<dtype, entries, inum, new>>
    BY DEF CallIlock, LinkFails, IlockRead, IputEnds, dinodes, icache
<1>2. \A q \in Caller :
          \/ ip'[q] = ip[q] /\ (ipc'[q] = "freed" <=> ipc[q] = "freed")
          \/ ip'[q] = NoEntry /\ ipc[q] = "freed"
    BY DEF CallIlock, LinkFails, IlockRead, IputEnds, PutRef, Wakeup, At, icache, InodeInv, InodeTypeOK
<1>3. \A q \in Caller :
          \/ ip'[q] = ip[q] /\ (ipc'[q] \in {"read", "locked"} <=> ipc[q] \in {"read", "locked"})
          \/ ipc[q] \notin {"read", "locked"} /\ ipc'[q] \notin {"read", "locked"}
    BY DEF CallIlock, LinkFails, IlockRead, IputEnds, PutRef, Wakeup, At, icache, InodeInv, InodeTypeOK
<1>4. \A n \in Inum : Users(n)' = Users(n)
    BY <1>1, <1>2, SameUsers
<1>5. \A n \in Inum : OwnerOf(n)' = OwnerOf(n)
    BY <1>1, <1>3, SameOwners
<1> QED
    BY <1>1, <1>4, <1>5, FilesStutter

(* ilock() waits for a busy inode, or gets one that nobody has.            *)
LEMMA IlockStep ==
    ASSUME InodeInv, InodeInv', NEW p \in Caller, Ilock(p)
    PROVE  FilesStep
<1>0. PICK n \in Inum : n = inum[ip[p]]
    BY InHand DEF Ilock, At
<1>1. /\ UNCHANGED <<dtype, entries, inum, ip, new>>
      /\ ipc[p] = "lock" /\ ipc'[p] \in {"asleep", "read"}
      /\ \A q \in Caller \ {p} : ipc'[q] = ipc[q]
    BY DEF Ilock, At, dinodes, InodeInv, InodeTypeOK
<1>2. \A m \in Inum : Users(m)' = Users(m)
    BY <1>1, SameUsers
<1>3. CASE ipc'[p] = "asleep"
    <2>1. \A m \in Inum : OwnerOf(m)' = OwnerOf(m)
        BY <1>1, <1>3, SameOwners
    <2> QED
        BY <1>1, <1>2, <2>1, FilesStutter
<1>4. CASE ipc'[p] = "read"
    <2>1. ip[p] \notin ibusy
        BY <1>4 DEF Ilock, At, InodeInv, InodeTypeOK
    <2>2. n \in Inum /\ ip[p] # NoEntry
        BY <1>0, <1>1, InHand
    <2>3. p \in Users(n)
        BY <1>0, <1>1, <2>2 DEF Users
    <2>4. ASSUME NEW q \in Caller, HasLocked(q, n) PROVE FALSE
        <3>1. ip[q] = ip[p]
            BY <1>0, <2>2, <2>4, OneEntry DEF HasLocked
        <3> QED
            BY <2>1, <2>4, <3>1 DEF HasLocked, InodeInv, BusyInv, Holding
    <2>5. OwnerOf(n) = Nobody
        BY <2>2, <2>4, OneOwner DEF OwnerChosen
    <2>6. HasLocked(p, n)'
        BY <1>0, <1>1, <1>4, <2>2 DEF HasLocked
    <2>7. OwnerOf(n)' = p
        BY <2>2, <2>6, OwnerAfter, <1>1 DEF OwnerChosen
    <2>8. ASSUME NEW m \in Inum, m # n
          PROVE  OwnerOf(m)' = OwnerOf(m)
        <3>1. \A q \in Caller : HasLocked(q, m)' <=> HasLocked(q, m)
            BY <1>0, <1>1, <2>8 DEF HasLocked
        <3> QED
            BY <3>1, SameOwner
    <2>9. UNCHANGED <<dtype, entries>>
        BY <1>1
    <2> QED
        BY ONLY <1>2, <2>2, <2>3, <2>5, <2>7, <2>8, <2>9, p \in Caller, FileLocked
<1> QED
    BY <1>1, <1>3, <1>4

(* Whoever has an inode locked leaves it, and wakes the rest.              *)
LEMMA UnlockStep ==
    ASSUME InodeInv, InodeInv', NEW p \in Caller, CallIunlock(p) \/ Link(p) \/ LinkUndone(p)
    PROVE  FilesStep
<1>0. PICK n \in Inum : n = inum[ip[p]]
    BY LockedLinks DEF CallIunlock, Link, LinkUndone
<1>1. /\ UNCHANGED <<entries, inum, ip, new>>
      /\ ipc[p] = "locked" /\ ipc'[p] \in {"ref", "linked"}
      /\ \A q \in Caller \ {p} : ipc'[q] = ipc[q] \/ (ipc[q] = "asleep" /\ ipc'[q] = "lock")
    BY DEF CallIunlock, Link, LinkUndone, Iunlock, Wakeup, dinodes
<1>2. n \in Inum /\ ip[p] # NoEntry /\ itype[ip[p]] = "file" /\ dtype[n] = "file"
    BY <1>0, <1>1, LockedLinks
<1>3. dtype' = dtype
    BY <1>0, <1>2 DEF CallIunlock, Link, LinkUndone, SetLinks, dinodes, InodeInv, InodeTypeOK
<1>4. \A m \in Inum : Users(m)' = Users(m)
    BY <1>1, SameUsers
<1>5. HasLocked(p, n) /\ ~HasLocked(p, n)'
    BY <1>0, <1>1, <1>2 DEF HasLocked
<1>6. OwnerOf(n) = p
    BY <1>2, <1>5, OneOwner DEF OwnerChosen
<1>7. \A q \in Caller \ {p}, m \in Inum : HasLocked(q, m)' <=> HasLocked(q, m)
    BY <1>1 DEF HasLocked
<1>8. \A q \in Caller : HasLocked(q, n) => q = p
    BY <1>2, <1>6, OneOwner DEF OwnerChosen
<1>9. OwnerOf(n)' = Nobody
    <2>1. \A q \in Caller : ~HasLocked(q, n)'
        BY <1>2, <1>5, <1>7, <1>8
    <2> QED
        BY <1>2, <2>1, OwnerAfter DEF OwnerChosen
<1>10. ASSUME NEW m \in Inum, m # n
       PROVE  OwnerOf(m)' = OwnerOf(m)
    <2>1. ~HasLocked(p, m) /\ ~HasLocked(p, m)'
        BY <1>0, <1>1, <1>10 DEF HasLocked
    <2>2. \A q \in Caller : HasLocked(q, m)' <=> HasLocked(q, m)
        BY <1>7, <2>1
    <2> QED
        BY <2>2, SameOwner
<1>11. UNCHANGED <<dtype, entries>>
    BY <1>1, <1>3
<1> QED
    BY ONLY <1>2, <1>4, <1>6, <1>9, <1>10, <1>11, p \in Caller, FileUnlocked

(* create() and sys_link() enter an inode in a directory.                  *)
LEMMA LinkStep ==
    ASSUME InodeInv, InodeInv', NEW p \in Caller, Create(p) \/ LinkEnters(p)
    PROVE  FilesStep
<1> DEFINE n == inum[ip[p]]
<1>1. /\ UNCHANGED <<inum, ip, new>>
      /\ ipc[p] \in {"locked", "linked"} /\ ipc'[p] # "freed"
      /\ \A q \in Caller \ {p} : ipc'[q] = ipc[q]
      /\ ipc[p] = "locked" <=> ipc'[p] = "locked"
      /\ ipc'[p] # "read"
    BY DEF Create, LinkEnters, At, icache, InodeInv, InodeTypeOK
<1>2. entries' = [entries EXCEPT ![n] = @ + 1] /\ entries[n] + 1 \in 0..MaxLink
    BY DEF Create, LinkEnters, Entered
<1>3. n \in Inum /\ p \in Users(n)
    BY <1>1, InHand DEF Users
<1>4. dtype' = dtype
    BY LockedLinks DEF Create, LinkEnters, SetLinks, dinodes, InodeInv, InodeTypeOK
<1>5. \A m \in Inum : Users(m)' = Users(m)
    BY <1>1, SameUsers
<1>6. \A m \in Inum : OwnerOf(m)' = OwnerOf(m)
    BY <1>1, SameOwners
<1>7. entries[n] < MaxLink
    BY <1>2, <1>3, InodeAssumption DEF InodeInv, InodeTypeOK
<1> HIDE DEF n
<1> QED
    BY <1>2, <1>3, <1>4, <1>5, <1>6, <1>7, FileLinked

LEMMA UnlinkStep ==
    ASSUME InodeInv, InodeInv', NEW p \in Caller, Unlink(p)
    PROVE  FilesStep
<1> DEFINE n == inum[ip[p]]
<1>1. /\ UNCHANGED <<inum, ip, new, ipc>> /\ ipc[p] = "locked"
      /\ entries' = [entries EXCEPT ![n] = @ + (-1)] /\ entries[n] + (-1) \in 0..MaxLink
    BY DEF Unlink, Entered
<1>2. n \in Inum /\ ip[p] # NoEntry /\ itype[ip[p]] = "file" /\ dtype[n] = "file"
    BY <1>1, LockedLinks
<1>3. dtype' = dtype
    BY <1>2 DEF Unlink, SetLinks, InodeInv, InodeTypeOK
<1>4. entries[n] \in Nat
    BY <1>2 DEF InodeInv, InodeTypeOK
<1>5. entries' = [entries EXCEPT ![n] = @ - 1] /\ entries[n] > 0
    <2>1. entries[n] + (-1) = entries[n] - 1
        BY <1>4
    <2>2. entries[n] > 0
        BY <1>1, <1>4
    <2>3. entries' = [entries EXCEPT ![n] = @ - 1]
        BY <1>1, <2>1
    <2> QED
        BY <2>2, <2>3
<1>6. \A m \in Inum : Users(m)' = Users(m)
    BY <1>1, SameUsers
<1>7. \A m \in Inum : OwnerOf(m)' = OwnerOf(m)
    BY <1>1, SameOwners
<1>8. OwnerOf(n) = p
    BY <1>1, <1>2, OneOwner DEF OwnerChosen, HasLocked
<1> HIDE DEF n
<1> QED
    BY <1>2, <1>3, <1>5, <1>6, <1>7, <1>8, FileUnlinked

(* iput() takes an inode along with its last use, and no other.            *)
LEMMA IputStep ==
    ASSUME InodeInv, InodeInv', NEW p \in Caller, Iput(p)
    PROVE  FilesStep
<1>1. CASE /\ At(p, "ref", "out") /\ ~LastUse(ip[p]) /\ PutRef(p)
           /\ UNCHANGED <<dinodes, entries, inum, ivalid, ibusy, copies, task, new>>
    <2> DEFINE n == inum[ip[p]]
    <2>1. /\ n \in Inum /\ p \in Users(n)
          /\ \A m \in Inum : m # n => p \notin Users(m)
          /\ \A m \in Inum : Users(m)' = Users(m) \ {p}
        BY <1>1, IputLeft
    <2>2. ~(entries[n] = 0 /\ Users(n) \ {p} = {})
        <3>1. entries[n] > 0 \/ \E q \in Users(n) : q # p
            BY <1>1, NotTheLast DEF At
        <3> QED
            BY <3>1
    <2>3. UNCHANGED <<dtype, entries, inum>> /\ dtype \in [Inum -> {"free", "file"}]
        BY <1>1 DEF dinodes, InodeInv, InodeTypeOK
    <2>4. /\ ipc[p] = "ref" /\ ipc'[p] = "out"
          /\ \A q \in Caller \ {p} : ipc'[q] = ipc[q] /\ ip'[q] = ip[q]
        BY <1>1 DEF At, PutRef, InodeInv, InodeTypeOK
    <2>5. \A m \in Inum : OwnerOf(m)' = OwnerOf(m)
        BY <2>3, <2>4, SameOwners
    <2>6. OwnerOf(n) # p
        BY <2>1, <2>4, OneOwner DEF OwnerChosen, HasLocked
    <2>7. \A m \in Inum : Users(m)' = IF m = n THEN Users(n) \ {p} ELSE Users(m)
        BY <2>1
    <2> HIDE DEF n
    <2> QED
        BY <2>1, <2>2, <2>3, <2>5, <2>6, <2>7, FileForgotten
<1>2. CASE /\ At(p, "ref", "free")
           /\ UNCHANGED <<dinodes, entries, inum, ref, ivalid, copies, task, ip, new>>
    <2>1. /\ UNCHANGED <<dtype, entries, inum, ip, new>>
          /\ ipc[p] = "ref" /\ ipc'[p] = "free" /\ \A q \in Caller \ {p} : ipc'[q] = ipc[q]
        BY <1>2 DEF At, dinodes, InodeInv, InodeTypeOK
    <2>2. \A m \in Inum : Users(m)' = Users(m)
        BY <2>1, SameUsers
    <2>3. \A m \in Inum : OwnerOf(m)' = OwnerOf(m)
        BY <2>1, SameOwners
    <2> QED
        BY <2>1, <2>2, <2>3, FilesStutter
<1> QED
    BY <1>1, <1>2 DEF Iput

LEMMA IputFreesStep ==
    ASSUME InodeInv, InodeInv', NEW p \in Caller, IputFrees(p)
    PROVE  FilesStep
<1> DEFINE n == inum[ip[p]]
<1>1. /\ ip[p] \in Entry /\ ip[p] # NoEntry /\ n \in Inum
      /\ ipc[p] = "free" /\ ipc'[p] = "freed" /\ task[p] = "use" /\ new[p] = NoInum
      /\ \A q \in Caller \ {p} : ipc'[q] = ipc[q]
      /\ dtype' = [dtype EXCEPT ![n] = "free"]
      /\ entries[n] = 0 /\ Users(n) = {p}
      /\ UNCHANGED <<entries, inum, task, ip, new>>
    BY IputFreed
<1>2. \A m \in Inum : Users(m)' = Users(m) \ {p}
    BY <1>1, UserLeaves
<1>3. \A m \in Inum : m # n => p \notin Users(m)
    BY <1>1, OneInode
<1>4. \A m \in Inum : Users(m)' = IF m = n THEN Users(n) \ {p} ELSE Users(m)
    BY <1>2, <1>3
<1>5. \A m \in Inum : OwnerOf(m)' = OwnerOf(m)
    BY <1>1, SameOwners
<1>6. OwnerOf(n) # p
    BY <1>1, OneOwner DEF OwnerChosen, HasLocked
<1>7. dtype \in [Inum -> {"free", "file"}]
    BY DEF InodeInv, InodeTypeOK
<1> HIDE DEF n
<1>8. IF entries[n] = 0 /\ Users(n) \ {p} = {} THEN dtype' = [dtype EXCEPT ![n] = "free"] ELSE dtype' = dtype
    BY <1>1
<1> QED
    BY <1>1, <1>4, <1>5, <1>6, <1>7, <1>8, FileForgotten

LEMMA InodeStep ==
    ASSUME InodeInv, [InodeNext]_inodeVars
    PROVE  FilesStep
<1>0. InodeInv'
    BY InodeInvKept
<1>1. CASE UNCHANGED inodeVars
    <2>1. UNCHANGED <<dtype, entries, inum, ip, new, ipc>>
        BY <1>1 DEF inodeVars, dinodes, icache
    <2>2. \A m \in Inum : Users(m)' = Users(m)
        BY <2>1, SameUsers
    <2>3. \A m \in Inum : OwnerOf(m)' = OwnerOf(m)
        BY <1>0, <2>1, SameOwners
    <2> QED
        BY <2>1, <2>2, <2>3, FilesStutter
<1>2. ASSUME NEW p \in Caller, NEW n \in Inum, Lookup(p, n) PROVE FilesStep
    BY <1>0, <1>2, LookupArrives, ArrivesStep
<1>3. ASSUME NEW p \in Caller, NEW q \in Caller, Idup(p, q) PROVE FilesStep
    BY <1>0, <1>3, IdupArrives, ArrivesStep
<1>4. ASSUME NEW p \in Caller, IallocIget(p) PROVE FilesStep
    BY <1>0, <1>4, IallocArrives, ArrivesStep
<1>5. ASSUME NEW p \in Caller, NEW n \in Inum, Ialloc(p, n) PROVE FilesStep
    BY <1>0, <1>5, IallocStep
<1>6. ASSUME NEW p \in Caller,
             CallIlock(p) \/ Ilock(p) \/ IlockRead(p) \/ CallIunlock(p) \/ Create(p) \/ Unlink(p)
             \/ Link(p) \/ LinkEnters(p) \/ LinkFails(p) \/ LinkUndone(p)
             \/ Iput(p) \/ IputFrees(p) \/ IputEnds(p)
      PROVE  FilesStep
    BY <1>0, <1>6, QuietStep, IlockStep, UnlockStep, LinkStep, UnlinkStep, IputStep, IputFreesStep
<1> QED
    BY <1>1, <1>2, <1>3, <1>4, <1>5, <1>6 DEF InodeNext

LEMMA InodeInitFiles == InodeInit => Fi!FilesInit
<1> SUFFICES ASSUME InodeInit PROVE Fi!FilesInit
    OBVIOUS
<1>1. \A n \in Inum : Users(n) = {} /\ OwnerOf(n) = Nobody
    BY InodeAssumption DEF InodeInit, Users, OwnerOf, Owners
<1>2. {n \in Inum : dtype[n] = "file"} = {} /\ entries = [n \in Inum |-> 0]
    BY DEF InodeInit
<1> QED
    BY <1>1, <1>2 DEF Fi!FilesInit

(* The inode cache keeps what fs.c promises of inodes.                     *)
THEOREM InodesImplementFiles == InodeSpec => ImplementsFiles
<1>1. InodeInv /\ [InodeNext]_inodeVars => [Fi!FilesNext]_(Fi!filesVars)
    BY InodeStep DEF FilesStep
<1> QED
    BY <1>1, InodeInitFiles, InodeInvariant, PTL DEF InodeSpec, ImplementsFiles, Fi!FilesSpec

(* What the runs check of it                                               *)
THEOREM InodesAreFilesAlways == InodeSpec => InodesAreFiles
<1>1. [Fi!FilesNext]_(Fi!filesVars) => [layer = "inodes" => Fi!FilesNext]_(Fi!filesVars)
    OBVIOUS
<1> QED
    BY <1>1, InodesImplementFiles, PTL DEF ImplementsFiles, Fi!FilesSpec, InodesAreFiles
=============================================================================
