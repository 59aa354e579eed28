----------------------------- MODULE PipeProofs -----------------------------
(***************************************************************************)
(* For any number of processes, any ring and any width of its counters:    *)
(* no wakeup is lost on a pipe, pipeclose() frees it from nobody, and the  *)
(* ring is a queue.                                                        *)
(***************************************************************************)
EXTENDS Pipe, SequenceTheorems, TLAPS

Holding == {"write", "wsleep", "read", "rsleep", "copy"}

(* Who is inside a call holds the lock, unless asleep or woken from it.    *)
LockInv == \A p \in Proc : pc[p] \in Holding <=> lock = p

(* The flags are those of the ends, and a call keeps its end open.         *)
EndsInv ==
    /\ ~readopen => readers = {}
    /\ ~writeopen => writers = {}
    /\ freed => ~readopen /\ ~writeopen
    /\ writers \subseteq Writers
    /\ \A p \in Proc : (pc[p] \in Writing => p \in writers)
                    /\ (pc[p] \in Reading => p \in readers)

(* Who is about to sleep has checked under the lock he still holds.  While *)
(* a reader copies, sleeping writers may have room, and while a writer     *)
(* writes, sleeping readers may have bytes: each will call wakeup().       *)
SleepInv ==
    \A p \in Proc :
        /\ pc[p] = "wsleep" => Full /\ readopen
        /\ pc[p] = "rsleep" => Empty /\ writeopen
        /\ pc[p] = "wasleep" => (Full /\ readopen) \/ \E q \in Proc : pc[q] = "copy"
        /\ pc[p] = "rasleep" => \/ (Empty /\ writeopen) \/ KilledWriter
                                \/ \E q \in Proc : pc[q] = "write"

PipeInv == PipeTypeOK /\ LockInv /\ EndsInv /\ SleepInv

-----------------------------------------------------------------------------
(* The invariant has what the runs check in it.                            *)
LEMMA InvariantSuffices == PipeInv => SleepersMustWait /\ FreedUnused
  <1> SUFFICES ASSUME PipeInv PROVE SleepersMustWait /\ FreedUnused OBVIOUS
  <1> USE DEF PipeInv
  <1>1. SleepersMustWait
    <2>1. lock = Nobody => \A p \in Proc : pc[p] \notin Holding
      BY NobodyAssumption DEF LockInv
    <2> QED BY <2>1 DEF SleepInv, SleepersMustWait, Holding
  <1>2. FreedUnused
    <2> SUFFICES ASSUME freed
                 PROVE  lock = Nobody /\ readers = {} /\ writers = {}
                        /\ \A p \in Proc : pc[p] = "user"
      BY DEF FreedUnused
    <2>1. readers = {} /\ writers = {} BY DEF EndsInv
    <2>2. \A p \in Proc : pc[p] = "user" BY <2>1 DEF EndsInv, PipeTypeOK
    <2>3. lock = Nobody BY <2>2 DEF LockInv, PipeTypeOK, Holding
    <2> QED BY <2>1, <2>2, <2>3
  <1> QED BY <1>1, <1>2

(* What the provers need of the sizes: counters and indices keep in range. *)
LEMMA Counters ==
    /\ \A n \in 0..UINT - 1 : Inc(n) \in 0..UINT - 1 /\ n % PIPESIZE \in 0..PIPESIZE - 1
    /\ 0 \in 0..UINT - 1 /\ 0 \in 0..PIPESIZE - 1 /\ 0 \in 0..MaxN
    /\ \A n \in 0..MaxN : n > 0 => n - 1 \in 0..MaxN
  BY PipeAssumption DEF Inc

LEMMA InitEstablishes == PipeInit => PipeInv
  <1> SUFFICES ASSUME PipeInit PROVE PipeInv OBVIOUS
  <1> USE DEF PipeInit
  <1>1. PipeTypeOK
    <2>1. data \in [0..PIPESIZE - 1 -> Byte] OBVIOUS
    <2>2. got \in Byte BY <2>1, Counters
    <2> QED BY <2>1, <2>2, Counters, PipeAssumption DEF PipeTypeOK
  <1>2. LockInv BY NobodyAssumption DEF LockInv, Holding
  <1>3. EndsInv BY DEF EndsInv, Writing, Reading
  <1>4. SleepInv BY DEF SleepInv
  <1> QED BY <1>1, <1>2, <1>3, <1>4 DEF PipeInv

(* Every step of a process keeps the invariant.                            *)
LEMMA StepKeeps ==
  ASSUME PipeInv, [PipeNext]_pipeVars
  PROVE  PipeInv'
  <1> USE NobodyAssumption DEF PipeInv, Goto, GotoWaking, WakeReaders, WakeWriters,
          Acquire, Release, ring, ends
  <1>1. ASSUME NEW p \in Proc, WriteCall(p) PROVE PipeInv'
    <2> USE <1>1 DEF WriteCall
    <2>1. PipeTypeOK' BY DEF PipeTypeOK, Writing
    <2>2. LockInv' BY DEF LockInv, Holding, PipeTypeOK
    <2>3. EndsInv' BY DEF EndsInv, PipeTypeOK, Writing, Reading
    <2>4. SleepInv' BY DEF SleepInv, LockInv, Holding, PipeTypeOK, Full, Empty, KilledWriter
    <2> QED BY <2>1, <2>2, <2>3, <2>4
  <1>2. ASSUME NEW p \in Proc, ReadCall(p) PROVE PipeInv'
    <2> USE <1>2 DEF ReadCall
    <2>1. PipeTypeOK' BY DEF PipeTypeOK, Reading
    <2>2. LockInv' BY DEF LockInv, Holding, PipeTypeOK
    <2>3. EndsInv' BY DEF EndsInv, PipeTypeOK, Writing, Reading
    <2>4. SleepInv' BY DEF SleepInv, LockInv, Holding, PipeTypeOK, Full, Empty, KilledWriter
    <2> QED BY <2>1, <2>2, <2>3, <2>4
  <1>3. ASSUME NEW p \in Proc, WriteByte(p) PROVE PipeInv'
    <2> USE <1>3 DEF WriteByte
    <2>1. PipeTypeOK'
      <3>1. data' \in [0..PIPESIZE - 1 -> Byte] BY Counters DEF PipeTypeOK
      <3>2. nwrite' \in 0..UINT - 1 BY Counters DEF PipeTypeOK
      <3>3. left' \in [Proc -> 0..MaxN]
        <4>1. left[p] - 1 \in 0..MaxN BY Counters DEF PipeTypeOK
        <4> QED BY <4>1 DEF PipeTypeOK
      <3> QED BY <3>1, <3>2, <3>3 DEF PipeTypeOK
    <2>2. LockInv' BY DEF LockInv
    <2>3. EndsInv' BY DEF EndsInv
    <2>4. \A q \in Proc : pc[q] \notin {"wasleep", "wsleep", "rsleep"}
      BY DEF SleepInv, LockInv, Holding, Full
    <2>5. SleepInv' BY <2>4 DEF SleepInv
    <2> QED BY <2>1, <2>2, <2>3, <2>5
  <1>4. ASSUME NEW p \in Proc, WriteFails(p) PROVE PipeInv'
    <2> USE <1>4 DEF WriteFails
    <2>1. PipeTypeOK' BY Counters DEF PipeTypeOK
    <2>2. LockInv' BY DEF LockInv, Holding, PipeTypeOK
    <2>3. EndsInv' BY DEF EndsInv, PipeTypeOK, Writing, Reading
    <2>4. CASE killed[p]
      <3>1. KilledWriter' BY <2>4 DEF KilledWriter, EndsInv, Writing
      <3> QED BY <2>1, <2>2, <2>3, <3>1
              DEF SleepInv, LockInv, Holding, PipeTypeOK, Full, Empty
    <2>5. CASE ~readopen
      <3>1. \A q \in Proc : pc[q] \notin Reading BY <2>5 DEF EndsInv
      <3>2. SleepInv' BY <2>5, <3>1
            DEF SleepInv, LockInv, Holding, Reading, PipeTypeOK, Full, Empty
      <3> QED BY <2>1, <2>2, <2>3, <3>2
    <2> QED BY <2>4, <2>5
  <1>5. ASSUME NEW p \in Proc, WriteWaits(p) PROVE PipeInv'
    <2> USE <1>5 DEF WriteWaits
    <2>1. PipeTypeOK' BY DEF PipeTypeOK, Writing, Reading
    <2>2. LockInv' BY DEF LockInv, Holding, PipeTypeOK
    <2>3. EndsInv' BY DEF EndsInv, PipeTypeOK, Writing, Reading
    <2>4. SleepInv' BY DEF SleepInv, LockInv, Holding, PipeTypeOK, Full, Empty, KilledWriter
    <2> QED BY <2>1, <2>2, <2>3, <2>4
  <1>6. ASSUME NEW p \in Proc, WriteReturns(p) PROVE PipeInv'
    <2> USE <1>6 DEF WriteReturns
    <2>1. PipeTypeOK' BY DEF PipeTypeOK, Writing, Reading
    <2>2. LockInv' BY DEF LockInv, Holding, PipeTypeOK
    <2>3. EndsInv' BY DEF EndsInv, PipeTypeOK, Writing, Reading
    <2>4. SleepInv' BY DEF SleepInv, LockInv, Holding, PipeTypeOK, Full, Empty, KilledWriter
    <2> QED BY <2>1, <2>2, <2>3, <2>4
  <1>7. ASSUME NEW p \in Proc, ReadFails(p) PROVE PipeInv'
    <2> USE <1>7 DEF ReadFails
    <2>1. PipeTypeOK' BY Counters DEF PipeTypeOK
    <2>2. LockInv' BY DEF LockInv, Holding, PipeTypeOK
    <2>3. EndsInv' BY DEF EndsInv, PipeTypeOK, Writing, Reading
    <2>4. SleepInv' BY DEF SleepInv, LockInv, Holding, PipeTypeOK, Full, Empty, KilledWriter
    <2> QED BY <2>1, <2>2, <2>3, <2>4
  <1>8. ASSUME NEW p \in Proc, ReadWaits(p) PROVE PipeInv'
    <2> USE <1>8 DEF ReadWaits
    <2>1. PipeTypeOK' BY DEF PipeTypeOK, Reading
    <2>2. LockInv' BY DEF LockInv, Holding, PipeTypeOK
    <2>3. EndsInv' BY DEF EndsInv, PipeTypeOK, Writing, Reading
    <2>4. SleepInv' BY DEF SleepInv, LockInv, Holding, PipeTypeOK, Full, Empty, KilledWriter
    <2> QED BY <2>1, <2>2, <2>3, <2>4
  <1>9. ASSUME NEW p \in Proc, ReadStarts(p) PROVE PipeInv'
    <2> USE <1>9 DEF ReadStarts
    <2>1. PipeTypeOK' BY DEF PipeTypeOK, Reading
    <2>2. LockInv' BY DEF LockInv, Holding, PipeTypeOK
    <2>3. EndsInv' BY DEF EndsInv, PipeTypeOK, Writing, Reading
    <2>4. SleepInv' BY DEF SleepInv, LockInv, Holding, PipeTypeOK, Full, Empty, KilledWriter
    <2> QED BY <2>1, <2>2, <2>3, <2>4
  <1>10. ASSUME NEW p \in Proc, ReadByte(p) PROVE PipeInv'
    <2> USE <1>10 DEF ReadByte
    <2>1. PipeTypeOK'
      <3>1. nread' \in 0..UINT - 1 BY Counters DEF PipeTypeOK
      <3>2. got' \in Byte BY Counters DEF PipeTypeOK
      <3>3. left' \in [Proc -> 0..MaxN]
        <4>1. left[p] - 1 \in 0..MaxN BY Counters DEF PipeTypeOK
        <4> QED BY <4>1 DEF PipeTypeOK
      <3> QED BY <3>1, <3>2, <3>3 DEF PipeTypeOK
    <2>2. LockInv' BY DEF LockInv
    <2>3. EndsInv' BY DEF EndsInv
    <2>4. \A q \in Proc : pc[q] \notin {"write", "wsleep", "rsleep"}
      BY DEF LockInv, Holding
    <2>5. SleepInv' BY <2>4 DEF SleepInv, KilledWriter, Empty
    <2> QED BY <2>1, <2>2, <2>3, <2>5
  <1>11. ASSUME NEW p \in Proc, ReadReturns(p) PROVE PipeInv'
    <2> USE <1>11 DEF ReadReturns
    <2>1. PipeTypeOK' BY Counters DEF PipeTypeOK, Writing, Reading
    <2>2. LockInv' BY DEF LockInv, Holding, PipeTypeOK
    <2>3. EndsInv' BY DEF EndsInv, PipeTypeOK, Writing, Reading
    <2>4. SleepInv' BY DEF SleepInv, LockInv, Holding, PipeTypeOK, Full, Empty, KilledWriter
    <2> QED BY <2>1, <2>2, <2>3, <2>4
  <1>12. ASSUME NEW p \in Proc, Sleep(p) PROVE PipeInv'
    <2> USE <1>12 DEF Sleep
    <2>1. PipeTypeOK' BY DEF PipeTypeOK, Writing, Reading
    <2>2. LockInv' BY DEF LockInv, Holding, PipeTypeOK
    <2>3. EndsInv' BY DEF EndsInv, PipeTypeOK, Writing, Reading
    <2>4. SleepInv' BY DEF SleepInv, LockInv, Holding, PipeTypeOK, Full, Empty, KilledWriter
    <2> QED BY <2>1, <2>2, <2>3, <2>4
  <1>13. ASSUME NEW p \in Proc, Wake(p) PROVE PipeInv'
    <2> USE <1>13 DEF Wake
    <2>1. PipeTypeOK' BY DEF PipeTypeOK, Writing, Reading
    <2>2. LockInv' BY DEF LockInv, Holding, PipeTypeOK
    <2>3. EndsInv' BY DEF EndsInv, PipeTypeOK, Writing, Reading
    <2>4. SleepInv' BY DEF SleepInv, LockInv, Holding, PipeTypeOK, Full, Empty, KilledWriter
    <2> QED BY <2>1, <2>2, <2>3, <2>4
  <1>14. ASSUME NEW p \in Proc, Kill(p) PROVE PipeInv'
    <2> USE <1>14 DEF Kill
    <2>1. PipeTypeOK' BY DEF PipeTypeOK, Writing, Reading
    <2>2. LockInv' BY DEF LockInv, Holding, PipeTypeOK
    <2>3. EndsInv' BY DEF EndsInv, PipeTypeOK, Writing, Reading
    <2>4. KilledWriter => KilledWriter' BY DEF KilledWriter, PipeTypeOK, PipeAssumption
    <2>5. SleepInv' BY <2>4 DEF SleepInv, PipeTypeOK, Full, Empty
    <2> QED BY <2>1, <2>2, <2>3, <2>5
  <1>15. ASSUME NEW p \in Proc, CloseRead(p) PROVE PipeInv'
    <2> USE <1>15 DEF CloseRead
    <2>1. PipeTypeOK' BY DEF PipeTypeOK, Writing, Reading, BothClosed
    <2>2. LockInv' BY DEF LockInv, Holding, PipeTypeOK
    <2>3. EndsInv' BY DEF EndsInv, PipeTypeOK, Writing, Reading, BothClosed
    <2>4. CASE UNCHANGED <<readopen, pc>>
      <3>1. SleepInv' BY <2>4 DEF SleepInv, Full, Empty, KilledWriter
      <3> QED BY <2>1, <2>2, <2>3, <3>1
    <2>5. CASE ~UNCHANGED <<readopen, pc>>
      <3>1. \A q \in Proc : pc[q] \notin Holding BY <2>5 DEF LockInv
      <3>2. SleepInv' BY <2>5, <3>1
            DEF SleepInv, Holding, PipeTypeOK, Full, Empty, KilledWriter
      <3> QED BY <2>1, <2>2, <2>3, <3>2
    <2> QED BY <2>4, <2>5
  <1>16. ASSUME NEW p \in Proc, CloseWrite(p) PROVE PipeInv'
    <2> USE <1>16 DEF CloseWrite
    <2>1. PipeTypeOK' BY DEF PipeTypeOK, Writing, Reading, BothClosed
    <2>2. LockInv' BY DEF LockInv, Holding, PipeTypeOK
    <2>3. EndsInv' BY DEF EndsInv, PipeTypeOK, Writing, Reading, BothClosed
    <2>4. CASE UNCHANGED <<writeopen, pc>>
      <3>1. SleepInv' BY <2>4 DEF SleepInv, Full, Empty, KilledWriter
      <3> QED BY <2>1, <2>2, <2>3, <3>1
    <2>5. CASE ~UNCHANGED <<writeopen, pc>>
      <3>1. \A q \in Proc : pc[q] \notin Holding BY <2>5 DEF LockInv
      <3>2. /\ writeopen' = FALSE /\ UNCHANGED <<data, nread, nwrite, readopen, killed>>
            /\ \A q \in Proc : pc'[q] = IF q = p THEN "user"
                                       ELSE IF pc[q] = "rasleep" THEN "rwoken" ELSE pc[q]
        BY <2>5
      <3>3. SleepInv' BY <3>1, <3>2
            DEF SleepInv, Holding, PipeTypeOK, Full, Empty, KilledWriter
      <3> QED BY <2>1, <2>2, <2>3, <3>3
    <2> QED BY <2>4, <2>5
  <1>17. CASE UNCHANGED pipeVars
    <2> USE <1>17 DEF pipeVars
    <2>1. PipeTypeOK' BY DEF PipeTypeOK
    <2>2. LockInv' BY DEF LockInv
    <2>3. EndsInv' BY DEF EndsInv
    <2>4. SleepInv' BY DEF SleepInv, Full, Empty, KilledWriter
    <2> QED BY <2>1, <2>2, <2>3, <2>4
  <1> QED
    BY <1>1, <1>2, <1>3, <1>4, <1>5, <1>6, <1>7, <1>8, <1>9, <1>10, <1>11, <1>12,
       <1>13, <1>14, <1>15, <1>16, <1>17 DEF PipeNext, Write, Read, Close

THEOREM PipeInvariant == PipeSpec => []PipeInv
  BY InitEstablishes, StepKeeps, PTL DEF PipeSpec

(* The counters wrap around and the processes stay at places of the code.  *)
THEOREM PipeTypes == PipeSpec => []PipeTypeOK
  <1>1. PipeInv => PipeTypeOK BY DEF PipeInv
  <1> QED BY <1>1, PipeInvariant, PTL

(* When the lock is free, who sleeps would have to sleep again.            *)
THEOREM NoLostPipeWakeup == PipeSpec => []SleepersMustWait
  BY InvariantSuffices, PipeInvariant, PTL

(* pipeclose() frees a pipe that nobody holds or is inside of.             *)
THEOREM FreedByTheLast == PipeSpec => []FreedUnused
  BY InvariantSuffices, PipeInvariant, PTL

-----------------------------------------------------------------------------
(* Remainders: of what they are one, ...                                   *)
LEMMA Remainder ==
    ASSUME NEW x \in Int, NEW m \in Nat \ {0}
    PROVE  x % m \in 0..m - 1 /\ \E d \in Int : m * d \in Int /\ x = m * d + (x % m)
<1>1. m \in Int /\ m > 0
    OBVIOUS
<1>2. x % m \in 0..m - 1
    BY <1>1
<1>3. x \div m \in Int
    BY <1>1
<1>4. x = m * (x \div m) + (x % m) /\ m * (x \div m) \in Int
    BY <1>1
<1> QED
    BY <1>2, <1>3, <1>4

(* ... that there is only one, ...                                         *)
LEMMA OneRemainder ==
    ASSUME NEW m \in Nat \ {0}, NEW d \in Int, NEW e \in Int, NEW r \in 0..m - 1, NEW t \in 0..m - 1,
           m * d + r = m * e + t
    PROVE  r = t
<1>1. CASE d = e
    BY <1>1
<1>2. CASE d >= e + 1
    <2>1. m * d >= m * (e + 1) /\ m * (e + 1) = m * e + m
        BY <1>2
    <2> QED
        BY <2>1
<1>3. CASE e >= d + 1
    <2>1. m * e >= m * (d + 1) /\ m * (d + 1) = m * d + m
        BY <1>3
    <2> QED
        BY <2>1
<1> QED
    BY <1>1, <1>2, <1>3

LEMMA RemainderIs ==
    ASSUME NEW m \in Nat \ {0}, NEW d \in Int, NEW r \in 0..m - 1
    PROVE  (m * d + r) % m = r
<1>1. PICK x \in Int : x = m * d + r
    OBVIOUS
<1>2. x % m \in 0..m - 1 /\ \E e \in Int : m * e \in Int /\ x = m * e + (x % m)
    BY Remainder
<1>3. x % m = r
    BY <1>1, <1>2, OneRemainder
<1> QED
    BY <1>1, <1>3

(* ... that it stays when the counters wrap around, ...                    *)
LEMMA WrapKeeps ==
    ASSUME NEW x \in Int
    PROVE  (x + UINT) % PIPESIZE = x % PIPESIZE
<1>1. PIPESIZE \in Nat \ {0} /\ UINT \in Int /\ UINT % PIPESIZE = 0
    BY PipeAssumption
<1>2. PICK k \in Int : PIPESIZE * k \in Int /\ UINT = PIPESIZE * k + (UINT % PIPESIZE)
    BY <1>1, Remainder
<1>3. PICK d \in Int : PIPESIZE * d \in Int /\ x = PIPESIZE * d + (x % PIPESIZE)
    BY <1>1, Remainder
<1>4. PICK r : r = x % PIPESIZE
    OBVIOUS
<1>5. r \in 0..PIPESIZE - 1
    BY <1>1, <1>4, Remainder
<1>6. PIPESIZE * (d + k) = PIPESIZE * d + PIPESIZE * k
    BY <1>1
<1>7. x + UINT = PIPESIZE * (d + k) + r
    <2>1. PICK u \in Int, v \in Int : u = PIPESIZE * d /\ v = PIPESIZE * k
        BY <1>2, <1>3
    <2>2. x = u + r /\ UINT = v
        BY <1>1, <1>2, <1>3, <1>4, <2>1
    <2>3. x + UINT = (u + v) + r
        BY <1>5, <2>2
    <2> QED
        BY <1>6, <2>1, <2>3
<1>8. (PIPESIZE * (d + k) + r) % PIPESIZE = r
    BY <1>1, <1>5, RemainderIs
<1> QED
    BY <1>4, <1>7, <1>8

(* ... and that places of the ring less than PIPESIZE apart are different. *)
LEMMA PlacesDiffer ==
    ASSUME NEW x \in Int, NEW y \in Int, x < y, y < x + PIPESIZE
    PROVE  x % PIPESIZE # y % PIPESIZE
<1>1. PIPESIZE \in Nat \ {0}
    BY PipeAssumption
<1> SUFFICES ASSUME x % PIPESIZE = y % PIPESIZE PROVE FALSE
    OBVIOUS
<1>2. PICK d \in Int : PIPESIZE * d \in Int /\ x = PIPESIZE * d + (x % PIPESIZE)
    BY <1>1, Remainder
<1>3. PICK e \in Int : PIPESIZE * e \in Int /\ y = PIPESIZE * e + (y % PIPESIZE)
    BY <1>1, Remainder
<1>4. y - x = PIPESIZE * e - PIPESIZE * d
    <2>1. x % PIPESIZE \in Int
        BY <1>1
    <2> QED
        BY <1>2, <1>3, <2>1
<1>5. CASE e <= d
    <2>1. PIPESIZE * e <= PIPESIZE * d
        BY <1>1, <1>5
    <2> QED
        BY <1>1, <1>2, <1>3, <1>4, <2>1
<1>6. CASE e >= d + 1
    <2>1. PIPESIZE * e >= PIPESIZE * (d + 1) /\ PIPESIZE * (d + 1) = PIPESIZE * d + PIPESIZE
        BY <1>1, <1>6
    <2> QED
        BY <1>1, <1>2, <1>3, <1>4, <2>1
<1> QED
    BY <1>5, <1>6

(* How many bytes there are in the pipe, also once nwrite has wrapped      *)
Pending == (nwrite - nread) % UINT

Fits == Pending <= PIPESIZE

LEMMA PendingIs ==
    ASSUME PipeTypeOK
    PROVE  /\ Pending \in 0..UINT - 1
           /\ nwrite >= nread => Pending = nwrite - nread
           /\ nwrite < nread => Pending = nwrite - nread + UINT
<1>1. /\ UINT \in Nat \ {0} /\ nread \in 0..UINT - 1 /\ nwrite \in 0..UINT - 1
    BY PipeAssumption DEF PipeTypeOK
<1>2. Pending \in 0..UINT - 1
    BY <1>1, Remainder DEF Pending
<1>3. ASSUME nwrite >= nread PROVE Pending = nwrite - nread
    <2>1. PICK r \in 0..UINT - 1 : r = nwrite - nread
        BY <1>1, <1>3
    <2>2. (UINT * 0 + r) % UINT = r /\ UINT * 0 + r = r
        BY <1>1, RemainderIs
    <2> QED
        BY <2>1, <2>2 DEF Pending
<1>4. ASSUME nwrite < nread PROVE Pending = nwrite - nread + UINT
    <2>1. PICK r \in 0..UINT - 1 : r = nwrite - nread + UINT
        BY <1>1, <1>4
    <2>2. (UINT * (-1) + r) % UINT = r /\ UINT * (-1) + r = nwrite - nread
        BY <1>1, <2>1, RemainderIs
    <2> QED
        BY <2>1, <2>2 DEF Pending
<1> QED
    BY <1>2, <1>3, <1>4

LEMMA IncIs ==
    ASSUME NEW n \in 0..UINT - 1
    PROVE  Inc(n) = IF n = UINT - 1 THEN 0 ELSE n + 1
<1>1. UINT \in Nat /\ UINT > 0
    BY PipeAssumption
<1>2. ASSUME n # UINT - 1 PROVE Inc(n) = n + 1
    <2>1. (UINT * 0 + (n + 1)) % UINT = n + 1 /\ UINT * 0 + (n + 1) = n + 1
        BY <1>1, <1>2, RemainderIs
    <2> QED
        BY <2>1 DEF Inc
<1>3. Inc(UINT - 1) = 0
    <2>1. (UINT * 1 + 0) % UINT = 0 /\ UINT * 1 + 0 = UINT /\ (UINT - 1) + 1 = UINT
        BY <1>1, RemainderIs
    <2> QED
        BY <2>1 DEF Inc
<1> QED
    BY <1>2, <1>3

LEMMA FitsKept ==
    ASSUME PipeTypeOK, PipeTypeOK', Fits
    PROVE  /\ nread' = nread /\ ~Full /\ nwrite' = Inc(nwrite) =>
                 Pending' = Pending + 1 /\ Pending < PIPESIZE
           /\ nwrite' = nwrite /\ ~Empty /\ nread' = Inc(nread) =>
                 Pending' = Pending - 1 /\ Pending > 0
<1>1. /\ UINT \in Nat /\ UINT > 0 /\ nread \in 0..UINT - 1 /\ nwrite \in 0..UINT - 1
      /\ PIPESIZE \in Nat /\ PIPESIZE > 0 /\ PIPESIZE < UINT /\ Pending <= PIPESIZE
    BY PipeAssumption DEF PipeTypeOK, Fits
<1>2. \A n \in 0..UINT - 1 : Inc(n) = IF n = UINT - 1 THEN 0 ELSE n + 1
    BY IncIs
<1>3. Full <=> Pending = PIPESIZE
    <2>1. CASE nread + PIPESIZE < UINT
        <3>1. PICK r \in 0..UINT - 1 : r = nread + PIPESIZE
            BY <1>1, <2>1
        <3>2. (UINT * 0 + r) % UINT = r /\ UINT * 0 + r = r
            BY <1>1, RemainderIs
        <3>3. Full <=> nwrite = nread + PIPESIZE
            BY <3>1, <3>2 DEF Full
        <3> QED
            BY <1>1, <2>1, <3>3, PendingIs
    <2>2. CASE nread + PIPESIZE >= UINT
        <3>1. PICK r \in 0..UINT - 1 : r = nread + PIPESIZE - UINT
            BY <1>1, <2>2
        <3>2. (UINT * 1 + r) % UINT = r /\ UINT * 1 + r = nread + PIPESIZE
            BY <1>1, <3>1, RemainderIs
        <3>3. Full <=> nwrite = nread + PIPESIZE - UINT
            BY <3>1, <3>2 DEF Full
        <3> QED
            BY <1>1, <2>2, <3>3, PendingIs
    <2> QED
        BY <1>1, <2>1, <2>2
<1>4. Empty <=> Pending = 0
    BY <1>1, PendingIs DEF Empty
<1>5. /\ nread' \in 0..UINT - 1 /\ nwrite' \in 0..UINT - 1
      /\ nwrite' >= nread' => Pending' = nwrite' - nread'
      /\ nwrite' < nread' => Pending' = nwrite' - nread' + UINT
    <2>1. PICK a \in 0..UINT - 1, b \in 0..UINT - 1 : a = nread' /\ b = nwrite'
        BY DEF PipeTypeOK
    <2>2. Pending' = (b - a) % UINT
        BY <2>1 DEF Pending
    <2>3. b >= a => (b - a) % UINT = b - a
        <3>1. ASSUME b >= a PROVE (UINT * 0 + (b - a)) % UINT = b - a /\ UINT * 0 + (b - a) = b - a
            BY <1>1, <3>1, RemainderIs
        <3> QED
            BY <3>1
    <2>4. b < a => (b - a) % UINT = b - a + UINT
        <3>1. ASSUME b < a
              PROVE  /\ (UINT * (-1) + (b - a + UINT)) % UINT = b - a + UINT
                     /\ UINT * (-1) + (b - a + UINT) = b - a
            BY <1>1, <3>1, RemainderIs
        <3> QED
            BY <3>1
    <2> QED
        BY <2>1, <2>2, <2>3, <2>4
<1>6. ASSUME nread' = nread, ~Full, nwrite' = Inc(nwrite)
      PROVE  Pending' = Pending + 1 /\ Pending < PIPESIZE
    <2>1. Pending < PIPESIZE /\ Pending \in 0..UINT - 1
        BY <1>1, <1>3, <1>6, PendingIs
    <2>2. nwrite' = IF nwrite = UINT - 1 THEN 0 ELSE nwrite + 1
        BY <1>1, <1>2, <1>6
    <2> QED
        BY <1>1, <1>5, <1>6, <2>1, <2>2, PendingIs
<1>7. ASSUME nwrite' = nwrite, ~Empty, nread' = Inc(nread)
      PROVE  Pending' = Pending - 1 /\ Pending > 0
    <2>1. Pending > 0 /\ Pending \in 0..UINT - 1
        BY <1>1, <1>4, <1>7, PendingIs
    <2>2. nread' = IF nread = UINT - 1 THEN 0 ELSE nread + 1
        BY <1>1, <1>2, <1>7
    <2> QED
        BY <1>1, <1>5, <1>7, <2>1, <2>2, PendingIs
<1> QED
    BY <1>6, <1>7

-----------------------------------------------------------------------------
(* The ring is a queue.                                                    *)
Contents == [i \in 1..(nwrite - nread) % UINT |-> data[(nread + i - 1) % PIPESIZE]]

RingFrom(d, r, n) == [i \in 1..n |-> d[(r + i - 1) % PIPESIZE]]

LEMMA PlaceIn ==
    ASSUME NEW x \in Int
    PROVE  x % PIPESIZE \in 0..PIPESIZE - 1
BY Remainder, PipeAssumption

LEMMA ContentsAre ==
    ASSUME NEW d \in [0..PIPESIZE - 1 -> Byte], NEW r \in 0..UINT - 1, NEW n \in Nat
    PROVE  /\ RingFrom(d, r, n) \in Seq(Byte) /\ Len(RingFrom(d, r, n)) = n
           /\ \A i \in 1..n : RingFrom(d, r, n)[i] = d[(r + i - 1) % PIPESIZE]
<1>1. ASSUME NEW i \in 1..n PROVE (r + i - 1) % PIPESIZE \in 0..PIPESIZE - 1
    <2>1. r + i - 1 \in Int
        BY PipeAssumption
    <2> QED
        BY <2>1, PlaceIn
<1>2. RingFrom(d, r, n) \in [1..n -> Byte]
    BY <1>1 DEF RingFrom
<1>3. RingFrom(d, r, n) \in Seq(Byte) /\ Len(RingFrom(d, r, n)) = n
    BY <1>2
<1> QED
    BY <1>3 DEF RingFrom

(* What a byte that is written adds, ...                                   *)
LEMMA PutStep ==
    ASSUME NEW p \in Proc, PipeInv, PipeInv', Fits, WriteByte(p)
    PROVE  /\ Len(Contents) < PIPESIZE /\ got' = got
           /\ \E b \in Byte : Contents' = Append(Contents, b)
<1>1. PICK b \in Byte : data' = [data EXCEPT ![nwrite % PIPESIZE] = b]
    BY DEF WriteByte
<1>2. PICK c, n, r, w : /\ c = Contents /\ n = Pending /\ r = nread /\ w = nwrite
    OBVIOUS
<1>3. PICK d : d = Contents'
    OBVIOUS
<1>4. /\ ~Full /\ nwrite' = Inc(nwrite) /\ nread' = nread /\ got' = got
      /\ PipeTypeOK /\ PipeTypeOK'
    BY DEF WriteByte, PipeInv
<1>5. /\ n \in Nat /\ n < PIPESIZE /\ Pending' = n + 1
      /\ w = r + n \/ w + UINT = r + n
    <2>1. Pending' = n + 1 /\ n < PIPESIZE
        BY <1>2, <1>4, FitsKept
    <2> QED
        BY <1>2, <1>4, <2>1, PendingIs, PipeAssumption DEF PipeTypeOK
<1>6. /\ data \in [0..PIPESIZE - 1 -> Byte] /\ data' \in [0..PIPESIZE - 1 -> Byte]
      /\ r \in 0..UINT - 1 /\ w \in 0..UINT - 1 /\ nread' = r
    BY <1>2, <1>4 DEF PipeTypeOK
<1>7. /\ c \in Seq(Byte) /\ Len(c) = n
      /\ \A i \in 1..n : c[i] = data[(r + i - 1) % PIPESIZE]
    <2>1. c = RingFrom(data, r, n)
        BY <1>2 DEF Contents, Pending, RingFrom
    <2> QED
        BY <1>5, <1>6, <2>1, ContentsAre
<1>8. /\ d \in Seq(Byte) /\ Len(d) = n + 1
      /\ \A i \in 1..n + 1 : d[i] = data'[(r + i - 1) % PIPESIZE]
    <2>1. d = RingFrom(data', r, n + 1)
        BY <1>3, <1>5, <1>6 DEF Contents, Pending, RingFrom
    <2>2. n + 1 \in Nat
        BY <1>5
    <2> QED
        BY <1>6, <2>1, <2>2, ContentsAre
<1>9. (r + n) % PIPESIZE = w % PIPESIZE
    <2>1. CASE w = r + n
        BY <2>1
    <2>2. CASE w + UINT = r + n
        BY <1>6, <2>2, WrapKeeps
    <2> QED
        BY <1>5, <2>1, <2>2
<1>10. ASSUME NEW i \in 1..n PROVE d[i] = c[i]
    <2>1. (r + i - 1) % PIPESIZE # (r + n) % PIPESIZE
        <3>1. PICK x \in Int, y \in Int : x = r + i - 1 /\ y = r + n
            BY <1>5, <1>6
        <3>2. x < y /\ y < x + PIPESIZE
            BY <1>5, <1>6, <3>1, PipeAssumption
        <3> QED
            BY <3>1, <3>2, PlacesDiffer
    <2>2. (r + i - 1) % PIPESIZE \in 0..PIPESIZE - 1
        <3>1. r + i - 1 \in Int
            BY <1>5, <1>6, PipeAssumption
        <3> QED
            BY <3>1, PlaceIn
    <2>3. data'[(r + i - 1) % PIPESIZE] = data[(r + i - 1) % PIPESIZE]
        BY <1>1, <1>2, <1>6, <1>9, <2>1, <2>2
    <2>4. i \in 1..n + 1
        BY <1>5
    <2> QED
        BY <1>7, <1>8, <2>3, <2>4
<1>11. d[n + 1] = b
    <2>1. n + 1 \in 1..n + 1 /\ r + (n + 1) - 1 = r + n
        BY <1>5, <1>6
    <2>2. w % PIPESIZE \in 0..PIPESIZE - 1
        <3>1. w \in Int
            BY <1>6, PipeAssumption
        <3> QED
            BY <3>1, PlaceIn
    <2> QED
        BY <1>1, <1>2, <1>6, <1>8, <1>9, <2>1, <2>2
<1>12. d = Append(c, b)
    <2>1. PICK e : e = Append(c, b)
        OBVIOUS
    <2>2. /\ e \in Seq(Byte) /\ Len(e) = n + 1 /\ e[n + 1] = b
          /\ \A i \in 1..n : e[i] = c[i]
        BY <1>7, <2>1, AppendProperties
    <2>3. \A i \in 1..n + 1 : i \in 1..n \/ i = n + 1
        BY <1>5
    <2>4. \A i \in 1..n + 1 : d[i] = e[i]
        BY <1>10, <1>11, <2>2, <2>3
    <2> QED
        BY <1>8, <2>1, <2>2, <2>4, SeqEqual
<1> QED
    BY <1>2, <1>3, <1>4, <1>5, <1>7, <1>12

(* ... and one that is read takes.                                         *)
LEMMA GetStep ==
    ASSUME NEW p \in Proc, PipeInv, PipeInv', Fits, ReadByte(p)
    PROVE  Contents # <<>> /\ got' = Head(Contents) /\ Contents' = Tail(Contents)
<1>1. PICK c, n, r, w : /\ c = Contents /\ n = Pending /\ r = nread /\ w = nwrite
    OBVIOUS
<1>2. PICK d, t : d = Contents' /\ t = nread'
    OBVIOUS
<1>3. /\ ~Empty /\ nread' = Inc(nread) /\ nwrite' = nwrite /\ data' = data
      /\ got' = data[nread % PIPESIZE] /\ PipeTypeOK /\ PipeTypeOK'
    BY DEF ReadByte, PipeInv
<1>4. n \in Nat /\ n > 0 /\ Pending' = n - 1 /\ n - 1 \in Nat
    <2>1. Pending' = n - 1 /\ n > 0
        BY <1>1, <1>3, FitsKept
    <2> QED
        BY <1>1, <1>3, <2>1, PendingIs
<1>5. /\ data \in [0..PIPESIZE - 1 -> Byte] /\ r \in 0..UINT - 1 /\ t \in 0..UINT - 1
      /\ t = r + 1 \/ t + UINT = r + 1
    <2>1. r \in 0..UINT - 1 /\ t \in 0..UINT - 1 /\ UINT \in Nat
        BY <1>1, <1>2, <1>3, PipeAssumption DEF PipeTypeOK
    <2>2. t = IF r = UINT - 1 THEN 0 ELSE r + 1
        BY <1>1, <1>2, <1>3, <2>1, IncIs
    <2> QED
        BY <1>3, <2>1, <2>2 DEF PipeTypeOK
<1>6. /\ c \in Seq(Byte) /\ Len(c) = n
      /\ \A i \in 1..n : c[i] = data[(r + i - 1) % PIPESIZE]
    <2>1. c = RingFrom(data, r, n)
        BY <1>1 DEF Contents, Pending, RingFrom
    <2> QED
        BY <1>4, <1>5, <2>1, ContentsAre
<1>7. /\ d \in Seq(Byte) /\ Len(d) = n - 1
      /\ \A i \in 1..n - 1 : d[i] = data[(t + i - 1) % PIPESIZE]
    <2>1. d = RingFrom(data, t, n - 1)
        BY <1>2, <1>3, <1>4 DEF Contents, Pending, RingFrom
    <2> QED
        BY <1>4, <1>5, <2>1, ContentsAre
<1>8. c # <<>> /\ got' = Head(c)
    <2>1. c # <<>>
        BY <1>4, <1>6, EmptySeq
    <2>2. Head(c) = c[1] /\ 1 \in 1..n /\ r + 1 - 1 = r
        BY <1>4, <1>5, <1>6, <2>1
    <2> QED
        BY <1>1, <1>3, <1>6, <2>1, <2>2
<1>9. ASSUME NEW i \in 1..n - 1 PROVE d[i] = c[i + 1]
    <2>1. i + 1 \in 1..n /\ i - 1 \in Int /\ r + (i + 1) - 1 = r + i
        BY <1>4, <1>5
    <2>2. (t + i - 1) % PIPESIZE = (r + i) % PIPESIZE
        <3>1. CASE t = r + 1
            <4>1. t + i - 1 = r + i
                BY <1>5, <3>1
            <4> QED
                BY <4>1
        <3>2. CASE t + UINT = r + 1
            <4>1. t + i - 1 \in Int /\ (t + i - 1) + UINT = r + i
                BY <1>5, <3>2, PipeAssumption
            <4> QED
                BY <4>1, WrapKeeps
        <3> QED
            BY <1>5, <3>1, <3>2
    <2> QED
        BY <1>6, <1>7, <2>1, <2>2
<1>10. d = Tail(c)
    <2>1. PICK e : e = Tail(c)
        OBVIOUS
    <2>2. /\ e \in Seq(Byte) /\ Len(e) = n - 1 /\ \A i \in 1..n - 1 : e[i] = c[i + 1]
        BY <1>6, <1>8, <2>1, HeadTailProperties
    <2> QED
        BY <1>7, <1>9, <2>1, <2>2, SeqEqual
<1> QED
    BY <1>1, <1>2, <1>8, <1>10

(* All other steps leave what is in the ring alone.                        *)
LEMMA RingStep ==
    ASSUME PipeInv, PipeInv', Fits, [PipeNext]_pipeVars
    PROVE  Fits' /\ [Queue!Put \/ Queue!Get]_<<Contents, got>>
<1>1. ASSUME NEW p \in Proc, WriteByte(p)
      PROVE  Fits' /\ [Queue!Put \/ Queue!Get]_<<Contents, got>>
    <2>1. Pending' = Pending + 1 /\ Pending < PIPESIZE /\ Pending \in Nat
        BY <1>1, FitsKept, PendingIs DEF WriteByte, PipeInv
    <2>2. Fits'
        BY <2>1, PipeAssumption DEF Fits
    <2>3. Queue!Put
        BY <1>1, PutStep DEF Queue!Put, Contents
    <2> QED
        BY <2>2, <2>3
<1>2. ASSUME NEW p \in Proc, ReadByte(p)
      PROVE  Fits' /\ [Queue!Put \/ Queue!Get]_<<Contents, got>>
    <2>1. Pending' = Pending - 1 /\ Pending \in Nat
        BY <1>2, FitsKept, PendingIs DEF ReadByte, PipeInv
    <2>2. Fits'
        BY <2>1, PipeAssumption DEF Fits
    <2>3. Queue!Get
        BY <1>2, GetStep DEF Queue!Get, Contents
    <2> QED
        BY <2>2, <2>3
<1>3. ASSUME UNCHANGED <<data, nread, nwrite, got>>
      PROVE  Fits' /\ UNCHANGED <<Contents, got>>
    BY <1>3 DEF Fits, Pending, Contents
<1>4. CASE UNCHANGED pipeVars
    BY <1>3, <1>4 DEF pipeVars, ring
<1>5. ASSUME NEW p \in Proc,
             \/ WriteCall(p) \/ ReadCall(p) \/ WriteFails(p) \/ WriteWaits(p) \/ WriteReturns(p)
             \/ ReadFails(p) \/ ReadWaits(p) \/ ReadStarts(p) \/ ReadReturns(p)
             \/ Sleep(p) \/ Wake(p) \/ Kill(p) \/ Close(p)
      PROVE  UNCHANGED <<data, nread, nwrite, got>>
    BY <1>5 DEF WriteCall, ReadCall, WriteFails, WriteWaits, WriteReturns, ReadFails, ReadWaits,
                ReadStarts, ReadReturns, Sleep, Wake, Kill, Close, CloseRead, CloseWrite, ring
<1> QED
    BY <1>1, <1>2, <1>3, <1>4, <1>5 DEF PipeNext, Write, Read

LEMMA RingInit ==
    ASSUME PipeInit
    PROVE  Fits /\ Queue!FifoInit
<1>1. PipeTypeOK
    BY InitEstablishes DEF PipeInv
<1>2. Pending = 0
    BY <1>1, PendingIs DEF PipeInit
<1>3. Contents = <<>>
    <2>1. PICK c : c = Contents
        OBVIOUS
    <2>2. c = [i \in 1..0 |-> data[(nread + i - 1) % PIPESIZE]]
        BY <1>2, <2>1 DEF Contents, Pending
    <2> QED
        BY <2>1, <2>2
<1> QED
    BY <1>1, <1>2, <1>3, PipeAssumption DEF Fits, Queue!FifoInit, Contents, PipeTypeOK

(* Pipe implements Fifo: bytes come out of the ring in the order they went *)
(* in, each once, for any PIPESIZE and any width of nread and nwrite that  *)
(* is a multiple of it.                                                    *)
THEOREM RingIsQueue == PipeSpec => ImplementsFifo
<1>1. PipeInit => Fits /\ Queue!FifoInit
    BY RingInit
<1>2. PipeInv /\ PipeInv' /\ Fits /\ [PipeNext]_pipeVars
         => Fits' /\ [Queue!Put \/ Queue!Get]_<<Contents, got>>
    BY RingStep
<1> QED
    BY <1>1, <1>2, PipeInvariant, PTL DEF PipeSpec, ImplementsFifo, Queue!FifoSpec, Contents
=============================================================================
