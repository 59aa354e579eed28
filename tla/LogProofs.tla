----------------------------- MODULE LogProofs -----------------------------
(***************************************************************************)
(* The invariants of Log hold in every reachable state, for any number of  *)
(* processes and blocks: one lemma for each action and half of the         *)
(* invariant.  ControlInv and SpaceInv are inductive by themselves;        *)
(* DataInv rests on them, and on Polite, without which a transaction may   *)
(* outgrow the log.                                                        *)
(***************************************************************************)
EXTENDS Log, FiniteSetTheorems, FunctionTheorems, SequenceTheorems, TLAPS

(* Counting processes, blocks, and the blocks each process has logged      *)
LEMMA FiniteProcs ==
  ASSUME NEW S \in SUBSET Proc
  PROVE  IsFiniteSet(S) /\ Cardinality(S) \in Nat
  BY LogAssumption, FS_Subset, FS_CardinalityType

(* Sets of blocks are finite.                                              *)
LEMMA FiniteBlocks ==
  ASSUME NEW S \in SUBSET Block
  PROVE  IsFiniteSet(S) /\ Cardinality(S) \in Nat
  BY LogAssumption, FS_Subset, FS_CardinalityType

(* Sets of pairs of a process and a block are finite.                      *)
LEMMA FinitePairs ==
  ASSUME NEW S \in SUBSET (Proc \X Block)
  PROVE  /\ IsFiniteSet(S) /\ Cardinality(S) \in Nat
         /\ \A T \in SUBSET S : Cardinality(T) \in Nat /\ Cardinality(T) <= Cardinality(S)
  <1>1. IsFiniteSet(Proc \X Block) BY LogAssumption, FS_Product
  <1>2. IsFiniteSet(S) BY <1>1, FS_Subset
  <1> QED BY <1>2, FS_Subset, FS_CardinalityType

(* What log_write() adds to a transaction: one block, at the end           *)
LEMMA AppendNew ==
  ASSUME NEW s \in Seq(Block), IsInjective(s), NEW b \in Block, b \notin ToSet(s)
  PROVE  /\ Append(s, b) \in Seq(Block) /\ IsInjective(Append(s, b))
         /\ ToSet(Append(s, b)) = ToSet(s) \cup {b}
         /\ Len(Append(s, b)) = Len(s) + 1
         /\ \A i \in 1..Len(s) : Append(s, b)[i] = s[i]
  <1>1. /\ Append(s, b) \in Seq(Block) /\ Len(Append(s, b)) = Len(s) + 1
        /\ \A i \in 1..Len(s) : Append(s, b)[i] = s[i]
        /\ Append(s, b)[Len(s) + 1] = b
    OBVIOUS
  <1>2. DOMAIN Append(s, b) = 1..Len(s) + 1 /\ DOMAIN s = 1..Len(s) /\ Len(s) \in Nat BY <1>1
  <1>3. \A i \in 1..Len(s) : s[i] # b BY <1>2 DEF ToSet
  <1>4. IsInjective(Append(s, b))
    <2> SUFFICES ASSUME NEW i \in 1..Len(s) + 1, NEW j \in 1..Len(s) + 1,
                        Append(s, b)[i] = Append(s, b)[j]
                 PROVE  i = j
      BY <1>2 DEF IsInjective
    <2>1. CASE i \in 1..Len(s) /\ j \in 1..Len(s) BY <2>1, <1>1, <1>2 DEF IsInjective
    <2>2. CASE i = Len(s) + 1 \/ j = Len(s) + 1 BY <2>2, <1>1, <1>2, <1>3
    <2> QED BY <2>1, <2>2, <1>2
  <1>5. ToSet(Append(s, b)) = ToSet(s) \cup {b}
    <2>1. \A i \in 1..Len(s) + 1 : i \in 1..Len(s) \/ i = Len(s) + 1 BY <1>2
    <2> QED BY <1>1, <1>2, <2>1 DEF ToSet
  <1> QED BY <1>1, <1>4, <1>5

(* A sequence no longer than n                                             *)
LEMMA ShortSeq ==
  ASSUME NEW n \in Nat, NEW s \in Seq(Block), Len(s) <= n
  PROVE  s \in BoundedSeq(Block, n)
  <1>1. s \in [1..Len(s) -> Block] /\ Len(s) \in 0..n OBVIOUS
  <1> QED BY <1>1 DEF BoundedSeq, SeqOf

(* What begin_op() has set aside covers what the calls inside have logged, *)
(* so the transaction is within LOGSIZE.                                   *)
LEMMA Fits ==
  ASSUME ControlInv, LogSpace, Polite
  PROVE  Len(lh) <= LOGSIZE
  <1> USE DEF ControlInv
  <1>1. Cardinality(Logs) <= outstanding * MAXOPBLOCKS
    <2> DEFINE D == 1..MAXOPBLOCKS
    <2>1. \A p \in Inside : \E f : f \in Injection(wrote[p], D)
      <3> SUFFICES ASSUME NEW p \in Inside PROVE \E f : f \in Injection(wrote[p], D)
        OBVIOUS
      <3> DEFINE n == Cardinality(wrote[p])
      <3>1. wrote[p] \subseteq Block BY DEF ControlTypes, Inside
      <3>2. n \in Nat /\ n <= MAXOPBLOCKS
        <4>1. n <= OpBlocks BY DEF CallWrites, Inside
        <4>2. n \in Nat BY <3>1, FiniteBlocks
        <4> QED BY <4>1, <4>2, LogAssumption DEF Polite
      <3>3. ExistsBijection(wrote[p], 1..n)
        BY <3>1, FiniteBlocks, FS_CardinalityType, Fun_ExistsBijSymmetric
      <3>4. PICK f : f \in Bijection(wrote[p], 1..n) BY <3>3 DEF ExistsBijection
      <3>5. f \in [wrote[p] -> 1..n] /\ IsInjective(f) BY <3>4 DEF Bijection, Injection
      <3>6. 1..n \subseteq D BY <3>2, LogAssumption
      <3>7. f \in [wrote[p] -> D] BY <3>5, <3>6
      <3> QED BY <3>5, <3>7 DEF Injection
    <2> DEFINE g == [p \in Inside |-> CHOOSE f : f \in Injection(wrote[p], D)]
               F == [w \in Logs |-> <<w[1], g[w[1]][w[2]]>>]
    <2>2. \A p \in Inside : g[p] \in Injection(wrote[p], D) BY <2>1
    <2>3. \A p \in Inside : /\ g[p] \in [wrote[p] -> D]
                            /\ \A a, b \in wrote[p] : g[p][a] = g[p][b] => a = b
      <3> HIDE DEF g, D
      <3> SUFFICES ASSUME NEW p \in Inside
                   PROVE  /\ g[p] \in [wrote[p] -> D]
                          /\ \A a, b \in wrote[p] : g[p][a] = g[p][b] => a = b
        OBVIOUS
      <3>1. g[p] \in [wrote[p] -> D] /\ IsInjective(g[p]) BY <2>2 DEF Injection
      <3>2. DOMAIN g[p] = wrote[p] BY <3>1
      <3> QED BY <3>1, <3>2 DEF IsInjective
    <2>4. F \in Injection(Logs, Inside \X D)
      <3> HIDE DEF g, D
      <3>1. \A w \in Logs : w = <<w[1], w[2]>> /\ w[1] \in Inside /\ w[2] \in wrote[w[1]]
        BY DEF Logs
      <3>2. F \in [Logs -> Inside \X D] BY <3>1, <2>3
      <3>3. ASSUME NEW x \in Logs, NEW y \in Logs, F[x] = F[y] PROVE x = y
        <4>1. x[1] = y[1] /\ g[x[1]][x[2]] = g[y[1]][y[2]] BY <3>3
        <4>2. x[2] = y[2] BY <4>1, <3>1, <2>3
        <4> QED BY <4>1, <4>2, <3>1
      <3>4. DOMAIN F = Logs OBVIOUS
      <3>5. IsInjective(F) BY <3>3, <3>4 DEF IsInjective
      <3> QED BY <3>2, <3>5 DEF Injection
    <2>5. IsFiniteSet(Inside) BY FiniteProcs DEF Inside
    <2>6. IsFiniteSet(D) /\ Cardinality(D) = MAXOPBLOCKS BY FS_Interval, LogAssumption
    <2>7. IsFiniteSet(Inside \X D) /\ Cardinality(Inside \X D) = outstanding * MAXOPBLOCKS
      BY <2>5, <2>6, FS_Product DEF CountInv
    <2> QED BY <2>4, <2>7, FS_Injection
  <1>2. Logs \subseteq Proc \X Block BY DEF Logs, Inside
  <1>3. Cardinality(Logs) \in Nat BY <1>2, FinitePairs
  <1>4. outstanding * MAXOPBLOCKS \in Nat BY LogAssumption DEF CountInv
  <1>5. Len(lh) \in Nat BY DEF ControlTypes
  <1>6. Len(lh) + outstanding * MAXOPBLOCKS - Cardinality(Logs) <= LOGSIZE
    BY DEF LogSpace, Polite
  <1> QED BY <1>1, <1>3, <1>4, <1>5, <1>6, LogAssumption

(* A commit has the log for itself, and so has recovery.                   *)
LEMMA CommitterAlone ==
  ASSUME ControlInv, NEW p \in Committer
  PROVE  Inside = {} /\ outstanding = 0 /\ Logs = {} /\ Cardinality(Logs) = 0
  <1> USE DEF ControlInv
  <1>1. Inside = {} BY DEF CommitFlag, CommitAlone, BootIdle, Inside
  <1>2. outstanding = 0 BY <1>1, FS_EmptySet DEF CountInv
  <1>3. Logs = {} BY <1>1 DEF Logs
  <1> QED BY <1>1, <1>2, <1>3, FS_EmptySet

(* An empty transaction *)
LEMMA EmptyInjective ==
  /\ <<>> \in Seq(Block) /\ IsInjective(<<>>)
  /\ Len(<<>>) = 0 /\ ToSet(<<>>) = {}
  BY DEF IsInjective, ToSet

(* The blocks of the log that a position of a commit or of recovery names  *)
LEMMA Positions ==
  ASSUME ControlInv, LogSpace, Polite
  PROVE  \A i \in 1..Len(lh) : /\ i \in 1..LOGSIZE /\ lh[i] \in Block /\ lh[i] \in ToSet(lh)
                               /\ \A j \in 1..Len(lh) : lh[i] = lh[j] => i = j
  <1>1. Len(lh) <= LOGSIZE BY Fits
  <1>2. Len(lh) \in Nat /\ DOMAIN lh = 1..Len(lh) BY DEF ControlInv
  <1> SUFFICES ASSUME NEW i \in 1..Len(lh)
               PROVE  /\ i \in 1..LOGSIZE /\ lh[i] \in Block /\ lh[i] \in ToSet(lh)
                      /\ \A j \in 1..Len(lh) : lh[i] = lh[j] => i = j
    OBVIOUS
  <1>3. i \in 1..LOGSIZE BY <1>1, <1>2, LogAssumption
  <1>4. lh[i] \in Block BY DEF ControlInv, ControlTypes
  <1>5. lh[i] \in ToSet(lh) BY <1>2 DEF ToSet
  <1>6. \A j \in 1..Len(lh) : lh[i] = lh[j] => i = j
    BY <1>2 DEF ControlInv, ControlTypes, IsInjective
  <1> QED BY <1>3, <1>4, <1>5, <1>6

(* While a commit writes the log, all of the transaction is pinned.        *)
LEMMA WhileWriting ==
  ASSUME ControlInv, CallPhase, NEW p \in Proc, pc[p] = "write"
  PROVE  /\ up /\ hdr = <<>> /\ dirty = ToSet(lh)
         /\ tail[p] \in Nat \ {0} /\ tail[p] <= Len(lh) + 1 /\ Inside = {}
  <1> USE DEF ControlInv
  <1>1. up BY DEF BootIdle
  <1>2. \A q \in Proc : pc[q] # "install" BY DEF OneCommitter, Committer
  <1>3. p \in Committer BY DEF Committer
  <1>4. Inside = {} BY <1>3, CommitterAlone
  <1>5. tail[p] \in Nat \ {0} /\ tail[p] <= Len(lh) + 1 BY DEF TailInv, ControlTypes
  <1> QED BY <1>1, <1>2, <1>4, <1>5 DEF CallPhase

(* A call in progress keeps commits away.                                  *)
LEMMA WhileCalling ==
  ASSUME ControlInv, NEW p \in Inside
  PROVE  up /\ Committer = {}
  BY DEF ControlInv, CommitAlone, CommitFlag, BootIdle, Inside

(* A buffer taken for another block leaves the log alone.                  *)
LEMMA RecycleControl ==
  ASSUME ControlInv, SpaceInv, NEW b \in Block, Recycle(b)
  PROVE  ControlInv' /\ SpaceInv'
  <1> USE DEF ControlInv, SpaceInv, Recycle, Recyclable, disk, log, cache, procs
  <1>1. ControlTypes' BY DEF ControlTypes
  <1>2. CountInv' BY DEF CountInv, Inside
  <1>3. CommitAlone' BY DEF CommitAlone, Inside
  <1>4. OneCommitter' BY DEF OneCommitter, Committer
  <1>5. CommitFlag' BY DEF CommitFlag, Committer
  <1>6. BootIdle' BY DEF BootIdle
  <1>7. TailInv' BY DEF TailInv
  <1>8. CallWrites' BY DEF CallWrites, Inside
  <1>9. CallHolds' BY DEF CallHolds
  <1>10. SleepersMustWait' BY DEF SleepersMustWait, MustWait, NoSpace
  <1>11. LogSpace' BY DEF LogSpace, Logs, Inside
  <1>12. HeaderSpace' BY DEF HeaderSpace
  <1> QED BY <1>1, <1>2, <1>3, <1>4, <1>5, <1>6, <1>7, <1>8, <1>9, <1>10, <1>11, <1>12

(* begin_op() counts its caller and sets MAXOPBLOCKS aside for it.         *)
LEMMA BeginOpControl ==
  ASSUME ControlInv, SpaceInv, NEW p \in Proc, BeginOp(p)
  PROVE  ControlInv' /\ SpaceInv'
  <1> USE DEF ControlInv, SpaceInv, BeginOp, disk, log, cache, procs
  <1>1. ControlTypes' BY DEF ControlTypes
  <1>2. CountInv'
    <2>1. CASE MustWait
      <3>1. Inside' = Inside BY <2>1 DEF Inside, ControlTypes
      <3> QED BY <2>1, <3>1 DEF CountInv
    <2>2. CASE ~MustWait
      <3>1. Inside' = Inside \cup {p} /\ p \notin Inside BY <2>2 DEF Inside, ControlTypes
      <3>2. IsFiniteSet(Inside) BY FiniteProcs DEF Inside
      <3> QED BY <2>2, <3>1, <3>2, FS_AddElement DEF CountInv
    <2> QED BY <2>1, <2>2
  <1>3. CommitAlone'
    <2>1. CASE MustWait BY <2>1 DEF CommitAlone, Inside, ControlTypes
    <2>2. CASE ~MustWait BY <2>2 DEF CommitAlone, MustWait
    <2> QED BY <2>1, <2>2
  <1>4. OneCommitter' BY DEF ControlTypes, OneCommitter, Committer
  <1>5. CommitFlag' BY DEF ControlTypes, CommitFlag, Committer
  <1>6. BootIdle' BY DEF BootIdle
  <1>7. TailInv' BY DEF ControlTypes, TailInv
  <1>8. CallWrites' BY DEF ControlTypes, CallWrites, Inside
  <1>9. CallHolds' BY DEF ControlTypes, CallHolds
  <1>10. SleepersMustWait'
    <2>1. CASE MustWait BY <2>1 DEF SleepersMustWait, MustWait, NoSpace
    <2>2. CASE ~MustWait
      <3>1. \A q \in Proc : pc'[q] # "asleep" BY <2>2 DEF SleepersMustWait, ControlTypes
      <3> QED BY <3>1 DEF SleepersMustWait
    <2> QED BY <2>1, <2>2
  <1>11. LogSpace'
    <2>1. CASE MustWait
      <3>1. Inside' = Inside BY <2>1 DEF Inside, ControlTypes
      <3>2. Logs' = Logs BY <3>1 DEF Logs
      <3> QED BY <2>1, <3>2 DEF LogSpace
    <2>2. CASE ~MustWait
      <3>1. Inside' = Inside \cup {p} /\ p \notin Inside BY <2>2 DEF Inside, ControlTypes
      <3>2. Logs' = Logs BY <3>1 DEF Logs, CallWrites
      <3>3. Cardinality(Logs) \in Nat
        <4>1. Logs \subseteq Proc \X Block BY DEF Logs, Inside
        <4> QED BY <4>1, FinitePairs
      <3>4. Len(lh) \in Nat /\ (outstanding + 1) * MAXOPBLOCKS \in Nat
        BY LogAssumption DEF CountInv
      <3>5. Len(lh) + (outstanding + 1) * MAXOPBLOCKS <= LOGSIZE
        BY <2>2, <3>4, LogAssumption DEF MustWait, NoSpace
      <3> QED BY <2>2, <3>2, <3>3, <3>4, <3>5, LogAssumption DEF LogSpace
    <2> QED BY <2>1, <2>2
  <1>12. HeaderSpace' BY DEF HeaderSpace
  <1> QED BY <1>1, <1>2, <1>3, <1>4, <1>5, <1>6, <1>7, <1>8, <1>9, <1>10, <1>11, <1>12

(* A call that writes once more holds one buffer, and the log is as it     *)
(* was.                                                                    *)
LEMMA LogWriteControl ==
  ASSUME ControlInv, SpaceInv, NEW p \in Proc, NEW b \in Block, NEW v \in Val, LogWrite(p, b, v)
  PROVE  ControlInv' /\ SpaceInv'
  <1> USE DEF ControlInv, SpaceInv, LogWrite, disk, log, cache, procs
  <1>1. ControlTypes' BY DEF ControlTypes
  <1>2. CountInv' BY DEF ControlTypes, CountInv, Inside
  <1>3. CommitAlone' BY DEF CommitAlone, Inside
  <1>4. OneCommitter' BY DEF ControlTypes, OneCommitter, Committer
  <1>5. CommitFlag' BY DEF ControlTypes, CommitFlag, Committer
  <1>6. BootIdle' BY DEF BootIdle
  <1>7. TailInv' BY DEF ControlTypes, TailInv
  <1>8. CallWrites'
    <2>1. IsFiniteSet(wrote[p]) BY FiniteBlocks DEF ControlTypes
    <2>2. Cardinality(wrote[p] \cup {b}) <= OpBlocks
      <3>1. CASE b \in wrote[p]
        <4>1. wrote[p] \cup {b} = wrote[p] BY <3>1
        <4> QED BY <4>1 DEF CallWrites
      <3>2. CASE b \notin wrote[p]
        <4>1. Cardinality(wrote[p]) < OpBlocks BY <3>2
        <4>2. Cardinality(wrote[p]) \in Nat BY FiniteBlocks DEF ControlTypes
        <4>3. Cardinality(wrote[p] \cup {b}) = Cardinality(wrote[p]) + 1
          BY <2>1, <3>2, FS_AddElement
        <4> QED BY <4>1, <4>2, <4>3, LogAssumption
      <3> QED BY <3>1, <3>2
    <2> QED BY <2>2 DEF CallWrites, ControlTypes, Inside
  <1>9. CallHolds' BY DEF ControlTypes, CallHolds, Busy
  <1>10. SleepersMustWait' BY DEF ControlTypes, SleepersMustWait, MustWait,
      NoSpace
  <1>11. LogSpace'
    <2>1. Inside' = Inside BY DEF Inside, ControlTypes
    <2>2. Logs \subseteq Logs' BY <2>1 DEF Logs
    <2>3. Logs' \subseteq Proc \X Block BY DEF Logs, Inside
    <2>4. /\ Cardinality(Logs) \in Nat /\ Cardinality(Logs') \in Nat
          /\ Cardinality(Logs) <= Cardinality(Logs')
      BY <2>2, <2>3, FinitePairs
    <2>5. Len(lh) \in Nat /\ outstanding * MAXOPBLOCKS \in Nat
      BY LogAssumption DEF CountInv
    <2> QED BY <2>4, <2>5, LogAssumption DEF LogSpace
  <1>12. HeaderSpace' BY DEF HeaderSpace
  <1> QED BY <1>1, <1>2, <1>3, <1>4, <1>5, <1>6, <1>7, <1>8, <1>9, <1>10, <1>11, <1>12

(* A block joins the transaction once, within what was set aside.          *)
LEMMA LogAppendControl ==
  ASSUME ControlInv, SpaceInv, NEW p \in Proc, LogAppend(p)
  PROVE  ControlInv' /\ SpaceInv'
  <1> USE DEF ControlInv, SpaceInv, LogAppend, disk, log, cache, procs
  <1>1. ControlTypes'
    <2>1. writing[p] \in Block BY DEF ControlTypes, CallHolds
    <2>2. lh' \in Seq(Block) /\ IsInjective(lh') BY <2>1, AppendNew DEF ControlTypes, Recorded
    <2> QED BY <2>2 DEF ControlTypes
  <1>2. CountInv' BY DEF CountInv, Inside
  <1>3. CommitAlone' BY DEF CommitAlone, Inside
  <1>4. OneCommitter' BY DEF OneCommitter, Committer
  <1>5. CommitFlag' BY DEF CommitFlag, Committer
  <1>6. BootIdle' BY DEF BootIdle
  <1>7. TailInv' BY DEF TailInv, CommitAlone, CommitFlag, Committer, Inside,
      BootIdle
  <1>8. CallWrites' BY DEF CallWrites, Inside
  <1>9. CallHolds' BY DEF ControlTypes, CallHolds
  <1>10. SleepersMustWait'
    <2>1. Len(lh') >= Len(lh) /\ Len(lh') \in Nat /\ Len(lh) \in Nat
      <3>1. writing[p] \in Block BY DEF ControlTypes, CallHolds
      <3> QED BY <3>1, AppendNew DEF Recorded
    <2>2. (outstanding + 1) * MAXOPBLOCKS \in Nat BY LogAssumption DEF CountInv
    <2>3. NoSpace => NoSpace' BY <2>1, <2>2, LogAssumption DEF NoSpace
    <2> QED BY <2>3 DEF SleepersMustWait, MustWait
  <1>11. LogSpace'
    <2> DEFINE b == writing[p]
    <2>1. b \in Block /\ b \in wrote[p] /\ p \in Inside BY DEF ControlTypes, CallHolds, Inside
    <2>2. Inside' = Inside BY DEF Inside
    <2>3. CASE b \in ToSet(lh)
      <3>1. Logs' = Logs BY <2>2, <2>3 DEF Logs, Recorded
      <3> QED BY <3>1, <2>3 DEF LogSpace, Recorded
    <2>4. CASE b \notin ToSet(lh)
      <3>1. lh' = Append(lh, b) BY <2>4 DEF Recorded
      <3>2. ToSet(lh') = ToSet(lh) \cup {b} /\ Len(lh') = Len(lh) + 1
        BY <3>1, <2>1, <2>4, AppendNew DEF ControlTypes
      <3>3. Logs \cup {<<p, b>>} \subseteq Logs' /\ <<p, b>> \notin Logs
        BY <2>1, <2>2, <2>4, <3>2 DEF Logs
      <3>4. Logs \subseteq Proc \X Block /\ Logs' \subseteq Proc \X Block BY DEF Logs, Inside
      <3>5. /\ Cardinality(Logs) \in Nat /\ Cardinality(Logs') \in Nat
            /\ Cardinality(Logs \cup {<<p, b>>}) = Cardinality(Logs) + 1
            /\ Cardinality(Logs \cup {<<p, b>>}) <= Cardinality(Logs')
        BY <3>3, <3>4, FinitePairs, FS_AddElement
      <3>6. Len(lh) \in Nat /\ outstanding * MAXOPBLOCKS \in Nat
        BY LogAssumption DEF CountInv
      <3> QED BY <3>2, <3>5, <3>6, LogAssumption DEF LogSpace
    <2> QED BY <2>3, <2>4
  <1>12. HeaderSpace' BY DEF HeaderSpace
  <1> QED BY <1>1, <1>2, <1>3, <1>4, <1>5, <1>6, <1>7, <1>8, <1>9, <1>10, <1>11, <1>12

(* The last one out commits; any other gives back what it has not used.    *)
LEMMA EndOpControl ==
  ASSUME ControlInv, SpaceInv, NEW p \in Proc, EndOp(p)
  PROVE  ControlInv' /\ SpaceInv'
  <1> USE DEF ControlInv, SpaceInv, EndOp, WakeAll, disk, log, cache, procs
  <1>1. ControlTypes' BY DEF ControlTypes
  <1>2. CountInv'
    <2>1. Inside' = Inside \ {p} /\ p \in Inside BY DEF Inside, ControlTypes
    <2>2. IsFiniteSet(Inside) BY FiniteProcs DEF Inside
    <2>3. Cardinality(Inside') = Cardinality(Inside) - 1 BY <2>1, <2>2, FS_RemoveElement
    <2> QED BY <2>3 DEF CountInv
  <1>3. CommitAlone'
    <2>1. CASE outstanding = 1
      <3>1. Inside' = Inside \ {p} /\ p \in Inside BY DEF Inside, ControlTypes
      <3>2. IsFiniteSet(Inside) /\ Cardinality(Inside) = 1
        BY <2>1, FiniteProcs DEF CountInv, Inside
      <3>3. IsFiniteSet(Inside') /\ Cardinality(Inside') = 0
        BY <3>1, <3>2, FS_RemoveElement
      <3> QED BY <3>3, FS_EmptySet DEF CommitAlone
    <2>2. CASE outstanding # 1
      <3>1. ~committing BY DEF CommitAlone, Inside
      <3>2. committing' = committing BY <2>2
      <3> QED BY <3>1, <3>2 DEF CommitAlone
    <2> QED BY <2>1, <2>2
  <1>4. OneCommitter'
    BY DEF ControlTypes, OneCommitter, Committer, CommitAlone, CommitFlag, Inside, BootIdle
  <1>5. CommitFlag' BY DEF ControlTypes, CommitFlag, Committer
  <1>6. BootIdle' BY DEF BootIdle
  <1>7. TailInv' BY DEF TailInv, CommitAlone, CommitFlag, Committer, Inside,
      BootIdle
  <1>8. CallWrites'
    <2>1. Cardinality({}) <= OpBlocks BY FS_EmptySet, LogAssumption
    <2> QED BY <2>1 DEF CallWrites, ControlTypes, Inside
  <1>9. CallHolds' BY DEF ControlTypes, CallHolds
  <1>10. SleepersMustWait' BY DEF SleepersMustWait, MustWait
  <1>11. LogSpace'
    <2> DEFINE T == {p} \X wrote[p]
    <2>1. Inside' = Inside \ {p} /\ p \in Inside BY DEF Inside, ControlTypes
    <2>2. Logs \ T \subseteq Logs' BY <2>1 DEF Logs
    <2>3. Logs \subseteq Proc \X Block /\ Logs' \subseteq Proc \X Block BY DEF Logs, Inside
    <2>4. /\ Cardinality(Logs) \in Nat /\ Cardinality(Logs') \in Nat /\ IsFiniteSet(Logs)
          /\ Cardinality(Logs \ T) \in Nat /\ Cardinality(Logs \ T) <= Cardinality(Logs')
      BY <2>2, <2>3, FinitePairs
    <2>5. wrote[p] \subseteq Block /\ Cardinality(wrote[p]) \in Nat /\ IsFiniteSet(wrote[p])
      BY FiniteBlocks DEF ControlTypes
    <2>6. IsFiniteSet(T) /\ Cardinality(T) = Cardinality(wrote[p])
      <3>1. IsFiniteSet({p}) /\ Cardinality({p}) = 1 BY FS_Singleton
      <3>2. IsFiniteSet(T) /\ Cardinality(T) = 1 * Cardinality(wrote[p]) BY <3>1, <2>5, FS_Product
      <3> QED BY <3>2, <2>5
    <2>7. /\ Cardinality(Logs \ T) = Cardinality(Logs) - Cardinality(Logs \cap T)
          /\ Cardinality(Logs \cap T) <= Cardinality(T)
          /\ Cardinality(Logs \cap T) \in Nat
      BY <2>4, <2>6, FS_Difference, FS_Intersection, FS_CardinalityType
    <2>8. Cardinality(wrote[p]) <= OpBlocks BY DEF CallWrites
    <2>9. outstanding' * MAXOPBLOCKS = outstanding * MAXOPBLOCKS - MAXOPBLOCKS
      <3>1. outstanding \in Nat /\ outstanding' = outstanding - 1 BY DEF CountInv
      <3>2. MAXOPBLOCKS \in Nat BY LogAssumption
      <3> QED BY <3>1, <3>2
    <2>10. Len(lh) \in Nat /\ outstanding * MAXOPBLOCKS \in Nat
      BY LogAssumption DEF CountInv
    <2>11. MAXOPBLOCKS \in Nat /\ OpBlocks \in Nat /\ LOGSIZE \in Nat BY LogAssumption
    <2>12. Cardinality(Logs') >= Cardinality(Logs) - OpBlocks BY <2>4, <2>6, <2>7, <2>8, <2>5, <2>11
    <2>13. lh' = lh OBVIOUS
    <2> QED BY SMTT(20), <2>4, <2>9, <2>10, <2>11, <2>12, <2>13 DEF LogSpace
  <1>12. HeaderSpace' BY DEF HeaderSpace
  <1> QED BY <1>1, <1>2, <1>3, <1>4, <1>5, <1>6, <1>7, <1>8, <1>9, <1>10, <1>11, <1>12

(* write_log() moves on by one block.                                      *)
LEMMA WriteLogControl ==
  ASSUME ControlInv, SpaceInv, NEW p \in Proc, WriteLog(p)
  PROVE  ControlInv' /\ SpaceInv'
  <1> USE DEF ControlInv, SpaceInv, WriteLog, disk, log, cache, procs
  <1>1. ControlTypes' BY DEF ControlTypes
  <1>2. CountInv' BY DEF CountInv, Inside
  <1>3. CommitAlone' BY DEF CommitAlone, Inside
  <1>4. OneCommitter' BY DEF OneCommitter, Committer
  <1>5. CommitFlag' BY DEF CommitFlag, Committer
  <1>6. BootIdle' BY DEF BootIdle
  <1>7. TailInv' BY DEF ControlTypes, TailInv
  <1>8. CallWrites' BY DEF CallWrites, Inside
  <1>9. CallHolds' BY DEF CallHolds
  <1>10. SleepersMustWait' BY DEF SleepersMustWait, MustWait, NoSpace
  <1>11. LogSpace' BY DEF LogSpace, Logs, Inside
  <1>12. HeaderSpace' BY DEF HeaderSpace
  <1> QED BY <1>1, <1>2, <1>3, <1>4, <1>5, <1>6, <1>7, <1>8, <1>9, <1>10, <1>11, <1>12

(* write_head() makes the transaction the one on the disk.                 *)
LEMMA WriteHeadControl ==
  ASSUME ControlInv, SpaceInv, NEW p \in Proc, WriteHead(p)
  PROVE  ControlInv' /\ SpaceInv'
  <1> USE DEF ControlInv, SpaceInv, WriteHead, Logged, disk, log, cache, procs
  <1>1. ControlTypes' BY DEF ControlTypes
  <1>2. CountInv' BY DEF ControlTypes, CountInv, Inside
  <1>3. CommitAlone' BY DEF CommitAlone, Inside
  <1>4. OneCommitter' BY DEF OneCommitter, Committer
  <1>5. CommitFlag' BY DEF CommitFlag, Committer
  <1>6. BootIdle' BY DEF BootIdle
  <1>7. TailInv' BY DEF TailInv
  <1>8. CallWrites' BY DEF CallWrites, Inside
  <1>9. CallHolds' BY DEF CallHolds
  <1>10. SleepersMustWait' BY DEF SleepersMustWait, MustWait, NoSpace
  <1>11. LogSpace' BY DEF ControlTypes, LogSpace, Logs, Inside
  <1>12. HeaderSpace' BY Fits DEF HeaderSpace
  <1> QED BY <1>1, <1>2, <1>3, <1>4, <1>5, <1>6, <1>7, <1>8, <1>9, <1>10, <1>11, <1>12

(* install_trans() moves on by one block.                                  *)
LEMMA InstallTransControl ==
  ASSUME ControlInv, SpaceInv, NEW p \in Proc, InstallTrans(p)
  PROVE  ControlInv' /\ SpaceInv'
  <1> USE DEF ControlInv, SpaceInv, InstallTrans, disk, log, cache, procs
  <1>1. ControlTypes' BY DEF ControlTypes
  <1>2. CountInv' BY DEF CountInv, Inside
  <1>3. CommitAlone' BY DEF CommitAlone, Inside
  <1>4. OneCommitter' BY DEF OneCommitter, Committer
  <1>5. CommitFlag' BY DEF CommitFlag, Committer
  <1>6. BootIdle' BY DEF BootIdle
  <1>7. TailInv' BY DEF ControlTypes, TailInv
  <1>8. CallWrites' BY DEF CallWrites, Inside
  <1>9. CallHolds' BY DEF CallHolds
  <1>10. SleepersMustWait' BY DEF SleepersMustWait, MustWait, NoSpace
  <1>11. LogSpace' BY DEF LogSpace, Logs, Inside
  <1>12. HeaderSpace' BY DEF HeaderSpace
  <1> QED BY <1>1, <1>2, <1>3, <1>4, <1>5, <1>6, <1>7, <1>8, <1>9, <1>10, <1>11, <1>12

(* With all blocks home the log is emptied, in memory and on the disk.     *)
LEMMA EraseControl ==
  ASSUME ControlInv, SpaceInv, NEW p \in Proc, Erase(p)
  PROVE  ControlInv' /\ SpaceInv'
  <1> USE DEF ControlInv, SpaceInv, Erase, disk, log, cache, procs
  <1>1. ControlTypes' BY EmptyInjective DEF ControlTypes
  <1>2. CountInv' BY DEF ControlTypes, CountInv, Inside
  <1>3. CommitAlone' BY DEF CommitAlone, Inside
  <1>4. OneCommitter' BY DEF OneCommitter, Committer
  <1>5. CommitFlag' BY DEF ControlTypes, CommitFlag, Committer, OneCommitter,
      BootIdle
  <1>6. BootIdle' BY DEF BootIdle
  <1>7. TailInv' BY DEF ControlTypes, TailInv, Committer, OneCommitter
  <1>8. CallWrites' BY DEF CallWrites, Inside
  <1>9. CallHolds' BY DEF CallHolds
  <1>10. SleepersMustWait' BY DEF SleepersMustWait, MustWait, CommitFlag,
      Committer, BootIdle
  <1>11. LogSpace'
    <2>1. p \in Committer BY DEF Committer
    <2>2. Inside' = {} /\ outstanding' = 0 BY <2>1, CommitterAlone DEF Inside
    <2>3. Logs' = {} BY <2>2 DEF Logs
    <2>4. Cardinality(Logs') = 0 BY <2>3, FS_EmptySet
    <2>5. Len(lh') = 0 /\ 0 * MAXOPBLOCKS = 0 BY LogAssumption
    <2> QED BY <2>2, <2>4, <2>5, LogAssumption DEF LogSpace
  <1>12. HeaderSpace' BY LogAssumption DEF HeaderSpace
  <1> QED BY <1>1, <1>2, <1>3, <1>4, <1>5, <1>6, <1>7, <1>8, <1>9, <1>10, <1>11, <1>12

(* committing goes back, and begin_op()'s sleepers are woken.              *)
LEMMA CommittedControl ==
  ASSUME ControlInv, SpaceInv, NEW p \in Proc, Committed(p)
  PROVE  ControlInv' /\ SpaceInv'
  <1> USE DEF ControlInv, SpaceInv, Committed, WakeAll, disk, log, cache, procs
  <1>1. ControlTypes' BY DEF ControlTypes
  <1>2. CountInv' BY DEF CountInv, Inside
  <1>3. CommitAlone' BY DEF CommitAlone
  <1>4. OneCommitter' BY DEF OneCommitter, Committer
  <1>5. CommitFlag' BY DEF CommitFlag, Committer, OneCommitter
  <1>6. BootIdle' BY DEF BootIdle
  <1>7. TailInv' BY DEF TailInv
  <1>8. CallWrites' BY DEF CallWrites, Inside
  <1>9. CallHolds' BY DEF CallHolds
  <1>10. SleepersMustWait' BY DEF SleepersMustWait
  <1>11. LogSpace' BY DEF LogSpace, Logs, Inside
  <1>12. HeaderSpace' BY DEF HeaderSpace
  <1> QED BY <1>1, <1>2, <1>3, <1>4, <1>5, <1>6, <1>7, <1>8, <1>9, <1>10, <1>11, <1>12

(* Memory is lost, with all processes in it.                               *)
LEMMA CrashControl ==
  ASSUME ControlInv, SpaceInv, Crash
  PROVE  ControlInv' /\ SpaceInv'
  <1> USE DEF ControlInv, SpaceInv, Crash, disk, log, cache, procs
  <1>1. ControlTypes'
    <2>1. lh' \in Seq(Block) /\ IsInjective(lh') BY EmptyInjective
    <2>2. hdr' = hdr /\ hdr \in Seq(Block) /\ IsInjective(hdr) BY DEF ControlTypes
    <2>3. writing' \in [Proc -> Block \cup {NoBlock}] /\ wrote' \in [Proc -> SUBSET Block]
      OBVIOUS
    <2>4. tail' \in [Proc -> Nat \ {0}] OBVIOUS
    <2>5. committing' \in BOOLEAN /\ up' \in BOOLEAN OBVIOUS
    <2>6. pc' \in [Proc -> {"out", "asleep", "woken", "in", "logging", "write",
                           "install", "done", "panic"}]
      OBVIOUS
    <2> QED BY <2>1, <2>2, <2>3, <2>4, <2>5, <2>6 DEF ControlTypes
  <1>2. CountInv'
    <2>1. Inside' = {} BY DEF Inside
    <2> QED BY <2>1, FS_EmptySet DEF CountInv
  <1>3. CommitAlone' BY DEF CommitAlone
  <1>4. OneCommitter' BY DEF OneCommitter, Committer
  <1>5. CommitFlag' BY DEF CommitFlag
  <1>6. BootIdle' BY DEF BootIdle
  <1>7. TailInv' BY DEF TailInv
  <1>8. CallWrites'
    <2>1. Cardinality({}) <= OpBlocks BY FS_EmptySet, LogAssumption
    <2> QED BY <2>1 DEF CallWrites
  <1>9. CallHolds' BY DEF CallHolds
  <1>10. SleepersMustWait' BY DEF SleepersMustWait
  <1>11. LogSpace'
    <2>1. Logs' = {} BY DEF Inside, Logs
    <2>2. Cardinality(Logs') = 0 BY <2>1, FS_EmptySet
    <2>3. Len(lh') = 0 /\ 0 * MAXOPBLOCKS = 0 BY LogAssumption
    <2> QED BY <2>2, <2>3, LogAssumption DEF LogSpace
  <1>12. HeaderSpace' BY DEF HeaderSpace
  <1> QED BY <1>1, <1>2, <1>3, <1>4, <1>5, <1>6, <1>7, <1>8, <1>9, <1>10, <1>11, <1>12

(* Recovery takes the transaction from the header.                         *)
LEMMA ReadHeadControl ==
  ASSUME ControlInv, SpaceInv, NEW p \in Proc, ReadHead(p)
  PROVE  ControlInv' /\ SpaceInv'
  <1> USE DEF ControlInv, SpaceInv, ReadHead, disk, log, cache, procs
  <1>1. ControlTypes' BY DEF ControlTypes
  <1>2. CountInv' BY DEF CountInv, Inside
  <1>3. CommitAlone' BY DEF CommitAlone, Inside
  <1>4. OneCommitter' BY DEF OneCommitter, Committer
  <1>5. CommitFlag' BY DEF CommitFlag
  <1>6. BootIdle' BY DEF BootIdle
  <1>7. TailInv' BY DEF TailInv
  <1>8. CallWrites' BY DEF CallWrites, Inside
  <1>9. CallHolds' BY DEF CallHolds
  <1>10. SleepersMustWait' BY DEF SleepersMustWait
  <1>11. LogSpace'
    <2>1. Inside = {} /\ Inside' = {} BY DEF Inside
    <2>2. outstanding' = 0 BY <2>1, FS_EmptySet DEF CountInv
    <2>3. Logs' = {} BY <2>1 DEF Logs
    <2>4. Cardinality(Logs') = 0 BY <2>3, FS_EmptySet
    <2>5. Len(hdr) \in Nat /\ 0 * MAXOPBLOCKS = 0 BY LogAssumption DEF ControlTypes
    <2> QED BY <2>2, <2>4, <2>5, LogAssumption DEF LogSpace, HeaderSpace, Polite
  <1>12. HeaderSpace' BY DEF HeaderSpace
  <1> QED BY <1>1, <1>2, <1>3, <1>4, <1>5, <1>6, <1>7, <1>8, <1>9, <1>10, <1>11, <1>12
(* It was clean, so its block is on the disk.                              *)
LEMMA RecycleData ==
  ASSUME ControlInv, SpaceInv, DataInv, Polite, NEW b \in Block, Recycle(b)
  PROVE  DataInv'
  <1> USE DEF ControlInv, SpaceInv, DataInv, Recycle, Recyclable, disk, log, cache, procs
  <1>1. DataTypes' BY DEF DataTypes
  <1>2. CacheInv' BY DEF CacheInv, Busy
  <1>3. CallPhase' BY DEF CallPhase
  <1>4. BootPhase' BY DEF BootPhase
  <1>5. WritePhase'
    <2> SUFFICES ASSUME NEW p \in Proc, pc[p] = "write", NEW i \in 1..tail[p] - 1
                 PROVE  logblk[i] = buf'[lh[i]]
      BY DEF WritePhase
    <2>1. i \in 1..Len(lh) BY WhileWriting DEF ControlTypes
    <2>2. lh[i] \in dirty BY <2>1, WhileWriting, Positions
    <2>3. lh[i] # b BY <2>2
    <2> QED BY <2>3 DEF WritePhase
  <1>6. InstallPhase' BY DEF InstallPhase
  <1> QED BY <1>1, <1>2, <1>3, <1>4, <1>5, <1>6

(* begin_op() touches no block.                                            *)
LEMMA BeginOpData ==
  ASSUME ControlInv, SpaceInv, DataInv, Polite, NEW p \in Proc, BeginOp(p)
  PROVE  DataInv'
  <1> USE DEF ControlInv, SpaceInv, DataInv, BeginOp, disk, log, cache, procs
  <1>1. DataTypes' BY DEF DataTypes
  <1>2. CacheInv' BY DEF CacheInv, Busy
  <1>3. CallPhase' BY DEF ControlTypes, CallPhase
  <1>4. BootPhase' BY DEF BootPhase
  <1>5. WritePhase' BY DEF ControlTypes, WritePhase, CallPhase
  <1>6. InstallPhase' BY DEF ControlTypes, InstallPhase,
      WritePhase
  <1> QED BY <1>1, <1>2, <1>3, <1>4, <1>5, <1>6

(* A buffer being changed is busy until it is logged.                      *)
LEMMA LogWriteData ==
  ASSUME ControlInv, SpaceInv, DataInv, Polite,
         NEW p \in Proc, NEW b \in Block, NEW v \in Val, LogWrite(p, b, v)
  PROVE  DataInv'
  <1> USE DEF ControlInv, SpaceInv, DataInv, LogWrite, disk, log, cache, procs
  <1>1. DataTypes' BY DEF DataTypes
  <1>2. CacheInv'
    <2>1. \A c \in Block : c \notin Busy' => c \notin Busy /\ c # b
      BY LogAssumption DEF Busy, ControlTypes, CallHolds
    <2>2. \A q \in Proc : writing'[q] # NoBlock => buf'[writing'[q]] # NoBuf
      BY LogAssumption DEF ControlTypes, DataTypes, CacheInv
    <2> QED BY <2>1, <2>2, LogAssumption DEF CacheInv, DataTypes
  <1>3. CallPhase' BY DEF ControlTypes, CallPhase
  <1>4. BootPhase' BY DEF BootIdle, BootPhase
  <1>5. WritePhase'
    <2>1. p \in Inside BY DEF Inside
    <2> QED BY <2>1, WhileCalling DEF WritePhase, Committer, ControlTypes
  <1>6. InstallPhase' BY DEF ControlTypes, CommitAlone,
      CommitFlag, Committer, Inside, InstallPhase
  <1> QED BY <1>1, <1>2, <1>3, <1>4, <1>5, <1>6

(* A logged block is pinned in the cache.                                  *)
LEMMA LogAppendData ==
  ASSUME ControlInv, SpaceInv, DataInv, Polite, NEW p \in Proc, LogAppend(p)
  PROVE  DataInv'
  <1> USE DEF ControlInv, SpaceInv, DataInv, LogAppend, disk, log, cache, procs
  <1>1. DataTypes' BY DEF DataTypes, ControlTypes, CallHolds
  <1>2. CacheInv' BY LogAssumption DEF ControlTypes, CacheInv, Busy, CallHolds
  <1>3. CallPhase'
    <2>1. p \in Inside BY DEF Inside
    <2>2. up /\ Committer = {} BY <2>1, WhileCalling
    <2>3. hdr = <<>> /\ dirty = ToSet(lh) BY <2>2 DEF CallPhase, Committer
    <2>4. writing[p] \in Block BY DEF ControlTypes, CallHolds
    <2>5. ToSet(lh') = ToSet(lh) \cup {writing[p]}
      BY <2>4, AppendNew DEF Recorded, ControlTypes
    <2>6. \A q \in Proc : pc'[q] # "done" BY <2>2 DEF Committer
    <2> QED BY <2>3, <2>5, <2>6 DEF CallPhase
  <1>4. BootPhase' BY DEF BootIdle, BootPhase
  <1>5. WritePhase' BY DEF CommitAlone, CommitFlag, Committer,
      Inside, BootIdle, WritePhase
  <1>6. InstallPhase' BY DEF CommitAlone, CommitFlag, Committer,
      Inside, BootIdle, InstallPhase
  <1> QED BY <1>1, <1>2, <1>3, <1>4, <1>5, <1>6

(* end_op() touches no block before commit().                              *)
LEMMA EndOpData ==
  ASSUME ControlInv, SpaceInv, DataInv, Polite, NEW p \in Proc, EndOp(p)
  PROVE  DataInv'
  <1> USE DEF ControlInv, SpaceInv, DataInv, EndOp, WakeAll, disk, log, cache, procs
  <1>1. DataTypes' BY DEF DataTypes
  <1>2. CacheInv' BY DEF CacheInv, Busy
  <1>3. CallPhase' BY DEF ControlTypes, CallPhase
  <1>4. BootPhase' BY DEF ControlTypes, BootPhase
  <1>5. WritePhase' BY DEF ControlTypes, CommitFlag, Committer,
      BootIdle, TailInv, WritePhase
  <1>6. InstallPhase' BY LogAssumption DEF ControlTypes, DataTypes,
      CommitAlone, OneCommitter, Committer, InstallPhase, WritePhase
  <1> QED BY <1>1, <1>2, <1>3, <1>4, <1>5, <1>6

(* It copies a pinned buffer to the log.                                   *)
LEMMA WriteLogData ==
  ASSUME ControlInv, SpaceInv, DataInv, Polite, NEW p \in Proc, WriteLog(p)
  PROVE  DataInv'
  <1> USE DEF ControlInv, SpaceInv, DataInv, WriteLog, disk, log, cache, procs
  <1>1. DataTypes'
    <2>1. tail[p] \in 1..Len(lh) BY DEF ControlTypes
    <2>2. tail[p] \in 1..LOGSIZE /\ lh[tail[p]] \in Block BY <2>1, Positions
    <2>3. Read(lh[tail[p]]) \in Val BY <2>2 DEF Read, DataTypes
    <2> QED BY <2>3 DEF DataTypes
  <1>2. CacheInv' BY DEF CacheInv, Busy
  <1>3. CallPhase' BY DEF CallPhase
  <1>4. BootPhase' BY DEF BootPhase
  <1>5. WritePhase'
    <2> SUFFICES ASSUME NEW q \in Proc, pc'[q] = "write", NEW i \in 1..tail'[q] - 1
                 PROVE  logblk'[i] = buf'[lh'[i]]
      BY DEF WritePhase
    <2>1. q = p BY DEF OneCommitter, Committer
    <2>2. tail[p] \in Nat /\ tail'[p] = tail[p] + 1 /\ tail[p] \in 1..Len(lh) BY DEF ControlTypes
    <2>3. i \in 1..Len(lh) /\ (i \in 1..tail[p] - 1 \/ i = tail[p]) BY <2>1, <2>2
    <2>4. tail[p] \in 1..LOGSIZE /\ lh[tail[p]] \in dirty BY <2>2, Positions, WhileWriting
    <2>5. Read(lh[tail[p]]) = buf[lh[tail[p]]] BY <2>4 DEF Read, CacheInv
    <2>6. CASE i = tail[p] BY <2>6, <2>4, <2>5 DEF DataTypes
    <2>7. CASE i \in 1..tail[p] - 1
      <3>1. logblk[i] = buf[lh[i]] BY <2>7 DEF WritePhase
      <3>2. i # tail[p] BY <2>7, <2>2
      <3> QED BY <3>1, <3>2, <2>3, Positions DEF DataTypes
    <2> QED BY <2>3, <2>6, <2>7
  <1>6. InstallPhase' BY DEF OneCommitter, Committer,
      InstallPhase
  <1> QED BY <1>1, <1>2, <1>3, <1>4, <1>5, <1>6

(* From here on every block of it is in the log.                           *)
LEMMA WriteHeadData ==
  ASSUME ControlInv, SpaceInv, DataInv, Polite, NEW p \in Proc, WriteHead(p)
  PROVE  DataInv'
  <1> USE DEF ControlInv, SpaceInv, DataInv, WriteHead, Logged, disk, log, cache, procs
  <1>1. DataTypes' BY DEF DataTypes
  <1>2. CacheInv' BY DEF CacheInv, Busy
  <1>3. CallPhase' BY DEF ControlTypes, CallPhase
  <1>4. BootPhase' BY DEF BootPhase
  <1>5. WritePhase' BY DEF WritePhase
  <1>6. InstallPhase'
    <2> SUFFICES ASSUME NEW q \in Proc, pc'[q] = "install"
                 PROVE  /\ hdr' = lh /\ dirty \subseteq ToSet(lh) /\ tail'[q] = 1
                        /\ \A i \in 1..Len(lh) : lh[i] \in dirty /\ buf[lh[i]] = logblk[i]
      BY DEF InstallPhase
    <2>1. q = p BY DEF OneCommitter, Committer
    <2>2. hdr' = lh /\ tail'[q] = 1 BY <2>1 DEF ControlTypes
    <2>3. dirty = ToSet(lh) BY WhileWriting
    <2>4. Len(lh) \in Nat /\ 1..tail[p] - 1 = 1..Len(lh) BY DEF ControlTypes
    <2>5. \A i \in 1..Len(lh) : buf[lh[i]] = logblk[i] BY <2>4 DEF WritePhase
    <2> QED BY <2>2, <2>3, <2>5, Positions
  <1> QED BY <1>1, <1>2, <1>3, <1>4, <1>5, <1>6

(* It copies a block home, from the log, and unpins its buffer.            *)
LEMMA InstallTransData ==
  ASSUME ControlInv, SpaceInv, DataInv, Polite, NEW p \in Proc, InstallTrans(p)
  PROVE  DataInv'
  <1> USE DEF ControlInv, SpaceInv, DataInv, InstallTrans, disk, log, cache, procs
  <1>1. DataTypes'
    <2>1. tail[p] \in 1..Len(lh) BY DEF ControlTypes
    <2>2. tail[p] \in 1..LOGSIZE /\ lh[tail[p]] \in Block BY <2>1, Positions
    <2>3. logblk[tail[p]] \in Val BY <2>2 DEF DataTypes
    <2> QED BY <2>3 DEF DataTypes
  <1>2. CacheInv'
    <2> DEFINE t == lh[tail[p]]
    <2>1. tail[p] \in 1..Len(lh) BY DEF ControlTypes
    <2>2. tail[p] \in 1..LOGSIZE /\ t \in Block BY <2>1, Positions
    <2>3. logblk[tail[p]] \in Val /\ logblk[tail[p]] # NoBuf BY <2>2, LogAssumption DEF DataTypes
    <2>4. home'[t] = logblk[tail[p]] /\ buf'[t] = logblk[tail[p]] BY <2>2 DEF DataTypes
    <2>5. \A b \in Block \ {t} : home'[b] = home[b] /\ buf'[b] = buf[b] BY DEF DataTypes
    <2>6. Busy' = Busy /\ dirty' = dirty \ {t} BY DEF Busy
    <2>7. \A b \in dirty' : buf'[b] # NoBuf BY <2>5, <2>6 DEF CacheInv
    <2>8. \A b \in Block \ (dirty' \cup Busy') : buf'[b] # NoBuf => buf'[b] = home'[b]
      BY <2>4, <2>5, <2>6 DEF CacheInv
    <2>9. \A q \in Proc : writing'[q] # NoBlock => buf'[writing'[q]] # NoBuf
      BY <2>3, <2>4, <2>5 DEF CacheInv
    <2> QED BY <2>7, <2>8, <2>9 DEF CacheInv
  <1>3. CallPhase' BY DEF CallPhase
  <1>4. BootPhase' BY DEF BootPhase
  <1>5. WritePhase' BY DEF OneCommitter, Committer, WritePhase
  <1>6. InstallPhase'
    <2> DEFINE t == lh[tail[p]]
    <2> SUFFICES ASSUME NEW q \in Proc, pc'[q] = "install"
                 PROVE  /\ hdr' = lh' /\ dirty' \subseteq ToSet(lh')
                        /\ \A i \in 1..tail'[q] - 1 :
                              home'[lh'[i]] = logblk'[i] /\ lh'[i] \notin dirty'
                        /\ up' => \A i \in tail'[q]..Len(lh') :
                              lh'[i] \in dirty' /\ buf'[lh'[i]] = logblk'[i]
      BY DEF InstallPhase
    <2>1. q = p BY DEF OneCommitter, Committer
    <2>2. tail[p] \in Nat /\ tail'[p] = tail[p] + 1 /\ tail[p] \in 1..Len(lh) BY DEF ControlTypes
    <2>3. t \in Block BY <2>2, Positions
    <2>4. home'[t] = logblk[tail[p]] /\ dirty' = dirty \ {t} BY <2>3 DEF DataTypes
    <2>5. \A b \in Block \ {t} : home'[b] = home[b] /\ buf'[b] = buf[b] BY DEF DataTypes
    <2>6. hdr' = lh' /\ dirty' \subseteq ToSet(lh') BY <2>4 DEF InstallPhase
    <2>7. ASSUME NEW i \in 1..tail'[q] - 1
          PROVE  home'[lh'[i]] = logblk'[i] /\ lh'[i] \notin dirty'
      <3>1. i \in 1..Len(lh) /\ (i = tail[p] \/ i \in 1..tail[p] - 1) BY <2>1, <2>2
      <3>2. CASE i = tail[p] BY <3>2, <2>4
      <3>3. CASE i \in 1..tail[p] - 1
        <4>1. lh[i] \in Block \ {t} BY <3>1, <3>3, <2>2, Positions
        <4>2. home[lh[i]] = logblk[i] /\ lh[i] \notin dirty BY <3>3 DEF InstallPhase
        <4> QED BY <4>1, <4>2, <2>4, <2>5
      <3> QED BY <3>1, <3>2, <3>3
    <2>8. ASSUME up', NEW i \in tail'[q]..Len(lh')
          PROVE  lh'[i] \in dirty' /\ buf'[lh'[i]] = logblk'[i]
      <3>1. i \in 1..Len(lh) /\ i # tail[p] /\ i \in tail[p]..Len(lh) BY <2>1, <2>2 DEF ControlTypes
      <3>2. lh[i] \in Block \ {t} BY <3>1, <2>2, Positions
      <3>3. lh[i] \in dirty /\ buf[lh[i]] = logblk[i] BY <2>8, <3>1 DEF InstallPhase
      <3> QED BY <3>2, <3>3, <2>4, <2>5
    <2> QED BY <2>6, <2>7, <2>8
  <1> QED BY <1>1, <1>2, <1>3, <1>4, <1>5, <1>6

(* Nothing is pinned then.                                                 *)
LEMMA EraseData ==
  ASSUME ControlInv, SpaceInv, DataInv, Polite, NEW p \in Proc, Erase(p)
  PROVE  DataInv'
  <1> USE DEF ControlInv, SpaceInv, DataInv, Erase, disk, log, cache, procs
  <1>1. DataTypes' BY DEF DataTypes
  <1>2. CacheInv' BY DEF CacheInv, Busy
  <1>3. CallPhase'
    <2>1. \A q \in Proc : pc'[q] # "install" BY DEF OneCommitter, Committer, ControlTypes
    <2>2. Len(lh) \in Nat /\ 1..tail[p] - 1 = 1..Len(lh) /\ DOMAIN lh = 1..Len(lh)
      BY DEF ControlTypes
    <2>3. dirty = {} BY <2>2 DEF InstallPhase, ToSet
    <2> QED BY <2>1, <2>3, EmptyInjective DEF CallPhase
  <1>4. BootPhase' BY DEF BootPhase
  <1>5. WritePhase' BY DEF OneCommitter, Committer, WritePhase
  <1>6. InstallPhase' BY DEF ControlTypes, OneCommitter,
      Committer, InstallPhase
  <1> QED BY <1>1, <1>2, <1>3, <1>4, <1>5, <1>6

(* The end of end_op() touches no block.                                   *)
LEMMA CommittedData ==
  ASSUME ControlInv, SpaceInv, DataInv, Polite, NEW p \in Proc, Committed(p)
  PROVE  DataInv'
  <1> USE DEF ControlInv, SpaceInv, DataInv, Committed, WakeAll, disk, log, cache, procs
  <1>1. DataTypes' BY DEF DataTypes
  <1>2. CacheInv' BY DEF CacheInv, Busy
  <1>3. CallPhase' BY DEF CallPhase
  <1>4. BootPhase' BY DEF BootPhase
  <1>5. WritePhase' BY DEF WritePhase
  <1>6. InstallPhase' BY DEF InstallPhase
  <1> QED BY <1>1, <1>2, <1>3, <1>4, <1>5, <1>6

(* The disk stays as it is.                                                *)
LEMMA CrashData ==
  ASSUME ControlInv, SpaceInv, DataInv, Polite, Crash
  PROVE  DataInv'
  <1> USE DEF ControlInv, SpaceInv, DataInv, Crash, disk, log, cache, procs
  <1>1. DataTypes' BY DEF DataTypes
  <1>2. CacheInv' BY DEF CacheInv
  <1>3. CallPhase' BY DEF CallPhase
  <1>4. BootPhase' BY DEF BootPhase
  <1>5. WritePhase' BY DEF WritePhase
  <1>6. InstallPhase' BY DEF InstallPhase
  <1> QED BY <1>1, <1>2, <1>3, <1>4, <1>5, <1>6

(* The blocks it names are in the log.                                     *)
LEMMA ReadHeadData ==
  ASSUME ControlInv, SpaceInv, DataInv, Polite, NEW p \in Proc, ReadHead(p)
  PROVE  DataInv'
  <1> USE DEF ControlInv, SpaceInv, DataInv, ReadHead, disk, log, cache, procs
  <1>1. DataTypes' BY DEF DataTypes
  <1>2. CacheInv' BY DEF CacheInv, Busy
  <1>3. CallPhase' BY DEF CallPhase
  <1>4. BootPhase' BY DEF BootPhase
  <1>5. WritePhase' BY DEF WritePhase
  <1>6. InstallPhase'
    <2>1. dirty = {} BY DEF BootPhase
    <2>2. tail[p] = 1 BY DEF TailInv
    <2>3. \A q \in Proc : pc'[q] = "install" => q = p BY DEF ControlTypes
    <2>4. 1..tail[p] - 1 = {} BY <2>2
    <2> QED BY <2>1, <2>2, <2>3, <2>4 DEF InstallPhase
  <1> QED BY <1>1, <1>2, <1>3, <1>4, <1>5, <1>6

-----------------------------------------------------------------------------
(* The kernel boots with an empty log and nobody in a system call.         *)
LEMMA InitControl == Init => ControlInv /\ SpaceInv
  <1> SUFFICES ASSUME Init PROVE ControlInv /\ SpaceInv OBVIOUS
  <1> USE DEF Init
  <1>1. Inside = {} /\ Logs = {} /\ Committer = {} BY DEF Inside, Logs, Committer
  <1>2. Cardinality({}) = 0 /\ 0 <= OpBlocks BY FS_EmptySet, LogAssumption
  <1>3. ControlTypes
    <2>1. tail \in [Proc -> Nat \ {0}] OBVIOUS
    <2> QED BY <2>1, EmptyInjective DEF ControlTypes
  <1>4. CountInv /\ CallWrites BY <1>1, <1>2 DEF CountInv, CallWrites
  <1>5. CommitAlone /\ OneCommitter /\ CommitFlag BY <1>1 DEF CommitAlone, OneCommitter, CommitFlag
  <1>6. BootIdle /\ TailInv BY DEF BootIdle, TailInv
  <1>7. CallHolds /\ SleepersMustWait BY DEF CallHolds, SleepersMustWait
  <1>8. 0 * MAXOPBLOCKS = 0 /\ LOGSIZE \in Nat BY LogAssumption
  <1>9. LogSpace BY <1>1, <1>2, <1>8, EmptyInjective DEF LogSpace
  <1>10. HeaderSpace BY <1>8, EmptyInjective DEF HeaderSpace
  <1> QED BY <1>3, <1>4, <1>5, <1>6, <1>7, <1>9, <1>10 DEF ControlInv, SpaceInv

(* It boots with an empty cache.                                           *)
LEMMA InitData == Init => DataInv
  <1> SUFFICES ASSUME Init PROVE DataInv OBVIOUS
  <1> USE DEF Init
  <1>1. DataTypes BY DEF DataTypes
  <1>2. CacheInv BY DEF CacheInv
  <1>3. CallPhase /\ BootPhase BY DEF CallPhase, BootPhase
  <1>4. WritePhase /\ InstallPhase BY DEF WritePhase, InstallPhase
  <1> QED BY <1>1, <1>2, <1>3, <1>4 DEF DataInv

(* The inductive step, action by action.                                   *)
LEMMA NextControl == ControlInv /\ SpaceInv /\ [Next]_vars => ControlInv' /\ SpaceInv'
  <1> SUFFICES ASSUME ControlInv, SpaceInv, [Next]_vars PROVE ControlInv' /\ SpaceInv'
    OBVIOUS
  <1>1. CASE Crash BY <1>1, CrashControl
  <1>2. ASSUME NEW b \in Block, Recycle(b) PROVE ControlInv' /\ SpaceInv'
    BY <1>2, RecycleControl
  <1>3. ASSUME NEW p \in Proc,
               BeginOp(p) \/ Call(p) \/ EndOp(p) \/ Commit(p) \/ ReadHead(p)
        PROVE  ControlInv' /\ SpaceInv'
    <2>1. CASE Call(p) BY <2>1, LogAppendControl, LogWriteControl DEF Call
    <2>2. CASE Commit(p)
      BY <2>2, WriteLogControl, WriteHeadControl, InstallTransControl, EraseControl,
         CommittedControl DEF Commit
    <2> QED BY <1>3, <2>1, <2>2, BeginOpControl, EndOpControl, ReadHeadControl
  <1>4. CASE UNCHANGED vars
    <2> USE <1>4 DEF vars, disk, log, cache, procs
    <2>1. ControlInv'
      BY DEF ControlInv, ControlTypes, CountInv, Inside, CommitAlone, OneCommitter, CommitFlag,
             Committer, BootIdle, TailInv, CallWrites, CallHolds, SleepersMustWait, MustWait,
             NoSpace
    <2>2. SpaceInv' BY DEF SpaceInv, LogSpace, HeaderSpace, Logs, Inside
    <2> QED BY <2>1, <2>2
  <1> QED BY <1>1, <1>2, <1>3, <1>4 DEF Next

(* The inductive step of what the disk, the log and the cache hold.        *)
LEMMA NextData ==
  ASSUME Polite
  PROVE  ControlInv /\ SpaceInv /\ DataInv /\ [Next]_vars => DataInv'
  <1> SUFFICES ASSUME ControlInv, SpaceInv, DataInv, [Next]_vars PROVE DataInv'
    OBVIOUS
  <1>1. CASE Crash BY <1>1, CrashData
  <1>2. ASSUME NEW b \in Block, Recycle(b) PROVE DataInv'
    BY <1>2, RecycleData
  <1>3. ASSUME NEW p \in Proc,
               BeginOp(p) \/ Call(p) \/ EndOp(p) \/ Commit(p) \/ ReadHead(p)
        PROVE  DataInv'
    <2>1. CASE Call(p) BY <2>1, LogAppendData, LogWriteData DEF Call
    <2>2. CASE Commit(p)
      BY <2>2, WriteLogData, WriteHeadData, InstallTransData, EraseData, CommittedData DEF Commit
    <2> QED BY <1>3, <2>1, <2>2, BeginOpData, EndOpData, ReadHeadData
  <1>4. CASE UNCHANGED vars
    BY <1>4 DEF vars, disk, log, cache, procs, DataInv, DataTypes, CacheInv, Busy, CallPhase,
      BootPhase, WritePhase, InstallPhase
  <1> QED BY <1>1, <1>2, <1>3, <1>4 DEF Next

(* Who is inside and who commits, for every size of the calls.            *)
LEMMA ControlInvariant == Spec => [](ControlInv /\ SpaceInv)
  BY InitControl, NextControl, PTL DEF Spec

(* end_op() never finds committing set: a commit runs while nobody is      *)
(* inside a system call (log.c:137).                                       *)
THEOREM CommitsAlone == Spec => []CommitAlone
  <1>1. ControlInv => CommitAlone BY DEF ControlInv
  <1> QED BY <1>1, ControlInvariant, PTL

(* begin_op() loses no wakeup: its sleepers would have to wait again.      *)
THEOREM NoLostSpace == Spec => []SleepersMustWait
  <1>1. ControlInv => SleepersMustWait BY DEF ControlInv
  <1> QED BY <1>1, ControlInvariant, PTL

(* begin_op() sets enough of the log aside for every call inside, for any  *)
(* number of processes and any size of the log.                            *)
THEOREM SpaceSetAside == Spec => []LogSpace
  <1>1. SpaceInv => LogSpace BY DEF SpaceInv
  <1> QED BY <1>1, ControlInvariant, PTL

(* Every variable stays in its type: the transaction and the header never  *)
(* outgrow the LOGSIZE blocks of struct logheader.                         *)
THEOREM LogTypes ==
  ASSUME Polite
  PROVE  Spec => []TypeOK
  <1>1. Init => ControlInv /\ SpaceInv /\ DataInv BY InitControl, InitData
  <1>2. ControlInv /\ SpaceInv /\ DataInv /\ [Next]_vars
        => ControlInv' /\ SpaceInv' /\ DataInv'
    BY NextControl, NextData
  <1>3. ControlInv /\ SpaceInv /\ DataInv => TypeOK
    <2> SUFFICES ASSUME ControlInv, SpaceInv, DataInv PROVE TypeOK OBVIOUS
    <2> USE DEF ControlInv, ControlTypes
    <2>1. Len(lh) <= LOGSIZE /\ Len(hdr) <= LOGSIZE BY Fits DEF SpaceInv, HeaderSpace
    <2>2. lh \in BoundedSeq(Block, LOGSIZE) BY <2>1, ShortSeq, LogAssumption
    <2>3. hdr \in BoundedSeq(Block, LOGSIZE) BY <2>1, ShortSeq, LogAssumption
    <2>4. outstanding \in 0..Cardinality(Proc)
      <3>1. Inside \subseteq Proc BY DEF Inside
      <3> QED BY <3>1, LogAssumption, FS_Subset, FS_CardinalityType DEF CountInv
    <2>5. tail \in [Proc -> 1..LOGSIZE + 1]
      <3>1. \A p \in Proc : tail[p] \in 1..LOGSIZE + 1
        BY <2>1, LogAssumption DEF TailInv
      <3> QED BY <3>1
    <2> QED BY <2>2, <2>3, <2>4, <2>5 DEF TypeOK, DataInv, DataTypes
  <1> QED BY <1>1, <1>2, <1>3, PTL DEF Spec

-----------------------------------------------------------------------------
(* A header names a block once, so recovery finds the right copy of it.    *)
LEMMA HeaderNames ==
  ASSUME NEW h \in Seq(Block), IsInjective(h), NEW i \in 1..Len(h)
  PROVE  i \in DOMAIN h /\ (CHOOSE j \in DOMAIN h : h[j] = h[i]) = i
  <1>1. DOMAIN h = 1..Len(h) OBVIOUS
  <1>2. \A j \in DOMAIN h : h[j] = h[i] => j = i BY <1>1 DEF IsInjective
  <1> QED BY <1>1, <1>2

(* Recovery looks at the header only, and an empty one names nothing.      *)
LEMMA RecoveredEmpty ==
  /\ hdr = <<>> /\ home \in [Block -> Val] => Recovered = home
  BY DEF Recovered


-----------------------------------------------------------------------------
(***************************************************************************)
(* Log implements LogStore, when no system call writes more than           *)
(* begin_op() sets aside for it.  A system call writes the abstract file   *)
(* system block by block; WriteHead is the one step that saves it.         *)
(***************************************************************************)

StoreStep == [Store!StoreNext]_<<FileSystem, Recovered, Inside>>

(* Recovery reads the disk only, and a read looks at the cache as well.    *)
LEMMA SameRecovered == UNCHANGED disk => Recovered' = Recovered
  BY DEF Recovered, disk

(* A read finds the same if neither has changed.                           *)
LEMMA SameFileSystem ==
  (UNCHANGED disk) /\ (UNCHANGED cache) /\ (UNCHANGED up) => FileSystem' = FileSystem
  BY SameRecovered DEF FileSystem, Read, disk, cache

(* What recovery finds for a block the header names. *)
LEMMA RecoveredNamed ==
  ASSUME hdr \in Seq(Block), IsInjective(hdr), NEW i \in 1..Len(hdr)
  PROVE  Recovered[hdr[i]] = logblk[i]
  <1>1. hdr[i] \in Block OBVIOUS
  <1>2. i \in DOMAIN hdr /\ (CHOOSE j \in DOMAIN hdr : hdr[j] = hdr[i]) = i BY HeaderNames
  <1> QED BY <1>1, <1>2 DEF Recovered

(* What it finds for any other                                             *)
LEMMA RecoveredOther ==
  ASSUME hdr \in Seq(Block), NEW b \in Block, b \notin ToSet(hdr)
  PROVE  Recovered[b] = home[b]
  BY DEF Recovered, ToSet

(* A commit is under way: the file system is not being changed. *)
LEMMA NobodyBusy ==
  ASSUME ControlInv, Inside = {}
  PROVE  Busy = {}
  BY LogAssumption DEF ControlInv, ControlTypes, CallHolds, Inside, Busy

(* A clean buffer goes: a read finds the same on the disk.                 *)
LEMMA RecycleStep ==
  ASSUME ControlInv, DataInv, NEW b \in Block, Recycle(b)
  PROVE  StoreStep
  <1> USE DEF Recycle, procs
  <1>1. Recovered' = Recovered BY SameRecovered
  <1>2. Inside' = Inside BY DEF Inside
  <1>3. buf[b] = home[b] BY DEF Recyclable, DataInv, CacheInv
  <1>4. \A c \in Block : Read(c)' = Read(c)
    BY <1>3 DEF Read, disk
  <1>5. FileSystem' = FileSystem BY <1>4, <1>1 DEF FileSystem
  <1> QED BY <1>1, <1>2, <1>5 DEF StoreStep

(* begin_op() lets its caller in, or makes it wait.                        *)
LEMMA BeginOpStep ==
  ASSUME ControlInv, NEW p \in Proc, BeginOp(p)
  PROVE  StoreStep
  <1> USE DEF BeginOp, ControlInv, ControlTypes
  <1>1. Recovered' = Recovered BY SameRecovered
  <1>2. FileSystem' = FileSystem BY SameFileSystem
  <1>3. p \notin Inside BY DEF Inside
  <1>4. CASE MustWait
    <2>1. Inside' = Inside BY <1>4 DEF Inside
    <2> QED BY <1>1, <1>2, <2>1 DEF StoreStep
  <1>5. CASE ~MustWait
    <2>1. Inside' = Inside \cup {p} BY <1>5 DEF Inside
    <2> QED BY <1>1, <1>2, <1>3, <2>1 DEF StoreStep, Store!StoreNext, Store!Enter
  <1> QED BY <1>4, <1>5

(* The one change a read sees; recovery does not.                          *)
LEMMA LogWriteStep ==
  ASSUME ControlInv, DataInv, NEW p \in Proc, NEW b \in Block, NEW v \in Val, LogWrite(p, b, v)
  PROVE  StoreStep
  <1> USE DEF LogWrite, ControlInv, ControlTypes
  <1>1. Recovered' = Recovered BY SameRecovered
  <1>2. Inside' = Inside /\ p \in Inside BY DEF Inside
  <1>3. up /\ up' BY DEF BootIdle
  <1>4. \A c \in Block : Read(c)' = IF c = b THEN v ELSE Read(c)
    BY LogAssumption DEF Read, disk, DataInv, DataTypes
  <1>5. FileSystem' = [FileSystem EXCEPT ![b] = v] BY <1>3, <1>4 DEF FileSystem
  <1> QED BY <1>1, <1>2, <1>5 DEF StoreStep, Store!StoreNext, Store!Write

(* Logging a block changes nothing a read or a recovery finds.             *)
LEMMA LogAppendStep ==
  ASSUME ControlInv, NEW p \in Proc, LogAppend(p)
  PROVE  StoreStep
  <1> USE DEF LogAppend, ControlInv, ControlTypes
  <1>1. Recovered' = Recovered BY SameRecovered
  <1>2. Inside' = Inside BY DEF Inside
  <1>3. FileSystem' = FileSystem BY <1>1 DEF FileSystem, Read, disk
  <1> QED BY <1>1, <1>2, <1>3 DEF StoreStep

(* The caller of end_op() leaves.                                          *)
LEMMA EndOpStep ==
  ASSUME ControlInv, NEW p \in Proc, EndOp(p)
  PROVE  StoreStep
  <1> USE DEF EndOp, ControlInv, ControlTypes
  <1>1. Recovered' = Recovered BY SameRecovered
  <1>2. FileSystem' = FileSystem BY SameFileSystem
  <1>3. p \in Inside /\ Inside' = Inside \ {p} BY DEF Inside, WakeAll
  <1> QED BY <1>1, <1>2, <1>3 DEF StoreStep, Store!StoreNext, Store!Return

(* The log is written while the header on the disk names none of it.       *)
LEMMA WriteLogStep ==
  ASSUME ControlInv, DataInv, NEW p \in Proc, WriteLog(p)
  PROVE  StoreStep
  <1> USE DEF WriteLog
  <1>1. up /\ \A q \in Proc : pc[q] # "install"
    BY DEF ControlInv, BootIdle, OneCommitter, Committer
  <1>2. hdr = <<>> /\ hdr' = <<>> BY <1>1 DEF DataInv, CallPhase
  <1>3. Recovered' = Recovered BY <1>2 DEF Recovered
  <1>4. Inside' = Inside BY DEF Inside
  <1>5. FileSystem' = FileSystem BY <1>3 DEF FileSystem, Read, cache
  <1> QED BY <1>3, <1>4, <1>5 DEF StoreStep

(* The header makes all calls so far permanent, and none is half done.     *)
LEMMA WriteHeadStep ==
  ASSUME ControlInv, DataInv, NEW p \in Proc, WriteHead(p)
  PROVE  StoreStep
  <1> USE DEF WriteHead
  <1>1. up /\ (\A q \in Proc : pc[q] # "install") /\ p \in Committer
    BY DEF ControlInv, BootIdle, OneCommitter, Committer
  <1>2. Inside = {} BY <1>1 DEF ControlInv, CommitFlag, CommitAlone
  <1>3. Inside' = Inside BY DEF Inside
  <1>4. dirty = ToSet(lh) BY <1>1 DEF DataInv, CallPhase
  <1>5. hdr' \in Seq(Block) /\ IsInjective(hdr') BY DEF ControlInv, ControlTypes
  <1>6. ASSUME NEW b \in Block PROVE Recovered'[b] = Read(b)
    <2>1. CASE b \in ToSet(lh)
      <3>1. PICK i \in 1..Len(lh) : b = lh[i] BY <2>1, <1>5 DEF ToSet
      <3>2. i \in DOMAIN lh /\ (CHOOSE j \in DOMAIN lh : lh[j] = lh[i]) = i
        BY <1>5, HeaderNames
      <3>3. hdr' = lh /\ logblk' = logblk OBVIOUS
      <3>4. Recovered'[b] = logblk[i] BY <3>1, <3>2, <3>3 DEF Recovered
      <3>5. tail[p] \in Nat /\ Len(lh) \in Nat /\ tail[p] = Len(lh) + 1
        BY DEF Logged
      <3>6. logblk[i] = buf[b] BY <3>1, <3>5 DEF DataInv, WritePhase
      <3>7. buf[b] # NoBuf BY <2>1, <1>4 DEF DataInv, CacheInv
      <3> QED BY <3>4, <3>6, <3>7 DEF Read
    <2>2. CASE b \notin ToSet(lh)
      <3>1. Recovered'[b] = home[b] BY <1>5, <2>2 DEF Recovered, ToSet
      <3>2. Busy = {} BY <1>2, NobodyBusy
      <3>3. buf[b] # NoBuf => buf[b] = home[b] BY <2>2, <1>4, <3>2 DEF DataInv, CacheInv
      <3> QED BY <3>1, <3>3 DEF Read
    <2> QED BY <2>1, <2>2
  <1>7. Recovered' = FileSystem BY <1>1, <1>6 DEF FileSystem, Recovered
  <1>8. FileSystem' = FileSystem BY <1>1 DEF FileSystem, Read, cache
  <1> QED BY <1>2, <1>3, <1>7, <1>8 DEF StoreStep, Store!StoreNext, Store!Save

(* The block is copied home from where recovery would find it.             *)
LEMMA InstallTransStep ==
  ASSUME ControlInv, DataInv, NEW p \in Proc, InstallTrans(p)
  PROVE  StoreStep
  <1> USE DEF InstallTrans
  <1> DEFINE i == tail[p]
  <1>1. i \in 1..Len(lh) /\ lh[i] \in Block BY DEF ControlInv, ControlTypes
  <1>2. hdr = lh /\ hdr' = hdr /\ logblk' = logblk BY DEF DataInv, InstallPhase
  <1>3. hdr \in Seq(Block) /\ IsInjective(hdr) BY DEF ControlInv, ControlTypes
  <1>4. ASSUME NEW b \in Block PROVE Recovered'[b] = Recovered[b]
    <2>1. CASE b = lh[i]
      BY <1>1, <1>2, <1>3, <2>1, HeaderNames DEF Recovered
    <2>2. CASE b # lh[i]
      BY <1>2, <2>2 DEF Recovered
    <2> QED BY <2>1, <2>2
  <1>5. Recovered' = Recovered BY <1>4 DEF Recovered
  <1>6. Inside' = Inside BY DEF Inside
  <1>7. ASSUME up, NEW b \in Block PROVE Read(b)' = Read(b)
    <2>1. buf[lh[i]] = logblk[i] BY <1>1, <1>7 DEF DataInv, InstallPhase
    <2>2. i \in 1..LOGSIZE => logblk[i] # NoBuf BY LogAssumption DEF DataInv, DataTypes
    <2>3. CASE b = lh[i]
      <3>1. lh[i] \in dirty BY <1>1, <1>7 DEF DataInv, InstallPhase
      <3>2. buf[lh[i]] # NoBuf BY <3>1 DEF DataInv, CacheInv
      <3> QED BY <1>1, <2>1, <2>3, <3>2 DEF Read
    <2>4. CASE b # lh[i]
      BY <2>4 DEF Read
    <2> QED BY <2>3, <2>4
  <1>8. FileSystem' = FileSystem BY <1>5, <1>7 DEF FileSystem
  <1> QED BY <1>5, <1>6, <1>8 DEF StoreStep

(* All blocks are home: recovery needs the log no more.                    *)
LEMMA EraseStep ==
  ASSUME ControlInv, DataInv, NEW p \in Proc, Erase(p)
  PROVE  StoreStep
  <1> USE DEF Erase
  <1>1. hdr = lh /\ hdr \in Seq(Block) /\ IsInjective(hdr) /\ tail[p] = Len(lh) + 1
    BY DEF DataInv, InstallPhase, ControlInv, ControlTypes
  <1>2. \A i \in 1..Len(lh) : home[lh[i]] = logblk[i] /\ lh[i] \notin dirty
    BY <1>1 DEF DataInv, InstallPhase
  <1>3. ASSUME NEW b \in Block PROVE Recovered[b] = home[b]
    <2>1. CASE b \in ToSet(hdr)
      <3>1. PICK i \in 1..Len(hdr) : b = hdr[i] BY <2>1, <1>1 DEF ToSet
      <3> QED BY <3>1, <1>1, <1>2, RecoveredNamed
    <2>2. CASE b \notin ToSet(hdr)
      BY <2>2, <1>1, RecoveredOther
    <2> QED BY <2>1, <2>2
  <1>4. home \in [Block -> Val] /\ home' = home /\ buf' = buf /\ hdr' = <<>>
    BY DEF DataInv, DataTypes, cache
  <1>5. Recovered' = home BY <1>4 DEF Recovered
  <1>6. Recovered = home BY <1>3, <1>4 DEF Recovered
  <1>7. Inside' = Inside BY DEF Inside
  <1>8. CASE up
    <2>1. FileSystem' = FileSystem BY <1>4, <1>8 DEF FileSystem, Read
    <2> QED BY <2>1, <1>5, <1>6, <1>7 DEF StoreStep
  <1>9. CASE ~up
    <2>1. Inside = {} BY <1>9 DEF Inside, ControlInv, BootIdle
    <2>2. Busy = {} BY <2>1, NobodyBusy
    <2>3. dirty = {} BY <1>9 DEF DataInv, BootPhase
    <2>4. \A b \in Block : Read(b) = home[b]
      BY <2>2, <2>3 DEF Read, DataInv, CacheInv
    <2>5. FileSystem' = home BY <1>4, <2>4 DEF FileSystem, Read
    <2>6. FileSystem' = FileSystem BY <2>5, <1>6, <1>9 DEF FileSystem
    <2> QED BY <2>6, <1>5, <1>6, <1>7 DEF StoreStep
  <1> QED BY <1>8, <1>9

(* The commit is over already.                                             *)
LEMMA CommittedStep ==
  ASSUME ControlInv, NEW p \in Proc, Committed(p)
  PROVE  StoreStep
  <1> USE DEF Committed
  <1>1. Recovered' = Recovered BY SameRecovered
  <1>2. FileSystem' = FileSystem BY SameFileSystem
  <1>3. Inside' = Inside BY DEF Inside, WakeAll
  <1> QED BY <1>1, <1>2, <1>3 DEF StoreStep

(* What recovery will find is what the file system is from here on.        *)
LEMMA CrashStep ==
  ASSUME Crash
  PROVE  StoreStep
  <1> USE DEF Crash
  <1>1. Recovered' = Recovered BY SameRecovered
  <1>2. FileSystem' = Recovered BY <1>1 DEF FileSystem
  <1>3. Inside' = {} BY DEF Inside
  <1> QED BY <1>1, <1>2, <1>3 DEF StoreStep, Store!StoreNext, Store!Lose

(* Recovery begins with what the header names.                             *)
LEMMA ReadHeadStep ==
  ASSUME ControlInv, NEW p \in Proc, ReadHead(p)
  PROVE  StoreStep
  <1> USE DEF ReadHead
  <1>1. Recovered' = Recovered BY SameRecovered
  <1>2. FileSystem' = FileSystem BY SameFileSystem
  <1>3. Inside' = Inside BY DEF Inside
  <1> QED BY <1>1, <1>2, <1>3 DEF StoreStep

(* Init: an empty header, and nothing in the cache. *)
LEMMA InitStore == Init => Store!StoreInit
  <1> SUFFICES ASSUME Init PROVE Store!StoreInit OBVIOUS
  <1> USE DEF Init
  <1>1. Recovered = home BY RecoveredEmpty
  <1>2. FileSystem = home BY <1>1 DEF FileSystem
  <1>3. Inside = {} BY DEF Inside
  <1> QED BY <1>1, <1>2, <1>3 DEF Store!StoreInit

(* Every step of the log is a step of the store, or none.                  *)
LEMMA NextStore == ControlInv /\ DataInv /\ [Next]_vars => StoreStep
  <1> SUFFICES ASSUME ControlInv, DataInv, [Next]_vars PROVE StoreStep OBVIOUS
  <1>1. CASE Crash BY <1>1, CrashStep
  <1>2. ASSUME NEW b \in Block, Recycle(b) PROVE StoreStep BY <1>2, RecycleStep
  <1>3. ASSUME NEW p \in Proc,
               BeginOp(p) \/ Call(p) \/ EndOp(p) \/ Commit(p) \/ ReadHead(p)
        PROVE  StoreStep
    <2>1. CASE Call(p) BY <2>1, LogAppendStep, LogWriteStep DEF Call
    <2>2. CASE Commit(p)
      BY <2>2, WriteLogStep, WriteHeadStep, InstallTransStep, EraseStep, CommittedStep DEF Commit
    <2> QED BY <1>3, <2>1, <2>2, BeginOpStep, EndOpStep, ReadHeadStep
  <1>4. CASE UNCHANGED vars
    <2> USE <1>4 DEF vars, procs
    <2>1. Recovered' = Recovered BY SameRecovered
    <2>2. FileSystem' = FileSystem BY SameFileSystem
    <2>3. Inside' = Inside BY DEF Inside
    <2> QED BY <2>1, <2>2, <2>3 DEF StoreStep
  <1> QED BY <1>1, <1>2, <1>3, <1>4 DEF Next

(* The writes of the calls between begin_op() and end_op() reach the disk  *)
(* together or not at all, wherever commit() or recover_from_log() is cut  *)
(* short by a crash, and as often as it is.                                *)
THEOREM CallsAreAtomic ==
  ASSUME Polite
  PROVE  Spec => ImplementsStore
  <1>1. Init => ControlInv /\ SpaceInv /\ DataInv BY InitControl, InitData
  <1>2. ControlInv /\ SpaceInv /\ DataInv /\ [Next]_vars
        => ControlInv' /\ SpaceInv' /\ DataInv'
    BY NextControl, NextData
  <1>3. ControlInv /\ DataInv /\ [Next]_vars => [Store!StoreNext]_(Store!storeVars)
    BY NextStore DEF StoreStep, Store!storeVars
  <1> QED BY <1>1, <1>2, <1>3, InitStore, PTL DEF Spec, ImplementsStore, Store!StoreSpec
=============================================================================
