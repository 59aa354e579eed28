---------------------------- MODULE MachineProofs ----------------------------
(***************************************************************************)
(* The CPUs, for any number of them, of processes, locks and slots of the  *)
(* process table: no spin lock panics, locks exclude, and interrupts are   *)
(* off and on as they should be; round robin is fair between processes,    *)
(* and wait() misses no child and no kill().                               *)
(***************************************************************************)
EXTENDS Spinlock, RoundRobin, FiniteSetTheorems, SequenceTheorems, TLAPS

Inside == {"spin", "took", "drop"}
Doings(c) == doing[thread[c]]
Frames(c) == frames[thread[c]]

(* Returns from forkret() to user space, not from an interrupt             *)
Fresh(t) == frames[t] # <<>> /\ Top(frames[t]).at = "user"

(* A thread is on one CPU, or in swtch(); a scheduler is nowhere else.     *)
PlaceInv ==
    /\ \A c \in CPU : thread[c] = c \/ thread[c] \in Process
    /\ \A c, d \in CPU : thread[c] = thread[d] => c = d
    /\ \A p \in Process : doing[p].at \in {"off", "new"} <=> \A c \in CPU : thread[c] # p
    /\ \A c \in CPU : doing[c].at # "new" /\ (doing[c].at = "off" <=> thread[c] # c)

(* What interrupts break off holds no lock and had interrupts on.          *)
FrameInv ==
    \A t \in Thread :
        /\ Len(frames[t]) <= 2
        /\ Len(frames[t]) = 2 => frames[t][1].at = "user"
        /\ \A i \in 1..Len(frames[t]) :
              /\ frames[t][i].held = {}
              /\ frames[t][i].at \in {"idle", "flags", "user", "sti"}
              /\ frames[t][i].at = "flags" => frames[t][i].flags
              /\ frames[t][i].at = "user" => i = 1 /\ t \in Process
              /\ frames[t][i].at = "sti" => t \in CPU
              /\ frames[t][i].at = "flags" /\ t \in CPU => frames[t][i].lk = ptable

(* In swtch() a thread holds nothing and has kept its intena.              *)
OffInv ==
    /\ \A t \in Thread :
          /\ doing[t].at # "user"
          /\ doing[t].at \in {"off", "new"} => doing[t].held = {}
          /\ doing[t].at = "sti" => t \in CPU /\ frames[t] = <<>> /\ doing[t].held = {}
    /\ \A c \in CPU : doing[c].at = "off" => frames[c] = <<>>
    /\ \A p \in Process :
          /\ doing[p].at = "new" => Fresh(p)
          /\ doing[p].at = "off" /\ ~Fresh(p) => (kept[p] <=> frames[p] = <<>>)

(* scheduler() takes ptable.lock only.                                     *)
LoopInv ==
    \A c \in CPU :
        InLoop(c) => /\ doing[c].held \subseteq {ptable}
                     /\ doing[c].at \in Inside \cup {"flags"} => doing[c].lk = ptable

(* ncli counts the locks, and intena is the thread's.                      *)
CountInv ==
    \A c \in CPU :
        /\ IsFiniteSet(Doings(c).held)
        /\ ncli[c] = Cardinality(Doings(c).held) + (IF Doings(c).at \in Inside THEN 1 ELSE 0)

MaskInv ==
    \A c \in CPU :
        /\ ncli[c] > 0 => ~IF_on[c]
        /\ ncli[c] = 0 /\ Doings(c).at \in {"idle", "flags"} /\ ~Fresh(thread[c])
              => (IF_on[c] <=> Frames(c) = <<>>)
        /\ ncli[c] > 0 /\ ~Fresh(thread[c]) /\ ~InLoop(c) => (intena[c] <=> Frames(c) = <<>>)
        /\ ncli[c] = 0 /\ Doings(c).at = "flags" => (Doings(c).flags <=> IF_on[c])

(* What a CPU has of the locks, by name or not yet or no longer            *)
Has(c) == Doings(c).held \cup (IF Doings(c).at \in {"took", "drop"} THEN {Doings(c).lk} ELSE {})

LockInv ==
    /\ \A c \in CPU : \A l \in Has(c) : lk_locked[l]
    /\ \A c, d \in CPU : c # d => Has(c) \cap Has(d) = {}
    /\ \A c \in CPU, l \in SpinLock : lk_cpu[l] = c <=> l \in Doings(c).held
    /\ \A c \in CPU : Doings(c).at \in Inside \cup {"flags"} => Doings(c).lk \notin Doings(c).held

SpinInv ==
    /\ SpinTypeOK /\ PlaceInv /\ FrameInv /\ OffInv /\ LoopInv
    /\ CountInv /\ MaskInv /\ LockInv /\ ~panicked

-----------------------------------------------------------------------------
LEMMA Counted ==
    ASSUME SpinInv, NEW c \in CPU
    PROVE  ncli[c] = 0 <=> Doings(c).held = {} /\ Doings(c).at \notin Inside
  <1> USE DEF SpinInv, CountInv
  <1>1. Cardinality(Doings(c).held) \in Nat BY FS_CardinalityType
  <1>2. Cardinality(Doings(c).held) = 0 <=> Doings(c).held = {} BY FS_EmptySet
  <1> QED BY <1>1, <1>2

(* The invariant has what the run checks in it.                            *)
LEMMA InvariantSuffices == SpinInv => LocksRight
  <1> SUFFICES ASSUME SpinInv PROVE LocksRight OBVIOUS
  <1> USE DEF SpinInv
  <1>1. LocksExclude
    <2>1. \A c \in CPU : Doings(c).held # {} \/ Doings(c).at \in Inside => ~IF_on[c]
      BY Counted DEF MaskInv, SpinTypeOK
    <2>2. \A c, d \in CPU : c # d => Doings(c).held \cap Doings(d).held = {}
      BY DEF LockInv, Has
    <2> QED BY <2>1, <2>2 DEF LocksExclude, Doings, Inside
  <1>2. InterruptsKept
    <2> SUFFICES ASSUME NEW c \in CPU, NEW p \in Process, thread[c] = p,
                        doing[p].at \in {"idle", "flags"}, doing[p].held = {}, ~Fresh(p)
                 PROVE  IF_on[c] <=> frames[p] = <<>>
      BY DEF InterruptsKept, Fresh
    <2>1. ncli[c] = 0 BY Counted DEF Doings, Inside
    <2> QED BY <2>1 DEF MaskInv, Doings, Frames
  <1> QED BY <1>1, <1>2 DEF LocksRight

(* What is done to the thread of a CPU is done to no other.                *)
LEMMA CurrentOnly ==
    ASSUME PlaceInv, NEW c \in CPU, NEW d \in CPU, d # c PROVE thread[d] # thread[c]
  BY DEF PlaceInv

LEMMA Pushed ==
    ASSUME NEW S, NEW s \in Seq(S), NEW e \in S
    PROVE  /\ Append(s, e) \in Seq(S) /\ Append(s, e) # <<>>
           /\ Len(Append(s, e)) = Len(s) + 1
           /\ Append(s, e)[Len(s) + 1] = e
           /\ \A i \in 1..Len(s) : Append(s, e)[i] = s[i]
  OBVIOUS

LEMMA Popped ==
    ASSUME NEW S, NEW s \in Seq(S), s # <<>>
    PROVE  /\ SubSeq(s, 1, Len(s) - 1) \in Seq(S)
           /\ Len(SubSeq(s, 1, Len(s) - 1)) = Len(s) - 1
           /\ \A i \in 1..Len(s) - 1 : SubSeq(s, 1, Len(s) - 1)[i] = s[i]
           /\ Len(s) \in Nat \ {0} /\ s[Len(s)] \in S
  <1>1. Len(s) \in Nat \ {0} /\ \A i \in 1..Len(s) : s[i] \in S OBVIOUS
  <1>2. Len(s) - 1 \in Int /\ 1 \in Int /\ \A i \in 1..Len(s) - 1 : s[i] \in S BY <1>1
  <1>3. /\ SubSeq(s, 1, Len(s) - 1) \in Seq(S)
        /\ Len(SubSeq(s, 1, Len(s) - 1)) = IF 1 <= Len(s) - 1 THEN Len(s) - 1 - 1 + 1 ELSE 0
        /\ \A i \in 1..Len(s) - 1 - 1 + 1 : SubSeq(s, 1, Len(s) - 1)[i] = s[1 + i - 1]
    BY <1>2, SubSeqProperties
  <1>4. /\ Len(s) - 1 - 1 + 1 = Len(s) - 1
        /\ (IF 1 <= Len(s) - 1 THEN Len(s) - 1 - 1 + 1 ELSE 0) = Len(s) - 1
        /\ \A i \in 1..Len(s) - 1 : 1 + i - 1 = i
    <2>1. PICK n \in Nat \ {0} : n = Len(s) BY ONLY <1>1
    <2>2. /\ n - 1 - 1 + 1 = n - 1
          /\ (IF 1 <= n - 1 THEN n - 1 - 1 + 1 ELSE 0) = n - 1
      OBVIOUS
    <2>3. \A i \in 1..n - 1 : 1 + i - 1 = i OBVIOUS
    <2> QED BY ONLY <2>1, <2>2, <2>3
  <1>5. Len(SubSeq(s, 1, Len(s) - 1)) = Len(s) - 1 BY ONLY <1>3, <1>4
  <1>6. \A i \in 1..Len(s) - 1 : SubSeq(s, 1, Len(s) - 1)[i] = s[i] BY ONLY <1>3, <1>4
  <1> QED BY ONLY <1>1, <1>3, <1>5, <1>6

(* Where only one CPU counts on, it is enough to look at that.             *)
LEMMA CountKept ==
    ASSUME CountInv, NEW c \in CPU,
           \A d \in CPU : d # c => Doings(d)' = Doings(d) /\ ncli'[d] = ncli[d],
           IsFiniteSet(Doings(c)'.held),
           ncli'[c] = Cardinality(Doings(c)'.held) + (IF Doings(c)'.at \in Inside THEN 1 ELSE 0)
    PROVE  CountInv'
  BY DEF CountInv

LEMMA CountQuiet ==
    ASSUME CountInv, NEW c \in CPU,
           \A d \in CPU : d # c => Doings(d)' = Doings(d) /\ ncli'[d] = ncli[d],
           IsFiniteSet(Doings(c)'.held), Doings(c)'.at \notin Inside,
           ncli'[c] \in Nat, ncli'[c] = Cardinality(Doings(c)'.held)
    PROVE  CountInv'
  BY DEF CountInv

LEMMA InitEstablishes == SpinInit => SpinInv
  <1> SUFFICES ASSUME SpinInit PROVE SpinInv OBVIOUS
  <1> USE SpinAssumption DEF SpinInit, Thread, Just, With
  <1>1. SpinTypeOK
    <2>1. Just("sti") \in Doing /\ Just("new") \in Doing /\ Just("user") \in Doing
      BY DEF Doing, Spot
    <2>2. doing \in [Thread -> Doing] BY <2>1
    <2>3. frames \in [Thread -> Seq(Doing)] BY <2>1
    <2> QED BY <2>2, <2>3 DEF SpinTypeOK
  <1>2. PlaceInv BY DEF PlaceInv
  <1>3. FrameInv BY DEF FrameInv
  <1>4. OffInv BY DEF OffInv, Fresh, Top
  <1>8. LoopInv BY DEF LoopInv, Inside
  <1>5. CountInv
    <2>1. \A c \in CPU : Doings(c).held = {} /\ Doings(c).at = "sti" BY DEF Doings
    <2> SUFFICES ASSUME NEW c \in CPU
                 PROVE  /\ IsFiniteSet(Doings(c).held)
                        /\ ncli[c] = Cardinality(Doings(c).held)
                                     + (IF Doings(c).at \in Inside THEN 1 ELSE 0)
      BY DEF CountInv
    <2>2. Doings(c).held = {} /\ Doings(c).at \notin Inside BY <2>1 DEF Inside
    <2>3. Cardinality(Doings(c).held) = 0 /\ IsFiniteSet(Doings(c).held) BY <2>2, FS_EmptySet
    <2> QED BY <2>2, <2>3
  <1>6. MaskInv BY DEF MaskInv, Doings
  <1>7. LockInv BY DEF LockInv, Has, Doings, Inside
  <1> QED BY <1>1, <1>2, <1>3, <1>4, <1>5, <1>6, <1>7, <1>8 DEF SpinInv

LEMMA StepKeeps == SpinInv /\ [SpinNext]_spinVars => SpinInv'
  <1> SUFFICES ASSUME SpinInv, [SpinNext]_spinVars PROVE SpinInv' OBVIOUS
  <1> USE SpinAssumption DEF SpinInv, Thread, With, Just
  <1>1. ASSUME NEW c \in CPU, NEW t \in Thread, t = thread[c], NEW l \in SpinLock, ReadFlags(c, t, l)
        PROVE  SpinInv'
    <2> USE <1>1 DEF ReadFlags
    <2>1. /\ Doings(c)' = [doing[t] EXCEPT !.at = "flags", !.lk = l, !.flags = IF_on[c]]
          /\ \A u \in Thread : u # t => doing'[u] = doing[u]
          /\ \A d \in CPU : d # c => thread[d] # t /\ Doings(d)' = Doings(d)
      BY CurrentOnly DEF Doings, SpinTypeOK
    <2>10. doing[t] \in Doing BY DEF SpinTypeOK
    <2>13. IF_on[c] \in BOOLEAN BY DEF SpinTypeOK
    <2>11. Doings(c)' \in Doing BY <2>1, <2>10, <2>13 DEF Doing, Spot
    <2>12. doing' \in [Thread -> Doing] BY <2>11 DEF SpinTypeOK, Doings
    <2>2. SpinTypeOK' BY <2>12 DEF SpinTypeOK, PanicIf
    <2>3. PlaceInv' BY <2>1 DEF PlaceInv, Doings, SpinTypeOK, Doing
    <2>4. FrameInv' BY DEF FrameInv
    <2>5. OffInv' BY <2>1 DEF OffInv, Doings, Fresh, SpinTypeOK, Doing
    <2>6. CountInv' BY <2>1 DEF CountInv, Doings, Inside, SpinTypeOK, Doing
    <2>7. MaskInv' BY <2>1 DEF MaskInv, Doings, Frames, Fresh, InLoop, SpinTypeOK, Doing
    <2>8. LockInv' BY <2>1 DEF LockInv, Has, Doings, Inside, SpinTypeOK, Doing
    <2>9. ~panicked' BY DEF PanicIf
    <2>30. LoopInv' BY <2>1 DEF LoopInv, InLoop, Inside, Doings, SpinTypeOK
    <2> QED BY <2>30, <2>2, <2>3, <2>4, <2>5, <2>6, <2>7, <2>8, <2>9
  <1>2. ASSUME NEW c \in CPU, NEW t \in Thread, t = thread[c], PushCli(c, t)
        PROVE  SpinInv'
    <2> USE <1>2 DEF PushCli
    <2>1. /\ Doings(c)' = [doing[t] EXCEPT !.at = "spin", !.flags = FALSE]
          /\ \A u \in Thread : u # t => doing'[u] = doing[u]
          /\ \A d \in CPU : d # c => thread[d] # t /\ Doings(d)' = Doings(d)
      BY CurrentOnly DEF Doings, SpinTypeOK
    <2>10. doing[t] \in Doing BY DEF SpinTypeOK
    <2>11. Doings(c)' \in Doing BY <2>1, <2>10 DEF Doing, Spot
    <2>12. doing' \in [Thread -> Doing] BY <2>11 DEF SpinTypeOK, Doings
    <2>13. doing[t].flags \in BOOLEAN BY <2>10 DEF Doing
    <2>14. intena' \in [CPU -> BOOLEAN] BY <2>13 DEF SpinTypeOK
    <2>15. panicked' \in BOOLEAN BY DEF PanicIf
    <2>16. ncli' \in [CPU -> Nat] BY DEF SpinTypeOK
    <2>2. SpinTypeOK' BY <2>12, <2>14, <2>15, <2>16 DEF SpinTypeOK
    <2>3. PlaceInv' BY <2>1 DEF PlaceInv, Doings, SpinTypeOK, Doing
    <2>4. FrameInv' BY DEF FrameInv
    <2>5. OffInv' BY <2>1 DEF OffInv, Doings, Fresh, SpinTypeOK, Doing
    <2>6. CountInv' BY FS_CardinalityType, <2>1 DEF CountInv, Doings, Inside, SpinTypeOK, Doing
    <2>7. MaskInv' BY <2>1 DEF MaskInv, Doings, Frames, Fresh, InLoop, SpinTypeOK, Doing, CountInv
    <2>8. LockInv' BY <2>1 DEF LockInv, Has, Doings, Inside, SpinTypeOK, Doing
    <2>9. ~panicked' BY DEF PanicIf, Holding, LockInv, Doings, SpinTypeOK, Doing
    <2>30. LoopInv' BY <2>1 DEF LoopInv, InLoop, Inside, Doings, SpinTypeOK
    <2> QED BY <2>30, <2>2, <2>3, <2>4, <2>5, <2>6, <2>7, <2>8, <2>9
  <1>3. ASSUME NEW c \in CPU, NEW t \in Thread, t = thread[c], Xchg(c, t)
        PROVE  SpinInv'
    <2> USE <1>3 DEF Xchg
    <2>1. /\ Doings(c)' = [doing[t] EXCEPT !.at = "took"]
          /\ \A u \in Thread : u # t => doing'[u] = doing[u]
          /\ \A d \in CPU : d # c => thread[d] # t /\ Doings(d)' = Doings(d)
      BY CurrentOnly DEF Doings, SpinTypeOK
    <2>10. doing[t] \in Doing BY DEF SpinTypeOK
    <2>11. Doings(c)' \in Doing BY <2>1, <2>10 DEF Doing, Spot
    <2>12. doing' \in [Thread -> Doing] BY <2>11 DEF SpinTypeOK, Doings
    <2>2. SpinTypeOK' BY <2>12 DEF SpinTypeOK, PanicIf
    <2>3. PlaceInv' BY <2>1 DEF PlaceInv, Doings, SpinTypeOK, Doing
    <2>4. FrameInv' BY DEF FrameInv
    <2>5. OffInv' BY <2>1 DEF OffInv, Doings, Fresh, SpinTypeOK, Doing
    <2>6. CountInv' BY <2>1 DEF CountInv, Doings, Inside, SpinTypeOK, Doing
    <2>7. MaskInv' BY <2>1 DEF MaskInv, Doings, Frames, Fresh, InLoop, SpinTypeOK, Doing
    <2>8. LockInv' BY <2>1 DEF LockInv, Has, Doings, Inside, SpinTypeOK, Doing
    <2>9. ~panicked' BY DEF PanicIf
    <2>30. LoopInv' BY <2>1 DEF LoopInv, InLoop, Inside, Doings, SpinTypeOK
    <2> QED BY <2>30, <2>2, <2>3, <2>4, <2>5, <2>6, <2>7, <2>8, <2>9
  <1>4. ASSUME NEW c \in CPU, NEW t \in Thread, t = thread[c], Record(c, t)
        PROVE  SpinInv'
    <2> USE <1>4 DEF Record
    <2>1. /\ Doings(c)' = With("idle", doing[t].held \cup {doing[t].lk})
          /\ \A u \in Thread : u # t => doing'[u] = doing[u]
          /\ \A d \in CPU : d # c => thread[d] # t /\ Doings(d)' = Doings(d)
      BY CurrentOnly DEF Doings, SpinTypeOK
    <2>10. doing[t] \in Doing BY DEF SpinTypeOK
    <2>11. Doings(c)' \in Doing BY <2>1, <2>10 DEF Doing, Spot
    <2>12. doing' \in [Thread -> Doing] BY <2>11 DEF SpinTypeOK, Doings
    <2>2. SpinTypeOK' BY <2>12 DEF SpinTypeOK, PanicIf
    <2>3. PlaceInv' BY <2>1 DEF PlaceInv, Doings, SpinTypeOK, Doing
    <2>4. FrameInv' BY DEF FrameInv
    <2>5. OffInv' BY <2>1 DEF OffInv, Doings, Fresh, SpinTypeOK, Doing
    <2>17. doing[t].lk \notin doing[t].held BY DEF LockInv, Doings, Inside
    <2>18. Doings(c)'.held = doing[t].held \cup {doing[t].lk} BY <2>1
    <2>20. IsFiniteSet(doing[t].held) BY DEF CountInv, Doings
    <2>21. /\ IsFiniteSet(Doings(c)'.held)
           /\ Cardinality(Doings(c)'.held) = Cardinality(doing[t].held) + 1
      BY ONLY <2>17, <2>18, <2>20, FS_AddElement
    <2>22. Doings(c)'.at \notin Inside /\ Doings(c).at \in Inside BY <2>1 DEF Doings, Inside
    <2>23. Cardinality(doing[t].held) \in Nat BY <2>20, FS_CardinalityType
    <2>24. ncli[c] = Cardinality(doing[t].held) + (IF doing[t].at \in Inside THEN 1 ELSE 0)
      BY DEF CountInv, Doings
    <2>25. ncli[c] = Cardinality(Doings(c)'.held) + (IF Doings(c)'.at \in Inside THEN 1 ELSE 0)
      BY <2>21, <2>22, <2>23, <2>24 DEF Doings
    <2>6. CountInv' BY <2>1, <2>21, <2>25, CountKept
    <2>19. ncli[c] > 0 BY Counted DEF Doings, Inside, SpinTypeOK
    <2>7. MaskInv' BY <2>1, <2>19 DEF MaskInv, Doings, Frames, Fresh, InLoop
    <2>8. LockInv' BY <2>1 DEF LockInv, Has, Doings, Inside, SpinTypeOK, Doing
    <2>9. ~panicked' BY DEF PanicIf
    <2>30. LoopInv' BY <2>1 DEF LoopInv, InLoop, Inside, Doings, SpinTypeOK
    <2> QED BY <2>30, <2>2, <2>3, <2>4, <2>5, <2>6, <2>7, <2>8, <2>9
  <1>5. ASSUME NEW c \in CPU, NEW t \in Thread, t = thread[c], NEW l \in SpinLock, Unrecord(c, t, l)
        PROVE  SpinInv'
    <2> USE <1>5 DEF Unrecord
    <2>1. /\ Doings(c)' = [With("drop", doing[t].held \ {l}) EXCEPT !.lk = l]
          /\ \A u \in Thread : u # t => doing'[u] = doing[u]
          /\ \A d \in CPU : d # c => thread[d] # t /\ Doings(d)' = Doings(d)
      BY CurrentOnly DEF Doings, SpinTypeOK
    <2>10. doing[t] \in Doing BY DEF SpinTypeOK
    <2>11. Doings(c)' \in Doing BY <2>1, <2>10 DEF Doing, Spot
    <2>12. doing' \in [Thread -> Doing] BY <2>11 DEF SpinTypeOK, Doings
    <2>2. SpinTypeOK' BY <2>12 DEF SpinTypeOK, PanicIf
    <2>3. PlaceInv' BY <2>1 DEF PlaceInv, Doings, SpinTypeOK, Doing
    <2>4. FrameInv' BY DEF FrameInv
    <2>5. OffInv' BY <2>1 DEF OffInv, Doings, Fresh, SpinTypeOK, Doing
    <2>18. Doings(c)'.held = doing[t].held \ {l} /\ l \in doing[t].held BY <2>1
    <2>20. IsFiniteSet(doing[t].held) BY DEF CountInv, Doings
    <2>21. /\ IsFiniteSet(Doings(c)'.held)
           /\ Cardinality(Doings(c)'.held) = Cardinality(doing[t].held) - 1
      <3>1. /\ IsFiniteSet(doing[t].held \ {l})
            /\ Cardinality(doing[t].held \ {l}) = Cardinality(doing[t].held) - 1
        BY ONLY <2>18, <2>20, FS_RemoveElement
      <3> QED BY ONLY <3>1, <2>18
    <2>22. Doings(c)'.at \in Inside /\ Doings(c).at \notin Inside BY <2>1 DEF Doings, Inside
    <2>23. Cardinality(doing[t].held) \in Nat BY <2>20, FS_CardinalityType
    <2>24. ncli[c] = Cardinality(doing[t].held) + (IF doing[t].at \in Inside THEN 1 ELSE 0)
      BY DEF CountInv, Doings
    <2>25. ncli[c] = Cardinality(Doings(c)'.held) + (IF Doings(c)'.at \in Inside THEN 1 ELSE 0)
      BY <2>21, <2>22, <2>23, <2>24 DEF Doings
    <2>6. CountInv' BY <2>1, <2>21, <2>25, CountKept
    <2>7. MaskInv' BY <2>1 DEF MaskInv, Doings, Frames, Fresh, InLoop, SpinTypeOK, Doing
    <2>8. LockInv' BY <2>1 DEF LockInv, Has, Doings, Inside, SpinTypeOK, Doing
    <2>9. ~panicked' BY DEF PanicIf, Holding, LockInv, Doings, Has
    <2>30. LoopInv' BY <2>1 DEF LoopInv, InLoop, Inside, Doings, SpinTypeOK
    <2> QED BY <2>30, <2>2, <2>3, <2>4, <2>5, <2>6, <2>7, <2>8, <2>9
  <1>6. ASSUME NEW c \in CPU, NEW t \in Thread, t = thread[c], Drop(c, t)
        PROVE  SpinInv'
    <2> USE <1>6 DEF Drop, Sti
    <2>1. /\ Doings(c)' = With(IF InLoop(c) THEN "sti" ELSE "idle", doing[t].held)
          /\ \A u \in Thread : u # t => doing'[u] = doing[u]
          /\ \A d \in CPU : d # c => thread[d] # t /\ Doings(d)' = Doings(d)
      BY CurrentOnly DEF Doings, SpinTypeOK
    <2>10. doing[t] \in Doing BY DEF SpinTypeOK
    <2>11. Doings(c)' \in Doing BY <2>1, <2>10 DEF Doing, Spot
    <2>12. doing' \in [Thread -> Doing] BY <2>11 DEF SpinTypeOK, Doings
    <2>17. ncli[c] > 0 /\ ~IF_on[c] BY Counted DEF Doings, Inside, SpinTypeOK, MaskInv
    <2>13. panicked' \in BOOLEAN BY DEF PanicIf
    <2>14. IF_on' \in [CPU -> BOOLEAN] BY DEF SpinTypeOK
    <2>15. ncli' \in [CPU -> Nat] BY <2>17 DEF SpinTypeOK
    <2>16. lk_locked' \in [SpinLock -> BOOLEAN] BY DEF SpinTypeOK
    <2>2. SpinTypeOK' BY <2>12, <2>13, <2>14, <2>15, <2>16 DEF SpinTypeOK
    <2>3. PlaceInv' BY <2>1 DEF PlaceInv, Doings, SpinTypeOK, Doing
    <2>4. FrameInv' BY DEF FrameInv
    <2>18. Doings(c)'.at \in {"idle", "sti"} /\ Doings(c)'.held = doing[t].held BY <2>1
    <2>5. OffInv'
      <3>1. doing'[t].at = "sti" => t \in CPU /\ frames[t] = <<>> /\ doing'[t].held = {}
        BY <2>1 DEF InLoop, SpinTypeOK, LoopInv, LockInv, Inside, Doings
      <3> QED BY <2>1, <2>18, <3>1 DEF OffInv, Doings, Fresh
    <2>6. CountInv' BY FS_CardinalityType, <2>1 DEF CountInv, Doings, Inside, SpinTypeOK, Doing
    <2>7. MaskInv' BY <2>1 DEF MaskInv, Doings, Frames, Fresh, InLoop, SpinTypeOK, Doing
    <2>8. LockInv' BY <2>1 DEF LockInv, Has, Doings, Inside, SpinTypeOK, Doing
    <2>9. ~panicked' BY <2>17 DEF PanicIf, SpinTypeOK
    <2>30. LoopInv' BY <2>1 DEF LoopInv, InLoop, Inside, Doings, SpinTypeOK
    <2> QED BY <2>30, <2>2, <2>3, <2>4, <2>5, <2>6, <2>7, <2>8, <2>9
  <1>7. ASSUME NEW c \in CPU, NEW t \in Thread, t = thread[c], Interrupt(c, t)
        PROVE  SpinInv'
    <2> USE <1>7 DEF Interrupt
    <2>1. /\ Doings(c)' = Just("idle")
          /\ \A u \in Thread : u # t => doing'[u] = doing[u]
          /\ \A d \in CPU : d # c => thread[d] # t /\ Doings(d)' = Doings(d)
      BY CurrentOnly DEF Doings, SpinTypeOK
    <2>10. doing[t] \in Doing /\ frames[t] \in Seq(Doing) BY DEF SpinTypeOK
    <2>11. ncli[c] = 0 BY DEF MaskInv, SpinTypeOK
    <2>12. doing[t].held = {} /\ doing[t].at \in {"idle", "flags", "sti"}
      <3>1. doing[t].held = {} /\ doing[t].at \notin Inside BY <2>11, Counted DEF Doings
      <3>2. doing[t].at \notin {"off", "new", "user"} BY DEF PlaceInv, OffInv
      <3> QED BY <3>1, <3>2, <2>10 DEF Doing, Spot, Inside
    <2>13. doing[t].at = "flags" => doing[t].flags BY <2>11 DEF MaskInv, Doings
    <2>14. frames[t] # <<>> => Fresh(t) /\ doing[t].at # "sti"
      BY <2>11, <2>12 DEF MaskInv, Doings, Frames, OffInv
    <2>15. Len(frames[t]) \in {0, 1} /\ (Len(frames[t]) = 1 => frames[t][1].at = "user")
      <3>1. Len(frames[t]) \in Nat /\ (Len(frames[t]) = 0 <=> frames[t] = <<>>) BY <2>10
      <3>2. Len(frames[t]) <= 2 BY DEF FrameInv
      <3>3. frames[t] # <<>> => /\ Len(frames[t]) \in 1..Len(frames[t])
                               /\ frames[t][Len(frames[t])].at = "user"
        BY <2>14, <3>1 DEF Fresh, Top
      <3>5. \A i \in 1..Len(frames[t]) : frames[t][i].at = "user" => i = 1 BY DEF FrameInv
      <3>4. frames[t] # <<>> => Len(frames[t]) = 1 BY <3>3, <3>5
      <3> QED BY <3>1, <3>3, <3>4
    <2>16. /\ frames'[t] = Append(frames[t], doing[t])
           /\ \A u \in Thread : u # t => frames'[u] = frames[u]
      BY DEF SpinTypeOK
    <2>17. /\ frames'[t] \in Seq(Doing) /\ frames'[t] # <<>>
           /\ Len(frames'[t]) = Len(frames[t]) + 1
           /\ frames'[t][Len(frames[t]) + 1] = doing[t]
           /\ \A i \in 1..Len(frames[t]) : frames'[t][i] = frames[t][i]
      BY <2>10, <2>16, Pushed
    <2>18. ~Fresh(t)' BY <2>12, <2>17 DEF Fresh, Top
    <2>2. SpinTypeOK'
      <3>1. Just("idle") \in Doing BY DEF Doing, Spot
      <3>2. doing' \in [Thread -> Doing] BY <3>1 DEF SpinTypeOK
      <3>3. frames' \in [Thread -> Seq(Doing)] BY <2>17 DEF SpinTypeOK
      <3> QED BY <3>2, <3>3 DEF SpinTypeOK
    <2>3. PlaceInv' BY <2>1, <2>12 DEF PlaceInv, Doings
    <2>4. FrameInv'
      <3>1. t \in CPU => Len(frames[t]) = 0 BY <2>15 DEF FrameInv
      <3>2. doing[t].at = "sti" => t \in CPU BY DEF OffInv
      <3>3. doing[t].at = "flags" /\ t \in CPU => doing[t].lk = ptable
        BY <2>10, <3>1 DEF LoopInv, InLoop, PlaceInv, Inside
      <3>4. \A i \in 1..Len(frames[t]) : frames[t][i].at = "user" => t \in Process
        BY DEF FrameInv
      <3>5. /\ Len(frames'[t]) <= 2
            /\ Len(frames'[t]) = 2 => frames'[t][1].at = "user"
            /\ frames'[t][Len(frames'[t])] = doing[t]
            /\ \A i \in 1..Len(frames'[t]) : i # Len(frames'[t]) =>
                   i \in 1..Len(frames[t]) /\ frames'[t][i] = frames[t][i]
        BY <2>15, <2>17
      <3>6. \A i \in 1..Len(frames'[t]) :
              /\ frames'[t][i].held = {}
              /\ frames'[t][i].at \in {"idle", "flags", "user", "sti"}
              /\ frames'[t][i].at = "flags" => frames'[t][i].flags
              /\ frames'[t][i].at = "user" => i = 1 /\ t \in Process
              /\ frames'[t][i].at = "sti" => t \in CPU
              /\ frames'[t][i].at = "flags" /\ t \in CPU => frames'[t][i].lk = ptable
        <4> SUFFICES ASSUME NEW i \in 1..Len(frames'[t])
                     PROVE  /\ frames'[t][i].held = {}
                            /\ frames'[t][i].at \in {"idle", "flags", "user", "sti"}
                            /\ frames'[t][i].at = "flags" => frames'[t][i].flags
                            /\ frames'[t][i].at = "user" => i = 1 /\ t \in Process
                            /\ frames'[t][i].at = "sti" => t \in CPU
                            /\ frames'[t][i].at = "flags" /\ t \in CPU => frames'[t][i].lk = ptable
          OBVIOUS
        <4>1. CASE i = Len(frames'[t]) BY <4>1, <3>5, <2>12, <2>13, <3>2, <3>3
        <4>2. CASE i # Len(frames'[t]) BY <4>2, <3>5 DEF FrameInv
        <4> QED BY <4>1, <4>2
      <3> QED BY SMTT(20), <2>16, <3>5, <3>6 DEF FrameInv
    <2>5. OffInv' BY <2>1, <2>16 DEF OffInv, Doings, Fresh
    <2>6. CountInv'
      <3>1. Doings(c)'.held = {} /\ Doings(c)'.at \notin Inside BY <2>1, <2>11 DEF Inside
      <3>2. IsFiniteSet(Doings(c)'.held) /\ Cardinality(Doings(c)'.held) = 0 BY <3>1, FS_EmptySet
      <3>3. \A d \in CPU : d # c => Doings(d)' = Doings(d) /\ ncli'[d] = ncli[d] BY <2>1
      <3>4. ncli'[c] \in Nat /\ ncli'[c] = Cardinality(Doings(c)'.held) BY <2>11, <3>2
      <3>5. CountInv OBVIOUS
      <3> QED BY ONLY <3>1, <3>2, <3>3, <3>4, <3>5, CountQuiet
    <2>7. MaskInv' BY <2>1, <2>11, <2>16, <2>17, <2>18
          DEF MaskInv, Doings, Frames, Fresh, InLoop, SpinTypeOK
    <2>8. LockInv'
      <3>1. Has(c)' = {} /\ \A d \in CPU : d # c => Has(d)' = Has(d) BY <2>1 DEF Has
      <3>2. Doings(c).held = {} BY <2>12 DEF Doings
      <3> QED BY <2>1, <3>1, <3>2 DEF LockInv, Inside
    <2>9. ~panicked' OBVIOUS
    <2>30. LoopInv' BY <2>1 DEF LoopInv, InLoop, Inside, Doings, SpinTypeOK
    <2> QED BY <2>30, <2>2, <2>3, <2>4, <2>5, <2>6, <2>7, <2>8, <2>9
  <1>8. ASSUME NEW c \in CPU, NEW t \in Thread, t = thread[c], Iret(c, t)
        PROVE  SpinInv'
    <2> USE <1>8 DEF Iret
    <2> DEFINE f == Top(frames[t])
    <2>10. frames[t] \in Seq(Doing) /\ frames[t] # <<>> BY DEF SpinTypeOK
    <2>11. /\ Len(frames[t]) \in {1, 2} /\ f = frames[t][Len(frames[t])] /\ f \in Doing
           /\ Len(frames[t]) = 2 => frames[t][1].at = "user"
      <3>1. Len(frames[t]) \in Nat \ {0} /\ frames[t][Len(frames[t])] \in Doing BY <2>10, Popped
      <3>2. Len(frames[t]) <= 2 /\ (Len(frames[t]) = 2 => frames[t][1].at = "user") BY DEF FrameInv
      <3>3. \A n \in Nat \ {0} : n <= 2 => n \in {1, 2} OBVIOUS
      <3>4. Len(frames[t]) \in {1, 2} BY ONLY <3>1, <3>2, <3>3
      <3>5. f = frames[t][Len(frames[t])] BY DEF Top
      <3> QED BY ONLY <3>1, <3>2, <3>4, <3>5
    <2>12. /\ f.held = {} /\ f.at \in {"idle", "flags", "user", "sti"}
           /\ f.at = "flags" => f.flags /\ (t \in CPU => f.lk = ptable)
      BY <2>11 DEF FrameInv
    <2>13. /\ Len(frames[t]) = 2 => f.at \in {"idle", "flags"}
           /\ f.at = "sti" => t \in CPU
      BY <2>11, <2>12 DEF FrameInv
    <2>14. ncli[c] = 0 BY Counted DEF Doings, Inside
    <2>1. /\ Doings(c)' = Back(f)
          /\ \A u \in Thread : u # t => doing'[u] = doing[u]
          /\ \A d \in CPU : d # c => thread[d] # t /\ Doings(d)' = Doings(d)
      BY CurrentOnly DEF Doings, SpinTypeOK
    <2>15. /\ Back(f) \in Doing /\ Back(f).held = {} /\ Back(f).at \in {"idle", "flags", "sti"}
           /\ Back(f).at = "flags" => Back(f).flags /\ (t \in CPU => Back(f).lk = ptable)
           /\ Back(f).at = "sti" => t \in CPU
           /\ Back(f).at = "sti" => Len(frames[t]) = 1
      BY <2>11, <2>12, <2>13 DEF Back, Doing, Spot
    <2>16. /\ frames'[t] = SubSeq(frames[t], 1, Len(frames[t]) - 1)
           /\ \A u \in Thread : u # t => frames'[u] = frames[u]
      BY DEF SpinTypeOK
    <2>17. /\ frames'[t] \in Seq(Doing)
           /\ Len(frames'[t]) = Len(frames[t]) - 1
           /\ \A i \in 1..Len(frames[t]) - 1 : frames'[t][i] = frames[t][i]
      BY <2>10, <2>16, Popped
    <2>18. /\ Len(frames[t]) = 1 => frames'[t] = <<>>
           /\ Len(frames[t]) = 2 => Fresh(t)' /\ t \in Process
      <3>1. Len(frames[t]) = 1 => frames'[t] = <<>> BY <2>17
      <3>2. Len(frames[t]) = 2 => /\ frames'[t] # <<>> /\ Len(frames'[t]) = 1
                                 /\ frames'[t][1].at = "user" /\ frames[t][1].at = "user"
        BY <2>11, <2>17
      <3>3. Len(frames[t]) = 2 => t \in Process BY <3>2 DEF FrameInv
      <3> QED BY <3>1, <3>2, <3>3 DEF Fresh, Top
    <2>2. SpinTypeOK'
      <3>1. doing' \in [Thread -> Doing] BY <2>15 DEF SpinTypeOK
      <3>2. frames' \in [Thread -> Seq(Doing)] BY <2>17 DEF SpinTypeOK
      <3> QED BY <3>1, <3>2 DEF SpinTypeOK
    <2>3. PlaceInv' BY <2>1, <2>15 DEF PlaceInv, Doings
    <2>4. FrameInv' BY <2>11, <2>16, <2>17 DEF FrameInv
    <2>5. OffInv'
      <3>1. doing'[t] = Back(f) BY <2>1 DEF Doings
      <3>2. \A u \in Thread : u # t => doing'[u] = doing[u] /\ frames'[u] = frames[u]
                                        /\ Fresh(u)' = Fresh(u)
        BY <2>1, <2>16 DEF Fresh
      <3> QED BY <3>1, <3>2, <2>11, <2>15, <2>18 DEF OffInv
    <2>6. CountInv'
      <3>1. Doings(c)'.held = {} /\ Doings(c)'.at \notin Inside BY <2>1, <2>14, <2>15 DEF Inside
      <3>2. IsFiniteSet(Doings(c)'.held) /\ Cardinality(Doings(c)'.held) = 0 BY <3>1, FS_EmptySet
      <3>3. \A d \in CPU : d # c => Doings(d)' = Doings(d) /\ ncli'[d] = ncli[d] BY <2>1
      <3>4. ncli'[c] \in Nat /\ ncli'[c] = Cardinality(Doings(c)'.held) BY <2>14, <3>2
      <3>5. CountInv OBVIOUS
      <3> QED BY ONLY <3>1, <3>2, <3>3, <3>4, <3>5, CountQuiet
    <2>7. MaskInv' BY <2>1, <2>11, <2>14, <2>15, <2>16, <2>18
          DEF MaskInv, Doings, Frames, Fresh, InLoop, SpinTypeOK
    <2>8. LockInv'
      <3>1. Has(c)' = {} /\ \A d \in CPU : d # c => Has(d)' = Has(d) BY <2>1, <2>15 DEF Has
      <3>2. Doings(c).held = {} BY DEF Doings
      <3> QED BY <2>1, <2>15, <3>1, <3>2 DEF LockInv, Inside
    <2>9. ~panicked' OBVIOUS
    <2>30. LoopInv'
      <3>1. \A d \in CPU : d # c /\ thread[d] = d => doing'[d] = doing[d] /\ frames'[d] = frames[d]
        BY <2>1, <2>16
      <3>2. doing'[t] = Back(f) BY <2>1 DEF Doings
      <3> QED BY <2>15, <3>1, <3>2 DEF LoopInv, InLoop, Inside
    <2> QED BY <2>30, <2>2, <2>3, <2>4, <2>5, <2>6, <2>7, <2>8, <2>9
  <1>9. ASSUME NEW c \in CPU, NEW t \in Thread, t = thread[c], Sched(c, t)
        PROVE  SpinInv'
    <2> USE <1>9 DEF Sched
    <2>1. /\ thread[c] = t /\ t \in Process /\ c # t /\ t \notin CPU
          /\ thread'[c] = c /\ \A d \in CPU : d # c => thread'[d] = thread[d] /\ thread[d] # t
      BY CurrentOnly DEF SpinTypeOK
    <2>2. /\ doing'[c] = With("idle", {ptable}) /\ doing'[t] = Just("off")
          /\ \A u \in Thread : u \notin {c, t} => doing'[u] = doing[u]
      BY <2>1 DEF SpinTypeOK
    <2>20. /\ doing'[c].at = "idle" /\ doing'[c].held = {ptable}
           /\ doing'[t].at = "off" /\ doing'[t].held = {}
      BY ONLY <2>2 DEF With, Just
    <2>3. doing[c].at = "off" /\ frames[c] = <<>> BY <2>1 DEF PlaceInv, OffInv
    <2>4. \A d \in CPU : d # c => thread[d] \notin {c, t}
      BY <2>1 DEF PlaceInv
    <2>5. /\ Doings(c)' = With("idle", {ptable})
          /\ \A d \in CPU : d # c => Doings(d)' = Doings(d)
      BY <2>1, <2>2, <2>4 DEF Doings, SpinTypeOK
    <2>6. ncli[c] = 1
      <3>1. Doings(c).held = {ptable} /\ Doings(c).at \notin Inside BY <2>1 DEF Doings, Inside
      <3>2. Cardinality(Doings(c).held) = 1 BY <3>1, FS_Singleton
      <3>3. ncli[c] = Cardinality(Doings(c).held) + (IF Doings(c).at \in Inside THEN 1 ELSE 0)
        BY DEF CountInv
      <3> QED BY ONLY <3>1, <3>2, <3>3
    <2>7. ~IF_on[c] BY <2>6 DEF MaskInv
    <2>8. Holding(c, ptable) BY DEF LockInv, Holding, Has, Doings
    <2>9. ~panicked' BY <2>6, <2>7, <2>8 DEF PanicIf, SpinTypeOK
    <2>10. SpinTypeOK'
      <3>1. Just("off") \in Doing /\ With("idle", {ptable}) \in Doing BY DEF Doing, Spot
      <3>2. doing' \in [Thread -> Doing] BY <3>1 DEF SpinTypeOK
      <3>3. thread' \in [CPU -> Thread] BY DEF SpinTypeOK
      <3>4. kept' \in [Process -> BOOLEAN] BY DEF SpinTypeOK
      <3>5. panicked' \in BOOLEAN BY DEF PanicIf
      <3> QED BY <3>2, <3>3, <3>4, <3>5 DEF SpinTypeOK
    <2>11. PlaceInv'
      <3>1. \A d \in CPU : thread'[d] = d \/ thread'[d] \in Process BY <2>1 DEF PlaceInv
      <3>2. \A d, e \in CPU : thread'[d] = thread'[e] => d = e BY <2>1, <2>4 DEF PlaceInv
      <3>3. \A p \in Process : doing'[p].at \in {"off", "new"} <=> \A d \in CPU : thread'[d] # p
        <4> SUFFICES ASSUME NEW p \in Process
                     PROVE  doing'[p].at \in {"off", "new"} <=> \A d \in CPU : thread'[d] # p
          OBVIOUS
        <4>1. CASE p = t
          <5>1. \A d \in CPU : thread'[d] # p BY <2>1, <4>1
          <5> QED BY ONLY <2>20, <4>1, <5>1
        <4>2. CASE p # t
          <5>1. doing'[p] = doing[p] BY <2>2, <4>2
          <5>2. \A d \in CPU : thread'[d] = p <=> thread[d] = p BY <2>1, <4>2
          <5> QED BY <5>1, <5>2 DEF PlaceInv
        <4> QED BY <4>1, <4>2
      <3>4. \A d \in CPU : doing'[d].at # "new" /\ (doing'[d].at = "off" <=> thread'[d] # d)
        <4>1. doing'[c].at = "idle" /\ thread'[c] = c BY ONLY <2>1, <2>20
        <4>2. \A d \in CPU : d # c => doing'[d] = doing[d] /\ thread'[d] = thread[d] BY <2>1, <2>2
        <4>3. PlaceInv OBVIOUS
        <4> QED BY ONLY <4>1, <4>2, <4>3 DEF PlaceInv
      <3> QED BY <3>1, <3>2, <3>3, <3>4 DEF PlaceInv
    <2>12. FrameInv' BY DEF FrameInv
    <2>13. OffInv'
      <3>1. ~Fresh(t) => (kept'[t] <=> frames[t] = <<>>)
        BY <2>1, <2>6 DEF MaskInv, Frames, InLoop, SpinTypeOK
      <3>2. OffInv /\ frames' = frames /\ c \notin Process BY <2>1
      <3>3. \A q \in Process : q # t => kept'[q] = kept[q] BY <2>1 DEF SpinTypeOK
      <3>4. \A u \in Thread : u \notin {c, t} => doing'[u] = doing[u] /\ Fresh(u)' = Fresh(u)
        BY <2>2 DEF Fresh
      <3>5. Fresh(t)' = Fresh(t) BY DEF Fresh
      <3>6. \A d \in CPU : doing'[d].at = "off" => frames'[d] = <<>>
        BY ONLY <2>1, <2>20, <3>2, <3>4, SpinAssumption DEF OffInv, Thread
      <3>7. \A u \in Thread : /\ doing'[u].at # "user"
                              /\ doing'[u].at \in {"off", "new"} => doing'[u].held = {}
                              /\ doing'[u].at = "sti" => /\ u \in CPU /\ frames'[u] = <<>>
                                                        /\ doing'[u].held = {}
        BY ONLY <2>20, <3>2, <3>4 DEF OffInv
      <3>8. \A q \in Process :
               /\ doing'[q].at = "new" => Fresh(q)'
               /\ doing'[q].at = "off" /\ ~Fresh(q)' => (kept'[q] <=> frames'[q] = <<>>)
        BY ONLY <2>20, <3>1, <3>2, <3>3, <3>4, <3>5 DEF OffInv, Thread
      <3> QED BY <3>6, <3>7, <3>8 DEF OffInv
    <2>14. CountInv'
      <3>1. Doings(c)'.held = {ptable} /\ Doings(c)'.at \notin Inside BY <2>5 DEF Inside
      <3>2. IsFiniteSet(Doings(c)'.held) /\ Cardinality(Doings(c)'.held) = 1
        BY ONLY <3>1, FS_Singleton
      <3>3. \A d \in CPU : d # c => Doings(d)' = Doings(d) /\ ncli'[d] = ncli[d] BY <2>5
      <3>4. ncli'[c] \in Nat /\ ncli'[c] = Cardinality(Doings(c)'.held) BY <2>6, <3>2
      <3>5. CountInv OBVIOUS
      <3> QED BY ONLY <3>1, <3>2, <3>3, <3>4, <3>5, CountQuiet
    <2>15. MaskInv' BY <2>1, <2>3, <2>5, <2>6, <2>7, <2>4
          DEF MaskInv, Doings, Frames, Fresh, InLoop, SpinTypeOK
    <2>16. LockInv'
      <3>1. Doings(c).held = {ptable} /\ Doings(c).at = "idle" BY DEF Doings
      <3>2. Has(c)' = Has(c) /\ \A d \in CPU : d # c => Has(d)' = Has(d) BY <2>5, <3>1 DEF Has
      <3> QED BY <2>5, <3>1, <3>2 DEF LockInv, Inside
    <2>30. LoopInv'
      <3>1. doing'[c].at = "idle" /\ doing'[c].held = {ptable} BY ONLY <2>20
      <3>2. \A d \in CPU : d # c => doing'[d] = doing[d] /\ thread'[d] = thread[d] BY <2>1, <2>2
      <3> QED BY <3>1, <3>2 DEF LoopInv, InLoop, Inside
    <2> QED BY <2>30, <2>9, <2>10, <2>11, <2>12, <2>13, <2>14, <2>15, <2>16
  <1>10. ASSUME NEW c \in CPU, NEW p \in Process, Dispatch(c, p)
         PROVE  SpinInv'
    <2> USE <1>10 DEF Dispatch
    <2>1. /\ thread[c] = c /\ frames[c] = <<>> /\ c # p /\ p \notin CPU
          /\ thread'[c] = p
          /\ \A d \in CPU : d # c => thread'[d] = thread[d] /\ thread[d] \notin {c, p}
      BY CurrentOnly DEF InLoop, SpinTypeOK, PlaceInv
    <2>2. /\ doing'[p] = With("idle", {ptable}) /\ doing'[c] = Just("off")
          /\ \A u \in Thread : u \notin {c, p} => doing'[u] = doing[u]
      BY <2>1 DEF SpinTypeOK
    <2>20. /\ doing'[p].at = "idle" /\ doing'[p].held = {ptable}
           /\ doing'[c].at = "off" /\ doing'[c].held = {}
      BY ONLY <2>2 DEF With, Just
    <2>3. /\ Doings(c)' = With("idle", {ptable})
          /\ \A d \in CPU : d # c => Doings(d)' = Doings(d)
      BY <2>1, <2>2 DEF Doings, SpinTypeOK
    <2>4. ncli[c] = 1
      <3>1. Doings(c).held = {ptable} /\ Doings(c).at \notin Inside BY <2>1 DEF Doings, Inside
      <3>2. Cardinality(Doings(c).held) = 1 BY <3>1, FS_Singleton
      <3>3. ncli[c] = Cardinality(Doings(c).held) + (IF Doings(c).at \in Inside THEN 1 ELSE 0)
        BY DEF CountInv
      <3> QED BY ONLY <3>1, <3>2, <3>3
    <2>5. intena'[c] = Restored(c, p) /\ \A d \in CPU : d # c => intena'[d] = intena[d]
      BY DEF SpinTypeOK
    <2>6. ~Fresh(p) => (Restored(c, p) <=> frames[p] = <<>>) BY DEF OffInv, Restored
    <2>7. SpinTypeOK'
      <3>1. Just("off") \in Doing /\ With("idle", {ptable}) \in Doing BY DEF Doing, Spot
      <3>2. doing' \in [Thread -> Doing] BY <3>1 DEF SpinTypeOK
      <3>3. thread' \in [CPU -> Thread] BY DEF SpinTypeOK
      <3>4. Restored(c, p) \in BOOLEAN BY DEF SpinTypeOK, Restored
      <3>5. intena' \in [CPU -> BOOLEAN] BY <3>4 DEF SpinTypeOK
      <3>6. kept' \in [Process -> BOOLEAN] BY DEF SpinTypeOK
      <3> QED BY <3>2, <3>3, <3>5, <3>6 DEF SpinTypeOK
    <2>8. PlaceInv'
      <3>1. \A d \in CPU : thread'[d] = d \/ thread'[d] \in Process BY <2>1 DEF PlaceInv
      <3>2. \A d, e \in CPU : thread'[d] = thread'[e] => d = e BY <2>1 DEF PlaceInv
      <3>3. \A q \in Process : doing'[q].at \in {"off", "new"} <=> \A d \in CPU : thread'[d] # q
        <4> SUFFICES ASSUME NEW q \in Process
                     PROVE  doing'[q].at \in {"off", "new"} <=> \A d \in CPU : thread'[d] # q
          OBVIOUS
        <4>1. CASE q = p BY ONLY <2>1, <2>20, <4>1
        <4>2. CASE q # p
          <5>1. doing'[q] = doing[q] BY <2>2, <4>2
          <5>2. \A d \in CPU : thread'[d] = q <=> thread[d] = q BY <2>1, <4>2
          <5> QED BY <5>1, <5>2 DEF PlaceInv
        <4> QED BY <4>1, <4>2
      <3>4. \A d \in CPU : doing'[d].at # "new" /\ (doing'[d].at = "off" <=> thread'[d] # d)
        <4>1. doing'[c].at = "off" /\ thread'[c] # c BY ONLY <2>1, <2>20
        <4>2. \A d \in CPU : d # c => doing'[d] = doing[d] /\ thread'[d] = thread[d] BY <2>1, <2>2
        <4>3. PlaceInv OBVIOUS
        <4> QED BY ONLY <4>1, <4>2, <4>3 DEF PlaceInv
      <3> QED BY <3>1, <3>2, <3>3, <3>4 DEF PlaceInv
    <2>9. FrameInv' BY DEF FrameInv
    <2>10. OffInv'
      <3>1. \A q \in Process : q # p => kept'[q] = kept[q] BY DEF SpinTypeOK
      <3>2. \A u \in Thread : u \notin {c, p} => doing'[u] = doing[u] /\ Fresh(u)' = Fresh(u)
        BY <2>2 DEF Fresh
      <3>3. OffInv /\ frames' = frames /\ frames[c] = <<>> /\ c \notin Process BY <2>1
      <3>4. \A d \in CPU : doing'[d].at = "off" => frames'[d] = <<>>
        BY ONLY <2>1, <3>2, <3>3, SpinAssumption DEF OffInv, Thread
      <3>5. \A u \in Thread : /\ doing'[u].at # "user"
                              /\ doing'[u].at \in {"off", "new"} => doing'[u].held = {}
                              /\ doing'[u].at = "sti" => /\ u \in CPU /\ frames'[u] = <<>>
                                                        /\ doing'[u].held = {}
        BY ONLY <2>20, <3>2, <3>3 DEF OffInv
      <3>6. \A q \in Process :
               /\ doing'[q].at = "new" => Fresh(q)'
               /\ doing'[q].at = "off" /\ ~Fresh(q)' => (kept'[q] <=> frames'[q] = <<>>)
        BY ONLY <2>20, <3>1, <3>2, <3>3 DEF OffInv, Thread
      <3> QED BY <3>4, <3>5, <3>6 DEF OffInv
    <2>11. CountInv'
      <3>1. Doings(c)'.held = {ptable} /\ Doings(c)'.at \notin Inside BY <2>3 DEF Inside
      <3>2. IsFiniteSet(Doings(c)'.held) /\ Cardinality(Doings(c)'.held) = 1
        BY ONLY <3>1, FS_Singleton
      <3>3. \A d \in CPU : d # c => Doings(d)' = Doings(d) /\ ncli'[d] = ncli[d] BY <2>3
      <3>4. ncli'[c] \in Nat /\ ncli'[c] = Cardinality(Doings(c)'.held) BY <2>4, <3>2
      <3>5. CountInv OBVIOUS
      <3> QED BY ONLY <3>1, <3>2, <3>3, <3>4, <3>5, CountQuiet
    <2>12. MaskInv'
      <3>1. ~IF_on[c] /\ Doings(c)'.at = "idle" /\ Frames(c)' = frames[p] /\ Fresh(thread[c])' = Fresh(p)
        BY <2>1, <2>3, <2>4 DEF MaskInv, Frames, Fresh
      <3>2. \A d \in CPU : d # c => /\ Frames(d)' = Frames(d) /\ Fresh(thread[d])' = Fresh(thread[d])
                                     /\ InLoop(d)' = InLoop(d)
        BY <2>1 DEF Frames, Fresh, InLoop
      <3> QED BY <2>3, <2>4, <2>5, <2>6, <3>1, <3>2 DEF MaskInv
    <2>13. LockInv'
      <3>1. Doings(c).held = {ptable} /\ Doings(c).at = "idle" BY <2>1 DEF Doings
      <3>2. Has(c)' = Has(c) /\ \A d \in CPU : d # c => Has(d)' = Has(d) BY <2>3, <3>1 DEF Has
      <3> QED BY <2>3, <3>1, <3>2 DEF LockInv, Inside
    <2>14. ~panicked' OBVIOUS
    <2>30. LoopInv'
      <3>1. \A d \in CPU : d # c /\ InLoop(d)' => InLoop(d) /\ doing'[d] = doing[d]
        BY <2>1, <2>2 DEF InLoop
      <3>2. ~InLoop(c)' BY <2>1 DEF InLoop
      <3> QED BY <3>1, <3>2 DEF LoopInv
    <2> QED BY <2>30, <2>7, <2>8, <2>9, <2>10, <2>11, <2>12, <2>13, <2>14
  <1>11. ASSUME NEW c \in CPU, LoopSti(c)
         PROVE  SpinInv'
    <2> USE <1>11 DEF LoopSti, InLoop
    <2>1. /\ Doings(c)' = Just("idle") /\ Doings(c) = doing[c] /\ doing[c].held = {}
          /\ \A u \in Thread : u # c => doing'[u] = doing[u]
          /\ \A d \in CPU : d # c => thread[d] # c /\ Doings(d)' = Doings(d)
      BY CurrentOnly DEF Doings, SpinTypeOK, OffInv
    <2>2. ncli[c] = 0 BY <2>1, Counted DEF Inside
    <2>3. SpinTypeOK'
      <3>1. Just("idle") \in Doing BY DEF Doing, Spot
      <3>2. doing' \in [Thread -> Doing] BY <3>1 DEF SpinTypeOK
      <3>3. IF_on' \in [CPU -> BOOLEAN] BY DEF SpinTypeOK
      <3> QED BY <3>2, <3>3 DEF SpinTypeOK
    <2>4. PlaceInv' BY <2>1 DEF PlaceInv
    <2>5. FrameInv' BY DEF FrameInv
    <2>6. OffInv' BY <2>1 DEF OffInv, Fresh
    <2>7. CountInv'
      <3>1. Doings(c)'.held = {} /\ Doings(c)'.at \notin Inside BY <2>1 DEF Inside
      <3>2. IsFiniteSet(Doings(c)'.held) /\ Cardinality(Doings(c)'.held) = 0 BY <3>1, FS_EmptySet
      <3>3. \A d \in CPU : d # c => Doings(d)' = Doings(d) /\ ncli'[d] = ncli[d] BY <2>1
      <3>4. ncli'[c] \in Nat /\ ncli'[c] = Cardinality(Doings(c)'.held) BY <2>2, <3>2
      <3>5. CountInv OBVIOUS
      <3> QED BY ONLY <3>1, <3>2, <3>3, <3>4, <3>5, CountQuiet
    <2>8. MaskInv' BY <2>1, <2>2 DEF MaskInv, Doings, Frames, Fresh, SpinTypeOK
    <2>9. LockInv' BY <2>1 DEF LockInv, Has, Inside
    <2>10. ~panicked' OBVIOUS
    <2>30. LoopInv' BY <2>1 DEF LoopInv, InLoop, Inside
    <2> QED BY <2>30, <2>3, <2>4, <2>5, <2>6, <2>7, <2>8, <2>9, <2>10
  <1>12. CASE UNCHANGED spinVars
    <2> USE <1>12 DEF spinVars
    <2>1. SpinTypeOK' BY DEF SpinTypeOK
    <2>2. PlaceInv' BY DEF PlaceInv
    <2>3. FrameInv' BY DEF FrameInv
    <2>4. OffInv' BY DEF OffInv, Fresh
    <2>5. CountInv' BY DEF CountInv, Doings
    <2>6. MaskInv' BY DEF MaskInv, Doings, Frames, Fresh, InLoop
    <2>7. LockInv' BY DEF LockInv, Has, Doings
    <2>30. LoopInv' BY DEF LoopInv, InLoop
    <2> QED BY <2>30, <2>1, <2>2, <2>3, <2>4, <2>5, <2>6, <2>7
  <1>13. \A c \in CPU : thread[c] \in Thread BY DEF SpinTypeOK
  <1> QED
    BY <1>1, <1>2, <1>3, <1>4, <1>5, <1>6, <1>7, <1>8, <1>9, <1>10, <1>11, <1>12, <1>13
    DEF SpinNext, ThreadStep

THEOREM SpinInvariant == SpinSpec => []SpinInv
  BY InitEstablishes, StepKeeps, PTL DEF SpinSpec

(* acquire(), release(), popcli() and sched() never panic; no handler      *)
(* spins for a lock of its own CPU; and interrupts outlive a switch.       *)
THEOREM LocksAreRight == SpinSpec => []LocksRight
  BY InvariantSuffices, SpinInvariant, PTL

-----------------------------------------------------------------------------
RoundTypes ==
    /\ rstate \in [RSlot -> {"UNUSED", "EMBRYO", "SLEEPING", "RUNNABLE", "RUNNING", "ZOMBIE"}]
    /\ rparent \in [RSlot -> RSlot \cup {NoSlot}]
    /\ rchan \in [RSlot -> RSlot \cup {NoSlot, Ticks}]
    /\ rkilled \in [RSlot -> BOOLEAN]
    /\ rpc \in [RSlot -> {"none", "user", "fork", "exit", "wait"}]
    /\ rnp \in [RSlot -> RSlot \cup {NoSlot}]
    /\ rproc \in [Core -> RSlot \cup {NoSlot}]
    /\ rscan \in [Core -> 1..NSLOT + 1]
    /\ rlock \in Core \cup {NoCore}
    /\ watched \in RSlot
    /\ overtaken \in [RSlot -> Nat]

(* A CPU runs a process of its own, which is RUNNING.                      *)
CpuInv ==
    /\ \A c \in Core : rproc[c] # NoSlot => rstate[rproc[c]] = "RUNNING"
    /\ \A c, d \in Core : rproc[c] = rproc[d] /\ rproc[c] # NoSlot => c = d

(* fork() fills a slot of its own, out of the others' sight.               *)
ForkInv ==
    /\ \A p \in RSlot : rpc[p] = "fork" => rnp[p] \in RSlot /\ rstate[rnp[p]] = "EMBRYO"
    /\ \A p, q \in RSlot : rpc[p] = "fork" /\ rpc[q] = "fork" /\ rnp[p] = rnp[q] => p = q

(* init lives, and is nobody's child; nobody is his own.                   *)
ParentInv ==
    /\ rstate[InitSlot] \in {"RUNNABLE", "RUNNING", "SLEEPING"}
    /\ rpc[InitSlot] # "exit"
    /\ rparent[InitSlot] = NoSlot
    /\ \A s \in RSlot : rparent[s] # s

(* The slot that a CPU's loop looks at next                                *)
Next(c) == IF rproc[c] # NoSlot THEN rproc[c] + 1 ELSE rscan[c]

(* The CPUs that pass the slot s before they come to the watched process   *)
Before(s, n) == IF n <= watched THEN n <= s /\ s < watched ELSE n <= s \/ s < watched
Passing(s) == {c \in Core : Before(s, Next(c))}

(* Each CPU may choose another process once before it comes to the watched *)
(* one.                                                                    *)
TurnInv ==
    /\ overtaken[watched] = 0
    /\ rstate[watched] # "RUNNABLE" => \A s \in RSlot : overtaken[s] = 0
    /\ rstate[watched] = "RUNNABLE" =>
          \A s \in RSlot \ {watched} :
             overtaken[s] + Cardinality(Passing(s)) <= Cardinality(Core)

RoundInv == RoundTypes /\ CpuInv /\ ForkInv /\ ParentInv /\ TurnInv /\ WaitersServed

-----------------------------------------------------------------------------

(* Every step keeps the types. *)
LEMMA TypesKept ==
    ASSUME RoundInv, [RoundNext]_roundVars
    PROVE  RoundTypes'
<1> USE RoundAssumption
<1>0. CASE UNCHANGED roundVars
    BY <1>0 DEF roundVars, RoundInv, RoundTypes, ForkInv, RSlot, NoSlot, InitSlot, Ticks
<1>1. ASSUME NEW c \in Core, NEW p \in RSlot, ForkAlloc(c, p) PROVE RoundTypes'
    BY SMTT(20), <1>1 DEF ForkAlloc, First, FreeSlots, Free, InPlace, Running, RoundInv, RoundTypes, ForkInv, RSlot, NoSlot, InitSlot, Ticks
<1>2. ASSUME NEW c \in Core, NEW p \in RSlot, ForkFails(c, p) PROVE RoundTypes'
    BY <1>2 DEF ForkFails, InPlace, Running, RoundInv, RoundTypes, ForkInv, RSlot, NoSlot, InitSlot, Ticks
<1>3. ASSUME NEW c \in Core, NEW p \in RSlot, ForkRuns(c, p) PROVE RoundTypes'
    BY <1>3 DEF ForkRuns, InPlace, Running, Free, RoundInv, RoundTypes, ForkInv, RSlot, NoSlot, InitSlot, Ticks
<1>4. ASSUME NEW c \in Core, NEW p \in RSlot, ClosesFiles(c, p) PROVE RoundTypes'
    BY <1>4 DEF ClosesFiles, InPlace, Running, RoundInv, RoundTypes, ForkInv, RSlot, NoSlot, InitSlot, Ticks
<1>5. ASSUME NEW c \in Core, NEW p \in RSlot, ExitLast(c, p) PROVE RoundTypes'
    BY SMTT(20), <1>5 DEF ExitLast, EnterSched1, Woken, Running, Free, ScanFrom, Children, Zombies, RoundInv, RoundTypes, ForkInv, RSlot, NoSlot, InitSlot, Ticks
<1>6. ASSUME NEW c \in Core, NEW p \in RSlot, WaitReaps(c, p) PROVE RoundTypes'
    BY SMTT(20), <1>6 DEF WaitReaps, First, Zombies, Children, InPlace, InWait, Running, RoundInv, RoundTypes, ForkInv, RSlot, NoSlot, InitSlot, Ticks
<1>7. ASSUME NEW c \in Core, NEW p \in RSlot, WaitFails(c, p) PROVE RoundTypes'
    BY <1>7 DEF WaitFails, InPlace, InWait, Running, RoundInv, RoundTypes, ForkInv, RSlot, NoSlot, InitSlot, Ticks
<1>8. ASSUME NEW c \in Core, NEW p \in RSlot, WaitSleeps(c, p) PROVE RoundTypes'
    <2>1. rstate' = [rstate EXCEPT ![p] = "SLEEPING"] /\ rchan' = [rchan EXCEPT ![p] = p]
          /\ rpc' = [rpc EXCEPT ![p] = "wait"]
        BY <1>8 DEF WaitSleeps, Sleep
    <2>2. rproc' = [rproc EXCEPT ![c] = NoSlot] /\ rscan' = [rscan EXCEPT ![c] = p + 1] /\ rlock' = c
        BY <1>8 DEF WaitSleeps, Sleep, EnterSched1, ScanFrom
    <2>3. UNCHANGED <<rparent, rkilled, rnp, watched, overtaken>>
        BY <1>8 DEF WaitSleeps, Sleep, EnterSched1
    <2> QED
        BY SMTT(20), <2>1, <2>2, <2>3 DEF RoundInv, RoundTypes, RSlot, NoSlot, Ticks
<1>9. ASSUME NEW c \in Core, NEW p \in RSlot, SleepTicks(c, p) PROVE RoundTypes'
    BY SMTT(20), <1>9 DEF SleepTicks, Sleep, EnterSched1, ScanFrom, Running, RoundInv, RoundTypes, ForkInv, RSlot, NoSlot, InitSlot, Ticks
<1>10. ASSUME NEW c \in Core, NEW p \in RSlot, YieldCpu(c, p) PROVE RoundTypes'
    BY SMTT(20), <1>10 DEF YieldCpu, EnterSched1, ScanFrom, RoundInv, RoundTypes, ForkInv, RSlot, NoSlot, InitSlot, Ticks
<1>11. ASSUME NEW c \in Core, NEW p \in RSlot, KillSlot(c, p) PROVE RoundTypes'
    BY <1>11 DEF KillSlot, InPlace, Running, RoundInv, RoundTypes, ForkInv, RSlot, NoSlot, InitSlot, Ticks
<1>12. ASSUME NEW c \in Core, LoopBegins(c) PROVE RoundTypes'
    BY <1>12 DEF LoopBegins, RoundInv, RoundTypes, ForkInv, RSlot, NoSlot, InitSlot, Ticks
<1>13. ASSUME NEW c \in Core, Choose(c) PROVE RoundTypes'
    <2>1. PICK p \in First(Ahead(c)) :
              /\ rstate' = [rstate EXCEPT ![p] = "RUNNING"]
              /\ rproc' = [rproc EXCEPT ![c] = p]
              /\ rlock' = IF rpc[p] = "wait" THEN c ELSE NoCore
              /\ rchan' = [rchan EXCEPT ![p] = NoSlot]
              /\ overtaken' =
                   IF p = watched THEN [s \in RSlot |-> 0]
                   ELSE IF rstate[watched] # "RUNNABLE" THEN overtaken
                   ELSE [overtaken EXCEPT ![p] = @ + 1]
        BY <1>13 DEF Choose
    <2>2. p \in RSlot
        BY DEF First, Ahead
    <2>3. overtaken' \in [RSlot -> Nat]
        BY <2>1, <2>2 DEF RoundInv, RoundTypes
    <2>4. UNCHANGED <<rparent, rkilled, rpc, rnp, rscan, watched>>
        BY <1>13 DEF Choose
    <2> QED
        BY <2>1, <2>2, <2>3, <2>4 DEF RoundInv, RoundTypes, NoSlot
<1>14. ASSUME NEW c \in Core, LoopEnds(c) PROVE RoundTypes'
    BY <1>14 DEF LoopEnds, Ahead, RoundInv, RoundTypes, ForkInv, RSlot, NoSlot, InitSlot, Ticks
<1>15. CASE TimerWakes
    BY <1>15 DEF TimerWakes, Woken, InPlace, RoundInv, RoundTypes, ForkInv, RSlot, NoSlot, InitSlot, Ticks
<1> QED
    BY <1>0, <1>1, <1>2, <1>3, <1>4, <1>5, <1>6, <1>7, <1>8, <1>9, <1>10, <1>11, <1>12, <1>13, <1>14, <1>15 DEF RoundNext, ProcessStep

(* A step takes a process from a CPU only with its RUNNING.                *)
LEMMA CpuKept ==
    ASSUME RoundInv, [RoundNext]_roundVars
    PROVE  CpuInv'
<1> USE RoundAssumption
<1>0. CASE UNCHANGED roundVars
    BY <1>0 DEF roundVars, RoundInv, RoundTypes, CpuInv, ForkInv, RSlot, NoSlot, InitSlot, Ticks
<1>1. ASSUME NEW c \in Core, NEW p \in RSlot, ForkAlloc(c, p) PROVE CpuInv'
    BY <1>1 DEF ForkAlloc, First, FreeSlots, Free, InPlace, Running, RoundInv, RoundTypes, CpuInv, ForkInv, RSlot, NoSlot, InitSlot, Ticks
<1>2. ASSUME NEW c \in Core, NEW p \in RSlot, ForkFails(c, p) PROVE CpuInv'
    BY <1>2 DEF ForkFails, InPlace, Running, RoundInv, RoundTypes, CpuInv, ForkInv, RSlot, NoSlot, InitSlot, Ticks
<1>3. ASSUME NEW c \in Core, NEW p \in RSlot, ForkRuns(c, p) PROVE CpuInv'
    BY <1>3 DEF ForkRuns, InPlace, Running, Free, RoundInv, RoundTypes, CpuInv, ForkInv, RSlot, NoSlot, InitSlot, Ticks
<1>4. ASSUME NEW c \in Core, NEW p \in RSlot, ClosesFiles(c, p) PROVE CpuInv'
    BY <1>4 DEF ClosesFiles, InPlace, Running, RoundInv, RoundTypes, CpuInv, ForkInv, RSlot, NoSlot, InitSlot, Ticks
<1>5. ASSUME NEW c \in Core, NEW p \in RSlot, ExitLast(c, p) PROVE CpuInv'
    BY <1>5 DEF ExitLast, EnterSched1, Woken, Running, Free, ScanFrom, Children, Zombies, RoundInv, RoundTypes, CpuInv, ForkInv, RSlot, NoSlot, InitSlot, Ticks
<1>6. ASSUME NEW c \in Core, NEW p \in RSlot, WaitReaps(c, p) PROVE CpuInv'
    BY <1>6 DEF WaitReaps, First, Zombies, Children, InPlace, InWait, Running, RoundInv, RoundTypes, CpuInv, ForkInv, RSlot, NoSlot, InitSlot, Ticks
<1>7. ASSUME NEW c \in Core, NEW p \in RSlot, WaitFails(c, p) PROVE CpuInv'
    BY <1>7 DEF WaitFails, InPlace, InWait, Running, RoundInv, RoundTypes, CpuInv, ForkInv, RSlot, NoSlot, InitSlot, Ticks
<1>8. ASSUME NEW c \in Core, NEW p \in RSlot, WaitSleeps(c, p) PROVE CpuInv'
    BY <1>8 DEF WaitSleeps, InWait, Sleep, EnterSched1, ScanFrom, Running, Zombies, Children, RoundInv, RoundTypes, CpuInv, ForkInv, RSlot, NoSlot, InitSlot, Ticks
<1>9. ASSUME NEW c \in Core, NEW p \in RSlot, SleepTicks(c, p) PROVE CpuInv'
    BY <1>9 DEF SleepTicks, Sleep, EnterSched1, ScanFrom, Running, RoundInv, RoundTypes, CpuInv, ForkInv, RSlot, NoSlot, InitSlot, Ticks
<1>10. ASSUME NEW c \in Core, NEW p \in RSlot, YieldCpu(c, p) PROVE CpuInv'
    BY <1>10 DEF YieldCpu, EnterSched1, ScanFrom, RoundInv, RoundTypes, CpuInv, ForkInv, RSlot, NoSlot, InitSlot, Ticks
<1>11. ASSUME NEW c \in Core, NEW p \in RSlot, KillSlot(c, p) PROVE CpuInv'
    BY <1>11 DEF KillSlot, InPlace, Running, RoundInv, RoundTypes, CpuInv, ForkInv, RSlot, NoSlot, InitSlot, Ticks
<1>12. ASSUME NEW c \in Core, LoopBegins(c) PROVE CpuInv'
    BY <1>12 DEF LoopBegins, RoundInv, RoundTypes, CpuInv, ForkInv, RSlot, NoSlot, InitSlot, Ticks
<1>13. ASSUME NEW c \in Core, Choose(c) PROVE CpuInv'
    BY <1>13 DEF Choose, First, Ahead, RoundInv, RoundTypes, CpuInv, ForkInv, RSlot, NoSlot, InitSlot, Ticks
<1>14. ASSUME NEW c \in Core, LoopEnds(c) PROVE CpuInv'
    BY <1>14 DEF LoopEnds, Ahead, RoundInv, RoundTypes, CpuInv, ForkInv, RSlot, NoSlot, InitSlot, Ticks
<1>15. CASE TimerWakes
    BY <1>15 DEF TimerWakes, Woken, InPlace, RoundInv, RoundTypes, CpuInv, ForkInv, RSlot, NoSlot, InitSlot, Ticks
<1> QED
    BY <1>0, <1>1, <1>2, <1>3, <1>4, <1>5, <1>6, <1>7, <1>8, <1>9, <1>10, <1>11, <1>12, <1>13, <1>14, <1>15 DEF RoundNext, ProcessStep

(* A slot that fork() fills is nobody else's until it is full.             *)
LEMMA ForkKept ==
    ASSUME RoundInv, [RoundNext]_roundVars
    PROVE  ForkInv'
<1> USE RoundAssumption
<1>0. CASE UNCHANGED roundVars
    BY <1>0 DEF roundVars, RoundInv, RoundTypes, CpuInv, ForkInv, RSlot, NoSlot, InitSlot, Ticks
<1>1. ASSUME NEW c \in Core, NEW p \in RSlot, ForkAlloc(c, p) PROVE ForkInv'
    BY SMTT(20), <1>1 DEF ForkAlloc, First, FreeSlots, Free, InPlace, Running, RoundInv, RoundTypes, CpuInv, ForkInv, RSlot, NoSlot, InitSlot, Ticks
<1>2. ASSUME NEW c \in Core, NEW p \in RSlot, ForkFails(c, p) PROVE ForkInv'
    BY <1>2 DEF ForkFails, InPlace, Running, RoundInv, RoundTypes, CpuInv, ForkInv, RSlot, NoSlot, InitSlot, Ticks
<1>3. ASSUME NEW c \in Core, NEW p \in RSlot, ForkRuns(c, p) PROVE ForkInv'
    BY SMTT(20), <1>3 DEF ForkRuns, InPlace, Running, Free, RoundInv, RoundTypes, CpuInv, ForkInv, RSlot, NoSlot, InitSlot, Ticks
<1>4. ASSUME NEW c \in Core, NEW p \in RSlot, ClosesFiles(c, p) PROVE ForkInv'
    BY <1>4 DEF ClosesFiles, InPlace, Running, RoundInv, RoundTypes, CpuInv, ForkInv, RSlot, NoSlot, InitSlot, Ticks
<1>5. ASSUME NEW c \in Core, NEW p \in RSlot, ExitLast(c, p) PROVE ForkInv'
    BY <1>5 DEF ExitLast, EnterSched1, Woken, Running, Free, ScanFrom, Children, Zombies, RoundInv, RoundTypes, CpuInv, ForkInv, RSlot, NoSlot, InitSlot, Ticks
<1>6. ASSUME NEW c \in Core, NEW p \in RSlot, WaitReaps(c, p) PROVE ForkInv'
    BY SMTT(20), <1>6 DEF WaitReaps, First, Zombies, Children, InPlace, InWait, Running, RoundInv, RoundTypes, CpuInv, ForkInv, RSlot, NoSlot, InitSlot, Ticks
<1>7. ASSUME NEW c \in Core, NEW p \in RSlot, WaitFails(c, p) PROVE ForkInv'
    BY <1>7 DEF WaitFails, InPlace, InWait, Running, RoundInv, RoundTypes, CpuInv, ForkInv, RSlot, NoSlot, InitSlot, Ticks
<1>8. ASSUME NEW c \in Core, NEW p \in RSlot, WaitSleeps(c, p) PROVE ForkInv'
    BY <1>8 DEF WaitSleeps, InWait, Sleep, EnterSched1, ScanFrom, Running, Zombies, Children, RoundInv, RoundTypes, CpuInv, ForkInv, RSlot, NoSlot, InitSlot, Ticks
<1>9. ASSUME NEW c \in Core, NEW p \in RSlot, SleepTicks(c, p) PROVE ForkInv'
    BY <1>9 DEF SleepTicks, Sleep, EnterSched1, ScanFrom, Running, RoundInv, RoundTypes, CpuInv, ForkInv, RSlot, NoSlot, InitSlot, Ticks
<1>10. ASSUME NEW c \in Core, NEW p \in RSlot, YieldCpu(c, p) PROVE ForkInv'
    BY <1>10 DEF YieldCpu, EnterSched1, ScanFrom, RoundInv, RoundTypes, CpuInv, ForkInv, RSlot, NoSlot, InitSlot, Ticks
<1>11. ASSUME NEW c \in Core, NEW p \in RSlot, KillSlot(c, p) PROVE ForkInv'
    BY <1>11 DEF KillSlot, InPlace, Running, RoundInv, RoundTypes, CpuInv, ForkInv, RSlot, NoSlot, InitSlot, Ticks
<1>12. ASSUME NEW c \in Core, LoopBegins(c) PROVE ForkInv'
    BY <1>12 DEF LoopBegins, RoundInv, RoundTypes, CpuInv, ForkInv, RSlot, NoSlot, InitSlot, Ticks
<1>13. ASSUME NEW c \in Core, Choose(c) PROVE ForkInv'
    BY <1>13 DEF Choose, First, Ahead, RoundInv, RoundTypes, CpuInv, ForkInv, RSlot, NoSlot, InitSlot, Ticks
<1>14. ASSUME NEW c \in Core, LoopEnds(c) PROVE ForkInv'
    BY <1>14 DEF LoopEnds, Ahead, RoundInv, RoundTypes, CpuInv, ForkInv, RSlot, NoSlot, InitSlot, Ticks
<1>15. CASE TimerWakes
    BY <1>15 DEF TimerWakes, Woken, InPlace, RoundInv, RoundTypes, CpuInv, ForkInv, RSlot, NoSlot, InitSlot, Ticks
<1> QED
    BY <1>0, <1>1, <1>2, <1>3, <1>4, <1>5, <1>6, <1>7, <1>8, <1>9, <1>10, <1>11, <1>12, <1>13, <1>14, <1>15 DEF RoundNext, ProcessStep

(* init stays, and the parent of a child is another process.               *)
LEMMA ParentKept ==
    ASSUME RoundInv, [RoundNext]_roundVars
    PROVE  ParentInv'
<1> USE RoundAssumption
<1>0. CASE UNCHANGED roundVars
    BY <1>0 DEF roundVars, RoundInv, RoundTypes, CpuInv, ForkInv, ParentInv, RSlot, NoSlot, InitSlot, Ticks
<1>1. ASSUME NEW c \in Core, NEW p \in RSlot, ForkAlloc(c, p) PROVE ParentInv'
    BY <1>1 DEF ForkAlloc, First, FreeSlots, Free, InPlace, Running, RoundInv, RoundTypes, CpuInv, ForkInv, ParentInv, RSlot, NoSlot, InitSlot, Ticks
<1>2. ASSUME NEW c \in Core, NEW p \in RSlot, ForkFails(c, p) PROVE ParentInv'
    BY <1>2 DEF ForkFails, InPlace, Running, RoundInv, RoundTypes, CpuInv, ForkInv, ParentInv, RSlot, NoSlot, InitSlot, Ticks
<1>3. ASSUME NEW c \in Core, NEW p \in RSlot, ForkRuns(c, p) PROVE ParentInv'
    BY <1>3 DEF ForkRuns, InPlace, Running, Free, RoundInv, RoundTypes, CpuInv, ForkInv, ParentInv, RSlot, NoSlot, InitSlot, Ticks
<1>4. ASSUME NEW c \in Core, NEW p \in RSlot, ClosesFiles(c, p) PROVE ParentInv'
    BY <1>4 DEF ClosesFiles, InPlace, Running, RoundInv, RoundTypes, CpuInv, ForkInv, ParentInv, RSlot, NoSlot, InitSlot, Ticks
<1>5. ASSUME NEW c \in Core, NEW p \in RSlot, ExitLast(c, p) PROVE ParentInv'
    BY <1>5 DEF ExitLast, EnterSched1, Woken, Running, Free, ScanFrom, Children, Zombies, RoundInv, RoundTypes, CpuInv, ForkInv, ParentInv, RSlot, NoSlot, InitSlot, Ticks
<1>6. ASSUME NEW c \in Core, NEW p \in RSlot, WaitReaps(c, p) PROVE ParentInv'
    BY <1>6 DEF WaitReaps, First, Zombies, Children, InPlace, InWait, Running, RoundInv, RoundTypes, CpuInv, ForkInv, ParentInv, RSlot, NoSlot, InitSlot, Ticks
<1>7. ASSUME NEW c \in Core, NEW p \in RSlot, WaitFails(c, p) PROVE ParentInv'
    BY <1>7 DEF WaitFails, InPlace, InWait, Running, RoundInv, RoundTypes, CpuInv, ForkInv, ParentInv, RSlot, NoSlot, InitSlot, Ticks
<1>8. ASSUME NEW c \in Core, NEW p \in RSlot, WaitSleeps(c, p) PROVE ParentInv'
    BY <1>8 DEF WaitSleeps, InWait, Sleep, EnterSched1, ScanFrom, Running, Zombies, Children, RoundInv, RoundTypes, CpuInv, ForkInv, ParentInv, RSlot, NoSlot, InitSlot, Ticks
<1>9. ASSUME NEW c \in Core, NEW p \in RSlot, SleepTicks(c, p) PROVE ParentInv'
    BY <1>9 DEF SleepTicks, Sleep, EnterSched1, ScanFrom, Running, RoundInv, RoundTypes, CpuInv, ForkInv, ParentInv, RSlot, NoSlot, InitSlot, Ticks
<1>10. ASSUME NEW c \in Core, NEW p \in RSlot, YieldCpu(c, p) PROVE ParentInv'
    BY <1>10 DEF YieldCpu, EnterSched1, ScanFrom, RoundInv, RoundTypes, CpuInv, ForkInv, ParentInv, RSlot, NoSlot, InitSlot, Ticks
<1>11. ASSUME NEW c \in Core, NEW p \in RSlot, KillSlot(c, p) PROVE ParentInv'
    BY <1>11 DEF KillSlot, InPlace, Running, RoundInv, RoundTypes, CpuInv, ForkInv, ParentInv, RSlot, NoSlot, InitSlot, Ticks
<1>12. ASSUME NEW c \in Core, LoopBegins(c) PROVE ParentInv'
    BY <1>12 DEF LoopBegins, RoundInv, RoundTypes, CpuInv, ForkInv, ParentInv, RSlot, NoSlot, InitSlot, Ticks
<1>13. ASSUME NEW c \in Core, Choose(c) PROVE ParentInv'
    BY <1>13 DEF Choose, First, Ahead, RoundInv, RoundTypes, CpuInv, ForkInv, ParentInv, RSlot, NoSlot, InitSlot, Ticks
<1>14. ASSUME NEW c \in Core, LoopEnds(c) PROVE ParentInv'
    BY <1>14 DEF LoopEnds, Ahead, RoundInv, RoundTypes, CpuInv, ForkInv, ParentInv, RSlot, NoSlot, InitSlot, Ticks
<1>15. CASE TimerWakes
    BY <1>15 DEF TimerWakes, Woken, InPlace, RoundInv, RoundTypes, CpuInv, ForkInv, ParentInv, RSlot, NoSlot, InitSlot, Ticks
<1> QED
    BY <1>0, <1>1, <1>2, <1>3, <1>4, <1>5, <1>6, <1>7, <1>8, <1>9, <1>10, <1>11, <1>12, <1>13, <1>14, <1>15 DEF RoundNext, ProcessStep

(* No step makes a zombie, or a kill, that a sleeping wait() misses.       *)
LEMMA WaitersKept ==
    ASSUME RoundInv, [RoundNext]_roundVars
    PROVE  WaitersServed'
<1> USE RoundAssumption
<1>0. CASE UNCHANGED roundVars
    BY <1>0 DEF roundVars, RoundInv, RoundTypes, CpuInv, ForkInv, ParentInv, WaitersServed, Children, Zombies, RSlot, NoSlot, InitSlot, Ticks
<1>1. ASSUME NEW c \in Core, NEW p \in RSlot, ForkAlloc(c, p) PROVE WaitersServed'
    BY <1>1 DEF ForkAlloc, First, FreeSlots, Free, InPlace, Running, RoundInv, RoundTypes, CpuInv, ForkInv, ParentInv, WaitersServed, Children, Zombies, RSlot, NoSlot, InitSlot, Ticks
<1>2. ASSUME NEW c \in Core, NEW p \in RSlot, ForkFails(c, p) PROVE WaitersServed'
    BY <1>2 DEF ForkFails, InPlace, Running, RoundInv, RoundTypes, CpuInv, ForkInv, ParentInv, WaitersServed, Children, Zombies, RSlot, NoSlot, InitSlot, Ticks
<1>3. ASSUME NEW c \in Core, NEW p \in RSlot, ForkRuns(c, p) PROVE WaitersServed'
    BY <1>3 DEF ForkRuns, InPlace, Running, Free, RoundInv, RoundTypes, CpuInv, ForkInv, ParentInv, WaitersServed, Children, Zombies, RSlot, NoSlot, InitSlot, Ticks
<1>4. ASSUME NEW c \in Core, NEW p \in RSlot, ClosesFiles(c, p) PROVE WaitersServed'
    BY <1>4 DEF ClosesFiles, InPlace, Running, RoundInv, RoundTypes, CpuInv, ForkInv, ParentInv, WaitersServed, Children, Zombies, RSlot, NoSlot, InitSlot, Ticks
<1>5. ASSUME NEW c \in Core, NEW p \in RSlot, ExitLast(c, p) PROVE WaitersServed'
    <2> SUFFICES ASSUME NEW q \in RSlot, rstate'[q] = "SLEEPING", rchan'[q] = q
                 PROVE  Zombies(q)' = {} /\ ~rkilled'[q]
        BY DEF WaitersServed
    <2> DEFINE told == Woken(rstate, rparent[p])
               all == IF Zombies(p) # {} THEN Woken(told, InitSlot) ELSE told
    <2>1. rstate' = [all EXCEPT ![p] = "ZOMBIE"]
          /\ rparent' = [k \in RSlot |-> IF k \in Children(p) THEN InitSlot ELSE rparent[k]]
          /\ UNCHANGED <<rchan, rkilled>>
        BY <1>5 DEF ExitLast
    <2>2. /\ rstate[p] = "RUNNING" /\ rparent[p] # p
          /\ rstate \in [RSlot -> {"UNUSED", "EMBRYO", "SLEEPING", "RUNNABLE", "RUNNING", "ZOMBIE"}]
        BY <1>5 DEF ExitLast, Running, RoundInv, ParentInv, RoundTypes
    <2>3. q # p /\ rstate[q] = "SLEEPING" /\ rchan[q] = q
        BY <2>1, <2>2 DEF Woken
    <2>4. rparent[p] # q
        BY <2>1, <2>2, <2>3 DEF Woken
    <2>5. Zombies(p) # {} => q # InitSlot
        BY <2>1, <2>2, <2>3 DEF Woken
    <2>6. Zombies(q) = {} /\ ~rkilled[q]
        BY <2>3 DEF RoundInv, WaitersServed
    <2>7. ASSUME NEW k \in RSlot, rparent'[k] = q, rstate'[k] = "ZOMBIE"
          PROVE  FALSE
        <3>1. k = p \/ rstate[k] = "ZOMBIE"
            BY <2>1, <2>2, <2>7 DEF Woken
        <3>2. CASE k = p
            BY <3>2, <2>1, <2>2, <2>4, <2>7 DEF Children
        <3>3. CASE k # p /\ rstate[k] = "ZOMBIE"
            BY <3>3, <2>1, <2>5, <2>6, <2>7 DEF Children, Zombies
        <3> QED
            BY <3>1, <3>2, <3>3
    <2> QED
        BY <2>1, <2>6, <2>7 DEF Zombies, Children
<1>6. ASSUME NEW c \in Core, NEW p \in RSlot, WaitReaps(c, p) PROVE WaitersServed'
    BY <1>6 DEF WaitReaps, First, Zombies, Children, InPlace, InWait, Running, RoundInv, RoundTypes, CpuInv, ForkInv, ParentInv, WaitersServed, Children, Zombies, RSlot, NoSlot, InitSlot, Ticks
<1>7. ASSUME NEW c \in Core, NEW p \in RSlot, WaitFails(c, p) PROVE WaitersServed'
    BY <1>7 DEF WaitFails, InPlace, InWait, Running, RoundInv, RoundTypes, CpuInv, ForkInv, ParentInv, WaitersServed, Children, Zombies, RSlot, NoSlot, InitSlot, Ticks
<1>8. ASSUME NEW c \in Core, NEW p \in RSlot, WaitSleeps(c, p) PROVE WaitersServed'
    BY <1>8 DEF WaitSleeps, InWait, Sleep, EnterSched1, ScanFrom, Running, Zombies, Children, RoundInv, RoundTypes, CpuInv, ForkInv, ParentInv, WaitersServed, Children, Zombies, RSlot, NoSlot, InitSlot, Ticks
<1>9. ASSUME NEW c \in Core, NEW p \in RSlot, SleepTicks(c, p) PROVE WaitersServed'
    BY <1>9 DEF SleepTicks, Sleep, EnterSched1, ScanFrom, Running, RoundInv, RoundTypes, CpuInv, ForkInv, ParentInv, WaitersServed, Children, Zombies, RSlot, NoSlot, InitSlot, Ticks
<1>10. ASSUME NEW c \in Core, NEW p \in RSlot, YieldCpu(c, p) PROVE WaitersServed'
    BY <1>10 DEF YieldCpu, EnterSched1, ScanFrom, RoundInv, RoundTypes, CpuInv, ForkInv, ParentInv, WaitersServed, Children, Zombies, RSlot, NoSlot, InitSlot, Ticks
<1>11. ASSUME NEW c \in Core, NEW p \in RSlot, KillSlot(c, p) PROVE WaitersServed'
    BY <1>11 DEF KillSlot, InPlace, Running, RoundInv, RoundTypes, CpuInv, ForkInv, ParentInv, WaitersServed, Children, Zombies, RSlot, NoSlot, InitSlot, Ticks
<1>12. ASSUME NEW c \in Core, LoopBegins(c) PROVE WaitersServed'
    BY <1>12 DEF LoopBegins, RoundInv, RoundTypes, CpuInv, ForkInv, ParentInv, WaitersServed, Children, Zombies, RSlot, NoSlot, InitSlot, Ticks
<1>13. ASSUME NEW c \in Core, Choose(c) PROVE WaitersServed'
    BY <1>13 DEF Choose, First, Ahead, RoundInv, RoundTypes, CpuInv, ForkInv, ParentInv, WaitersServed, Children, Zombies, RSlot, NoSlot, InitSlot, Ticks
<1>14. ASSUME NEW c \in Core, LoopEnds(c) PROVE WaitersServed'
    BY <1>14 DEF LoopEnds, Ahead, RoundInv, RoundTypes, CpuInv, ForkInv, ParentInv, WaitersServed, Children, Zombies, RSlot, NoSlot, InitSlot, Ticks
<1>15. CASE TimerWakes
    BY <1>15 DEF TimerWakes, Woken, InPlace, RoundInv, RoundTypes, CpuInv, ForkInv, ParentInv, WaitersServed, Children, Zombies, RSlot, NoSlot, InitSlot, Ticks
<1> QED
    BY <1>0, <1>1, <1>2, <1>3, <1>4, <1>5, <1>6, <1>7, <1>8, <1>9, <1>10, <1>11, <1>12, <1>13, <1>14, <1>15 DEF RoundNext, ProcessStep

-----------------------------------------------------------------------------
(* A step at which nobody is chosen keeps the turns, when the watched      *)
(* process stays RUNNABLE and no CPU comes to pass a slot again.           *)
LEMMA TurnsStay ==
    ASSUME RoundInv, UNCHANGED <<watched, overtaken>>,
           rstate[watched] = "RUNNABLE" => rstate'[watched] = "RUNNABLE",
           rstate[watched] = "RUNNABLE" =>
              \A c \in Core, s \in RSlot : Before(s, Next(c))' => Before(s, Next(c))
    PROVE  TurnInv'
<1> USE RoundAssumption
<1>1. overtaken'[watched'] = 0
    BY DEF RoundInv, TurnInv
<1>2. CASE rstate[watched] # "RUNNABLE"
    <2>1. \A s \in RSlot : overtaken'[s] = 0
        BY <1>2 DEF RoundInv, TurnInv
    <2>2. \A s \in RSlot : /\ Cardinality(Passing(s)') <= Cardinality(Core)
                           /\ Cardinality(Passing(s)') \in Nat /\ Cardinality(Core) \in Nat
        BY FS_Subset, FS_CardinalityType DEF Passing
    <2> QED
        BY <1>1, <2>1, <2>2 DEF TurnInv
<1>3. CASE rstate[watched] = "RUNNABLE"
    <2>1. ASSUME NEW s \in RSlot \ {watched}
          PROVE  overtaken'[s] + Cardinality(Passing(s)') <= Cardinality(Core)
        <3>1. Passing(s)' \subseteq Passing(s) /\ Passing(s) \subseteq Core
            BY <1>3 DEF Passing
        <3>2. /\ Cardinality(Passing(s)') <= Cardinality(Passing(s))
              /\ Cardinality(Passing(s)') \in Nat /\ Cardinality(Passing(s)) \in Nat
              /\ Cardinality(Core) \in Nat
            BY <3>1, FS_Subset, FS_CardinalityType
        <3>3. overtaken[s] + Cardinality(Passing(s)) <= Cardinality(Core) /\ overtaken[s] \in Nat
            BY <1>3 DEF RoundInv, TurnInv, RoundTypes
        <3>4. overtaken'[s] = overtaken[s]
            OBVIOUS
        <3> QED
            BY <3>2, <3>3, <3>4
    <2> QED
        BY <1>1, <1>3, <2>1 DEF TurnInv
<1> QED
    BY <1>2, <1>3

(* A CPU that chooses p has p behind it.                                   *)
LEMMA TurnTaken ==
    ASSUME RoundInv, NEW c \in Core, Choose(c)
    PROVE  TurnInv'
<1> USE RoundAssumption
<1>1. PICK p \in First(Ahead(c)) :
          /\ rstate' = [rstate EXCEPT ![p] = "RUNNING"]
          /\ rproc' = [rproc EXCEPT ![c] = p]
          /\ overtaken' =
               IF p = watched THEN [s \in RSlot |-> 0]
               ELSE IF rstate[watched] # "RUNNABLE" THEN overtaken
               ELSE [overtaken EXCEPT ![p] = @ + 1]
    BY DEF Choose
<1>2. /\ p \in RSlot /\ p >= rscan[c] /\ rstate[p] = "RUNNABLE"
      /\ \A t \in RSlot : t >= rscan[c] /\ rstate[t] = "RUNNABLE" => p <= t
    BY DEF First, Ahead
<1>3. rproc[c] = NoSlot /\ rscan' = rscan /\ watched' = watched
    BY DEF Choose
<1>4. /\ watched \in RSlot /\ overtaken \in [RSlot -> Nat] /\ rscan \in [Core -> 1..NSLOT + 1]
      /\ rproc \in [Core -> RSlot \cup {NoSlot}]
      /\ rstate \in [RSlot -> {"UNUSED", "EMBRYO", "SLEEPING", "RUNNABLE", "RUNNING", "ZOMBIE"}]
    BY DEF RoundInv, RoundTypes
<1>5. CASE p = watched
    BY <1>1, <1>2, <1>3, <1>4, <1>5 DEF TurnInv
<1>6. CASE p # watched /\ rstate[watched] # "RUNNABLE"
    BY <1>1, <1>2, <1>3, <1>4, <1>6 DEF TurnInv, RoundInv
<1>7. CASE p # watched /\ rstate[watched] = "RUNNABLE"
    <2>1. overtaken' = [overtaken EXCEPT ![p] = @ + 1]
        BY <1>1, <1>7
    <2>2. overtaken'[watched'] = 0 /\ rstate'[watched'] = "RUNNABLE"
        BY <1>1, <1>2, <1>3, <1>4, <1>7, <2>1 DEF RoundInv, TurnInv
    <2>3. Next(c) = rscan[c] /\ Next(c)' = p + 1 /\ \A d \in Core \ {c} : Next(d)' = Next(d)
        BY <1>1, <1>2, <1>3, <1>4 DEF Next, RSlot, NoSlot
    <2>4. rscan[c] <= watched => p < watched
        BY <1>2, <1>4, <1>7 DEF RSlot
    <2>5. ASSUME NEW s \in RSlot \ {watched}
          PROVE  overtaken'[s] + Cardinality(Passing(s)') <= Cardinality(Core)
        <3>1. Passing(s)' \subseteq Passing(s) /\ Passing(s) \subseteq Core
            <4>1. Before(s, Next(c))' => Before(s, Next(c))
                BY <1>2, <1>3, <1>4, <2>3, <2>4 DEF Before, RSlot
            <4>2. \A d \in Core \ {c} : Before(s, Next(d))' = Before(s, Next(d))
                BY <1>3, <2>3 DEF Before
            <4> QED
                BY <4>1, <4>2 DEF Passing
        <3>2. /\ IsFiniteSet(Passing(s)) /\ IsFiniteSet(Passing(s)')
              /\ Cardinality(Passing(s)') <= Cardinality(Passing(s))
              /\ Cardinality(Passing(s)') \in Nat /\ Cardinality(Passing(s)) \in Nat
              /\ Cardinality(Core) \in Nat
            BY <3>1, FS_Subset, FS_CardinalityType
        <3>3. overtaken[s] + Cardinality(Passing(s)) <= Cardinality(Core) /\ overtaken[s] \in Nat
            BY <1>4, <1>7 DEF RoundInv, TurnInv
        <3>4. CASE s # p
            BY <1>4, <2>1, <3>2, <3>3, <3>4
        <3>5. CASE s = p
            <4>1. c \in Passing(s) /\ c \notin Passing(s)'
                BY <1>2, <1>3, <1>4, <1>7, <2>3, <2>4, <3>5 DEF Passing, Before, RSlot
            <4>2. Passing(s)' \subseteq Passing(s) \ {c}
                BY <3>1, <4>1
            <4>3. IsFiniteSet(Passing(s) \ {c}) /\ Cardinality(Passing(s) \ {c}) = Cardinality(Passing(s)) - 1
                BY <3>2, <4>1, FS_RemoveElement
            <4>4. Cardinality(Passing(s)') <= Cardinality(Passing(s)) - 1
                BY <4>2, <4>3, FS_Subset
            <4>5. overtaken'[s] = overtaken[s] + 1
                BY <1>2, <1>4, <2>1, <3>5
            <4> QED
                BY <3>2, <3>3, <4>4, <4>5
        <3> QED
            BY <3>4, <3>5
    <2> QED
        BY <1>3, <2>2, <2>5 DEF TurnInv
<1> QED
    BY <1>5, <1>6, <1>7

(* The turns go on, whatever processes do.                                 *)
LEMMA TurnKept ==
    ASSUME RoundInv, [RoundNext]_roundVars
    PROVE  TurnInv'
<1> USE RoundAssumption DEF RoundInv, RoundTypes, CpuInv, ForkInv, RSlot, NoSlot, InitSlot, Ticks
<1> DEFINE Kept ==
        /\ UNCHANGED <<watched, overtaken>>
        /\ rstate[watched] = "RUNNABLE" => rstate'[watched] = "RUNNABLE"
        /\ rstate[watched] = "RUNNABLE" =>
              \A c \in Core, s \in RSlot : Before(s, Next(c))' => Before(s, Next(c))
<1>0. CASE UNCHANGED roundVars
    <2> Kept
        BY <1>0 DEF roundVars, Before, Next
    <2> QED
        BY TurnsStay
<1>1. ASSUME NEW c \in Core, NEW p \in RSlot, ForkAlloc(c, p) PROVE TurnInv'
    <2> Kept
        BY <1>1 DEF ForkAlloc, First, FreeSlots, InPlace, Running, Before, Next
    <2> QED
        BY TurnsStay
<1>2. ASSUME NEW c \in Core, NEW p \in RSlot, ForkFails(c, p) PROVE TurnInv'
    <2> Kept
        BY <1>2 DEF ForkFails, InPlace, Running, Before, Next
    <2> QED
        BY TurnsStay
<1>3. ASSUME NEW c \in Core, NEW p \in RSlot, ForkRuns(c, p) PROVE TurnInv'
    <2> Kept
        BY <1>3 DEF ForkRuns, InPlace, Running, Before, Next
    <2> QED
        BY TurnsStay
<1>4. ASSUME NEW c \in Core, NEW p \in RSlot, ClosesFiles(c, p) PROVE TurnInv'
    <2> Kept
        BY <1>4 DEF ClosesFiles, InPlace, Before, Next
    <2> QED
        BY TurnsStay
<1>5. ASSUME NEW c \in Core, NEW p \in RSlot, ExitLast(c, p) PROVE TurnInv'
    <2> Kept
        BY <1>5 DEF ExitLast, EnterSched1, Woken, Running, ScanFrom, Before, Next
    <2> QED
        BY TurnsStay
<1>6. ASSUME NEW c \in Core, NEW p \in RSlot, WaitReaps(c, p) PROVE TurnInv'
    <2> Kept
        BY <1>6 DEF WaitReaps, First, Zombies, Children, InPlace, Before, Next
    <2> QED
        BY TurnsStay
<1>7. ASSUME NEW c \in Core, NEW p \in RSlot, WaitFails(c, p) PROVE TurnInv'
    <2> Kept
        BY <1>7 DEF WaitFails, InPlace, Before, Next
    <2> QED
        BY TurnsStay
<1>8. ASSUME NEW c \in Core, NEW p \in RSlot, WaitSleeps(c, p) PROVE TurnInv'
    <2> Kept
        BY <1>8 DEF WaitSleeps, InWait, Sleep, EnterSched1, ScanFrom, Running, Before, Next
    <2> QED
        BY TurnsStay
<1>9. ASSUME NEW c \in Core, NEW p \in RSlot, SleepTicks(c, p) PROVE TurnInv'
    <2> Kept
        BY <1>9 DEF SleepTicks, Sleep, EnterSched1, ScanFrom, Running, Before, Next
    <2> QED
        BY TurnsStay
<1>10. ASSUME NEW c \in Core, NEW p \in RSlot, YieldCpu(c, p) PROVE TurnInv'
    <2> Kept
        BY <1>10 DEF YieldCpu, EnterSched1, ScanFrom, Before, Next
    <2> QED
        BY TurnsStay
<1>11. ASSUME NEW c \in Core, NEW p \in RSlot, KillSlot(c, p) PROVE TurnInv'
    <2> Kept
        BY <1>11 DEF KillSlot, InPlace, Before, Next
    <2> QED
        BY TurnsStay
<1>12. ASSUME NEW c \in Core, LoopBegins(c) PROVE TurnInv'
    <2> Kept
        BY <1>12 DEF LoopBegins, Before, Next
    <2> QED
        BY TurnsStay
<1>13. ASSUME NEW c \in Core, LoopEnds(c) PROVE TurnInv'
    <2>1. /\ rproc[c] = NoSlot /\ rscan' = [rscan EXCEPT ![c] = NSLOT + 1]
          /\ UNCHANGED <<rstate, rproc, watched, overtaken>>
          /\ \A s \in RSlot : s >= rscan[c] => rstate[s] # "RUNNABLE"
        BY <1>13 DEF LoopEnds, Ahead
    <2>2. Next(c) = rscan[c] /\ Next(c)' = NSLOT + 1 /\ \A d \in Core \ {c} : Next(d)' = Next(d)
        BY <2>1 DEF Next
    <2>3. rscan[c] \in 1..NSLOT + 1 /\ watched \in 1..NSLOT
        OBVIOUS
    <2>4. rstate[watched] = "RUNNABLE" => watched < rscan[c]
        BY <2>1, <2>3
    <2>5. ASSUME rstate[watched] = "RUNNABLE", NEW d \in Core, NEW s \in RSlot, Before(s, Next(d))'
          PROVE  Before(s, Next(d))
        <3>1. CASE d = c
            BY <2>1, <2>2, <2>3, <2>4, <2>5, <3>1 DEF Before
        <3>2. CASE d # c
            BY <2>1, <2>2, <2>5, <3>2 DEF Before
        <3> QED
            BY <3>1, <3>2
    <2>6. Kept
        BY <2>1, <2>5
    <2> QED
        BY <2>6, TurnsStay
<1>14. CASE TimerWakes
    <2> Kept
        BY <1>14 DEF TimerWakes, Woken, InPlace, Before, Next
    <2> QED
        BY TurnsStay
<1>15. ASSUME NEW c \in Core, Choose(c) PROVE TurnInv'
    BY <1>15, TurnTaken
<1> QED
    BY <1>0, <1>1, <1>2, <1>3, <1>4, <1>5, <1>6, <1>7, <1>8, <1>9, <1>10, <1>11, <1>12, <1>13, <1>14, <1>15 DEF RoundNext, ProcessStep

-----------------------------------------------------------------------------
(* The inductive invariant holds, for any table and any CPUs.              *)
THEOREM RoundInvariant == RoundSpec => []RoundInv
<1>1. RoundInit => RoundInv
    <2> SUFFICES ASSUME RoundInit PROVE RoundInv
        OBVIOUS
    <2> USE RoundAssumption DEF RoundInit, RSlot, NoSlot, InitSlot, Ticks
    <2>1. RoundTypes
        BY DEF RoundTypes
    <2>2. CpuInv /\ ForkInv /\ ParentInv
        BY DEF CpuInv, ForkInv, ParentInv
    <2>3. TurnInv
        <3>1. \A s \in RSlot : /\ Cardinality(Passing(s)) <= Cardinality(Core)
                               /\ Cardinality(Passing(s)) \in Nat /\ Cardinality(Core) \in Nat
            BY FS_Subset, FS_CardinalityType DEF Passing
        <3> QED
            BY <3>1 DEF TurnInv
    <2>4. WaitersServed
        BY DEF WaitersServed, Zombies, Children
    <2> QED
        BY <2>1, <2>2, <2>3, <2>4 DEF RoundInv
<1>2. RoundInv /\ [RoundNext]_roundVars => RoundInv'
    BY TypesKept, CpuKept, ForkKept, ParentKept, WaitersKept, TurnKept DEF RoundInv
<1> QED
    BY <1>1, <1>2, PTL DEF RoundSpec

(* While a process waits for a CPU no other is chosen more often than      *)
(* there are CPUs, and whoever sleeps in wait() has nothing to find.       *)
THEOREM RoundRobinIsRight == RoundSpec => []RoundRobinRight
<1>1. RoundInv => RoundRobinRight
    <2> SUFFICES ASSUME RoundInv, NEW s \in RSlot
                 PROVE  overtaken[s] <= Cardinality(Core)
        BY DEF RoundRobinRight, NobodyOvertaken, RoundInv
    <2>1. Cardinality(Passing(s)) \in Nat /\ Cardinality(Core) \in Nat
        BY RoundAssumption, FS_Subset, FS_CardinalityType DEF Passing
    <2>2. overtaken[s] \in Nat
        BY DEF RoundInv, RoundTypes
    <2> QED
        BY <2>1, <2>2 DEF RoundInv, TurnInv
<1> QED
    BY <1>1, RoundInvariant, PTL

(* The variables keep their types: the count is never past the CPUs.       *)
THEOREM RoundTypesHold == RoundSpec => []RoundTypeOK
<1>1. RoundInv /\ RoundRobinRight => RoundTypeOK
    <2> SUFFICES ASSUME RoundInv, RoundRobinRight
                 PROVE  overtaken \in [RSlot -> 0..Cardinality(Core) + 1]
        BY DEF RoundInv, RoundTypes, RoundTypeOK
    <2>1. Cardinality(Core) \in Nat
        BY RoundAssumption, FS_CardinalityType
    <2> QED
        BY <2>1 DEF RoundRobinRight, NobodyOvertaken, RoundInv, RoundTypes
<1> QED
    BY <1>1, RoundInvariant, RoundRobinIsRight, PTL
=============================================================================
