------------------------------ MODULE Spinlock ------------------------------
(***************************************************************************)
(* kernel/spinlock.c, and what interrupts and context switches do to it:   *)
(* a lock is held with interrupts off, pushcli() and popcli() are counted  *)
(* by CPU, but whether interrupts were on before is an affair of the       *)
(* kernel thread, which may go on on another CPU.                          *)
(* cli() makes all that follows on its CPU uninterruptible: what touches   *)
(* only the CPU's own variables is one step with what comes before.        *)
(***************************************************************************)
EXTENDS Integers, Sequences, FiniteSets

CONSTANTS
    Process,      \* the kernel threads of processes
    CPU,          \* CPU c is also the name of its scheduler thread
    SpinLock,
    ptable,       \* ptable.lock
    NoCPU

ASSUME SpinAssumption ==
    /\ Process \cap CPU = {}
    /\ NoCPU \notin CPU
    /\ ptable \in SpinLock

VARIABLES
    lk_locked,    \* lk->locked
    lk_cpu,       \* lk->cpu
    ncli,         \* cpu->ncli
    intena,       \* cpu->intena
    IF_on,        \* FL_IF of each CPU
    thread,       \* the thread each CPU runs
    doing,        \* where each thread is, and the locks it took there
    frames,       \* what interrupts have broken off in it, the last on top
    kept,         \* intena in sched()
    panicked

spinVars == <<lk_locked, lk_cpu, ncli, intena, IF_on, thread, doing, frames, kept, panicked>>

Thread == Process \cup CPU

(* In acquire(): has read the flags, spins, has the lock but is not yet    *)
(* recorded; in release(): has cleared its name.  "off": in swtch().       *)
Spot == {"idle", "flags", "spin", "took", "drop", "off", "new", "user", "sti"}

Doing == [at : Spot, lk : SpinLock, flags : BOOLEAN, held : SUBSET SpinLock]

(* With the locks it took, or with none, and no call in progress           *)
With(place, locks) == [at |-> place, lk |-> ptable, flags |-> FALSE, held |-> locks]
Just(place) == With(place, {})

SpinTypeOK ==
    /\ lk_locked \in [SpinLock -> BOOLEAN]
    /\ lk_cpu \in [SpinLock -> CPU \cup {NoCPU}]
    /\ ncli \in [CPU -> Nat]
    /\ intena \in [CPU -> BOOLEAN]
    /\ IF_on \in [CPU -> BOOLEAN]
    /\ thread \in [CPU -> Thread]
    /\ doing \in [Thread -> Doing]
    /\ frames \in [Thread -> Seq(Doing)]
    /\ kept \in [Process -> BOOLEAN]
    /\ panicked \in BOOLEAN

(* Every CPU enters scheduler() with interrupts off; a new process returns *)
(* to user space from forkret(), as if from an interrupt.                  *)
SpinInit ==
    /\ lk_locked = [l \in SpinLock |-> FALSE]
    /\ lk_cpu = [l \in SpinLock |-> NoCPU]
    /\ ncli = [c \in CPU |-> 0]
    /\ intena = [c \in CPU |-> FALSE]
    /\ IF_on = [c \in CPU |-> FALSE]
    /\ thread = [c \in CPU |-> c]
    /\ doing = [t \in Thread |-> Just(IF t \in CPU THEN "sti" ELSE "new")]
    /\ frames = [t \in Thread |-> IF t \in CPU THEN <<>> ELSE <<Just("user")>>]
    /\ kept = [p \in Process |-> FALSE]
    /\ panicked = FALSE

Holding(c, l) == lk_locked[l] /\ lk_cpu[l] = c
InLoop(c) == thread[c] = c /\ frames[c] = <<>>
PanicIf(cond) == panicked' = (panicked \/ cond)

-----------------------------------------------------------------------------
(* pushcli() reads the flags with interrupts on: the thread may be         *)
(* interrupted, and moved to another CPU, before it goes on.               *)
ReadFlags(c, t, l) ==
    /\ doing[t].at = "idle" /\ l \notin doing[t].held
    /\ InLoop(c) => l = ptable
    /\ doing' = [doing EXCEPT ![t] = [@ EXCEPT !.at = "flags", !.lk = l, !.flags = IF_on[c]]]
    /\ UNCHANGED <<lk_locked, lk_cpu, ncli, intena, IF_on, thread, frames, kept, panicked>>

PushCli(c, t) ==
    /\ doing[t].at = "flags"
    /\ IF_on' = [IF_on EXCEPT ![c] = FALSE]
    /\ ncli' = [ncli EXCEPT ![c] = @ + 1]
    /\ intena' = [intena EXCEPT ![c] = IF ncli[c] = 0 THEN doing[t].flags ELSE @]
    /\ PanicIf(Holding(c, doing[t].lk))
    /\ doing' = [doing EXCEPT ![t] = [@ EXCEPT !.at = "spin", !.flags = FALSE]]
    /\ UNCHANGED <<lk_locked, lk_cpu, thread, frames, kept>>

Xchg(c, t) ==
    /\ doing[t].at = "spin" /\ ~lk_locked[doing[t].lk]
    /\ lk_locked' = [lk_locked EXCEPT ![doing[t].lk] = TRUE]
    /\ doing' = [doing EXCEPT ![t] = [@ EXCEPT !.at = "took"]]
    /\ UNCHANGED <<lk_cpu, ncli, intena, IF_on, thread, frames, kept, panicked>>

Record(c, t) ==
    /\ doing[t].at = "took"
    /\ lk_cpu' = [lk_cpu EXCEPT ![doing[t].lk] = c]
    /\ doing' = [doing EXCEPT ![t] = With("idle", doing[t].held \cup {doing[t].lk})]
    /\ UNCHANGED <<lk_locked, ncli, intena, IF_on, thread, frames, kept, panicked>>

(* release(), of any lock the thread took                                  *)
Unrecord(c, t, l) ==
    /\ doing[t].at = "idle" /\ l \in doing[t].held
    /\ PanicIf(~Holding(c, l))
    /\ lk_cpu' = [lk_cpu EXCEPT ![l] = NoCPU]
    /\ doing' = [doing EXCEPT ![t] = [With("drop", doing[t].held \ {l}) EXCEPT !.lk = l]]
    /\ UNCHANGED <<lk_locked, ncli, intena, IF_on, thread, frames, kept>>

(* The exchange, and popcli()                                              *)
Sti(c) == ncli[c] = 1 /\ intena[c]

Drop(c, t) ==
    /\ doing[t].at = "drop"
    /\ lk_locked' = [lk_locked EXCEPT ![doing[t].lk] = FALSE]
    /\ PanicIf(IF_on[c] \/ ncli[c] = 0)
    /\ ncli' = [ncli EXCEPT ![c] = @ - 1]
    /\ IF_on' = [IF_on EXCEPT ![c] = @ \/ Sti(c)]
    /\ doing' = [doing EXCEPT ![t] = With(IF InLoop(c) THEN "sti" ELSE "idle", doing[t].held)]
    /\ UNCHANGED <<lk_cpu, intena, thread, frames, kept>>

-----------------------------------------------------------------------------
(* An interrupt gate turns interrupts off; iret restores the flags, which  *)
(* were on where an interrupt came, and are in user space.                 *)
Interrupt(c, t) ==
    /\ IF_on[c]
    /\ frames' = [frames EXCEPT ![t] = Append(@, doing[t])]
    /\ doing' = [doing EXCEPT ![t] = Just("idle")]
    /\ IF_on' = [IF_on EXCEPT ![c] = FALSE]
    /\ UNCHANGED <<lk_locked, lk_cpu, ncli, intena, thread, kept, panicked>>

Top(s) == s[Len(s)]
Back(frame) == IF frame.at = "user" THEN Just("idle") ELSE frame

Iret(c, t) ==
    /\ frames[t] # <<>>
    /\ doing[t].at = "idle" /\ doing[t].held = {}
    /\ doing' = [doing EXCEPT ![t] = Back(Top(frames[t]))]
    /\ frames' = [frames EXCEPT ![t] = SubSeq(@, 1, Len(@) - 1)]
    /\ IF_on' = [IF_on EXCEPT ![c] = TRUE]
    /\ UNCHANGED <<lk_locked, lk_cpu, ncli, intena, thread, kept, panicked>>

(* sched(): intena stays with the thread.                                  *)
Sched(c, t) ==
    /\ t \in Process
    /\ doing[t].at = "idle" /\ doing[t].held = {ptable}
    /\ PanicIf(~Holding(c, ptable) \/ ncli[c] # 1 \/ IF_on[c])
    /\ kept' = [kept EXCEPT ![t] = intena[c]]
    /\ thread' = [thread EXCEPT ![c] = c]
    /\ doing' = [doing EXCEPT ![t] = Just("off"), ![c] = With("idle", {ptable})]
    /\ UNCHANGED <<lk_locked, lk_cpu, ncli, intena, IF_on, frames>>

(* scheduler() switches to a process: back in sched(), or in forkret().    *)
Restored_none(c, p) == intena[c]
Restored(c, p) == IF doing[p].at = "off" THEN kept[p] ELSE intena[c]

Dispatch(c, p) ==
    /\ InLoop(c)
    /\ doing[c].at = "idle" /\ doing[c].held = {ptable}
    /\ doing[p].at \in {"off", "new"}
    /\ thread' = [thread EXCEPT ![c] = p]
    /\ intena' = [intena EXCEPT ![c] = Restored(c, p)]
    /\ doing' = [doing EXCEPT ![c] = Just("off"), ![p] = With("idle", {ptable})]
    /\ kept' = [kept EXCEPT ![p] = FALSE]
    /\ UNCHANGED <<lk_locked, lk_cpu, ncli, IF_on, frames, panicked>>

(* The loop of scheduler() starts with sti().                              *)
LoopSti(c) ==
    /\ InLoop(c) /\ doing[c].at = "sti"
    /\ IF_on' = [IF_on EXCEPT ![c] = TRUE]
    /\ doing' = [doing EXCEPT ![c] = Just("idle")]
    /\ UNCHANGED <<lk_locked, lk_cpu, ncli, intena, thread, frames, kept, panicked>>

ThreadStep(c, t) ==
    \/ \E l \in SpinLock : ReadFlags(c, t, l) \/ Unrecord(c, t, l)
    \/ PushCli(c, t) \/ Xchg(c, t) \/ Record(c, t) \/ Drop(c, t)
    \/ Interrupt(c, t) \/ Iret(c, t) \/ Sched(c, t)

SpinNext ==
    \E c \in CPU : ThreadStep(c, thread[c]) \/ LoopSti(c) \/ \E p \in Process : Dispatch(c, p)

SpinSpec == SpinInit /\ [][SpinNext]_spinVars

-----------------------------------------------------------------------------
(* A CPU takes no interrupt while its thread holds a lock, is on the way   *)
(* to one or has not let go of one, so that no handler spins for a lock of *)
(* its own CPU; the locks of two CPUs are apart.                           *)
LocksExclude ==
    /\ \A c \in CPU :
          \/ doing[thread[c]].held # {}
          \/ doing[thread[c]].at \in {"spin", "took", "drop"}
          => ~IF_on[c]
    /\ \A c, d \in CPU : c # d => doing[thread[c]].held \cap doing[thread[d]].held = {}

(* Outside of all locks a process has interrupts on, and off in a handler, *)
(* on whatever CPUs it has slept and woken: a release() never turns them   *)
(* on in a handler, nor leaves them off.                                   *)
InterruptsKept ==
    \A c \in CPU, p \in Process :
        /\ thread[c] = p /\ doing[p].at \in {"idle", "flags"} /\ doing[p].held = {}
        /\ frames[p] # <<>> => Top(frames[p]).at # "user"
        => (IF_on[c] <=> frames[p] = <<>>)

(* acquire(), release(), popcli() and sched() never panic; locks exclude,  *)
(* and interrupts are as they should be.                                   *)
LocksRight == ~panicked /\ LocksExclude /\ InterruptsKept
=============================================================================
