--------------------------- MODULE ProcInvariants ---------------------------
(***************************************************************************)
(* The inductive invariant behind the safety properties of Proc: who holds *)
(* ptable.lock and tickslock where, and what a thread in the middle of a   *)
(* context switch, of fork() or of sys_sleep() may rely on.                *)
(***************************************************************************)
EXTENDS Proc

(* Where a thread is, seen through a yield() forced by the timer. *)
Place(s) == IF pc[s] = "yielded" THEN resume[s] ELSE pc[s]

Forking == {"fork1", "fork2", "fork3"}

BootInv == at[0] = "main" => nextpid = 1 /\ \A s \in Slot : state[s] = "UNUSED"

(* A CPU runs the process its scan has stopped at; the scan otherwise      *)
(* holds ptable.lock.                                                      *)
ScanInv ==
    \A c \in CPU :
        /\ on[c] # Null => at[c] = "scan" /\ scan[c] = on[c]
        /\ at[c] = "scan" /\ on[c] = Null => ptlock = c

(* A process on a CPU is RUNNING, or has given up the CPU; on both sides   *)
(* of a context switch the CPU holds ptable.lock.                          *)
SwitchInv ==
    \A c \in CPU, s \in Slot : on[c] = s =>
        /\ state[s] # "RUNNING" =>
              pc[s] \in Switching /\ state[s] \in {"RUNNABLE", "SLEEPING", "ZOMBIE"}
        /\ pc[s] \in Switching \cup {"forkret"} => ptlock = c

(* A process that has been started has a kernel stack. *)
StackInv ==
    \A s \in Slot : state[s] \notin {"UNUSED", "EMBRYO"} => kstack[s]

(* The threads of slots outside their life, and of the dead. *)
ThreadInv ==
    \A s \in Slot :
        /\ state[s] \in {"UNUSED", "EMBRYO"} => pc[s] \in {"none", "forkret"}
        /\ state[s] = "ZOMBIE" => pc[s] = "zombie"

(* fork() owns the slot it is filling. *)
ForkInv ==
    \A s \in Slot :
        /\ np[s] # Null <=> Place(s) \in Forking
        /\ Place(s) \in {"fork2", "fork3"} => kstack[np[s]]
        /\ Place(s) = "fork3" => parent[np[s]] = s

(* init never dies, and nobody is its own parent. *)
InitInv ==
    /\ at[0] # "main" => state[InitProc] \in {"RUNNABLE", "RUNNING", "SLEEPING"}
    /\ parent[InitProc] = Null
    /\ \A s \in Slot : parent[s] # s

(* tickslock is held by the tick handler and on the way into sleep().      *)
TickInv ==
    /\ tick = "wake" => tickslock = 0
    /\ tick # "none" => IF on[0] = Null THEN at[0] \in {"loop", "hlt"}
                        ELSE pc[on[0]] \in Interruptible
    /\ \A s \in Slot : pc[s] = "sleeplk" =>
          left[s] > 0 /\ \E c \in CPU : on[c] = s /\ tickslock = c

(* The inductive invariant of the kernel's process code. *)
KernelInv ==
    /\ TypeOK /\ BootInv /\ ScanInv /\ SwitchInv /\ StackInv /\ ThreadInv
    /\ ForkInv /\ InitInv /\ TickInv
    /\ OneCpuPerStack /\ EmbryoOwned /\ ParentAlive
    /\ WaitNoLostWakeup /\ KilledNotWaiting /\ SleepNoLostTick

(* A pid below nextpid is held by one used slot at most, init's is 1, and  *)
(* an EMBRYO is being filled by a fork() in progress.                      *)
PidInv ==
    /\ \A s \in Slot : state[s] # "UNUSED" => pid[s] \in 1..nextpid - 1
    /\ \A s, t \in Slot :
          state[s] # "UNUSED" /\ state[t] # "UNUSED" /\ pid[s] = pid[t] => s = t
    /\ at[0] # "main" => pid[InitProc] = 1
    /\ \A s \in Slot : state[s] = "EMBRYO" => \E t \in Slot : np[t] = s

-----------------------------------------------------------------------------
(***************************************************************************)
(* The process table of Proc implements the process tree of ProcTree.  A   *)
(* pid below nextpid that no used slot holds is gone: wait() cleared it,   *)
(* or a failed fork() left it behind in an UNUSED slot.                    *)
(***************************************************************************)

SlotsOf(p) == {s \in Slot : pid[s] = p /\ state[s] # "UNUSED"}
SlotOf(p) == CHOOSE s \in Slot : pid[s] = p /\ state[s] # "UNUSED"

StatusOf(p) ==
    IF p >= nextpid THEN "none"
    ELSE IF SlotsOf(p) = {} THEN "gone"
    ELSE CASE state[SlotOf(p)] = "EMBRYO" -> "new"
           [] state[SlotOf(p)] = "ZOMBIE" -> "zombie"
           [] OTHER -> "alive"

(* The parent of an EMBRYO is the process whose fork() is building it;     *)
(* init's is the null pointer.                                             *)
ParentSlot(s) ==
    IF state[s] = "EMBRYO" THEN CHOOSE t \in Slot : np[t] = s ELSE parent[s]

ParentPidOf(p) ==
    IF p <= 1 \/ SlotsOf(p) = {} THEN 0 ELSE pid[ParentSlot(SlotOf(p))]

TreeStatus == [p \in 1..MaxPid |-> StatusOf(p)]
TreeParent == [p \in 1..MaxPid |-> ParentPidOf(p)]

Tree == INSTANCE ProcTree WITH status <- TreeStatus, parentOf <- TreeParent

(* fork(), exit() and wait(), on all CPUs, keep the promises of ProcTree.  *)
ImplementsTree == Tree!TreeSpec
=============================================================================
