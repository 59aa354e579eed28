----------------------------- MODULE RoundRobin -----------------------------
(***************************************************************************)
(* kernel/proc.c of homework 1, the kernel before the lottery: every CPU   *)
(* goes round the process table and runs each RUNNABLE process it meets.   *)
(* One step is a critical section of ptable.lock; a process that calls     *)
(* sched() leaves the lock to the scheduler, and gets it back from one.    *)
(* Pids, process images and files are left out.                            *)
(***************************************************************************)
EXTENDS Integers, FiniteSets

CONSTANTS
    NSLOT,        \* NPROC of the code: slots of the process table
    Core,         \* the processors
    NoCore

ASSUME RoundAssumption ==
    NSLOT \in Nat \ {0} /\ IsFiniteSet(Core) /\ NoCore \notin Core

VARIABLES
    (* struct proc, by slot *)
    rstate, rparent, rchan, rkilled,
    rpc,          \* where its kernel thread is, or goes on when it runs again
    rnp,          \* np, the child that a fork() in progress fills
    (* scheduler(), by CPU *)
    rproc,        \* cpu->proc, or NoSlot
    rscan,        \* p; NSLOT + 1 outside of the loop
    rlock,        \* the CPU that holds ptable.lock
    (* The history of one process: how often each other has been chosen    *)
    (* since it became RUNNABLE                                            *)
    watched, overtaken

roundVars == <<rstate, rparent, rchan, rkilled, rpc, rnp, rproc, rscan, rlock, watched, overtaken>>

RSlot == 1..NSLOT
NoSlot == 0
InitSlot == 1         \* initproc
Ticks == NSLOT + 1    \* the channel &ticks

RoundTypeOK ==
    /\ rstate \in [RSlot -> {"UNUSED", "EMBRYO", "SLEEPING", "RUNNABLE", "RUNNING", "ZOMBIE"}]
    /\ rparent \in [RSlot -> RSlot \cup {NoSlot}]
    /\ rchan \in [RSlot -> RSlot \cup {NoSlot, Ticks}]
    /\ rkilled \in [RSlot -> BOOLEAN]
    /\ rpc \in [RSlot -> {"none", "user", "fork", "exit", "wait"}]
    /\ rnp \in [RSlot -> RSlot \cup {NoSlot}]
    /\ rproc \in [Core -> RSlot \cup {NoSlot}]
    /\ rscan \in [Core -> 1..NSLOT + 1]
    /\ rlock \in Core \cup {NoCore}
    /\ watched \in RSlot
    /\ overtaken \in [RSlot -> 0..Cardinality(Core) + 1]

(* userinit() has made the first process. *)
RoundInit ==
    /\ rstate = [s \in RSlot |-> IF s = InitSlot THEN "RUNNABLE" ELSE "UNUSED"]
    /\ rparent = [s \in RSlot |-> NoSlot]
    /\ rchan = [s \in RSlot |-> NoSlot]
    /\ rkilled = [s \in RSlot |-> FALSE]
    /\ rpc = [s \in RSlot |-> IF s = InitSlot THEN "user" ELSE "none"]
    /\ rnp = [s \in RSlot |-> NoSlot]
    /\ rproc = [c \in Core |-> NoSlot]
    /\ rscan = [c \in Core |-> NSLOT + 1]
    /\ rlock = NoCore
    /\ watched \in RSlot
    /\ overtaken = [s \in RSlot |-> 0]

(* Where a loop over the table stops                                       *)
First(slots) == {s \in slots : \A t \in slots : s <= t}

FreeSlots == {s \in RSlot : rstate[s] = "UNUSED"}
Children(s) == {k \in RSlot : rparent[k] = s}
Zombies(p) == {k \in Children(p) : rstate[k] = "ZOMBIE"}

(* wakeup1() *)
Woken(states, ch) ==
    [s \in RSlot |-> IF states[s] = "SLEEPING" /\ rchan[s] = ch THEN "RUNNABLE" ELSE states[s]]

-----------------------------------------------------------------------------
(* The process p on CPU c                                                  *)
Running(c, p, place) == rproc[c] = p /\ rstate[p] = "RUNNING" /\ rpc[p] = place
Free == rlock = NoCore
InPlace == UNCHANGED <<rproc, rscan, watched, overtaken>>

(* sched(): the scheduler goes on behind the process, with ptable.lock.    *)
ScanFrom_restart(p) == 1
ScanFrom(p) == p + 1

EnterSched1(c, p) ==
    /\ rproc' = [rproc EXCEPT ![c] = NoSlot]
    /\ rscan' = [rscan EXCEPT ![c] = ScanFrom(p)]
    /\ rlock' = c
    /\ UNCHANGED <<watched, overtaken>>

(* fork() takes a slot, then fills it without the lock, and may find no    *)
(* memory for the stack or the image.                                      *)
ForkAlloc(c, p) ==
    /\ Running(c, p, "user") /\ Free
    /\ \E k \in First(FreeSlots) :
          /\ rstate' = [rstate EXCEPT ![k] = "EMBRYO"]
          /\ rnp' = [rnp EXCEPT ![p] = k]
    /\ rpc' = [rpc EXCEPT ![p] = "fork"]
    /\ UNCHANGED <<rparent, rchan, rkilled, rlock>> /\ InPlace

ForkFails(c, p) ==
    /\ Running(c, p, "fork")
    /\ rstate' = [rstate EXCEPT ![rnp[p]] = "UNUSED"]
    /\ rnp' = [rnp EXCEPT ![p] = NoSlot]
    /\ rpc' = [rpc EXCEPT ![p] = "user"]
    /\ UNCHANGED <<rparent, rchan, rkilled, rlock>> /\ InPlace

ForkRuns(c, p) ==
    /\ Running(c, p, "fork") /\ Free
    /\ rstate' = [rstate EXCEPT ![rnp[p]] = "RUNNABLE"]
    /\ rparent' = [rparent EXCEPT ![rnp[p]] = p]
    /\ rnp' = [rnp EXCEPT ![p] = NoSlot]
    /\ rpc' = [rpc EXCEPT ![p] = "user", ![rnp[p]] = "user"]
    /\ UNCHANGED <<rchan, rkilled, rlock>> /\ InPlace

(* exit() closes files first; init never calls it.                         *)
ClosesFiles(c, p) ==
    /\ Running(c, p, "user") /\ p # InitSlot
    /\ rpc' = [rpc EXCEPT ![p] = "exit"]
    /\ UNCHANGED <<rstate, rparent, rchan, rkilled, rnp, rlock>> /\ InPlace

ExitLast(c, p) ==
    /\ Running(c, p, "exit") /\ Free
    /\ LET told == Woken(rstate, rparent[p])
       IN  rstate' = [(IF Zombies(p) # {} THEN Woken(told, InitSlot) ELSE told) EXCEPT ![p] = "ZOMBIE"]
    /\ rparent' = [k \in RSlot |-> IF k \in Children(p) THEN InitSlot ELSE rparent[k]]
    /\ EnterSched1(c, p)
    /\ UNCHANGED <<rchan, rkilled, rpc, rnp>>

(* The loop of wait(), entered with the lock free or, after sleep(), held  *)
InWait(c, p) ==
    \/ Running(c, p, "user") /\ Free
    \/ Running(c, p, "wait") /\ rlock = c

WaitReaps(c, p) ==
    /\ InWait(c, p)
    /\ \E k \in First(Zombies(p)) :
          /\ rstate' = [rstate EXCEPT ![k] = "UNUSED"]
          /\ rparent' = [rparent EXCEPT ![k] = NoSlot]
          /\ rkilled' = [rkilled EXCEPT ![k] = FALSE]
          /\ rpc' = [rpc EXCEPT ![p] = "user", ![k] = "none"]
    /\ rlock' = NoCore
    /\ UNCHANGED <<rchan, rnp>> /\ InPlace

WaitFails(c, p) ==
    /\ InWait(c, p) /\ Zombies(p) = {}
    /\ Children(p) = {} \/ rkilled[p]
    /\ rpc' = [rpc EXCEPT ![p] = "user"]
    /\ rlock' = NoCore
    /\ UNCHANGED <<rstate, rparent, rchan, rkilled, rnp>> /\ InPlace

Sleep(c, p, ch) ==
    /\ rchan' = [rchan EXCEPT ![p] = ch]
    /\ rstate' = [rstate EXCEPT ![p] = "SLEEPING"]
    /\ EnterSched1(c, p)
    /\ UNCHANGED <<rparent, rkilled, rnp>>

WaitSleeps(c, p) ==
    /\ InWait(c, p) /\ Zombies(p) = {}
    /\ Children(p) # {} /\ ~rkilled[p]
    /\ rpc' = [rpc EXCEPT ![p] = "wait"]
    /\ Sleep(c, p, p)

(* sys_sleep(), which returns early when the process has been killed       *)
SleepTicks(c, p) ==
    /\ Running(c, p, "user") /\ Free /\ ~rkilled[p]
    /\ Sleep(c, p, Ticks)
    /\ UNCHANGED rpc

(* The timer: yield() wherever interrupts are on                           *)
YieldCpu(c, p) ==
    /\ rproc[c] = p /\ rstate[p] = "RUNNING" /\ rpc[p] \in {"user", "fork", "exit"} /\ Free
    /\ rstate' = [rstate EXCEPT ![p] = "RUNNABLE"]
    /\ EnterSched1(c, p)
    /\ UNCHANGED <<rparent, rchan, rkilled, rpc, rnp>>

(* kill() of a process, or of one of the slots that have no pid.           *)
KillSlot(c, q) ==
    /\ rproc[c] # NoSlot /\ Running(c, rproc[c], "user") /\ Free
    /\ rkilled' = [rkilled EXCEPT ![q] = TRUE]
    /\ rstate' = [rstate EXCEPT ![q] = IF @ = "SLEEPING" THEN "RUNNABLE" ELSE @]
    /\ UNCHANGED <<rparent, rchan, rpc, rnp, rlock>> /\ InPlace

(* The timer interrupt wakes who sleeps on &ticks.                         *)
TimerWakes ==
    /\ Free
    /\ rstate' = Woken(rstate, Ticks)
    /\ UNCHANGED <<rparent, rchan, rkilled, rpc, rnp, rlock>> /\ InPlace

-----------------------------------------------------------------------------
(* scheduler()                                                             *)
LoopBegins(c) ==
    /\ rproc[c] = NoSlot /\ rlock = NoCore /\ rscan[c] = NSLOT + 1
    /\ rlock' = c
    /\ rscan' = [rscan EXCEPT ![c] = 1]
    /\ UNCHANGED <<rstate, rparent, rchan, rkilled, rpc, rnp, rproc, watched, overtaken>>

Ahead(c) == {s \in RSlot : s >= rscan[c] /\ rstate[s] = "RUNNABLE"}

(* What runs lets go of the lock in forkret(), yield() or sleep(), or goes *)
(* on with it in wait().                                                   *)
Choose(c) ==
    /\ rproc[c] = NoSlot /\ rlock = c
    /\ \E p \in First(Ahead(c)) :
          /\ rstate' = [rstate EXCEPT ![p] = "RUNNING"]
          /\ rproc' = [rproc EXCEPT ![c] = p]
          /\ rlock' = IF rpc[p] = "wait" THEN c ELSE NoCore
          /\ rchan' = [rchan EXCEPT ![p] = NoSlot]
          /\ overtaken' =
               IF p = watched THEN [s \in RSlot |-> 0]
               ELSE IF rstate[watched] # "RUNNABLE" THEN overtaken
               ELSE [overtaken EXCEPT ![p] = @ + 1]
    /\ UNCHANGED <<rparent, rkilled, rpc, rnp, rscan, watched>>

LoopEnds(c) ==
    /\ rproc[c] = NoSlot /\ rlock = c /\ Ahead(c) = {}
    /\ rlock' = NoCore
    /\ rscan' = [rscan EXCEPT ![c] = NSLOT + 1]
    /\ UNCHANGED <<rstate, rparent, rchan, rkilled, rpc, rnp, rproc, watched, overtaken>>

ProcessStep(c, p) ==
    \/ ForkAlloc(c, p) \/ ForkFails(c, p) \/ ForkRuns(c, p)
    \/ ClosesFiles(c, p) \/ ExitLast(c, p)
    \/ WaitReaps(c, p) \/ WaitFails(c, p) \/ WaitSleeps(c, p)
    \/ SleepTicks(c, p) \/ YieldCpu(c, p)

RoundNext ==
    \/ \E c \in Core, p \in RSlot : ProcessStep(c, p) \/ KillSlot(c, p)
    \/ \E c \in Core : LoopBegins(c) \/ Choose(c) \/ LoopEnds(c)
    \/ TimerWakes

RoundSpec == RoundInit /\ [][RoundNext]_roundVars

-----------------------------------------------------------------------------
(* Round robin: while a process is RUNNABLE, no other is chosen more often *)
(* than there are CPUs, whatever sleeps, wakes, forks and exits meanwhile. *)
NobodyOvertaken == \A s \in RSlot : overtaken[s] <= Cardinality(Core)

(* Who sleeps in wait() has no zombie to find and has not been killed.     *)
WaitersServed ==
    \A p \in RSlot : rstate[p] = "SLEEPING" /\ rchan[p] = p => Zombies(p) = {} /\ ~rkilled[p]

RoundRobinRight == NobodyOvertaken /\ WaitersServed
=============================================================================
