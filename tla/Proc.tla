-------------------------------- MODULE Proc --------------------------------
(***************************************************************************)
(* Processes and CPUs of the lottery-scheduling kernel: kernel/proc.c, the *)
(* timer interrupt of kernel/trap.c, sys_sleep of kernel/sysproc.c and the *)
(* loop of user/init.c.  One step is a critical section of ptable.lock or  *)
(* of tickslock, an unlocked access to the process table, or a context     *)
(* switch.  Process images, files and trap frames are left out.            *)
(*                                                                         *)
(* A process is named by its slot in ptable.proc, which is also its wait   *)
(* channel in wait(); slot 0 stands for the null pointer.                  *)
(***************************************************************************)
EXTENDS Integers, FiniteSets, FiniteSetsExt

CONSTANTS
    NPROC,        \* slots of the process table
    NCPU,         \* processors; number 0 boots and counts the ticks
    MaxPid,       \* bound: pids handed out in a behaviour
    MaxSleep,     \* bound: the longest sleep() asked for, in ticks
    Tickets,      \* the tickets allocproc may draw (1..999 in the code)
    KillPids,     \* the arguments kill() is called with
    AllocMayFail  \* may kalloc() and copyuvm() run out of memory?

ASSUME SizeAssumption == NPROC \in Nat \ {0} /\ NCPU \in Nat \ {0}
ASSUME BoundAssumption == MaxPid \in Nat \ {0} /\ MaxSleep \in Nat
ASSUME TicketAssumption == Tickets \subseteq Nat \ {0} /\ Tickets # {}
ASSUME KillAssumption == KillPids \subseteq Nat
ASSUME AllocAssumption == AllocMayFail \in BOOLEAN

Slot == 1..NPROC
CPU == 0..NCPU - 1
Null == 0             \* the null struct proc pointer
NoCpu == -1           \* the holder of a free spinlock
InitProc == 1         \* initproc: userinit() finds every slot UNUSED
TicksChan == NPROC + 1   \* the channel &ticks

VARIABLES
    (* struct proc, one function per field *)
    state, pid, parent, chan, killed, tickets, kstack,
    nextpid,
    (* the kernel thread of each slot *)
    pc,           \* where it is
    resume,       \* where yield() will return to
    np,           \* the child a fork() in progress is building
    left,         \* n - (ticks - ticks0) of its sleep(), 0 once expired
    shpid,        \* init.c's pid: the shell it waits for, 0 when there is none
    (* locks: the CPU that holds them *)
    ptlock, tickslock,
    tick,         \* CPU 0's timer handler: none, wake or yield
    (* scheduler() of each CPU *)
    at,           \* where it is
    on,           \* the process whose kernel stack the CPU runs on, or Null
    scan,         \* p, the slot the loop looks at
    winner,       \* the tickets counted so far, then the winning ticket
    counter, found

table == <<state, pid, parent, chan, killed, tickets, kstack, nextpid>>
threads == <<pc, resume, np, left, shpid>>
locks == <<ptlock, tickslock>>
lottery == <<winner, counter, found>>
cpus == <<at, on, scan, lottery>>
vars == <<table, threads, locks, tick, cpus>>

ProcState == {"UNUSED", "EMBRYO", "SLEEPING", "RUNNABLE", "RUNNING", "ZOMBIE"}

(* Where a thread runs with interrupts enabled: in user mode, between the  *)
(* critical sections of fork(), closing files in exit(), and in sys_sleep  *)
(* before it takes tickslock again.                                        *)
Interruptible == {"user", "fork1", "fork2", "fork3", "exit", "sleepre"}

(* Where a thread is inside sched(), holding ptable.lock. *)
Switching == {"yielded", "slept", "waitslept", "zombie"}

Places == Interruptible \cup Switching \cup {"none", "forkret", "sleeplk", "panic"}

TypeOK ==
    /\ state \in [Slot -> ProcState]
    /\ pid \in [Slot -> 0..MaxPid]
    /\ parent \in [Slot -> {Null} \cup Slot]
    /\ chan \in [Slot -> {Null} \cup Slot \cup {TicksChan}]
    /\ killed \in [Slot -> BOOLEAN]
    /\ tickets \in [Slot -> {0} \cup Tickets]
    /\ kstack \in [Slot -> BOOLEAN]
    /\ nextpid \in 1..MaxPid + 1
    /\ pc \in [Slot -> Places]
    /\ resume \in [Slot -> Interruptible]
    /\ np \in [Slot -> {Null} \cup Slot]
    /\ left \in [Slot -> 0..MaxSleep]
    /\ shpid \in 0..MaxPid
    /\ ptlock \in CPU \cup {NoCpu}
    /\ tickslock \in CPU \cup {NoCpu}
    /\ tick \in {"none", "wake", "yield"}
    /\ at \in [CPU -> {"main", "start", "loop", "scan", "hlt", "panic"}]
    /\ on \in [CPU -> {Null} \cup Slot]
    /\ scan \in [CPU -> 1..NPROC + 1]
    /\ winner \in [CPU -> Nat]
    /\ counter \in [CPU -> Nat]
    /\ found \in [CPU -> BOOLEAN]

Init ==
    /\ state = [s \in Slot |-> "UNUSED"]
    /\ pid = [s \in Slot |-> 0]
    /\ parent = [s \in Slot |-> Null]
    /\ chan = [s \in Slot |-> Null]
    /\ killed = [s \in Slot |-> FALSE]
    /\ tickets = [s \in Slot |-> 0]
    /\ kstack = [s \in Slot |-> FALSE]
    /\ nextpid = 1
    /\ pc = [s \in Slot |-> "none"]
    /\ resume = [s \in Slot |-> "user"]
    /\ np = [s \in Slot |-> Null]
    /\ left = [s \in Slot |-> 0]
    /\ shpid = 0
    /\ ptlock = NoCpu
    /\ tickslock = NoCpu
    /\ tick = "none"
    /\ at = [c \in CPU |-> IF c = 0 THEN "main" ELSE "start"]
    /\ on = [c \in CPU |-> Null]
    /\ scan = [c \in CPU |-> 1]
    /\ winner = [c \in CPU |-> 0]
    /\ counter = [c \in CPU |-> 0]
    /\ found = [c \in CPU |-> TRUE]

-----------------------------------------------------------------------------
(* Locks, wakeups and the context switch.                                  *)

(* CPU c runs process s, at l, and no timer handler runs on top of it. *)
Runs(c, s, l) ==
    /\ on[c] = s
    /\ state[s] = "RUNNING"
    /\ pc[s] = l
    /\ c = 0 => tick = "none"

Goto(s, l) == pc' = [pc EXCEPT ![s] = l]
GotoBoth(s, l, t, k) ==
    pc' = [q \in Slot |-> IF q = s THEN l ELSE IF q = t THEN k ELSE pc[q]]

(* sched() is entered holding ptable.lock, which the process that runs     *)
(* next, or the scheduler, releases.                                       *)
EnterSched_unlocked(c) == ptlock' = NoCpu
EnterSched(c) == ptlock' = c

(* wakeup1(ch) *)
Wakeup1_first(ch) ==
    LET t == {s \in Slot : state[s] = "SLEEPING" /\ chan[s] = ch}
    IN  IF t = {} THEN state ELSE [state EXCEPT ![Min(t)] = "RUNNABLE"]
Wakeup1(ch) ==
    [s \in Slot |-> IF state[s] = "SLEEPING" /\ chan[s] = ch
                    THEN "RUNNABLE" ELSE state[s]]

(* swtch() out of a process that has changed its state; the scheduler goes *)
(* on with the slot after it.                                              *)
NextSlot_restart(c) == 1
NextSlot(c) == scan[c] + 1

Swtch(c, s) ==
    /\ on[c] = s
    /\ pc[s] \in Switching
    /\ state[s] # "RUNNING"
    /\ on' = [on EXCEPT ![c] = Null]
    /\ scan' = [scan EXCEPT ![c] = NextSlot(c)]
    /\ UNCHANGED <<table, threads, locks, tick, at, lottery>>

-----------------------------------------------------------------------------
(* scheduler()                                                             *)

FirstState == "RUNNABLE"

(* userinit() on the boot CPU, after startothers() has started the others. *)
Userinit ==
    /\ at[0] = "main"
    /\ \E k \in Tickets : tickets' = [tickets EXCEPT ![InitProc] = k]
    /\ state' = [state EXCEPT ![InitProc] = FirstState]
    /\ pid' = [pid EXCEPT ![InitProc] = nextpid]
    /\ nextpid' = nextpid + 1
    /\ kstack' = [kstack EXCEPT ![InitProc] = TRUE]
    /\ Goto(InitProc, "forkret")
    /\ at' = [at EXCEPT ![0] = "start"]
    /\ UNCHANGED <<parent, chan, killed, resume, np, left, shpid, locks, tick,
                   on, scan, lottery>>

(* get_total_tickets() reads one slot, without the lock. *)
CountTickets(c) ==
    /\ at[c] = "start" /\ scan[c] \in Slot
    /\ winner' = [winner EXCEPT ![c] =
                    @ + IF state[scan[c]] = "RUNNABLE" THEN tickets[scan[c]] ELSE 0]
    /\ scan' = [scan EXCEPT ![c] = @ + 1]
    /\ UNCHANGED <<table, threads, locks, tick, at, on, counter, found>>

(* get_random() % get_total_tickets() + 1, once per CPU: a total of 0      *)
(* raises a divide error, which trap() answers with panic("trap").         *)
Draw(c) ==
    /\ at[c] = "start" /\ scan[c] = NPROC + 1
    /\ \/ /\ winner[c] = 0
          /\ at' = [at EXCEPT ![c] = "panic"]
          /\ UNCHANGED winner
       \/ /\ \E w \in 1..winner[c] : winner' = [winner EXCEPT ![c] = w]
          /\ at' = [at EXCEPT ![c] = "loop"]
    /\ UNCHANGED <<table, threads, locks, tick, on, scan, counter, found>>

SchedAcquire(c) ==
    /\ at[c] = "loop" /\ ptlock = NoCpu
    /\ c = 0 => tick = "none"
    /\ ptlock' = c
    /\ at' = [at EXCEPT ![c] = "scan"]
    /\ scan' = [scan EXCEPT ![c] = 1]
    /\ found' = [found EXCEPT ![c] = FALSE]
    /\ UNCHANGED <<table, threads, tickslock, tick, on, winner, counter>>

Scanning(c) == at[c] = "scan" /\ on[c] = Null

(* The slot is not RUNNABLE, or its tickets are added to the counter. *)
SchedSkip(c) ==
    /\ Scanning(c) /\ scan[c] \in Slot
    /\ \/ /\ state[scan[c]] # "RUNNABLE"
          /\ UNCHANGED counter
       \/ /\ state[scan[c]] = "RUNNABLE" /\ counter[c] < winner[c]
          /\ counter' = [counter EXCEPT ![c] = @ + tickets[scan[c]]]
    /\ scan' = [scan EXCEPT ![c] = @ + 1]
    /\ UNCHANGED <<table, threads, locks, tick, at, on, winner, found>>

SchedPick(c) ==
    /\ Scanning(c) /\ scan[c] \in Slot
    /\ state[scan[c]] = "RUNNABLE" /\ counter[c] >= winner[c]
    /\ found' = [found EXCEPT ![c] = TRUE]
    /\ state' = [state EXCEPT ![scan[c]] = "RUNNING"]
    /\ on' = [on EXCEPT ![c] = scan[c]]
    /\ UNCHANGED <<pid, parent, chan, killed, tickets, kstack, nextpid, threads,
                   locks, tick, at, scan, winner, counter>>

(* Release the lock; halt until the next interrupt if nothing was run. *)
SchedRelease(c) ==
    /\ Scanning(c) /\ scan[c] = NPROC + 1
    /\ ptlock' = NoCpu
    /\ at' = [at EXCEPT ![c] = IF found[c] THEN "loop" ELSE "hlt"]
    /\ UNCHANGED <<table, threads, tickslock, tick, on, scan, lottery>>

(* Any interrupt ends hlt(); CPU 0's is the timer's, in TimerTick. *)
HltEnds(c) ==
    /\ c # 0 /\ at[c] = "hlt"
    /\ at' = [at EXCEPT ![c] = "loop"]
    /\ UNCHANGED <<table, threads, locks, tick, on, scan, lottery>>

(* A child's first run: forkret() releases the scheduler's lock. *)
Forkret(c, s) ==
    /\ Runs(c, s, "forkret")
    /\ ptlock' = NoCpu
    /\ Goto(s, "user")
    /\ UNCHANGED <<table, resume, np, left, shpid, tickslock, tick, cpus>>

-----------------------------------------------------------------------------
(* The timer interrupt and yield()                                         *)

(* n - (ticks - ticks0) after one more tick, while it is positive *)
Elapse_past(n) == n - 1
Elapse(n) == IF n = 0 THEN 0 ELSE n - 1

(* CPU 0 counts a tick: sleepers get closer to their end. *)
TimerTick ==
    /\ tick = "none" /\ tickslock = NoCpu
    /\ \/ on[0] # Null /\ pc[on[0]] \in Interruptible
       \/ on[0] = Null /\ at[0] \in {"loop", "hlt"}
    /\ tickslock' = 0
    /\ tick' = "wake"
    /\ left' = [s \in Slot |-> Elapse(left[s])]
    /\ UNCHANGED <<table, pc, resume, np, shpid, ptlock, cpus>>

(* wakeup(&ticks), still under tickslock *)
TimerWake ==
    /\ tick = "wake" /\ ptlock = NoCpu
    /\ state' = Wakeup1(TicksChan)
    /\ tickslock' = NoCpu
    /\ IF on[0] = Null
       THEN tick' = "none" /\ at' = [at EXCEPT ![0] = "loop"]
       ELSE tick' = "yield" /\ UNCHANGED at
    /\ UNCHANGED <<pid, parent, chan, killed, tickets, kstack, nextpid, threads,
                   ptlock, on, scan, lottery>>

(* The timer interrupts process s on CPU c, on CPU 0 after its tick. *)
Interrupts(c, s) ==
    /\ on[c] = s /\ pc[s] \in Interruptible
    /\ c = 0 => tick = "yield"

Yield(c, s) ==
    /\ Interrupts(c, s)
    /\ ~(killed[s] /\ pc[s] = "user")
    /\ ptlock = NoCpu /\ EnterSched(c)
    /\ state' = [state EXCEPT ![s] = "RUNNABLE"]
    /\ resume' = [resume EXCEPT ![s] = pc[s]]
    /\ Goto(s, "yielded")
    /\ tick' = IF c = 0 THEN "none" ELSE tick
    /\ UNCHANGED <<pid, parent, chan, killed, tickets, kstack, nextpid, np,
                   left, shpid, tickslock, cpus>>

YieldReturns(c, s) ==
    /\ Runs(c, s, "yielded")
    /\ ptlock' = NoCpu
    /\ Goto(s, IF killed[s] /\ resume[s] = "user" THEN "exit" ELSE resume[s])
    /\ resume' = [resume EXCEPT ![s] = "user"]
    /\ UNCHANGED <<table, np, left, shpid, tickslock, tick, cpus>>

(* A killed process in user mode exits at its next trap. *)
ExitKilled(c, s) ==
    /\ on[c] = s /\ pc[s] = "user" /\ killed[s]
    /\ c = 0 => tick # "wake"
    /\ tick' = IF c = 0 THEN "none" ELSE tick
    /\ Goto(s, "exit")
    /\ UNCHANGED <<table, resume, np, left, shpid, locks, cpus>>

-----------------------------------------------------------------------------
(* fork() and allocproc()                                                  *)

(* Bound: no fork() begins once MaxPid pids are used. *)
PidsLeft == nextpid <= MaxPid

(* fork() returns -1; init.c then exits. *)
ForkFails(s) == Goto(s, IF s = InitProc THEN "exit" ELSE "user")

TableFull(c, s) ==
    /\ \A t \in Slot : state[t] # "UNUSED"
    /\ ForkFails(s)
    /\ UNCHANGED <<table, np>>

NewState_unmarked == "UNUSED"
NewState == "EMBRYO"

TakeSlot(c, s) ==
    \E t \in Slot :
        /\ state[t] = "UNUSED" /\ PidsLeft
        /\ \A u \in 1..t - 1 : state[u] # "UNUSED"
        /\ state' = [state EXCEPT ![t] = NewState]
        /\ pid' = [pid EXCEPT ![t] = nextpid]
        /\ nextpid' = nextpid + 1
        /\ \E k \in Tickets : tickets' = [tickets EXCEPT ![t] = k]
        /\ np' = [np EXCEPT ![s] = t]
        /\ Goto(s, "fork1")
        /\ UNCHANGED <<parent, chan, killed, kstack>>

(* allocproc()'s critical section; init.c forks when it has no shell. *)
ForkAlloc(c, s) ==
    /\ Runs(c, s, "user") /\ ~killed[s]
    /\ s = InitProc => shpid = 0
    /\ ptlock = NoCpu
    /\ TableFull(c, s) \/ TakeSlot(c, s)
    /\ UNCHANGED <<resume, left, shpid, locks, tick, cpus>>

(* Out of memory: the slot is given back without the lock; its pid stays.  *)
GiveBack(s) ==
    /\ state' = [state EXCEPT ![np[s]] = "UNUSED"]
    /\ np' = [np EXCEPT ![s] = Null]
    /\ ForkFails(s)

(* kalloc() of the kernel stack, and the context that starts at forkret *)
ForkStack(c, s) ==
    /\ Runs(c, s, "fork1")
    /\ \/ /\ kstack' = [kstack EXCEPT ![np[s]] = TRUE]
          /\ GotoBoth(s, "fork2", np[s], "forkret")
          /\ UNCHANGED <<state, np>>
       \/ AllocMayFail /\ GiveBack(s) /\ UNCHANGED kstack
    /\ UNCHANGED <<pid, parent, chan, killed, tickets, nextpid, resume, left,
                   shpid, locks, tick, cpus>>

(* copyuvm() and the copy of the parent's fields *)
ForkCopy(c, s) ==
    /\ Runs(c, s, "fork2")
    /\ \/ /\ parent' = [parent EXCEPT ![np[s]] = s]
          /\ tickets' = [tickets EXCEPT ![np[s]] = tickets[s]]
          /\ Goto(s, "fork3")
          /\ UNCHANGED <<state, kstack, np>>
       \/ /\ AllocMayFail
          /\ kstack' = [kstack EXCEPT ![np[s]] = FALSE]
          /\ state' = [state EXCEPT ![np[s]] = "UNUSED"]
          /\ np' = [np EXCEPT ![s] = Null]
          /\ GotoBoth(s, IF s = InitProc THEN "exit" ELSE "user", np[s], "none")
          /\ UNCHANGED <<parent, tickets>>
    /\ UNCHANGED <<pid, chan, killed, nextpid, resume, left, shpid, locks,
                   tick, cpus>>

ForkStart(c, s) ==
    /\ Runs(c, s, "fork3")
    /\ ptlock = NoCpu
    /\ state' = [state EXCEPT ![np[s]] = "RUNNABLE"]
    /\ np' = [np EXCEPT ![s] = Null]
    /\ shpid' = IF s = InitProc THEN pid[np[s]] ELSE shpid
    /\ Goto(s, "user")
    /\ UNCHANGED <<pid, parent, chan, killed, tickets, kstack, nextpid, resume,
                   left, locks, tick, cpus>>

-----------------------------------------------------------------------------
(* exit() and wait()                                                       *)

ExitCall(c, s) ==
    /\ Runs(c, s, "user") /\ s # InitProc
    /\ Goto(s, "exit")
    /\ UNCHANGED <<table, resume, np, left, shpid, locks, tick, cpus>>

ExitPanics(c) ==
    /\ Runs(c, InitProc, "exit")
    /\ Goto(InitProc, "panic")
    /\ UNCHANGED <<table, resume, np, left, shpid, locks, tick, cpus>>

(* Pass abandoned children to init. *)
Reparent_skipped(s) == parent
Reparent(s) == [t \in Slot |-> IF parent[t] = s THEN InitProc ELSE parent[t]]

(* Whom exit() wakes: the parent, and init when it inherits a zombie. *)
ExitWakes_parent(s) == {parent[s]}
ExitWakes_init(s) == {i \in {InitProc} : \E t \in Slot : parent[t] = s /\ state[t] = "ZOMBIE"}
ExitWakes(s) ==
    {parent[s]} \cup
    {i \in {InitProc} : \E t \in Slot : parent[t] = s /\ state[t] = "ZOMBIE"}

Exit(c, s) ==
    /\ Runs(c, s, "exit") /\ s # InitProc
    /\ ptlock = NoCpu /\ EnterSched(c)
    /\ state' = [t \in Slot |->
                    IF t = s THEN "ZOMBIE"
                    ELSE IF state[t] = "SLEEPING" /\ chan[t] \in ExitWakes(s)
                    THEN "RUNNABLE" ELSE state[t]]
    /\ parent' = Reparent(s)
    /\ Goto(s, "zombie")
    /\ UNCHANGED <<pid, chan, killed, tickets, kstack, nextpid, resume, np,
                   left, shpid, tickslock, tick, cpus>>

Children(s) == {t \in Slot : parent[t] = s}

(* The zombies wait() may reap. *)
Reapable(s) == {t \in Children(s) : state[t] = "ZOMBIE"}

(* init.c's inner loop ends when wait() returns p: its shell, or no child. *)
InitWaited(s, p) == shpid' = IF s = InitProc /\ p \in {shpid, -1} THEN 0 ELSE shpid

Reap(s, t) ==
    /\ t \in Reapable(s)
    /\ \A u \in Reapable(s) : t <= u
    /\ state' = [state EXCEPT ![t] = "UNUSED"]
    /\ kstack' = [kstack EXCEPT ![t] = FALSE]
    /\ pid' = [pid EXCEPT ![t] = 0]
    /\ parent' = [parent EXCEPT ![t] = Null]
    /\ killed' = [killed EXCEPT ![t] = FALSE]
    /\ GotoBoth(s, "user", t, "none")
    /\ chan' = [chan EXCEPT ![s] = Null]
    /\ ptlock' = NoCpu
    /\ InitWaited(s, pid[t])

(* When wait() returns -1: no children, or the caller has been killed. *)
WaitGivesUp_unkilled(s) == Children(s) = {}
WaitGivesUp(s) == Children(s) = {} \/ killed[s]

NoChild(s) ==
    /\ Reapable(s) = {} /\ WaitGivesUp(s)
    /\ Goto(s, "user")
    /\ chan' = [chan EXCEPT ![s] = Null]
    /\ ptlock' = NoCpu
    /\ InitWaited(s, -1)
    /\ UNCHANGED <<state, kstack, pid, parent, killed>>

WaitSleeps(c, s) ==
    /\ Reapable(s) = {} /\ ~WaitGivesUp(s)
    /\ state' = [state EXCEPT ![s] = "SLEEPING"]
    /\ chan' = [chan EXCEPT ![s] = s]
    /\ Goto(s, "waitslept")
    /\ EnterSched(c)
    /\ UNCHANGED <<kstack, pid, parent, killed, shpid>>

(* The loop of wait() or wait_stat() is entered, or goes on with the lock  *)
(* still held after sleep(proc, &ptable.lock).                             *)
WaitLoop(c, s) ==
    \/ /\ Runs(c, s, "user") /\ ~killed[s] /\ ptlock = NoCpu
       /\ s = InitProc => shpid # 0
    \/ Runs(c, s, "waitslept")

Wait(c, s) ==
    /\ WaitLoop(c, s)
    /\ (\E t \in Slot : Reap(s, t)) \/ NoChild(s) \/ WaitSleeps(c, s)
    /\ UNCHANGED <<tickets, nextpid, resume, np, left, tickslock, tick, cpus>>

-----------------------------------------------------------------------------
(* sys_sleep() and kill()                                                  *)

(* sys_sleep(n) takes tickslock and finds its time not up. *)
SleepCall(c, s) ==
    /\ Runs(c, s, "user") /\ ~killed[s] /\ s # InitProc
    /\ tickslock = NoCpu /\ tickslock' = c
    /\ \E n \in 1..MaxSleep : left' = [left EXCEPT ![s] = n]
    /\ Goto(s, "sleeplk")
    /\ UNCHANGED <<table, resume, np, shpid, ptlock, tick, cpus>>

(* sleep(&ticks, &tickslock): ptable.lock first, then release tickslock. *)
SleepEnter(c, s) ==
    /\ Runs(c, s, "sleeplk")
    /\ ptlock = NoCpu /\ EnterSched(c)
    /\ tickslock' = NoCpu
    /\ chan' = [chan EXCEPT ![s] = TicksChan]
    /\ state' = [state EXCEPT ![s] = "SLEEPING"]
    /\ Goto(s, "slept")
    /\ UNCHANGED <<pid, parent, killed, tickets, kstack, nextpid, resume, np,
                   left, shpid, tick, cpus>>

SleepWakes(c, s) ==
    /\ Runs(c, s, "slept")
    /\ chan' = [chan EXCEPT ![s] = Null]
    /\ ptlock' = NoCpu
    /\ Goto(s, "sleepre")
    /\ UNCHANGED <<state, pid, parent, killed, tickets, kstack, nextpid, resume,
                   np, left, shpid, tickslock, tick, cpus>>

(* Does sleep() go round its loop keeping tickslock? *)
KeepTickslock(c) == tickslock' = c

(* The loop of sys_sleep() after sleep() has taken tickslock again. *)
SleepAgain(c, s) ==
    /\ Runs(c, s, "sleepre") /\ tickslock = NoCpu
    /\ \/ /\ left[s] = 0 \/ killed[s]
          /\ left' = [left EXCEPT ![s] = 0]
          /\ Goto(s, "user")
          /\ UNCHANGED tickslock
       \/ /\ left[s] > 0 /\ ~killed[s]
          /\ KeepTickslock(c)
          /\ Goto(s, "sleeplk")
          /\ UNCHANGED left
    /\ UNCHANGED <<table, resume, np, shpid, ptlock, tick, cpus>>

(* The slot kill(p) marks: the first one with that pid. *)
KillTarget(p) == {t \in Slot : pid[t] = p /\ \A u \in 1..t - 1 : pid[u] # p}

KillWakes_not(t) == state
KillWakes(t) ==
    IF state[t] = "SLEEPING" THEN [state EXCEPT ![t] = "RUNNABLE"] ELSE state

Kill(c, s) ==
    /\ Runs(c, s, "user") /\ ~killed[s] /\ s # InitProc
    /\ ptlock = NoCpu
    /\ \E p \in KillPids : \E t \in KillTarget(p) :
          /\ killed' = [killed EXCEPT ![t] = TRUE]
          /\ state' = KillWakes(t)
    /\ UNCHANGED <<pid, parent, chan, tickets, kstack, nextpid, threads, locks,
                   tick, cpus>>

(* An unexpected trap in user mode kills the process, without the lock. *)
Fault(c, s) ==
    /\ Runs(c, s, "user") /\ ~killed[s] /\ s # InitProc
    /\ killed' = [killed EXCEPT ![s] = TRUE]
    /\ UNCHANGED <<state, pid, parent, chan, tickets, kstack, nextpid, threads,
                   locks, tick, cpus>>

-----------------------------------------------------------------------------
Scheduler(c) ==
    \/ CountTickets(c) \/ Draw(c) \/ SchedAcquire(c) \/ SchedSkip(c)
    \/ SchedPick(c) \/ SchedRelease(c) \/ HltEnds(c)

(* What a thread does with interrupts disabled. *)
Uninterruptible(c, s) ==
    \/ Swtch(c, s) \/ Forkret(c, s) \/ YieldReturns(c, s) \/ SleepEnter(c, s)
    \/ SleepWakes(c, s)

(* What a thread does in the kernel wherever a tick may come first. *)
KernelWork(c, s) ==
    \/ ForkStack(c, s) \/ ForkCopy(c, s) \/ ForkStart(c, s) \/ Exit(c, s)
    \/ SleepAgain(c, s) \/ ExitKilled(c, s)

(* What a user program asks for. *)
User(c, s) ==
    \/ ForkAlloc(c, s) \/ ExitCall(c, s) \/ SleepCall(c, s) \/ Kill(c, s)
    \/ Fault(c, s)

Timer == TimerTick \/ TimerWake

Next ==
    \/ Userinit
    \/ Timer
    \/ \E c \in CPU : Scheduler(c) \/ ExitPanics(c)
    \/ \E c \in CPU, s \in Slot :
          \/ Uninterruptible(c, s) \/ KernelWork(c, s) \/ Yield(c, s)
          \/ User(c, s) \/ Wait(c, s)

Spec == Init /\ [][Next]_vars

-----------------------------------------------------------------------------
(* Safety                                                                  *)

(* Two CPUs never run on one kernel stack: sched() keeps ptable.lock until *)
(* swtch() has left the stack, so that no scheduler picks it up before.    *)
OneCpuPerStack == \A c, d \in CPU : on[c] = on[d] /\ on[c] # Null => c = d

(* A CPU never runs on a stack that has been freed: the stack of a ZOMBIE  *)
(* is freed by wait(), which cannot see the ZOMBIE before exit() is off it.*)
StackAllocated == \A c \in CPU : on[c] # Null => kstack[on[c]]

(* No lost wakeup in wait(): a parent asleep there has no ZOMBIE child,    *)
(* although exit() also hands children, ZOMBIEs among them, to init.       *)
WaitNoLostWakeup ==
    \A s \in Slot : state[s] = "SLEEPING" /\ chan[s] = s => Reapable(s) = {}

(* kill() never leaves its target asleep in wait(), whatever the order of  *)
(* the kill and of wait()'s own test of killed.                            *)
KilledNotWaiting ==
    \A s \in Slot : state[s] = "SLEEPING" /\ chan[s] = s => ~killed[s]

(* No lost wakeup in sys_sleep(): a process still asleep when its ticks    *)
(* have passed is about to be woken by the tick that ended its sleep.      *)
SleepNoLostTick ==
    \A s \in Slot :
        state[s] = "SLEEPING" /\ chan[s] = TicksChan /\ left[s] = 0 => tick = "wake"

(* Every process but init always has a parent that can still wait() for    *)
(* it: exit() leaves no child behind and no slot is freed under a child.   *)
ParentAlive ==
    \A s \in Slot \ {InitProc} :
        state[s] \in ProcState \ {"UNUSED", "EMBRYO"} =>
            /\ parent[s] \in Slot \ {s}
            /\ state[parent[s]] \in {"RUNNABLE", "RUNNING", "SLEEPING"}

(* A slot fork() is still filling belongs to that fork() alone, although   *)
(* only allocproc() holds ptable.lock.                                     *)
EmbryoOwned ==
    \A s \in Slot :
        np[s] # Null => /\ state[np[s]] = "EMBRYO"
                        /\ \A t \in Slot : np[t] = np[s] => t = s

(* Stated by proc.c:353-354 ("Scheduler never returns.  It loops"): no CPU *)
(* stops in scheduler().                                                   *)
SchedulerLoops == \A c \in CPU : at[c] # "panic"

(* Stated by proc.h ("If non-zero, have been killed"): a process that has  *)
(* never run has not been killed.                                          *)
BornAlive == \A s \in Slot : state[s] = "EMBRYO" => ~killed[s]

-----------------------------------------------------------------------------
(* Fairness and liveness, on one CPU.  The CPU goes on executing: between  *)
(* two ticks it gets further than the instruction it was interrupted at,   *)
(* hence strong fairness of what a tick can disable.  The timer goes on    *)
(* interrupting: an interrupt is latched until it is enabled again.        *)
(* init.c keeps calling fork() and wait(); user programs promise nothing.  *)

InitProgram(c) == ForkAlloc(c, InitProc) \/ Wait(c, InitProc)
WaitGoesOn(c, s) == s # InitProc /\ pc[s] = "waitslept" /\ Wait(c, s)

FairSpec ==
    /\ Spec
    /\ WF_vars(Userinit) /\ SF_vars(TimerTick) /\ WF_vars(TimerWake)
    /\ \A c \in CPU :
          /\ SF_vars(Scheduler(c))
          /\ SF_vars(\E s \in Slot : Yield(c, s))
          /\ WF_vars(\E s \in Slot : Uninterruptible(c, s) \/ WaitGoesOn(c, s))
          /\ \A s \in Slot : SF_vars(KernelWork(c, s) \/ (s = InitProc /\ InitProgram(c)))

(* Every RUNNABLE process is run, whatever the lottery draws at boot and   *)
(* whatever the others ask for.                                            *)
RunnableRuns == \A s \in Slot : state[s] = "RUNNABLE" ~> state[s] = "RUNNING"

(* A killed process exits, from wherever it is asleep or computing.        *)
KilledExits ==
    \A s \in Slot :
        state[s] \in {"RUNNABLE", "RUNNING", "SLEEPING"} /\ killed[s]
            ~> state[s] \in {"ZOMBIE", "UNUSED"}

(* sleep() returns to user mode (or to exit()) by itself.                  *)
SleepReturns ==
    \A s \in Slot : pc[s] \in {"sleeplk", "slept"} ~> pc[s] \in {"user", "exit"}

(* init reaps what exit() hands to it for as long as its own shell lives.  *)
OrphansReaped ==
    \A s \in Slot :
        state[s] = "ZOMBIE" /\ parent[s] = InitProc
            ~> state[s] # "ZOMBIE" \/ shpid = 0
=============================================================================
