----------------------------- MODULE ProcProofs -----------------------------
(***************************************************************************)
(* For every number of slots, CPUs, pids and ticks, the safety properties  *)
(* of Proc: KernelInv is inductive, by one lemma for each action; and that *)
(* its process table implements the process tree of ProcTree.              *)
(***************************************************************************)
EXTENDS ProcInvariants, TLAPS

(* What the provers need to know of the numbers that stand for slots, CPUs *)
(* and channels.                                                           *)
LEMMA Domains ==
    /\ 0 \in CPU /\ NoCpu \notin CPU
    /\ InitProc \in Slot /\ Null \notin Slot
    /\ TicksChan \notin Slot /\ TicksChan # Null
  BY SizeAssumption DEF CPU, NoCpu, Slot, InitProc, Null, TicksChan

(* The tickets of a slot are a number: 0 before its first allocproc().     *)
LEMMA TicketTypes == TypeOK => \A t \in Slot : tickets[t] \in Nat
  <1>1. Tickets \subseteq Nat BY TicketAssumption
  <1>2. \A k \in {0} \cup Tickets : k \in Nat BY <1>1
  <1>3. TypeOK => \A t \in Slot : tickets[t] \in {0} \cup Tickets BY DEF TypeOK
  <1> QED BY <1>2, <1>3

(* The boot state satisfies the invariant.                                 *)
LEMMA InitEstablishes == Init => KernelInv
  <1> SUFFICES ASSUME Init PROVE KernelInv OBVIOUS
  <1> USE Domains DEF Init
  <1>1. TypeOK
    <2>1. 1 \in 1..MaxPid + 1 /\ 0 \in 0..MaxPid /\ 0 \in 0..MaxSleep /\ 1 \in 1..NPROC + 1
      BY SizeAssumption, BoundAssumption
    <2> QED BY <2>1 DEF TypeOK, ProcState, Places, Interruptible
  <1>2. BootInv /\ ScanInv /\ SwitchInv /\ OneCpuPerStack
    BY DEF BootInv, ScanInv, SwitchInv, OneCpuPerStack
  <1>3. StackInv /\ ThreadInv /\ ForkInv /\ EmbryoOwned /\ InitInv /\ ParentAlive
    BY DEF StackInv, ThreadInv, ForkInv, Place, Forking, EmbryoOwned, InitInv, ParentAlive
  <1>4. TickInv /\ WaitNoLostWakeup /\ KilledNotWaiting /\ SleepNoLostTick
    BY DEF TickInv, WaitNoLostWakeup, KilledNotWaiting, SleepNoLostTick
  <1> QED BY <1>1, <1>2, <1>3, <1>4 DEF KernelInv

(* Before userinit() every slot is UNUSED, so no CPU is on init's slot.    *)
LEMMA UserinitKeeps ==
  ASSUME KernelInv, Userinit
  PROVE  KernelInv'
  <1> USE Domains DEF KernelInv, Userinit, FirstState, Goto, locks, lottery
  <1>1. TypeOK'
    <2>1. nextpid' \in 1..MaxPid + 1 /\ pid' \in [Slot -> 0..MaxPid]
      BY BoundAssumption DEF TypeOK, BootInv
    <2> QED BY <2>1 DEF TypeOK, ProcState, Places
  <1>2. BootInv' BY DEF BootInv, TypeOK
  <1>3. ScanInv' BY DEF ScanInv
  <1>4. SwitchInv' BY DEF SwitchInv, BootInv
  <1>5. StackInv' BY DEF StackInv, TypeOK
  <1>6. ThreadInv' BY DEF ThreadInv, TypeOK
  <1>7. ForkInv' BY DEF ForkInv, ThreadInv, BootInv, Place, Forking
  <1>8. EmbryoOwned' BY DEF EmbryoOwned, BootInv
  <1>9. InitInv' BY DEF InitInv, TypeOK
  <1>10. ParentAlive' BY DEF ParentAlive
  <1>11. TickInv' BY DEF TickInv, SwitchInv, BootInv
  <1>12. WaitNoLostWakeup' BY DEF WaitNoLostWakeup, Reapable, Children
  <1>13. KilledNotWaiting' BY DEF KilledNotWaiting
  <1>14. SleepNoLostTick' BY DEF SleepNoLostTick
  <1>15. OneCpuPerStack' BY DEF OneCpuPerStack
  <1> QED BY <1>1, <1>2, <1>3, <1>4, <1>5, <1>6, <1>7, <1>8, <1>9, <1>10,
      <1>11, <1>12, <1>13, <1>14, <1>15

(* The unlocked reading of tickets changes the CPU's own sum only.         *)
LEMMA CountTicketsKeeps ==
  ASSUME KernelInv, NEW c \in CPU, CountTickets(c)
  PROVE  KernelInv'
  <1> USE Domains DEF KernelInv, CountTickets, table, threads, locks
  <1>1. TypeOK'
    <2>1. scan[c] + 1 \in 1..NPROC + 1 BY SizeAssumption DEF Slot
    <2>2. winner[c] + (IF state[scan[c]] = "RUNNABLE" THEN tickets[scan[c]] ELSE 0) \in Nat
      BY TicketTypes DEF TypeOK
    <2> QED BY <2>1, <2>2 DEF TypeOK
  <1>2. ScanInv' BY DEF ScanInv
  <1>3. (BootInv /\ SwitchInv /\ OneCpuPerStack /\ StackInv /\ ThreadInv
         /\ ForkInv /\ EmbryoOwned /\ InitInv /\ ParentAlive /\ TickInv
         /\ WaitNoLostWakeup /\ KilledNotWaiting /\ SleepNoLostTick)'
    BY DEF BootInv, SwitchInv, OneCpuPerStack, StackInv, ThreadInv, ForkInv,
      EmbryoOwned, InitInv, ParentAlive, TickInv, WaitNoLostWakeup,
      KilledNotWaiting, SleepNoLostTick, Place, Reapable, Children
  <1> QED BY <1>1, <1>2, <1>3

(* The draw leaves the process table and the locks alone.                  *)
LEMMA DrawKeeps ==
  ASSUME KernelInv, NEW c \in CPU, Draw(c)
  PROVE  KernelInv'
  <1> USE Domains DEF KernelInv, Draw, table, threads, locks
  <1>1. TypeOK' BY DEF TypeOK
  <1>2. BootInv' BY DEF BootInv, TypeOK
  <1>3. ScanInv' BY DEF ScanInv, TypeOK
  <1>4. InitInv' BY DEF InitInv, TypeOK
  <1>5. TickInv' BY DEF TickInv, TypeOK
  <1>6. (SwitchInv /\ OneCpuPerStack /\ StackInv /\ ThreadInv /\ ForkInv
         /\ EmbryoOwned /\ ParentAlive /\ WaitNoLostWakeup
         /\ KilledNotWaiting /\ SleepNoLostTick)'
    BY DEF SwitchInv, OneCpuPerStack, StackInv, ThreadInv, ForkInv,
      EmbryoOwned, ParentAlive, WaitNoLostWakeup, KilledNotWaiting,
      SleepNoLostTick, Place, Reapable, Children
  <1> QED BY <1>1, <1>2, <1>3, <1>4, <1>5, <1>6

(* The scheduler starts its scan with ptable.lock in hand.                 *)
LEMMA SchedAcquireKeeps ==
  ASSUME KernelInv, NEW c \in CPU, SchedAcquire(c)
  PROVE  KernelInv'
  <1> USE Domains DEF KernelInv, SchedAcquire, table, threads
  <1>1. TypeOK'
    <2>1. 1 \in 1..NPROC + 1 BY SizeAssumption
    <2> QED BY <2>1 DEF TypeOK
  <1>2. BootInv' BY DEF BootInv
  <1>3. ScanInv' BY DEF ScanInv
  <1>4. SwitchInv' BY DEF SwitchInv
  <1>5. InitInv' BY DEF InitInv
  <1>6. TickInv' BY DEF TickInv
  <1>7. (OneCpuPerStack /\ StackInv /\ ThreadInv /\ ForkInv /\ EmbryoOwned
         /\ ParentAlive /\ WaitNoLostWakeup /\ KilledNotWaiting
         /\ SleepNoLostTick)'
    BY DEF OneCpuPerStack, StackInv, ThreadInv, ForkInv, EmbryoOwned,
      ParentAlive, WaitNoLostWakeup, KilledNotWaiting, SleepNoLostTick, Place,
      Reapable, Children
  <1> QED BY <1>1, <1>2, <1>3, <1>4, <1>5, <1>6, <1>7

(* Passing over a slot keeps the lock and the table.                       *)
LEMMA SchedSkipKeeps ==
  ASSUME KernelInv, NEW c \in CPU, SchedSkip(c)
  PROVE  KernelInv'
  <1> USE Domains DEF KernelInv, SchedSkip, Scanning, table, threads, locks
  <1>1. TypeOK'
    <2>1. scan[c] + 1 \in 1..NPROC + 1 BY SizeAssumption DEF Slot
    <2>2. counter[c] + tickets[scan[c]] \in Nat BY TicketTypes DEF TypeOK
    <2> QED BY <2>1, <2>2 DEF TypeOK
  <1>2. ScanInv' BY DEF ScanInv
  <1>3. (BootInv /\ SwitchInv /\ OneCpuPerStack /\ StackInv /\ ThreadInv
         /\ ForkInv /\ EmbryoOwned /\ InitInv /\ ParentAlive /\ TickInv
         /\ WaitNoLostWakeup /\ KilledNotWaiting /\ SleepNoLostTick)'
    BY DEF BootInv, SwitchInv, OneCpuPerStack, StackInv, ThreadInv, ForkInv,
      EmbryoOwned, InitInv, ParentAlive, TickInv, WaitNoLostWakeup,
      KilledNotWaiting, SleepNoLostTick, Place, Reapable, Children
  <1> QED BY <1>1, <1>2, <1>3

(* No other CPU is on the picked stack: it would hold ptable.lock.         *)
LEMMA SchedPickKeeps ==
  ASSUME KernelInv, NEW c \in CPU, SchedPick(c)
  PROVE  KernelInv'
  <1> USE Domains DEF KernelInv, SchedPick, Scanning, threads, locks
  <1>1. TypeOK' BY DEF TypeOK, ProcState
  <1>2. BootInv' BY DEF BootInv
  <1>3. ScanInv' BY DEF ScanInv
  <1>4. SwitchInv' BY DEF SwitchInv, TypeOK, ScanInv
  <1>5. OneCpuPerStack' BY DEF OneCpuPerStack, SwitchInv, ScanInv
  <1>6. StackInv' BY DEF StackInv
  <1>7. ThreadInv' BY DEF ThreadInv
  <1>8. EmbryoOwned' BY DEF EmbryoOwned
  <1>9. InitInv' BY DEF InitInv
  <1>10. ParentAlive' BY DEF ParentAlive, TypeOK
  <1>11. TickInv' BY DEF TickInv
  <1>12. WaitNoLostWakeup' BY DEF WaitNoLostWakeup, Reapable, Children
  <1>13. KilledNotWaiting' BY DEF KilledNotWaiting
  <1>14. SleepNoLostTick' BY DEF SleepNoLostTick
  <1>15. ForkInv' BY DEF ForkInv, Place
  <1> QED BY <1>1, <1>2, <1>3, <1>4, <1>5, <1>6, <1>7, <1>8, <1>9, <1>10,
      <1>11, <1>12, <1>13, <1>14, <1>15

(* The lock is released with no process on the CPU.                        *)
LEMMA SchedReleaseKeeps ==
  ASSUME KernelInv, NEW c \in CPU, SchedRelease(c)
  PROVE  KernelInv'
  <1> USE Domains DEF KernelInv, SchedRelease, Scanning, table, threads,
      lottery
  <1>1. TypeOK' BY DEF TypeOK
  <1>2. BootInv' BY DEF BootInv
  <1>3. ScanInv' BY DEF ScanInv, TypeOK
  <1>4. SwitchInv' BY DEF SwitchInv, ScanInv
  <1>5. InitInv' BY DEF InitInv
  <1>6. TickInv' BY DEF TickInv
  <1>7. (OneCpuPerStack /\ StackInv /\ ThreadInv /\ ForkInv /\ EmbryoOwned
         /\ ParentAlive /\ WaitNoLostWakeup /\ KilledNotWaiting
         /\ SleepNoLostTick)'
    BY DEF OneCpuPerStack, StackInv, ThreadInv, ForkInv, EmbryoOwned,
      ParentAlive, WaitNoLostWakeup, KilledNotWaiting, SleepNoLostTick, Place,
      Reapable, Children
  <1> QED BY <1>1, <1>2, <1>3, <1>4, <1>5, <1>6, <1>7

(* An interrupt ends hlt() and changes nothing else.                       *)
LEMMA HltEndsKeeps ==
  ASSUME KernelInv, NEW c \in CPU, HltEnds(c)
  PROVE  KernelInv'
  <1> USE Domains DEF KernelInv, HltEnds, table, threads, locks, lottery
  <1>1. TypeOK' BY DEF TypeOK
  <1>2. BootInv' BY DEF BootInv
  <1>3. ScanInv' BY DEF ScanInv
  <1>4. InitInv' BY DEF InitInv
  <1>5. TickInv' BY DEF TickInv
  <1>6. (SwitchInv /\ OneCpuPerStack /\ StackInv /\ ThreadInv /\ ForkInv
         /\ EmbryoOwned /\ ParentAlive /\ WaitNoLostWakeup
         /\ KilledNotWaiting /\ SleepNoLostTick)'
    BY DEF SwitchInv, OneCpuPerStack, StackInv, ThreadInv, ForkInv,
      EmbryoOwned, ParentAlive, WaitNoLostWakeup, KilledNotWaiting,
      SleepNoLostTick, Place, Reapable, Children
  <1> QED BY <1>1, <1>2, <1>3, <1>4, <1>5, <1>6

(* The stack is left with ptable.lock held, now by the scheduler.          *)
LEMMA SwtchKeeps ==
  ASSUME KernelInv, NEW c \in CPU, NEW s \in Slot, Swtch(c, s)
  PROVE  KernelInv'
  <1> USE Domains DEF KernelInv, Swtch, NextSlot, table, threads, locks,
      lottery
  <1>1. TypeOK'
    <2>1. scan[c] \in Slot BY DEF ScanInv
    <2>2. scan[c] + 1 \in 1..NPROC + 1 BY <2>1, SizeAssumption DEF Slot
    <2> QED BY <2>2 DEF TypeOK
  <1>2. ScanInv' BY DEF ScanInv, TypeOK, SwitchInv
  <1>3. SwitchInv' BY DEF SwitchInv
  <1>4. OneCpuPerStack' BY DEF OneCpuPerStack
  <1>5. TickInv' BY DEF TickInv, Interruptible, Switching
  <1>6. (BootInv /\ StackInv /\ ThreadInv /\ ForkInv /\ EmbryoOwned
         /\ InitInv /\ ParentAlive /\ WaitNoLostWakeup /\ KilledNotWaiting
         /\ SleepNoLostTick)'
    BY DEF BootInv, StackInv, ThreadInv, ForkInv, EmbryoOwned, InitInv,
      ParentAlive, WaitNoLostWakeup, KilledNotWaiting, SleepNoLostTick, Place,
      Reapable, Children
  <1> QED BY <1>1, <1>2, <1>3, <1>4, <1>5, <1>6

(* The new process releases the lock its CPU's scheduler took.             *)
LEMMA ForkretKeeps ==
  ASSUME KernelInv, NEW c \in CPU, NEW s \in Slot, Forkret(c, s)
  PROVE  KernelInv'
  <1> USE Domains DEF KernelInv, Forkret, Runs, Goto, table, cpus, lottery
  <1>1. TypeOK' BY DEF TypeOK, Places, Interruptible
  <1>2. ScanInv' BY DEF ScanInv, SwitchInv
  <1>3. SwitchInv' BY DEF SwitchInv, TypeOK, Switching
  <1>4. ThreadInv' BY DEF ThreadInv
  <1>5. ForkInv' BY DEF ForkInv, Place, Forking
  <1>6. TickInv' BY DEF TickInv, OneCpuPerStack
  <1>7. (BootInv /\ OneCpuPerStack /\ StackInv /\ EmbryoOwned /\ InitInv
         /\ ParentAlive /\ WaitNoLostWakeup /\ KilledNotWaiting
         /\ SleepNoLostTick)'
    BY DEF BootInv, OneCpuPerStack, StackInv, EmbryoOwned, InitInv,
      ParentAlive, WaitNoLostWakeup, KilledNotWaiting, SleepNoLostTick,
      Reapable, Children
  <1> QED BY <1>1, <1>2, <1>3, <1>4, <1>5, <1>6, <1>7

(* A thread on its way into sleep() holds tickslock: no tick passes it.    *)
LEMMA TimerTickKeeps ==
  ASSUME KernelInv, TimerTick
  PROVE  KernelInv'
  <1> USE Domains DEF KernelInv, TimerTick, Elapse, table, cpus, lottery
  <1>1. TypeOK'
    <2>1. \A k \in 0..MaxSleep : Elapse(k) \in 0..MaxSleep BY BoundAssumption
    <2> QED BY <2>1 DEF TypeOK
  <1>2. TickInv' BY DEF TickInv
  <1>3. SleepNoLostTick' BY DEF SleepNoLostTick
  <1>4. (BootInv /\ ScanInv /\ SwitchInv /\ OneCpuPerStack /\ StackInv
         /\ ThreadInv /\ ForkInv /\ EmbryoOwned /\ InitInv /\ ParentAlive
         /\ WaitNoLostWakeup /\ KilledNotWaiting)'
    BY DEF BootInv, ScanInv, SwitchInv, OneCpuPerStack, StackInv, ThreadInv,
      ForkInv, EmbryoOwned, InitInv, ParentAlive, WaitNoLostWakeup,
      KilledNotWaiting, Place, Reapable, Children
  <1> QED BY <1>1, <1>2, <1>3, <1>4

(* The handler wakes whoever's time has come before it lets go.            *)
LEMMA TimerWakeKeeps ==
  ASSUME KernelInv, TimerWake
  PROVE  KernelInv'
  <1> USE Domains DEF KernelInv, TimerWake, Wakeup1, threads, lottery
  <1>1. TypeOK' BY DEF TypeOK, ProcState
  <1>2. BootInv' BY DEF BootInv, TypeOK
  <1>3. ScanInv' BY DEF ScanInv, TypeOK
  <1>4. SwitchInv' BY DEF SwitchInv
  <1>5. StackInv' BY DEF StackInv
  <1>6. ThreadInv' BY DEF ThreadInv
  <1>7. EmbryoOwned' BY DEF EmbryoOwned, TypeOK
  <1>8. InitInv' BY DEF InitInv, TickInv
  <1>9. ParentAlive' BY DEF ParentAlive, TypeOK
  <1>10. TickInv' BY DEF TickInv, Interruptible
  <1>11. WaitNoLostWakeup' BY DEF WaitNoLostWakeup, Reapable, Children
  <1>12. KilledNotWaiting' BY DEF KilledNotWaiting
  <1>13. SleepNoLostTick' BY DEF SleepNoLostTick
  <1>14. (OneCpuPerStack /\ ForkInv)'
    BY DEF OneCpuPerStack, ForkInv, Place
  <1> QED BY <1>1, <1>2, <1>3, <1>4, <1>5, <1>6, <1>7, <1>8, <1>9, <1>10,
      <1>11, <1>12, <1>13, <1>14

(* Only a RUNNING process yields, and it takes ptable.lock to do so.       *)
LEMMA YieldKeeps ==
  ASSUME KernelInv, NEW c \in CPU, NEW s \in Slot, Yield(c, s)
  PROVE  KernelInv'
  <1> USE Domains DEF KernelInv, Yield, Interrupts, EnterSched, Goto, cpus,
      lottery
  <1>1. TypeOK' BY DEF TypeOK, ProcState, Places, Switching
  <1>2. BootInv' BY DEF BootInv, SwitchInv
  <1>3. ScanInv' BY DEF ScanInv
  <1>4. SwitchInv' BY DEF SwitchInv, TypeOK, OneCpuPerStack, Switching
  <1>5. StackInv' BY DEF StackInv, SwitchInv
  <1>6. ThreadInv' BY DEF ThreadInv, TypeOK
  <1>7. ForkInv' BY DEF ForkInv, TypeOK, Place, Interruptible
  <1>8. EmbryoOwned' BY DEF EmbryoOwned, SwitchInv
  <1>9. InitInv' BY DEF InitInv
  <1>10. ParentAlive' BY DEF ParentAlive, TypeOK, SwitchInv
  <1>11. TickInv' BY DEF TickInv, OneCpuPerStack
  <1>12. WaitNoLostWakeup' BY DEF WaitNoLostWakeup, Reapable, Children
  <1>13. KilledNotWaiting' BY DEF KilledNotWaiting
  <1>14. SleepNoLostTick' BY DEF SleepNoLostTick
  <1>15. OneCpuPerStack' BY DEF OneCpuPerStack
  <1> QED BY <1>1, <1>2, <1>3, <1>4, <1>5, <1>6, <1>7, <1>8, <1>9, <1>10,
      <1>11, <1>12, <1>13, <1>14, <1>15

(* The lock released is the one this CPU's scheduler took.                 *)
LEMMA YieldReturnsKeeps ==
  ASSUME KernelInv, NEW c \in CPU, NEW s \in Slot, YieldReturns(c, s)
  PROVE  KernelInv'
  <1> USE Domains DEF KernelInv, YieldReturns, Runs, Goto, table, cpus,
      lottery
  <1>1. TypeOK' BY DEF TypeOK, Places, Interruptible
  <1>2. ScanInv' BY DEF ScanInv, SwitchInv, Switching
  <1>3. SwitchInv' BY DEF SwitchInv, TypeOK, Interruptible, Switching
  <1>4. ThreadInv' BY DEF ThreadInv
  <1>5. ForkInv' BY DEF ForkInv, TypeOK, Place, Forking
  <1>6. TickInv' BY DEF TickInv, TypeOK, Interruptible
  <1>7. (BootInv /\ OneCpuPerStack /\ StackInv /\ EmbryoOwned /\ InitInv
         /\ ParentAlive /\ WaitNoLostWakeup /\ KilledNotWaiting
         /\ SleepNoLostTick)'
    BY DEF BootInv, OneCpuPerStack, StackInv, EmbryoOwned, InitInv,
      ParentAlive, WaitNoLostWakeup, KilledNotWaiting, SleepNoLostTick,
      Reapable, Children
  <1> QED BY <1>1, <1>2, <1>3, <1>4, <1>5, <1>6, <1>7

(* A killed process turns to exit() with the table untouched.              *)
LEMMA ExitKilledKeeps ==
  ASSUME KernelInv, NEW c \in CPU, NEW s \in Slot, ExitKilled(c, s)
  PROVE  KernelInv'
  <1> USE Domains DEF KernelInv, ExitKilled, Goto, table, locks, cpus, lottery
  <1>1. TypeOK' BY DEF TypeOK, Places, Interruptible
  <1>2. SwitchInv' BY DEF SwitchInv, Switching
  <1>3. ThreadInv' BY DEF ThreadInv
  <1>4. ForkInv' BY DEF ForkInv, Place, Forking
  <1>5. TickInv' BY DEF TickInv, OneCpuPerStack
  <1>6. SleepNoLostTick' BY DEF SleepNoLostTick
  <1>7. (BootInv /\ ScanInv /\ OneCpuPerStack /\ StackInv /\ EmbryoOwned
         /\ InitInv /\ ParentAlive /\ WaitNoLostWakeup /\ KilledNotWaiting)'
    BY DEF BootInv, ScanInv, OneCpuPerStack, StackInv, EmbryoOwned, InitInv,
      ParentAlive, WaitNoLostWakeup, KilledNotWaiting, Reapable, Children
  <1> QED BY <1>1, <1>2, <1>3, <1>4, <1>5, <1>6, <1>7

(* The slot taken was UNUSED: no CPU and no other fork() is on it.         *)
LEMMA ForkAllocKeeps ==
  ASSUME KernelInv, NEW c \in CPU, NEW s \in Slot, ForkAlloc(c, s)
  PROVE  KernelInv'
  <1> USE Domains DEF KernelInv, ForkAlloc, Runs, TableFull, TakeSlot,
      ForkFails, NewState, PidsLeft, Goto, table, locks, cpus, lottery
  <1>1. TypeOK'
    <2>1. CASE TableFull(c, s)
      BY <2>1 DEF TypeOK, Places, Interruptible
    <2>2. CASE TakeSlot(c, s)
      <3>1. nextpid + 1 \in 1..MaxPid + 1 /\ nextpid \in 0..MaxPid
        BY <2>2, BoundAssumption DEF TypeOK
      <3> QED BY <2>2, <3>1 DEF TypeOK, ProcState, Places, Interruptible
    <2> QED BY <2>1, <2>2
  <1>2. BootInv' BY DEF BootInv
  <1>3. SwitchInv' BY DEF SwitchInv, TypeOK, Switching
  <1>4. StackInv' BY DEF StackInv, TypeOK
  <1>5. ThreadInv' BY DEF ThreadInv, TypeOK
  <1>6. ForkInv' BY DEF ForkInv, TypeOK, Place, Forking
  <1>7. EmbryoOwned' BY DEF EmbryoOwned, TypeOK
  <1>8. InitInv' BY DEF InitInv, TypeOK
  <1>9. ParentAlive' BY DEF ParentAlive, TypeOK
  <1>10. TickInv' BY DEF TickInv, TypeOK, OneCpuPerStack
  <1>11. WaitNoLostWakeup' BY DEF WaitNoLostWakeup, TypeOK, Reapable, Children
  <1>12. KilledNotWaiting' BY DEF KilledNotWaiting, TypeOK
  <1>13. SleepNoLostTick' BY DEF SleepNoLostTick, TypeOK
  <1>14. (ScanInv /\ OneCpuPerStack)'
    BY DEF ScanInv, OneCpuPerStack
  <1> QED BY <1>1, <1>2, <1>3, <1>4, <1>5, <1>6, <1>7, <1>8, <1>9, <1>10,
      <1>11, <1>12, <1>13, <1>14

(* The slot given a stack, or given back, belongs to this fork().          *)
LEMMA ForkStackKeeps ==
  ASSUME KernelInv, NEW c \in CPU, NEW s \in Slot, ForkStack(c, s)
  PROVE  KernelInv'
  <1> USE Domains DEF KernelInv, ForkStack, Runs, GiveBack, ForkFails, Goto,
      GotoBoth, locks, cpus, lottery
  <1>1. TypeOK'
    <2>1. np[s] \in Slot BY DEF TypeOK, ForkInv, Place, Forking
    <2>2. pc' \in [Slot -> Places]
      BY <2>1 DEF TypeOK, Places, Interruptible
    <2>3. state' \in [Slot -> ProcState]
      BY <2>1 DEF TypeOK, ProcState
    <2>4. np' \in [Slot -> {Null} \cup Slot] BY DEF TypeOK
    <2>5. kstack' \in [Slot -> BOOLEAN] BY DEF TypeOK
    <2>6. parent' \in [Slot -> {Null} \cup Slot] BY DEF TypeOK
    <2>7. tickets' \in [Slot -> {0} \cup Tickets] BY DEF TypeOK
    <2> QED BY <2>2, <2>3, <2>4, <2>5, <2>6, <2>7 DEF TypeOK
  <1>2. BootInv' BY DEF BootInv
  <1>3. SwitchInv' BY DEF SwitchInv, TypeOK, EmbryoOwned, Switching
  <1>4. StackInv' BY DEF StackInv, TypeOK
  <1>5. ThreadInv' BY DEF ThreadInv, TypeOK, EmbryoOwned
  <1>6. ForkInv' BY DEF ForkInv, TypeOK, ThreadInv, EmbryoOwned, Place,
      Forking
  <1>7. EmbryoOwned' BY DEF EmbryoOwned, TypeOK
  <1>8. InitInv' BY DEF InitInv, TypeOK, EmbryoOwned
  <1>9. ParentAlive' BY DEF ParentAlive, TypeOK, EmbryoOwned
  <1>10. TickInv' BY DEF TickInv, TypeOK, SwitchInv, EmbryoOwned,
      Interruptible
  <1>11. WaitNoLostWakeup' BY DEF WaitNoLostWakeup, TypeOK, Reapable, Children
  <1>12. KilledNotWaiting' BY DEF KilledNotWaiting, TypeOK
  <1>13. SleepNoLostTick' BY DEF SleepNoLostTick, TypeOK
  <1>14. (ScanInv /\ OneCpuPerStack)'
    BY DEF ScanInv, OneCpuPerStack
  <1> QED BY <1>1, <1>2, <1>3, <1>4, <1>5, <1>6, <1>7, <1>8, <1>9, <1>10,
      <1>11, <1>12, <1>13, <1>14

(* The child named after its parent is not init nor the parent.            *)
LEMMA ForkCopyKeeps ==
  ASSUME KernelInv, NEW c \in CPU, NEW s \in Slot, ForkCopy(c, s)
  PROVE  KernelInv'
  <1> USE Domains DEF KernelInv, ForkCopy, Runs, Goto, GotoBoth, locks, cpus,
      lottery
  <1>1. TypeOK'
    <2>1. np[s] \in Slot BY DEF TypeOK, ForkInv, Place, Forking
    <2>2. pc' \in [Slot -> Places]
      BY <2>1 DEF TypeOK, Places, Interruptible
    <2>3. state' \in [Slot -> ProcState]
      BY <2>1 DEF TypeOK, ProcState
    <2>4. np' \in [Slot -> {Null} \cup Slot] BY DEF TypeOK
    <2>5. kstack' \in [Slot -> BOOLEAN] BY DEF TypeOK
    <2>6. parent' \in [Slot -> {Null} \cup Slot] BY DEF TypeOK
    <2>7. tickets' \in [Slot -> {0} \cup Tickets] BY DEF TypeOK
    <2> QED BY <2>2, <2>3, <2>4, <2>5, <2>6, <2>7 DEF TypeOK
  <1>2. BootInv' BY DEF BootInv
  <1>3. SwitchInv' BY DEF SwitchInv, TypeOK, EmbryoOwned, Switching
  <1>4. StackInv' BY DEF StackInv, TypeOK
  <1>5. ThreadInv' BY DEF ThreadInv, TypeOK, EmbryoOwned
  <1>6. ForkInv' BY DEF ForkInv, TypeOK, ThreadInv, EmbryoOwned, Place,
      Forking
  <1>7. EmbryoOwned' BY DEF EmbryoOwned, TypeOK
  <1>8. InitInv' BY DEF InitInv, TypeOK, EmbryoOwned, BootInv
  <1>9. ParentAlive' BY SMTT(30) DEF ParentAlive, TypeOK, SwitchInv, InitInv, BootInv,
      EmbryoOwned, ThreadInv, ProcState, Interruptible, Switching, ForkInv,
      Place, Forking
  <1>10. TickInv' BY DEF TickInv, TypeOK, OneCpuPerStack, SwitchInv,
      EmbryoOwned, BootInv
  <1>11. WaitNoLostWakeup' BY DEF WaitNoLostWakeup, TypeOK, Reapable, Children
  <1>12. KilledNotWaiting' BY DEF KilledNotWaiting, TypeOK
  <1>13. SleepNoLostTick' BY DEF SleepNoLostTick, TypeOK
  <1>14. (ScanInv /\ OneCpuPerStack)'
    BY DEF ScanInv, OneCpuPerStack
  <1> QED BY <1>1, <1>2, <1>3, <1>4, <1>5, <1>6, <1>7, <1>8, <1>9, <1>10,
      <1>11, <1>12, <1>13, <1>14

(* The child made RUNNABLE has its stack and a parent that lives.          *)
LEMMA ForkStartKeeps ==
  ASSUME KernelInv, NEW c \in CPU, NEW s \in Slot, ForkStart(c, s)
  PROVE  KernelInv'
  <1> USE Domains DEF KernelInv, ForkStart, Runs, Goto, locks, cpus, lottery
  <1>1. TypeOK'
    <2>1. shpid' \in 0..MaxPid BY DEF TypeOK, ForkInv, Place, Forking
    <2> QED BY <2>1 DEF TypeOK, ProcState, Places, Interruptible
  <1>2. BootInv' BY DEF BootInv
  <1>3. SwitchInv' BY DEF SwitchInv, EmbryoOwned, Switching
  <1>4. StackInv' BY DEF StackInv, ForkInv, Place
  <1>5. ThreadInv' BY DEF ThreadInv
  <1>6. ForkInv' BY DEF ForkInv, TypeOK, Place, Forking
  <1>7. EmbryoOwned' BY DEF EmbryoOwned, TypeOK
  <1>8. InitInv' BY DEF InitInv
  <1>9. ParentAlive' BY DEF ParentAlive, TypeOK, ForkInv, Place
  <1>10. TickInv' BY DEF TickInv, OneCpuPerStack
  <1>11. WaitNoLostWakeup' BY DEF WaitNoLostWakeup, Reapable, Children
  <1>12. KilledNotWaiting' BY DEF KilledNotWaiting
  <1>13. SleepNoLostTick' BY DEF SleepNoLostTick
  <1>14. (ScanInv /\ OneCpuPerStack)'
    BY DEF ScanInv, OneCpuPerStack
  <1> QED BY <1>1, <1>2, <1>3, <1>4, <1>5, <1>6, <1>7, <1>8, <1>9, <1>10,
      <1>11, <1>12, <1>13, <1>14

(* exit() begins with the table untouched.                                 *)
LEMMA ExitCallKeeps ==
  ASSUME KernelInv, NEW c \in CPU, NEW s \in Slot, ExitCall(c, s)
  PROVE  KernelInv'
  <1> USE Domains DEF KernelInv, ExitCall, Runs, Goto, table, locks, cpus,
      lottery
  <1>1. TypeOK' BY DEF TypeOK, Places, Interruptible
  <1>2. SwitchInv' BY DEF SwitchInv, Switching
  <1>3. ThreadInv' BY DEF ThreadInv
  <1>4. ForkInv' BY DEF ForkInv, Place, Forking
  <1>5. TickInv' BY DEF TickInv, OneCpuPerStack
  <1>6. (BootInv /\ ScanInv /\ OneCpuPerStack /\ StackInv /\ EmbryoOwned
         /\ InitInv /\ ParentAlive /\ WaitNoLostWakeup /\ KilledNotWaiting
         /\ SleepNoLostTick)'
    BY DEF BootInv, ScanInv, OneCpuPerStack, StackInv, EmbryoOwned, InitInv,
      ParentAlive, WaitNoLostWakeup, KilledNotWaiting, SleepNoLostTick,
      Reapable, Children
  <1> QED BY <1>1, <1>2, <1>3, <1>4, <1>5, <1>6

(* A panic stops the CPU and changes nothing else.                         *)
LEMMA ExitPanicsKeeps ==
  ASSUME KernelInv, NEW c \in CPU, ExitPanics(c)
  PROVE  KernelInv'
  <1> USE Domains DEF KernelInv, ExitPanics, Runs, Goto, table, locks, cpus,
      lottery
  <1>1. TypeOK' BY DEF TypeOK, Places
  <1>2. SwitchInv' BY DEF SwitchInv, Switching
  <1>3. ThreadInv' BY DEF ThreadInv
  <1>4. ForkInv' BY DEF ForkInv, Place, Forking
  <1>5. TickInv' BY DEF TickInv, OneCpuPerStack
  <1>6. (BootInv /\ ScanInv /\ OneCpuPerStack /\ StackInv /\ EmbryoOwned
         /\ InitInv /\ ParentAlive /\ WaitNoLostWakeup /\ KilledNotWaiting
         /\ SleepNoLostTick)'
    BY DEF BootInv, ScanInv, OneCpuPerStack, StackInv, EmbryoOwned, InitInv,
      ParentAlive, WaitNoLostWakeup, KilledNotWaiting, SleepNoLostTick,
      Reapable, Children
  <1> QED BY <1>1, <1>2, <1>3, <1>4, <1>5, <1>6

(* Whoever inherits a zombie is woken; init inherits, and never dies.      *)
LEMMA ExitKeeps ==
  ASSUME KernelInv, NEW c \in CPU, NEW s \in Slot, Exit(c, s)
  PROVE  KernelInv'
  <1> USE Domains DEF KernelInv, Exit, Runs, EnterSched, Reparent, ExitWakes,
      Goto, cpus, lottery
  <1>1. TypeOK' BY DEF TypeOK, ProcState, Places, Switching
  <1>2. BootInv' BY DEF BootInv
  <1>3. ScanInv' BY DEF ScanInv
  <1>4. SwitchInv' BY DEF SwitchInv, TypeOK, OneCpuPerStack, Switching
  <1>5. StackInv' BY DEF StackInv
  <1>6. ThreadInv' BY DEF ThreadInv, TypeOK
  <1>7. ForkInv' BY DEF ForkInv, TypeOK, Place, Forking
  <1>8. EmbryoOwned' BY DEF EmbryoOwned, TypeOK
  <1>9. InitInv' BY DEF InitInv
  <1>10. ParentAlive' BY DEF ParentAlive, TypeOK, InitInv, BootInv
  <1>11. TickInv' BY DEF TickInv, OneCpuPerStack
  <1>12. WaitNoLostWakeup'
    <2> SUFFICES ASSUME NEW q \in Slot, (state[q] = "SLEEPING" /\ chan[q] = q)',
                        NEW t \in Slot, (parent[t] = q /\ state[t] = "ZOMBIE")'
                 PROVE  FALSE
      BY DEF WaitNoLostWakeup, Reapable, Children
    <2>1. state[q] = "SLEEPING" /\ chan[q] = q /\ q \notin ExitWakes(s) /\ q # s
      BY DEF TypeOK
    <2>2. CASE t = s BY <2>1, <2>2 DEF InitInv
    <2>3. CASE t # s /\ parent[t] = s BY <2>1, <2>3 DEF TypeOK
    <2>4. CASE t # s /\ parent[t] # s
      BY <2>1, <2>4 DEF WaitNoLostWakeup, Reapable, Children
    <2> QED BY <2>2, <2>3, <2>4
  <1>13. KilledNotWaiting' BY DEF KilledNotWaiting
  <1>14. SleepNoLostTick' BY DEF SleepNoLostTick
  <1>15. OneCpuPerStack' BY DEF OneCpuPerStack
  <1> QED BY <1>1, <1>2, <1>3, <1>4, <1>5, <1>6, <1>7, <1>8, <1>9, <1>10,
      <1>11, <1>12, <1>13, <1>14, <1>15

(* The zombie reaped has left its CPU: else that CPU held the lock.        *)
LEMMA ReapKeeps ==
  ASSUME KernelInv, NEW c \in CPU, NEW s \in Slot, NEW t \in Slot,
         WaitLoop(c, s), Reap(s, t),
         UNCHANGED <<tickets, nextpid, resume, np, left, tickslock, tick, cpus>>
  PROVE  KernelInv'
  <1> USE Domains DEF KernelInv, Reap, Reapable, Children, GotoBoth,
      InitWaited, WaitLoop, Runs, cpus, lottery
  <1>1. TypeOK'
    <2>1. pc' \in [Slot -> Places]
      BY DEF TypeOK, Places, Interruptible
    <2>2. state' \in [Slot -> ProcState] BY DEF TypeOK, ProcState
    <2>3. 0 \in 0..MaxPid BY BoundAssumption
    <2> QED BY <2>1, <2>2, <2>3 DEF TypeOK
  <1>2. BootInv' BY DEF BootInv
  <1>3. ScanInv' BY DEF ScanInv, SwitchInv, Switching
  <1>4. SwitchInv' BY DEF SwitchInv, Switching
  <1>5. StackInv' BY DEF StackInv, TypeOK
  <1>6. ThreadInv' BY DEF ThreadInv, TypeOK
  <1>7. ForkInv' BY DEF ForkInv, ThreadInv, EmbryoOwned, Place, Forking
  <1>8. EmbryoOwned' BY DEF EmbryoOwned
  <1>9. InitInv' BY DEF InitInv
  <1>10. ParentAlive' BY DEF ParentAlive, TypeOK
  <1>11. TickInv' BY DEF TickInv, TypeOK, ThreadInv, Interruptible
  <1>12. WaitNoLostWakeup' BY DEF WaitNoLostWakeup
  <1>13. KilledNotWaiting' BY DEF KilledNotWaiting
  <1>14. SleepNoLostTick' BY DEF SleepNoLostTick
  <1>15. OneCpuPerStack' BY DEF OneCpuPerStack
  <1> QED BY <1>1, <1>2, <1>3, <1>4, <1>5, <1>6, <1>7, <1>8, <1>9, <1>10,
      <1>11, <1>12, <1>13, <1>14, <1>15

(* wait() returns -1 with the table untouched.                             *)
LEMMA NoChildKeeps ==
  ASSUME KernelInv, NEW c \in CPU, NEW s \in Slot,
         WaitLoop(c, s), NoChild(s),
         UNCHANGED <<tickets, nextpid, resume, np, left, tickslock, tick, cpus>>
  PROVE  KernelInv'
  <1> USE Domains DEF KernelInv, NoChild, Goto, InitWaited, WaitGivesUp,
      WaitLoop, Runs, cpus, lottery
  <1>1. TypeOK'
    <2>1. 0 \in 0..MaxPid BY BoundAssumption
    <2> QED BY <2>1 DEF TypeOK, Places, Interruptible
  <1>2. ScanInv' BY DEF ScanInv, SwitchInv, Switching
  <1>3. SwitchInv' BY DEF SwitchInv, TypeOK, Switching
  <1>4. ThreadInv' BY DEF ThreadInv
  <1>5. ForkInv' BY DEF ForkInv, Place, Forking
  <1>6. TickInv' BY DEF TickInv, OneCpuPerStack
  <1>7. WaitNoLostWakeup' BY DEF WaitNoLostWakeup, Reapable, Children
  <1>8. KilledNotWaiting' BY DEF KilledNotWaiting
  <1>9. SleepNoLostTick' BY DEF SleepNoLostTick
  <1>10. (BootInv /\ OneCpuPerStack /\ StackInv /\ EmbryoOwned /\ InitInv
         /\ ParentAlive)'
    BY DEF BootInv, OneCpuPerStack, StackInv, EmbryoOwned, InitInv,
      ParentAlive
  <1> QED BY <1>1, <1>2, <1>3, <1>4, <1>5, <1>6, <1>7, <1>8, <1>9, <1>10

(* The caller sleeps with no zombie child and not killed.                  *)
LEMMA WaitSleepsKeeps ==
  ASSUME KernelInv, NEW c \in CPU, NEW s \in Slot,
         WaitLoop(c, s), WaitSleeps(c, s),
         UNCHANGED <<tickets, nextpid, resume, np, left, tickslock, tick, cpus>>
  PROVE  KernelInv'
  <1> USE Domains DEF KernelInv, WaitSleeps, Goto, EnterSched, WaitGivesUp,
      WaitLoop, Runs, cpus, lottery
  <1>1. TypeOK' BY DEF TypeOK, ProcState, Places, Switching
  <1>2. BootInv' BY DEF BootInv
  <1>3. ScanInv' BY DEF ScanInv, SwitchInv, Switching
  <1>4. SwitchInv' BY DEF SwitchInv, TypeOK, OneCpuPerStack, Switching
  <1>5. StackInv' BY DEF StackInv
  <1>6. ThreadInv' BY DEF ThreadInv
  <1>7. ForkInv' BY DEF ForkInv, Place, Forking
  <1>8. EmbryoOwned' BY DEF EmbryoOwned
  <1>9. InitInv' BY DEF InitInv
  <1>10. ParentAlive' BY DEF ParentAlive, TypeOK
  <1>11. TickInv' BY DEF TickInv, OneCpuPerStack
  <1>12. WaitNoLostWakeup' BY DEF WaitNoLostWakeup, Reapable, Children
  <1>13. KilledNotWaiting' BY DEF KilledNotWaiting
  <1>14. SleepNoLostTick' BY DEF SleepNoLostTick, TypeOK
  <1>15. OneCpuPerStack' BY DEF OneCpuPerStack
  <1> QED BY <1>1, <1>2, <1>3, <1>4, <1>5, <1>6, <1>7, <1>8, <1>9, <1>10,
      <1>11, <1>12, <1>13, <1>14, <1>15

(* All the ways out of a pass of wait()'s loop.                            *)
LEMMA WaitKeeps ==
  ASSUME KernelInv, NEW c \in CPU, NEW s \in Slot, Wait(c, s)
  PROVE  KernelInv'
  BY ReapKeeps, NoChildKeeps, WaitSleepsKeeps DEF Wait

(* The caller takes tickslock with ticks left to sleep.                    *)
LEMMA SleepCallKeeps ==
  ASSUME KernelInv, NEW c \in CPU, NEW s \in Slot, SleepCall(c, s)
  PROVE  KernelInv'
  <1> USE Domains DEF KernelInv, SleepCall, Runs, Goto, table, cpus, lottery
  <1>1. TypeOK' BY DEF TypeOK, Places
  <1>2. SwitchInv' BY DEF SwitchInv, Switching
  <1>3. ThreadInv' BY DEF ThreadInv
  <1>4. ForkInv' BY DEF ForkInv, Place, Forking
  <1>5. TickInv' BY DEF TickInv, TypeOK, OneCpuPerStack
  <1>6. SleepNoLostTick' BY DEF SleepNoLostTick
  <1>7. (BootInv /\ ScanInv /\ OneCpuPerStack /\ StackInv /\ EmbryoOwned
         /\ InitInv /\ ParentAlive /\ WaitNoLostWakeup /\ KilledNotWaiting)'
    BY DEF BootInv, ScanInv, OneCpuPerStack, StackInv, EmbryoOwned, InitInv,
      ParentAlive, WaitNoLostWakeup, KilledNotWaiting, Reapable, Children
  <1> QED BY <1>1, <1>2, <1>3, <1>4, <1>5, <1>6, <1>7

(* The caller sleeps with ticks left, under both locks.                    *)
LEMMA SleepEnterKeeps ==
  ASSUME KernelInv, NEW c \in CPU, NEW s \in Slot, SleepEnter(c, s)
  PROVE  KernelInv'
  <1> USE Domains DEF KernelInv, SleepEnter, Runs, EnterSched, Goto, cpus,
      lottery
  <1>1. TypeOK' BY DEF TypeOK, ProcState, Places, Switching
  <1>2. BootInv' BY DEF BootInv
  <1>3. ScanInv' BY DEF ScanInv
  <1>4. SwitchInv' BY DEF SwitchInv, TypeOK, OneCpuPerStack, Switching
  <1>5. StackInv' BY DEF StackInv
  <1>6. ThreadInv' BY DEF ThreadInv
  <1>7. ForkInv' BY DEF ForkInv, Place, Forking
  <1>8. EmbryoOwned' BY DEF EmbryoOwned
  <1>9. InitInv' BY DEF InitInv
  <1>10. ParentAlive' BY DEF ParentAlive, TypeOK
  <1>11. TickInv' BY DEF TickInv, TypeOK, OneCpuPerStack
  <1>12. WaitNoLostWakeup' BY DEF WaitNoLostWakeup, TypeOK, Reapable, Children
  <1>13. KilledNotWaiting' BY DEF KilledNotWaiting, TypeOK
  <1>14. SleepNoLostTick' BY DEF SleepNoLostTick, TickInv
  <1>15. OneCpuPerStack' BY DEF OneCpuPerStack
  <1> QED BY <1>1, <1>2, <1>3, <1>4, <1>5, <1>6, <1>7, <1>8, <1>9, <1>10,
      <1>11, <1>12, <1>13, <1>14, <1>15

(* The lock released is the one this CPU's scheduler took.                 *)
LEMMA SleepWakesKeeps ==
  ASSUME KernelInv, NEW c \in CPU, NEW s \in Slot, SleepWakes(c, s)
  PROVE  KernelInv'
  <1> USE Domains DEF KernelInv, SleepWakes, Runs, Goto, cpus, lottery
  <1>1. TypeOK' BY DEF TypeOK, Places, Interruptible
  <1>2. ScanInv' BY DEF ScanInv, SwitchInv, Switching
  <1>3. SwitchInv' BY DEF SwitchInv, TypeOK, Switching
  <1>4. ThreadInv' BY DEF ThreadInv
  <1>5. ForkInv' BY DEF ForkInv, Place, Forking
  <1>6. TickInv' BY DEF TickInv, OneCpuPerStack
  <1>7. WaitNoLostWakeup' BY DEF WaitNoLostWakeup, Reapable, Children
  <1>8. KilledNotWaiting' BY DEF KilledNotWaiting
  <1>9. SleepNoLostTick' BY DEF SleepNoLostTick
  <1>10. (BootInv /\ OneCpuPerStack /\ StackInv /\ EmbryoOwned /\ InitInv
         /\ ParentAlive)'
    BY DEF BootInv, OneCpuPerStack, StackInv, EmbryoOwned, InitInv,
      ParentAlive
  <1> QED BY <1>1, <1>2, <1>3, <1>4, <1>5, <1>6, <1>7, <1>8, <1>9, <1>10

(* The caller goes round with ticks left and tickslock in hand.            *)
LEMMA SleepAgainKeeps ==
  ASSUME KernelInv, NEW c \in CPU, NEW s \in Slot, SleepAgain(c, s)
  PROVE  KernelInv'
  <1> USE Domains DEF KernelInv, SleepAgain, Runs, KeepTickslock, Goto, table,
      cpus, lottery
  <1>1. TypeOK'
    <2>1. left' \in [Slot -> 0..MaxSleep] BY BoundAssumption DEF TypeOK
    <2> QED BY <2>1 DEF TypeOK, Places, Interruptible
  <1>2. SwitchInv' BY DEF SwitchInv, TypeOK, Switching
  <1>3. ThreadInv' BY DEF ThreadInv, TypeOK
  <1>4. ForkInv' BY DEF ForkInv, TypeOK, Place, Forking
  <1>5. TickInv' BY DEF TickInv, TypeOK, OneCpuPerStack
  <1>6. SleepNoLostTick' BY DEF SleepNoLostTick, TypeOK
  <1>7. (BootInv /\ ScanInv /\ OneCpuPerStack /\ StackInv /\ EmbryoOwned
         /\ InitInv /\ ParentAlive /\ WaitNoLostWakeup /\ KilledNotWaiting)'
    BY DEF BootInv, ScanInv, OneCpuPerStack, StackInv, EmbryoOwned, InitInv,
      ParentAlive, WaitNoLostWakeup, KilledNotWaiting, Reapable, Children
  <1> QED BY <1>1, <1>2, <1>3, <1>4, <1>5, <1>6, <1>7

(* The target, if asleep, is asleep no more.                               *)
LEMMA KillKeeps ==
  ASSUME KernelInv, NEW c \in CPU, NEW s \in Slot, Kill(c, s)
  PROVE  KernelInv'
  <1> USE Domains DEF KernelInv, Kill, Runs, KillTarget, KillWakes, threads,
      locks, cpus, lottery
  <1>1. TypeOK' BY DEF TypeOK, ProcState
  <1>2. BootInv' BY DEF BootInv
  <1>3. SwitchInv' BY DEF SwitchInv
  <1>4. StackInv' BY DEF StackInv
  <1>5. ThreadInv' BY DEF ThreadInv
  <1>6. EmbryoOwned' BY DEF EmbryoOwned
  <1>7. InitInv' BY DEF InitInv
  <1>8. ParentAlive' BY DEF ParentAlive, TypeOK
  <1>9. WaitNoLostWakeup' BY DEF WaitNoLostWakeup, Reapable, Children
  <1>10. KilledNotWaiting' BY DEF KilledNotWaiting, TypeOK
  <1>11. SleepNoLostTick' BY DEF SleepNoLostTick
  <1>12. (ScanInv /\ OneCpuPerStack /\ ForkInv /\ TickInv)'
    BY DEF ScanInv, OneCpuPerStack, ForkInv, TickInv, Place
  <1> QED BY <1>1, <1>2, <1>3, <1>4, <1>5, <1>6, <1>7, <1>8, <1>9, <1>10,
      <1>11, <1>12

(* A process that faults is RUNNING, hence not asleep.                     *)
LEMMA FaultKeeps ==
  ASSUME KernelInv, NEW c \in CPU, NEW s \in Slot, Fault(c, s)
  PROVE  KernelInv'
  <1> USE Domains DEF KernelInv, Fault, Runs, threads, locks, cpus, lottery
  <1>1. TypeOK' BY DEF TypeOK
  <1>2. KilledNotWaiting' BY DEF KilledNotWaiting
  <1>3. (BootInv /\ ScanInv /\ SwitchInv /\ OneCpuPerStack /\ StackInv
         /\ ThreadInv /\ ForkInv /\ EmbryoOwned /\ InitInv /\ ParentAlive
         /\ TickInv /\ WaitNoLostWakeup /\ SleepNoLostTick)'
    BY DEF BootInv, ScanInv, SwitchInv, OneCpuPerStack, StackInv, ThreadInv,
      ForkInv, EmbryoOwned, InitInv, ParentAlive, TickInv, WaitNoLostWakeup,
      SleepNoLostTick, Place, Reapable, Children
  <1> QED BY <1>1, <1>2, <1>3

(* A step of something else leaves the invariant alone.                    *)
LEMMA StutterKeeps == ASSUME KernelInv, UNCHANGED vars PROVE KernelInv'
  <1> USE DEF KernelInv, vars, table, threads, locks, lottery, cpus
  <1>1. (TypeOK /\ BootInv /\ ScanInv /\ SwitchInv /\ OneCpuPerStack)'
    BY DEF TypeOK, BootInv, ScanInv, SwitchInv, OneCpuPerStack
  <1>2. (StackInv /\ ThreadInv /\ ForkInv /\ EmbryoOwned /\ InitInv /\ ParentAlive)'
    BY DEF StackInv, ThreadInv, ForkInv, Place, EmbryoOwned, InitInv, ParentAlive
  <1>3. (TickInv /\ WaitNoLostWakeup /\ KilledNotWaiting /\ SleepNoLostTick)'
    BY DEF TickInv, WaitNoLostWakeup, Reapable, Children, KilledNotWaiting, SleepNoLostTick
  <1> QED BY <1>1, <1>2, <1>3

(* KernelInv is inductive.                                                 *)
LEMMA NextKeeps == KernelInv /\ [Next]_vars => KernelInv'
  <1> SUFFICES ASSUME KernelInv, [Next]_vars PROVE KernelInv' OBVIOUS
  <1>1. CASE Userinit BY <1>1, UserinitKeeps
  <1>2. CASE Timer BY <1>2, TimerTickKeeps, TimerWakeKeeps DEF Timer
  <1>3. CASE \E c \in CPU : Scheduler(c) \/ ExitPanics(c)
    BY <1>3, CountTicketsKeeps, DrawKeeps, SchedAcquireKeeps, SchedSkipKeeps,
       SchedPickKeeps, SchedReleaseKeeps, HltEndsKeeps, ExitPanicsKeeps
       DEF Scheduler
  <1>4. ASSUME NEW c \in CPU, NEW s \in Slot, Uninterruptible(c, s) PROVE KernelInv'
    BY <1>4, SwtchKeeps, ForkretKeeps, YieldReturnsKeeps, SleepEnterKeeps,
       SleepWakesKeeps DEF Uninterruptible
  <1>5. ASSUME NEW c \in CPU, NEW s \in Slot, KernelWork(c, s) PROVE KernelInv'
    BY <1>5, ForkStackKeeps, ForkCopyKeeps, ForkStartKeeps, ExitKeeps,
       SleepAgainKeeps, ExitKilledKeeps DEF KernelWork
  <1>6. ASSUME NEW c \in CPU, NEW s \in Slot, User(c, s) PROVE KernelInv'
    BY <1>6, ForkAllocKeeps, ExitCallKeeps, SleepCallKeeps, KillKeeps, FaultKeeps
       DEF User
  <1>7. ASSUME NEW c \in CPU, NEW s \in Slot, Wait(c, s) \/ Yield(c, s) PROVE KernelInv'
    BY <1>7, WaitKeeps, YieldKeeps
  <1>8. CASE UNCHANGED vars BY <1>8, StutterKeeps
  <1> QED BY <1>1, <1>2, <1>3, <1>4, <1>5, <1>6, <1>7, <1>8 DEF Next

(* KernelInv holds in every reachable state of the kernel.                 *)
THEOREM KernelInvariant == Spec => []KernelInv
  BY InitEstablishes, NextKeeps, PTL DEF Spec

(* The process table, the locks and the schedulers keep to their types.    *)
THEOREM TypeCorrect == Spec => []TypeOK
  <1>1. KernelInv => TypeOK BY DEF KernelInv
  <1> QED BY <1>1, KernelInvariant, PTL

(* sched() hands ptable.lock over: two CPUs never run on one stack.        *)
THEOREM StacksExclusive == Spec => []OneCpuPerStack
  <1>1. KernelInv => OneCpuPerStack BY DEF KernelInv
  <1> QED BY <1>1, KernelInvariant, PTL

(* wait() never frees the stack a CPU is still on.                         *)
THEOREM StacksAllocated == Spec => []StackAllocated
  <1>1. KernelInv => StackAllocated
    <2> SUFFICES ASSUME KernelInv, NEW c \in CPU, on[c] # Null PROVE kstack[on[c]]
      BY DEF StackAllocated
    <2>1. on[c] \in Slot BY DEF KernelInv, TypeOK
    <2>2. state[on[c]] \notin {"UNUSED", "EMBRYO"} BY <2>1 DEF KernelInv, SwitchInv
    <2> QED BY <2>1, <2>2 DEF KernelInv, StackInv
  <1> QED BY <1>1, KernelInvariant, PTL

(* exit() never leaves a parent, or init, asleep over a zombie.            *)
THEOREM NoLostExit == Spec => []WaitNoLostWakeup
  <1>1. KernelInv => WaitNoLostWakeup BY DEF KernelInv
  <1> QED BY <1>1, KernelInvariant, PTL

(* kill() always gets its target out of wait().                            *)
THEOREM NoKilledWaiter == Spec => []KilledNotWaiting
  <1>1. KernelInv => KilledNotWaiting BY DEF KernelInv
  <1> QED BY <1>1, KernelInvariant, PTL

(* No tick is lost between sys_sleep()'s test and its sleep().             *)
THEOREM NoLostTick == Spec => []SleepNoLostTick
  <1>1. KernelInv => SleepNoLostTick BY DEF KernelInv
  <1> QED BY <1>1, KernelInvariant, PTL

(* Every process but init has a living parent.                             *)
THEOREM ParentsAlive == Spec => []ParentAlive
  <1>1. KernelInv => ParentAlive BY DEF KernelInv
  <1> QED BY <1>1, KernelInvariant, PTL

(* A slot fork() is filling belongs to one fork().                         *)
THEOREM EmbryosOwned == Spec => []EmbryoOwned
  <1>1. KernelInv => EmbryoOwned BY DEF KernelInv
  <1> QED BY <1>1, KernelInvariant, PTL

-----------------------------------------------------------------------------
(***************************************************************************)
(* The table implements ProcTree.  TreeView says what the tree shows of a  *)
(* pid by the slot that holds it; Quiet steps do not touch the tree, and   *)
(* the six others are its actions, by one lemma each.                      *)
(***************************************************************************)

(* What Tree says of a pid, told by the slot that holds it.                *)
ViewShape ==
    /\ TreeStatus = [p \in 1..MaxPid |-> TreeStatus[p]]
    /\ TreeParent = [p \in 1..MaxPid |-> TreeParent[p]]
ViewNone ==
    \A p \in 1..MaxPid : nextpid <= p => TreeStatus[p] = "none" /\ TreeParent[p] = 0
ViewGone ==
    \A p \in 1..MaxPid :
        p < nextpid /\ (\A s \in Slot : pid[s] = p => state[s] = "UNUSED") =>
            TreeStatus[p] = "gone" /\ TreeParent[p] = 0
ViewNew ==
    \A s, t \in Slot : np[t] = s =>
        TreeStatus[pid[s]] = "new" /\ TreeParent[pid[s]] = pid[t]
ViewOld ==
    \A s \in Slot :
        /\ state[s] \in {"RUNNABLE", "RUNNING", "SLEEPING"} => TreeStatus[pid[s]] = "alive"
        /\ state[s] = "ZOMBIE" => TreeStatus[pid[s]] = "zombie"
ViewParent ==
    \A s \in Slot \ {InitProc} : state[s] \notin {"UNUSED", "EMBRYO"} =>
        TreeParent[pid[s]] = pid[parent[s]]
ViewInit == state[InitProc] # "UNUSED" => TreeParent[pid[InitProc]] = 0

TreeView ==
    /\ ViewShape /\ ViewNone /\ ViewGone /\ ViewNew /\ ViewOld /\ ViewParent /\ ViewInit

(* TreeView follows from the invariants: pids below nextpid are told apart. *)
LEMMA ViewIs == KernelInv /\ PidInv => TreeView
  <1> SUFFICES ASSUME KernelInv, PidInv PROVE TreeView OBVIOUS
  <1> USE Domains DEF KernelInv
  <1>1. nextpid \in Int /\ \A s \in Slot : state[s] \in ProcState /\ pid[s] \in Int
    BY DEF TypeOK
  <1>2. \A p \in 1..MaxPid : TreeStatus[p] = StatusOf(p) /\ TreeParent[p] = ParentPidOf(p)
    BY DEF TreeStatus, TreeParent
  <1>3. \A s \in Slot : state[s] # "UNUSED" =>
            /\ pid[s] \in 1..MaxPid /\ pid[s] < nextpid
            /\ SlotsOf(pid[s]) # {} /\ SlotOf(pid[s]) = s
    <2> SUFFICES ASSUME NEW s \in Slot, state[s] # "UNUSED"
                 PROVE  /\ pid[s] \in 1..MaxPid /\ pid[s] < nextpid
                        /\ SlotsOf(pid[s]) # {} /\ SlotOf(pid[s]) = s
      OBVIOUS
    <2>1. pid[s] \in 1..nextpid - 1 BY DEF PidInv
    <2>2. pid[s] \in 1..MaxPid /\ pid[s] < nextpid BY <2>1, <1>1, BoundAssumption DEF TypeOK
    <2>3. SlotsOf(pid[s]) # {} BY DEF SlotsOf
    <2>4. \A t \in Slot : pid[t] = pid[s] /\ state[t] # "UNUSED" => t = s BY DEF PidInv
    <2>5. SlotOf(pid[s]) = s BY <2>4 DEF SlotOf
    <2> QED BY <2>2, <2>3, <2>5
  <1>4. \A s, t \in Slot : np[t] = s => state[s] = "EMBRYO" /\ s # InitProc
    BY DEF EmbryoOwned, InitInv, BootInv
  <1>5. \A s, t \in Slot : np[t] = s => ParentSlot(s) = t
    <2> SUFFICES ASSUME NEW s \in Slot, NEW t \in Slot, np[t] = s PROVE ParentSlot(s) = t
      OBVIOUS
    <2>1. \A u \in Slot : np[u] = s => u = t BY DEF EmbryoOwned
    <2> QED BY <2>1, <1>4 DEF ParentSlot
  <1>6. \A s \in Slot : state[s] # "UNUSED" => (pid[s] <= 1 <=> s = InitProc)
    <2> SUFFICES ASSUME NEW s \in Slot, state[s] # "UNUSED"
                 PROVE  pid[s] <= 1 <=> s = InitProc
      OBVIOUS
    <2>1. at[0] # "main" BY DEF BootInv
    <2>2. pid[InitProc] = 1 /\ state[InitProc] # "UNUSED" BY <2>1 DEF PidInv, InitInv
    <2>3. pid[s] \in 1..MaxPid BY <1>3
    <2>4. pid[s] = 1 => s = InitProc BY <2>2 DEF PidInv
    <2> QED BY <2>2, <2>3, <2>4
  <1>7. ASSUME NEW p \in 1..MaxPid, nextpid <= p
        PROVE  TreeStatus[p] = "none" /\ TreeParent[p] = 0
    <2>1. SlotsOf(p) = {} BY <1>3, <1>7, <1>1 DEF SlotsOf
    <2> QED BY <1>2, <1>7, <2>1 DEF StatusOf, ParentPidOf
  <1>8. ASSUME NEW p \in 1..MaxPid, p < nextpid,
               \A s \in Slot : pid[s] = p => state[s] = "UNUSED"
        PROVE  TreeStatus[p] = "gone" /\ TreeParent[p] = 0
    <2>1. SlotsOf(p) = {} BY <1>8 DEF SlotsOf
    <2>2. ~(p >= nextpid) BY <1>8, <1>1
    <2> QED BY <1>2, <2>1, <2>2 DEF StatusOf, ParentPidOf
  <1>9. ASSUME NEW s \in Slot, state[s] # "UNUSED"
        PROVE  /\ TreeStatus[pid[s]] = CASE state[s] = "EMBRYO" -> "new"
                                         [] state[s] = "ZOMBIE" -> "zombie"
                                         [] OTHER -> "alive"
               /\ TreeParent[pid[s]] = IF s = InitProc THEN 0 ELSE pid[ParentSlot(s)]
    <2>1. ~(pid[s] >= nextpid) /\ pid[s] \in 1..MaxPid BY <1>9, <1>3, <1>1
    <2>2. SlotsOf(pid[s]) # {} /\ SlotOf(pid[s]) = s BY <1>9, <1>3
    <2>3. pid[s] <= 1 <=> s = InitProc BY <1>9, <1>6
    <2> QED BY <1>2, <2>1, <2>2, <2>3 DEF StatusOf, ParentPidOf
  <1>10. \A s, t \in Slot : np[t] = s =>
            TreeStatus[pid[s]] = "new" /\ TreeParent[pid[s]] = pid[t]
    BY <1>9, <1>4, <1>5
  <1>11. \A s \in Slot : /\ state[s] \in {"RUNNABLE", "RUNNING", "SLEEPING"} =>
                              TreeStatus[pid[s]] = "alive"
                         /\ state[s] = "ZOMBIE" => TreeStatus[pid[s]] = "zombie"
    BY <1>9
  <1>12. \A s \in Slot \ {InitProc} : state[s] \notin {"UNUSED", "EMBRYO"} =>
            TreeParent[pid[s]] = pid[parent[s]]
    BY <1>9 DEF ParentSlot
  <1>13. state[InitProc] # "UNUSED" => TreeParent[pid[InitProc]] = 0 BY <1>9
  <1>14. /\ TreeStatus = [p \in 1..MaxPid |-> TreeStatus[p]]
         /\ TreeParent = [p \in 1..MaxPid |-> TreeParent[p]]
    BY <1>2 DEF TreeStatus, TreeParent
  <1> QED
    BY <1>7, <1>8, <1>10, <1>11, <1>12, <1>13, <1>14 DEF TreeView, ViewShape, ViewNone, ViewGone, ViewNew, ViewOld, ViewParent, ViewInit

(* The same of the state after a step.                                     *)
LEMMA NextView == KernelInv' /\ PidInv' => TreeView'
  BY ViewIs, PTL

(* Any pid is unused, gone or some slot's.                                 *)
LEMMA Holders ==
  ASSUME KernelInv, PidInv, NEW p \in 1..MaxPid
  PROVE  \/ nextpid <= p
         \/ p < nextpid /\ \A s \in Slot : pid[s] = p => state[s] = "UNUSED"
         \/ \E s \in Slot : pid[s] = p /\ state[s] # "UNUSED"
  <1>1. nextpid \in Int BY DEF KernelInv, TypeOK
  <1> QED BY <1>1

Living == {"RUNNABLE", "RUNNING", "SLEEPING"}

(* A step that no program can tell by asking for pids.                     *)
Quiet ==
    /\ pid' = pid /\ nextpid' = nextpid /\ np' = np
    /\ at'[0] # "main" => at[0] # "main"
    /\ \A s \in Slot : parent'[s] = parent[s] \/ state[s] = "EMBRYO"
    /\ \A s \in Slot : state'[s] = state[s] \/ (state[s] \in Living /\ state'[s] \in Living)

(* A quiet step hands out no pid and takes none back.                      *)
LEMMA QuietKeeps == ASSUME KernelInv, PidInv, Quiet PROVE PidInv'
  <1>1. \A s \in Slot : state'[s] # "UNUSED" <=> state[s] # "UNUSED"
    BY DEF Quiet, Living
  <1>2. \A s \in Slot : state'[s] = "EMBRYO" <=> state[s] = "EMBRYO"
    BY DEF Quiet, Living
  <1> QED BY <1>1, <1>2 DEF Quiet, PidInv

(* A used slot holds a pid that has been handed out.                       *)
LEMMA PidHeld ==
  ASSUME KernelInv, PidInv, NEW s \in Slot, state[s] # "UNUSED"
  PROVE  pid[s] \in 1..MaxPid /\ pid[s] < nextpid /\ at[0] # "main"
  <1>1. nextpid \in 1..MaxPid + 1 /\ at[0] # "main" BY DEF KernelInv, TypeOK, BootInv
  <1>2. pid[s] \in 1..nextpid - 1 BY DEF PidInv
  <1> QED BY <1>1, <1>2, BoundAssumption

(* The slot in fork() of a process that is neither dead nor itself new.    *)
LEMMA BuilderLives ==
  ASSUME KernelInv, NEW u \in Slot, NEW v \in Slot, np[v] = u
  PROVE  state[v] \in Living /\ state[u] = "EMBRYO"
  <1>1. state[u] = "EMBRYO" /\ np[v] # Null BY Domains DEF KernelInv, EmbryoOwned
  <1>2. Place(v) \in Forking BY <1>1 DEF KernelInv, ForkInv
  <1>3. state[v] \notin {"UNUSED", "EMBRYO", "ZOMBIE"}
    BY <1>2 DEF KernelInv, ThreadInv, Place, Forking
  <1>4. state[v] \in ProcState BY DEF KernelInv, TypeOK
  <1> QED BY <1>1, <1>3, <1>4 DEF ProcState, Living

(* What a slot that goes on being used says of its pid after a step.       *)
LEMMA SlotKept ==
  ASSUME KernelInv, PidInv, TreeView, TreeView', NEW u \in Slot,
         state[u] # "UNUSED", pid'[u] = pid[u],
         state'[u] = state[u] \/ (state[u] \in Living /\ state'[u] \in Living),
         \A v \in Slot : np[v] = u => np'[v] = u /\ pid'[v] = pid[v]
  PROVE  /\ TreeStatus'[pid[u]] = TreeStatus[pid[u]]
         /\ state[u] = "EMBRYO" \/ u = InitProc \/ pid'[parent'[u]] = pid[parent[u]] =>
                TreeParent'[pid[u]] = TreeParent[pid[u]]
  <1>1. state[u] \in ProcState BY DEF KernelInv, TypeOK
  <1>2. CASE state[u] = "EMBRYO"
    <2>1. PICK v \in Slot : np[v] = u BY <1>2 DEF PidInv
    <2>2. TreeStatus[pid[u]] = "new" /\ TreeParent[pid[u]] = pid[v]
      BY <2>1 DEF TreeView, ViewNew
    <2>3. np'[v] = u /\ pid'[v] = pid[v] BY <2>1
    <2>4. TreeStatus'[pid'[u]] = "new" /\ TreeParent'[pid'[u]] = pid'[v]
      BY <2>3 DEF TreeView, ViewNew
    <2> QED BY <2>2, <2>3, <2>4
  <1>3. CASE state[u] \in Living \cup {"ZOMBIE"}
    <2>1. /\ state'[u] \in Living <=> state[u] \in Living
          /\ state'[u] = "ZOMBIE" <=> state[u] = "ZOMBIE"
          /\ state'[u] \in Living \cup {"ZOMBIE"}
      BY <1>3 DEF Living
    <2>2. TreeStatus'[pid[u]] = TreeStatus[pid[u]]
      BY <1>3, <2>1 DEF TreeView, ViewOld, Living
    <2>3. u = InitProc => TreeParent'[pid[u]] = TreeParent[pid[u]]
      BY <1>3, <2>1 DEF TreeView, ViewInit, Living
    <2>4. ASSUME u # InitProc, pid'[parent'[u]] = pid[parent[u]]
          PROVE  TreeParent'[pid[u]] = TreeParent[pid[u]]
      <3>1. TreeParent[pid[u]] = pid[parent[u]]
        BY <1>3, <2>4 DEF TreeView, ViewParent, Living
      <3>2. TreeParent'[pid'[u]] = pid'[parent'[u]]
        BY <2>1, <2>4 DEF TreeView, ViewParent, Living
      <3> QED BY <2>4, <3>1, <3>2
    <2> QED BY <1>3, <2>2, <2>3, <2>4 DEF Living
  <1> QED BY <1>1, <1>2, <1>3 DEF ProcState, Living

(* Nor does the tree change.                                               *)
LEMMA QuietStutters ==
  ASSUME KernelInv, KernelInv', PidInv, PidInv', Quiet
  PROVE  TreeStatus' = TreeStatus /\ TreeParent' = TreeParent
  <1>1. TreeView /\ TreeView' BY ViewIs, NextView
  <1>2. ASSUME NEW p \in 1..MaxPid
        PROVE  TreeStatus'[p] = TreeStatus[p] /\ TreeParent'[p] = TreeParent[p]
    <2>1. CASE nextpid <= p BY <1>1, <2>1 DEF TreeView, ViewNone, Quiet
    <2>2. CASE p < nextpid /\ \A s \in Slot : pid[s] = p => state[s] = "UNUSED"
      <3>1. \A s \in Slot : pid'[s] = p => state'[s] = "UNUSED"
        BY <2>2 DEF Quiet, Living
      <3> QED BY <1>1, <2>2, <3>1 DEF TreeView, ViewGone, Quiet
    <2>3. ASSUME NEW s \in Slot, pid[s] = p, state[s] # "UNUSED"
          PROVE  TreeStatus'[p] = TreeStatus[p] /\ TreeParent'[p] = TreeParent[p]
      BY <1>1, <2>3, SlotKept DEF Quiet
    <2> QED BY <2>1, <2>2, <2>3, Holders
  <1> QED BY <1>1, <1>2 DEF TreeView, ViewShape

(* Every step but Userinit, those of fork() that take a slot, give it back *)
(* or start the child, exit() and the reaping of a child.                  *)
Silent(c, s) ==
    \/ Scheduler(c) \/ ExitPanics(c) \/ Uninterruptible(c, s) \/ Yield(c, s)
    \/ SleepAgain(c, s) \/ ExitKilled(c, s)
    \/ ExitCall(c, s) \/ SleepCall(c, s) \/ Kill(c, s) \/ Fault(c, s)

(* The scheduler, context switches, sleeps and kills are quiet.            *)
LEMMA SilentIsQuiet ==
  ASSUME KernelInv, NEW c \in CPU, NEW s \in Slot, Silent(c, s)
  PROVE  Quiet
  <1> USE Domains DEF Quiet, Living, table, threads, locks, lottery, cpus
  <1>0. TypeOK /\ SwitchInv /\ ScanInv BY DEF KernelInv
  <1>1. CASE Scheduler(c)
    <2>1. CASE CountTickets(c) BY <1>0, <2>1 DEF CountTickets
    <2>2. CASE Draw(c) BY <1>0, <2>2 DEF Draw, TypeOK
    <2>3. CASE SchedAcquire(c) BY <1>0, <2>3 DEF SchedAcquire, TypeOK
    <2>4. CASE SchedSkip(c) BY <1>0, <2>4 DEF SchedSkip
    <2>5. CASE SchedPick(c) BY <1>0, <2>5 DEF SchedPick, TypeOK
    <2>6. CASE SchedRelease(c) BY <1>0, <2>6 DEF SchedRelease, Scanning, TypeOK
    <2>7. CASE HltEnds(c) BY <1>0, <2>7 DEF HltEnds, TypeOK
    <2> QED BY <1>1, <2>1, <2>2, <2>3, <2>4, <2>5, <2>6, <2>7 DEF Scheduler
  <1>2. CASE ExitPanics(c) BY <1>2 DEF ExitPanics
  <1>3. CASE Uninterruptible(c, s)
    BY <1>3, <1>0 DEF Uninterruptible, Swtch, Forkret, YieldReturns, SleepEnter, SleepWakes,
       Runs, TypeOK
  <1>4. CASE Yield(c, s)
    <2>1. state[s] = "RUNNING"
      BY <1>0, <1>4 DEF Yield, Interrupts, SwitchInv, Interruptible, Switching
    <2> QED BY <1>0, <1>4, <2>1 DEF Yield, TypeOK
  <1>5. CASE SleepAgain(c, s) BY <1>5 DEF SleepAgain
  <1>6. CASE ExitKilled(c, s) BY <1>6 DEF ExitKilled
  <1>7. CASE ExitCall(c, s) \/ SleepCall(c, s) \/ Fault(c, s)
    BY <1>7 DEF ExitCall, SleepCall, Fault
  <1>8. CASE Kill(c, s) BY <1>0, <1>8 DEF Kill, KillWakes, TypeOK
  <1> QED BY <1>1, <1>2, <1>3, <1>4, <1>5, <1>6, <1>7, <1>8 DEF Silent

(* A tick wakes sleepers and changes nothing else in the table.            *)
LEMMA TimerIsQuiet == ASSUME KernelInv, Timer PROVE Quiet
  <1>1. TypeOK /\ TickInv BY DEF KernelInv
  <1>2. CASE TimerTick BY <1>2 DEF TimerTick, table, cpus, Quiet
  <1>3. CASE TimerWake
    BY <1>1, <1>3, Domains DEF TimerWake, Wakeup1, threads, Quiet, Living, TypeOK, TickInv
  <1> QED BY <1>2, <1>3 DEF Timer

(* So is a step of something else.                                         *)
LEMMA StutterIsQuiet == UNCHANGED vars => Quiet
  BY DEF vars, table, threads, cpus, Quiet

(* The table as it was, or the parent written into the slot of a fork().   *)
LEMMA RestIsQuiet ==
  ASSUME KernelInv, NEW c \in CPU, NEW s \in Slot,
         \/ ForkAlloc(c, s) /\ TableFull(c, s)
         \/ ForkStack(c, s) /\ ~GiveBack(s)
         \/ ForkCopy(c, s) /\ np' = np
         \/ Wait(c, s) /\ ~\E t \in Slot : Reap(s, t)
  PROVE  Quiet
  <1> USE Domains DEF Quiet, Living, table, threads, locks, lottery, cpus
  <1>0. TypeOK /\ EmbryoOwned /\ ForkInv BY DEF KernelInv
  <1>1. CASE ForkAlloc(c, s) /\ TableFull(c, s) BY <1>1 DEF ForkAlloc, TableFull
  <1>2. CASE ForkStack(c, s) /\ ~GiveBack(s) BY <1>2 DEF ForkStack
  <1>3. CASE ForkCopy(c, s) /\ np' = np
    <2>1. np[s] \in Slot /\ state[np[s]] = "EMBRYO"
      BY <1>0, <1>3 DEF ForkCopy, Runs, TypeOK, ForkInv, Place, Forking, EmbryoOwned
    <2> QED BY <1>0, <1>3, <2>1 DEF ForkCopy, TypeOK
  <1>4. CASE Wait(c, s) /\ ~\E t \in Slot : Reap(s, t)
    BY <1>0, <1>4 DEF Wait, WaitLoop, Runs, NoChild, WaitSleeps, TypeOK
  <1> QED BY <1>1, <1>2, <1>3, <1>4

(* userinit() starts init, with pid 1.                                     *)
LEMMA UserinitBoots ==
  ASSUME KernelInv, KernelInv', PidInv, Userinit
  PROVE  PidInv' /\ Tree!Boot
  <1> USE Domains DEF Userinit, FirstState
  <1>1. nextpid = 1 /\ \A s \in Slot : state[s] = "UNUSED" /\ np[s] = Null
    BY DEF KernelInv, BootInv, EmbryoOwned, TypeOK
  <1>2. /\ nextpid' = 2 /\ pid'[InitProc] = 1 /\ state'[InitProc] = "RUNNABLE"
        /\ \A s \in Slot \ {InitProc} : state'[s] = "UNUSED"
    BY <1>1 DEF KernelInv, TypeOK
  <1>3. PidInv' BY <1>1, <1>2 DEF PidInv
  <1>4. TreeView /\ TreeView' BY <1>3, ViewIs, NextView
  <1>5. \A p \in 1..MaxPid : TreeStatus[p] = "none" /\ TreeParent[p] = 0
    BY <1>1, <1>4 DEF TreeView, ViewNone
  <1>6. \A p \in 1..MaxPid : /\ TreeStatus'[p] = IF p = 1 THEN "alive" ELSE "none"
                             /\ TreeParent'[p] = 0
    BY <1>2, <1>4 DEF TreeView, ViewNone, ViewOld, ViewInit
  <1>7. TreeStatus' = [TreeStatus EXCEPT ![1] = "alive"] /\ TreeParent' = TreeParent
    BY <1>4, <1>5, <1>6 DEF TreeView, ViewShape
  <1> QED BY <1>3, <1>5, <1>7 DEF Tree!Boot, Tree!Pid, Tree!InitPid

(* allocproc() takes the slot and the pid of the child to be.              *)
LEMMA TakeSlotBegins ==
  ASSUME KernelInv, KernelInv', PidInv, NEW c \in CPU, NEW s \in Slot,
         Runs(c, s, "user"), TakeSlot(c, s), at' = at
  PROVE  PidInv' /\ Tree!Begin(pid[s], nextpid)
  <1> USE Domains
  <1>0. TypeOK /\ ForkInv /\ EmbryoOwned /\ InitInv /\ ThreadInv /\ ParentAlive
    BY DEF KernelInv
  <1>1. PICK t \in Slot :
          /\ state[t] = "UNUSED" /\ nextpid <= MaxPid
          /\ state' = [state EXCEPT ![t] = "EMBRYO"]
          /\ pid' = [pid EXCEPT ![t] = nextpid]
          /\ nextpid' = nextpid + 1
          /\ np' = [np EXCEPT ![s] = t]
          /\ parent' = parent
    BY DEF TakeSlot, PidsLeft, NewState
  <1>2. /\ nextpid \in 1..MaxPid /\ s # t
        /\ np[s] = Null /\ state[s] = "RUNNING" /\ at[0] # "main"
    BY <1>0, <1>1, PidHeld DEF Runs, TypeOK, ForkInv, Place, Forking
  <1>3. \A u \in Slot : u # t => state'[u] = state[u] /\ pid'[u] = pid[u]
    BY <1>0, <1>1 DEF TypeOK
  <1>4. state'[t] = "EMBRYO" /\ pid'[t] = nextpid /\ np'[s] = t
    BY <1>0, <1>1 DEF TypeOK
  <1>5. \A u, v \in Slot : np[v] = u => u # t /\ v # t /\ v # s /\ np'[v] = u /\ pid'[v] = pid[v]
    BY <1>0, <1>1, <1>2, <1>3, BuilderLives DEF Living, TypeOK
  <1>6. PidInv'
    <2>1. \A u \in Slot : state'[u] # "UNUSED" => pid'[u] \in 1..nextpid' - 1
      <3> SUFFICES ASSUME NEW u \in Slot, state'[u] # "UNUSED"
                   PROVE  pid'[u] \in 1..nextpid' - 1
        OBVIOUS
      <3>1. CASE u = t BY <3>1, <1>1, <1>2, <1>4
      <3>2. CASE u # t
        <4>1. pid[u] \in 1..nextpid - 1 BY <3>2, <1>3 DEF PidInv
        <4> QED BY <4>1, <3>2, <1>1, <1>2, <1>3
      <3> QED BY <3>1, <3>2
    <2>2. \A u \in Slot : state[u] # "UNUSED" => pid[u] # nextpid
      BY <1>2, PidHeld
    <2>3. \A u, v \in Slot :
            state'[u] # "UNUSED" /\ state'[v] # "UNUSED" /\ pid'[u] = pid'[v] => u = v
      BY <2>2, <1>3, <1>4 DEF PidInv
    <2>4. pid'[InitProc] = 1
      BY <1>0, <1>1, <1>2, <1>3 DEF PidInv, InitInv
    <2>5. \A u \in Slot : state'[u] = "EMBRYO" => \E v \in Slot : np'[v] = u
      BY <1>3, <1>4, <1>5 DEF PidInv
    <2> QED BY <2>1, <2>3, <2>4, <2>5 DEF PidInv
  <1>7. TreeView /\ TreeView' BY <1>6, ViewIs, NextView
  <1>8. pid[s] \in 1..MaxPid /\ TreeStatus[pid[s]] = "alive"
    BY <1>2, <1>7, PidHeld DEF TreeView, ViewOld
  <1>9. TreeStatus[nextpid] = "none" BY <1>2, <1>7 DEF TreeView, ViewNone
  <1>10. \A r \in 1..nextpid - 1 : TreeStatus[r] # "none"
    <2> SUFFICES ASSUME NEW r \in 1..nextpid - 1 PROVE TreeStatus[r] # "none" OBVIOUS
    <2>1. r \in 1..MaxPid /\ r < nextpid /\ ~(nextpid <= r)
      BY <1>2, BoundAssumption
    <2>2. ASSUME NEW u \in Slot, pid[u] = r, state[u] # "UNUSED"
          PROVE  TreeStatus[r] # "none"
      <3>1. state[u] \in ProcState BY <1>0 DEF TypeOK
      <3>2. CASE state[u] = "EMBRYO"
        <4>1. PICK v \in Slot : np[v] = u BY <3>2 DEF PidInv
        <4> QED BY <1>7, <2>2, <4>1 DEF TreeView, ViewNew
      <3>3. CASE state[u] # "EMBRYO"
        BY <1>7, <2>2, <3>1, <3>3 DEF TreeView, ViewOld, ProcState
      <3> QED BY <3>2, <3>3
    <2> QED BY <1>7, <2>1, <2>2, Holders DEF TreeView, ViewNone, ViewGone
  <1>11. ASSUME NEW p \in 1..MaxPid
         PROVE  /\ TreeStatus'[p] = IF p = nextpid THEN "new" ELSE TreeStatus[p]
                /\ TreeParent'[p] = IF p = nextpid THEN pid[s] ELSE TreeParent[p]
    <2>1. CASE p = nextpid BY <2>1, <1>2, <1>3, <1>4, <1>7 DEF TreeView, ViewNew
    <2>2. CASE nextpid < p
      <3>1. nextpid <= p /\ nextpid' <= p BY <2>2, <1>1, <1>2
      <3> QED BY <2>2, <3>1, <1>2, <1>7 DEF TreeView, ViewNone
    <2>3. CASE p < nextpid /\ \A u \in Slot : pid[u] = p => state[u] = "UNUSED"
      <3>1. p < nextpid' /\ p # nextpid BY <2>3, <1>1, <1>2
      <3>2. \A u \in Slot : pid'[u] = p => state'[u] = "UNUSED"
        BY <2>3, <3>1, <1>3, <1>4
      <3> QED BY <2>3, <3>1, <3>2, <1>7 DEF TreeView, ViewGone
    <2>4. ASSUME NEW u \in Slot, pid[u] = p, state[u] # "UNUSED"
          PROVE  p # nextpid /\ TreeStatus'[p] = TreeStatus[p] /\ TreeParent'[p] = TreeParent[p]
      <3>1. p # nextpid BY <2>4, <1>2, PidHeld
      <3>2. u # t /\ state'[u] = state[u] /\ pid'[u] = pid[u] BY <2>4, <1>1, <1>3
      <3>3. CASE state[u] = "EMBRYO" \/ u = InitProc
        BY <2>4, <3>1, <3>2, <3>3, <1>5, <1>7, SlotKept
      <3>4. CASE state[u] # "EMBRYO" /\ u # InitProc
        <4>1. parent[u] \in Slot /\ state[parent[u]] # "UNUSED"
          BY <2>4, <3>4, <1>0 DEF ParentAlive, TypeOK
        <4>2. pid'[parent'[u]] = pid[parent[u]] BY <4>1, <1>1, <1>3
        <4> QED BY <2>4, <3>1, <3>2, <4>2, <1>5, <1>7, SlotKept
      <3> QED BY <3>3, <3>4
    <2> QED BY <2>1, <2>2, <2>3, <2>4, <1>2, Holders
  <1>12. /\ TreeStatus' = [TreeStatus EXCEPT ![nextpid] = "new"]
         /\ TreeParent' = [TreeParent EXCEPT ![nextpid] = pid[s]]
    BY <1>2, <1>7, <1>11 DEF TreeView, ViewShape
  <1> QED BY <1>6, <1>8, <1>9, <1>10, <1>12 DEF Tree!Begin

(* Out of memory: the slot is UNUSED again, and its pid is nobody's.       *)
LEMMA GivenBackAborts ==
  ASSUME KernelInv, KernelInv', PidInv, NEW s \in Slot, Place(s) \in Forking,
         state' = [state EXCEPT ![np[s]] = "UNUSED"],
         np' = [np EXCEPT ![s] = Null],
         pid' = pid, parent' = parent, nextpid' = nextpid, at' = at
  PROVE  PidInv' /\ \E p \in 1..MaxPid : Tree!Abort(p)
  <1> USE Domains
  <1>0. TypeOK /\ ForkInv /\ EmbryoOwned /\ InitInv /\ ParentAlive BY DEF KernelInv
  <1>1. PICK t \in Slot : np[s] = t BY <1>0 DEF TypeOK, ForkInv
  <1>2. /\ state[t] = "EMBRYO" /\ \A v \in Slot : np[v] = t => v = s
    BY <1>0, <1>1 DEF EmbryoOwned
  <1>3. state'[t] = "UNUSED" /\ \A u \in Slot : u # t => state'[u] = state[u]
    BY <1>0, <1>1 DEF TypeOK
  <1>4. \A u, v \in Slot : np[v] = u /\ u # t => np'[v] = u
    BY <1>0, <1>1 DEF TypeOK
  <1>5. PidInv'
    BY <1>0, <1>2, <1>3, <1>4 DEF PidInv, InitInv
  <1>6. TreeView /\ TreeView' BY <1>5, ViewIs, NextView
  <1>7. pid[t] \in 1..MaxPid /\ pid[t] < nextpid BY <1>2, PidHeld
  <1>8. TreeStatus[pid[t]] = "new" BY <1>1, <1>6 DEF TreeView, ViewNew
  <1>9. ASSUME NEW p \in 1..MaxPid
        PROVE  /\ TreeStatus'[p] = IF p = pid[t] THEN "gone" ELSE TreeStatus[p]
               /\ TreeParent'[p] = IF p = pid[t] THEN 0 ELSE TreeParent[p]
    <2>1. CASE p = pid[t]
      <3>1. \A u \in Slot : pid'[u] = p => state'[u] = "UNUSED"
        BY <2>1, <1>2, <1>3 DEF PidInv
      <3> QED BY <2>1, <3>1, <1>6, <1>7 DEF TreeView, ViewGone
    <2>2. CASE nextpid <= p
      <3>1. p # pid[t] BY <2>2, <1>0, <1>7 DEF TypeOK
      <3> QED BY <2>2, <3>1, <1>6 DEF TreeView, ViewNone
    <2>3. CASE p # pid[t] /\ p < nextpid /\ \A u \in Slot : pid[u] = p => state[u] = "UNUSED"
      <3>1. \A u \in Slot : pid'[u] = p => state'[u] = "UNUSED" BY <2>3, <1>3
      <3> QED BY <2>3, <3>1, <1>6 DEF TreeView, ViewGone
    <2>4. ASSUME NEW u \in Slot, u # t, pid[u] = p, state[u] # "UNUSED"
          PROVE  p # pid[t] /\ TreeStatus'[p] = TreeStatus[p] /\ TreeParent'[p] = TreeParent[p]
      BY <2>4, <1>2, <1>3, <1>4, <1>6, SlotKept DEF PidInv
    <2> QED BY <2>1, <2>2, <2>3, <2>4, Holders
  <1>10. /\ TreeStatus' = [TreeStatus EXCEPT ![pid[t]] = "gone"]
         /\ TreeParent' = [TreeParent EXCEPT ![pid[t]] = 0]
    BY <1>6, <1>7, <1>9 DEF TreeView, ViewShape
  <1>11. Tree!Abort(pid[t]) BY <1>8, <1>10 DEF Tree!Abort, Tree!NoPid
  <1> QED BY <1>5, <1>7, <1>11

(* The child becomes RUNNABLE with its parent's name in its slot.          *)
LEMMA ForkStarts ==
  ASSUME KernelInv, KernelInv', PidInv, NEW c \in CPU, NEW s \in Slot, ForkStart(c, s)
  PROVE  PidInv' /\ \E p \in 1..MaxPid : Tree!Start(p)
  <1> USE Domains DEF ForkStart, Runs, locks, cpus
  <1>0. TypeOK /\ ForkInv /\ EmbryoOwned /\ InitInv /\ ParentAlive BY DEF KernelInv
  <1>1. PICK t \in Slot : np[s] = t BY <1>0 DEF TypeOK, ForkInv, Place, Forking
  <1>2. /\ state[t] = "EMBRYO" /\ parent[t] = s /\ t # InitProc
        /\ \A v \in Slot : np[v] = t => v = s
    BY <1>0, <1>1 DEF EmbryoOwned, ForkInv, Place, InitInv
  <1>3. state'[t] = "RUNNABLE" /\ \A u \in Slot : u # t => state'[u] = state[u]
    BY <1>0, <1>1 DEF TypeOK
  <1>4. \A u, v \in Slot : np[v] = u /\ u # t => np'[v] = u
    BY <1>0, <1>1 DEF TypeOK
  <1>5. PidInv'
    BY <1>0, <1>2, <1>3, <1>4 DEF PidInv, InitInv
  <1>6. TreeView /\ TreeView' BY <1>5, ViewIs, NextView
  <1>7. pid[t] \in 1..MaxPid /\ pid[t] < nextpid BY <1>2, PidHeld
  <1>8. TreeStatus[pid[t]] = "new" /\ TreeParent[pid[t]] = pid[s]
    BY <1>1, <1>6 DEF TreeView, ViewNew
  <1>9. ASSUME NEW p \in 1..MaxPid
        PROVE  /\ TreeStatus'[p] = IF p = pid[t] THEN "alive" ELSE TreeStatus[p]
               /\ TreeParent'[p] = TreeParent[p]
    <2>1. CASE p = pid[t]
      BY <2>1, <1>2, <1>3, <1>6, <1>8 DEF TreeView, ViewOld, ViewParent
    <2>2. CASE nextpid <= p
      <3>1. p # pid[t] BY <2>2, <1>0, <1>7 DEF TypeOK
      <3> QED BY <2>2, <3>1, <1>6 DEF TreeView, ViewNone
    <2>3. CASE p # pid[t] /\ p < nextpid /\ \A u \in Slot : pid[u] = p => state[u] = "UNUSED"
      <3>1. \A u \in Slot : pid'[u] = p => state'[u] = "UNUSED" BY <2>3, <1>3
      <3> QED BY <2>3, <3>1, <1>6 DEF TreeView, ViewGone
    <2>4. ASSUME NEW u \in Slot, u # t, pid[u] = p, state[u] # "UNUSED"
          PROVE  p # pid[t] /\ TreeStatus'[p] = TreeStatus[p] /\ TreeParent'[p] = TreeParent[p]
      BY <2>4, <1>2, <1>3, <1>4, <1>6, SlotKept DEF PidInv
    <2> QED BY <2>1, <2>2, <2>3, <2>4, Holders
  <1>10. TreeStatus' = [TreeStatus EXCEPT ![pid[t]] = "alive"] /\ TreeParent' = TreeParent
    BY <1>6, <1>7, <1>9 DEF TreeView, ViewShape
  <1>11. Tree!Start(pid[t]) BY <1>8, <1>10 DEF Tree!Start
  <1> QED BY <1>5, <1>7, <1>11

(* Whoever dies is not in fork(), and leaves its children to init.         *)
LEMMA ExitLeaves ==
  ASSUME KernelInv, KernelInv', PidInv, NEW c \in CPU, NEW s \in Slot, Exit(c, s)
  PROVE  PidInv' /\ \E p \in 1..MaxPid : Tree!Leave(p)
  <1> USE Domains DEF Exit, Runs, Reparent, cpus
  <1>0. TypeOK /\ ForkInv /\ EmbryoOwned /\ InitInv /\ ParentAlive BY DEF KernelInv
  <1>1. /\ s # InitProc /\ state[s] = "RUNNING" /\ np[s] = Null /\ state'[s] = "ZOMBIE"
        /\ pid' = pid /\ nextpid' = nextpid /\ np' = np /\ at' = at
    BY <1>0 DEF TypeOK, ForkInv, Place, Forking
  <1>2. \A u \in Slot : u # s =>
            state'[u] = state[u] \/ (state[u] \in Living /\ state'[u] \in Living)
    BY DEF Living
  <1>3. PidInv'
    <2>1. \A u \in Slot : /\ state'[u] # "UNUSED" <=> state[u] # "UNUSED"
                          /\ state'[u] = "EMBRYO" <=> state[u] = "EMBRYO"
      BY <1>1, <1>2 DEF Living
    <2> QED BY <2>1, <1>1 DEF PidInv
  <1>4. TreeView /\ TreeView' BY <1>3, ViewIs, NextView
  <1>5. at[0] # "main" /\ pid[s] \in 1..MaxPid /\ pid[s] < nextpid BY <1>1, PidHeld
  <1>6. pid[InitProc] = 1 /\ state[InitProc] # "UNUSED" BY <1>0, <1>5 DEF PidInv, InitInv
  <1>7. pid[s] # 1 /\ pid[s] # 0 /\ TreeStatus[pid[s]] = "alive"
    <2>1. pid[s] # pid[InitProc] BY <1>1, <1>6 DEF PidInv
    <2>2. pid[s] # 0 BY <1>5, BoundAssumption
    <2>3. TreeStatus[pid[s]] = "alive" BY <1>1, <1>4 DEF TreeView, ViewOld
    <2> QED BY <2>1, <2>2, <2>3, <1>6
  <1>8. \A u \in Slot : state[u] # "UNUSED" /\ u # s => pid[u] # pid[s]
    BY <1>1 DEF PidInv
  <1>9. \A u, v \in Slot : np[v] = u => v # s /\ pid[v] # pid[s]
    BY <1>1, <1>8, BuilderLives DEF Living
  <1>10. \A p \in 1..MaxPid : TreeParent[p] = pid[s] => TreeStatus[p] # "new"
    <2> SUFFICES ASSUME NEW p \in 1..MaxPid, TreeParent[p] = pid[s]
                 PROVE  TreeStatus[p] # "new"
      OBVIOUS
    <2>1. ASSUME NEW u \in Slot, pid[u] = p, state[u] # "UNUSED"
          PROVE  TreeStatus[p] # "new"
      <3>1. state[u] \in ProcState BY <1>0 DEF TypeOK
      <3>2. CASE state[u] = "EMBRYO"
        <4>1. PICK v \in Slot : np[v] = u BY <3>2 DEF PidInv
        <4>2. TreeParent[p] = pid[v] BY <1>4, <2>1, <4>1 DEF TreeView, ViewNew
        <4> QED BY <4>1, <4>2, <1>9
      <3>3. CASE state[u] # "EMBRYO"
        BY <1>4, <2>1, <3>1, <3>3 DEF TreeView, ViewOld, ProcState
      <3> QED BY <3>2, <3>3
    <2> QED BY <2>1, <1>4, <1>7, Holders DEF TreeView, ViewNone, ViewGone
  <1>11. ASSUME NEW p \in 1..MaxPid
         PROVE  /\ TreeStatus'[p] = IF p = pid[s] THEN "zombie" ELSE TreeStatus[p]
                /\ TreeParent'[p] = IF TreeParent[p] = pid[s] THEN 1 ELSE TreeParent[p]
    <2>1. CASE nextpid <= p
      <3>1. p # pid[s] BY <2>1, <1>0, <1>5 DEF TypeOK
      <3> QED BY <2>1, <3>1, <1>1, <1>4, <1>7 DEF TreeView, ViewNone
    <2>2. CASE p < nextpid /\ \A u \in Slot : pid[u] = p => state[u] = "UNUSED"
      <3>1. \A u \in Slot : pid'[u] = p => state'[u] = "UNUSED"
        BY <2>2, <1>1, <1>2 DEF Living
      <3>2. p # pid[s] BY <2>2, <1>1
      <3> QED BY <2>2, <3>1, <3>2, <1>1, <1>4, <1>7 DEF TreeView, ViewGone
    <2>3. CASE p = pid[s]
      <3>1. parent[s] \in Slot /\ parent[s] # s /\ state[parent[s]] # "UNUSED"
        BY <1>0, <1>1 DEF ParentAlive, ProcState
      <3>2. TreeParent[p] = pid[parent[s]] /\ TreeParent[p] # pid[s]
        BY <2>3, <3>1, <1>1, <1>4, <1>8 DEF TreeView, ViewParent
      <3>3. parent'[s] = parent[s] BY <3>1
      <3> QED BY <2>3, <3>2, <3>3, <1>1, <1>4 DEF TreeView, ViewOld, ViewParent
    <2>4. ASSUME NEW u \in Slot, u # s, pid[u] = p, state[u] # "UNUSED"
          PROVE  /\ p # pid[s] /\ TreeStatus'[p] = TreeStatus[p]
                 /\ TreeParent'[p] = IF TreeParent[p] = pid[s] THEN 1 ELSE TreeParent[p]
      <3>1. p # pid[s] BY <2>4, <1>8
      <3>2. TreeStatus'[p] = TreeStatus[p] BY <2>4, <1>1, <1>2, <1>4, SlotKept
      <3>3. CASE state[u] = "EMBRYO"
        <4>1. PICK v \in Slot : np[v] = u BY <3>3 DEF PidInv
        <4>2. TreeParent[p] = pid[v] BY <1>4, <2>4, <4>1 DEF TreeView, ViewNew
        <4>3. TreeParent'[p] = TreeParent[p]
          BY <2>4, <3>3, <1>1, <1>2, <1>4, SlotKept
        <4> QED BY <3>1, <3>2, <4>1, <4>2, <4>3, <1>9
      <3>4. CASE u = InitProc
        <4>1. TreeParent[p] = 0 BY <2>4, <3>4, <1>4 DEF TreeView, ViewInit
        <4>2. TreeParent'[p] = TreeParent[p]
          BY <2>4, <3>4, <1>1, <1>2, <1>4, SlotKept
        <4> QED BY <3>1, <3>2, <4>1, <4>2, <1>7
      <3>5. CASE u # InitProc /\ state[u] # "EMBRYO" /\ parent[u] = s
        <4>1. TreeParent[p] = pid[s] BY <2>4, <3>5, <1>4 DEF TreeView, ViewParent
        <4>2. parent'[u] = InitProc BY <3>5
        <4>3. state'[u] \notin {"UNUSED", "EMBRYO"} BY <2>4, <3>5, <1>2 DEF Living
        <4>4. TreeParent'[p] = 1
          BY <2>4, <3>5, <4>2, <4>3, <1>1, <1>4, <1>6 DEF TreeView, ViewParent
        <4> QED BY <3>1, <3>2, <4>1, <4>4
      <3>6. CASE u # InitProc /\ state[u] # "EMBRYO" /\ parent[u] # s
        <4>1. parent[u] \in Slot /\ state[parent[u]] # "UNUSED" /\ parent'[u] = parent[u]
          BY <2>4, <3>6, <1>0 DEF ParentAlive, TypeOK
        <4>2. TreeParent[p] = pid[parent[u]] BY <2>4, <3>6, <1>4 DEF TreeView, ViewParent
        <4>3. TreeParent[p] # pid[s] BY <3>6, <4>1, <4>2, <1>8
        <4>4. TreeParent'[p] = TreeParent[p]
          BY <2>4, <4>1, <1>1, <1>2, <1>4, SlotKept
        <4> QED BY <3>1, <3>2, <4>3, <4>4
      <3> QED BY <3>3, <3>4, <3>5, <3>6
    <2> QED BY <2>1, <2>2, <2>3, <2>4, Holders
  <1>12. /\ TreeStatus' = [TreeStatus EXCEPT ![pid[s]] = "zombie"]
         /\ TreeParent' = [p \in 1..MaxPid |->
                             IF TreeParent[p] = pid[s] THEN 1 ELSE TreeParent[p]]
    BY <1>4, <1>5, <1>11 DEF TreeView, ViewShape
  <1>13. Tree!Leave(pid[s])
    BY <1>7, <1>10, <1>12 DEF Tree!Leave, Tree!Pid, Tree!InitPid
  <1> QED BY <1>3, <1>5, <1>13

(* wait() clears the zombie: nobody's parent, whose pid goes with it.      *)
LEMMA ReapCollects ==
  ASSUME KernelInv, KernelInv', PidInv, NEW c \in CPU, NEW s \in Slot, NEW t \in Slot,
         WaitLoop(c, s), Reap(s, t),
         nextpid' = nextpid, np' = np, at' = at
  PROVE  PidInv' /\ \E p, q \in 1..MaxPid : Tree!Collect(q, p)
  <1> USE Domains
  <1>0. TypeOK /\ ForkInv /\ EmbryoOwned /\ InitInv /\ ParentAlive BY DEF KernelInv
  <1>1. /\ state[s] = "RUNNING" /\ state[t] = "ZOMBIE" /\ parent[t] = s
        /\ s # t /\ t # InitProc
    BY <1>0 DEF WaitLoop, Runs, Reap, Reapable, Children, InitInv
  <1>2. /\ state'[t] = "UNUSED" /\ \A u \in Slot : u # t =>
              state'[u] = state[u] /\ pid'[u] = pid[u] /\ parent'[u] = parent[u]
    BY <1>0 DEF Reap, TypeOK
  <1>3. \A u, v \in Slot : np[v] = u => u # t /\ v # t
    BY <1>1, BuilderLives DEF Living
  <1>4. PidInv' BY <1>1, <1>2, <1>3 DEF PidInv
  <1>5. TreeView /\ TreeView' BY <1>4, ViewIs, NextView
  <1>6. /\ pid[s] \in 1..MaxPid /\ pid[t] \in 1..MaxPid /\ pid[t] < nextpid
    BY <1>1, PidHeld
  <1>7. /\ TreeStatus[pid[s]] = "alive" /\ TreeStatus[pid[t]] = "zombie"
        /\ TreeParent[pid[t]] = pid[s]
    BY <1>1, <1>5 DEF TreeView, ViewOld, ViewParent
  <1>8. ASSUME NEW p \in 1..MaxPid
        PROVE  /\ TreeStatus'[p] = IF p = pid[t] THEN "gone" ELSE TreeStatus[p]
               /\ TreeParent'[p] = IF p = pid[t] THEN 0 ELSE TreeParent[p]
    <2>1. CASE p = pid[t]
      <3>1. \A u \in Slot : pid'[u] = p => state'[u] = "UNUSED"
        BY <2>1, <1>1, <1>2 DEF PidInv
      <3> QED BY <2>1, <3>1, <1>5, <1>6 DEF TreeView, ViewGone
    <2>2. CASE nextpid <= p
      <3>1. p # pid[t] BY <2>2, <1>0, <1>6 DEF TypeOK
      <3> QED BY <2>2, <3>1, <1>5 DEF TreeView, ViewNone
    <2>3. CASE p # pid[t] /\ p < nextpid /\ \A u \in Slot : pid[u] = p => state[u] = "UNUSED"
      <3>1. \A u \in Slot : pid'[u] = p => state'[u] = "UNUSED" BY <2>3, <1>2
      <3> QED BY <2>3, <3>1, <1>5 DEF TreeView, ViewGone
    <2>4. ASSUME NEW u \in Slot, u # t, pid[u] = p, state[u] # "UNUSED"
          PROVE  p # pid[t] /\ TreeStatus'[p] = TreeStatus[p] /\ TreeParent'[p] = TreeParent[p]
      <3>1. p # pid[t] BY <2>4, <1>1 DEF PidInv
      <3>2. \A v \in Slot : np[v] = u => np'[v] = u /\ pid'[v] = pid[v]
        BY <1>2, <1>3
      <3>3. CASE state[u] = "EMBRYO" \/ u = InitProc
        BY <2>4, <3>1, <3>2, <3>3, <1>2, <1>5, SlotKept
      <3>4. CASE state[u] # "EMBRYO" /\ u # InitProc
        <4>1. parent[u] \in Slot /\ parent[u] # t
          BY <2>4, <3>4, <1>0, <1>1 DEF ParentAlive, TypeOK
        <4>2. pid'[parent'[u]] = pid[parent[u]] BY <2>4, <4>1, <1>2
        <4> QED BY <2>4, <3>1, <3>2, <4>2, <1>2, <1>5, SlotKept
      <3> QED BY <3>3, <3>4
    <2> QED BY <2>1, <2>2, <2>3, <2>4, Holders
  <1>9. /\ TreeStatus' = [TreeStatus EXCEPT ![pid[t]] = "gone"]
        /\ TreeParent' = [TreeParent EXCEPT ![pid[t]] = 0]
    BY <1>5, <1>6, <1>8 DEF TreeView, ViewShape
  <1>10. Tree!Collect(pid[s], pid[t]) BY <1>7, <1>9 DEF Tree!Collect, Tree!NoPid
  <1> QED BY <1>4, <1>6, <1>10

(* Every step of the kernel is a step of the tree, or tells nothing of it. *)
LEMMA StepOfTree ==
  ASSUME KernelInv, KernelInv', PidInv, [Next]_vars
  PROVE  PidInv' /\ [Tree!TreeNext]_<<TreeStatus, TreeParent>>
  <1> DEFINE Goal == PidInv' /\ [Tree!TreeNext]_<<TreeStatus, TreeParent>>
  <1>1. ASSUME Quiet PROVE Goal BY <1>1, QuietKeeps, QuietStutters
  <1>2. CASE Userinit BY <1>2, UserinitBoots DEF Tree!TreeNext
  <1>3. CASE Timer BY <1>1, <1>3, TimerIsQuiet
  <1>4. ASSUME NEW c \in CPU, NEW s \in Slot, Silent(c, s) PROVE Goal
    BY <1>1, <1>4, SilentIsQuiet
  <1>5. ASSUME NEW c \in CPU, NEW s \in Slot, ForkAlloc(c, s) PROVE Goal
    <2>1. CASE TableFull(c, s) BY <1>1, <1>5, <2>1, RestIsQuiet
    <2>2. CASE TakeSlot(c, s)
      <3>1. Runs(c, s, "user") /\ at' = at BY <1>5 DEF ForkAlloc, cpus
      <3>2. PidInv' /\ Tree!Begin(pid[s], nextpid) BY <2>2, <3>1, TakeSlotBegins
      <3>3. state[s] = "RUNNING" /\ nextpid <= MaxPid
        BY <2>2, <3>1 DEF Runs, TakeSlot, PidsLeft
      <3>4. pid[s] \in 1..MaxPid /\ nextpid \in 1..MaxPid
        BY <3>3, PidHeld, BoundAssumption DEF KernelInv, TypeOK
      <3> QED BY <3>2, <3>4 DEF Tree!TreeNext, Tree!Pid
    <2> QED BY <1>5, <2>1, <2>2 DEF ForkAlloc
  <1>6. ASSUME NEW c \in CPU, NEW s \in Slot, ForkStack(c, s) PROVE Goal
    <2>1. CASE GiveBack(s)
      <3>1. Place(s) \in Forking BY <1>6 DEF ForkStack, Runs, Place, Forking
      <3>2. pid' = pid /\ parent' = parent /\ nextpid' = nextpid /\ at' = at
        BY <1>6 DEF ForkStack, cpus
      <3> QED BY <2>1, <3>1, <3>2, GivenBackAborts DEF GiveBack, Tree!TreeNext, Tree!Pid
    <2>2. CASE ~GiveBack(s) BY <1>1, <1>6, <2>2, RestIsQuiet
    <2> QED BY <2>1, <2>2
  <1>7. ASSUME NEW c \in CPU, NEW s \in Slot, ForkCopy(c, s) PROVE Goal
    <2>1. CASE np' = np BY <1>1, <1>7, <2>1, RestIsQuiet
    <2>2. CASE np' # np
      <3>1. Place(s) \in Forking BY <1>7 DEF ForkCopy, Runs, Place, Forking
      <3>2. /\ state' = [state EXCEPT ![np[s]] = "UNUSED"]
            /\ np' = [np EXCEPT ![s] = Null]
            /\ pid' = pid /\ parent' = parent /\ nextpid' = nextpid /\ at' = at
        BY <1>7, <2>2 DEF ForkCopy, cpus
      <3> QED BY <3>1, <3>2, GivenBackAborts DEF Tree!TreeNext, Tree!Pid
    <2> QED BY <2>1, <2>2
  <1>8. ASSUME NEW c \in CPU, NEW s \in Slot, ForkStart(c, s) PROVE Goal
    BY <1>8, ForkStarts DEF Tree!TreeNext, Tree!Pid
  <1>9. ASSUME NEW c \in CPU, NEW s \in Slot, Exit(c, s) PROVE Goal
    BY <1>9, ExitLeaves DEF Tree!TreeNext, Tree!Pid
  <1>10. ASSUME NEW c \in CPU, NEW s \in Slot, Wait(c, s) PROVE Goal
    <2>1. ASSUME NEW t \in Slot, Reap(s, t) PROVE Goal
      <3>1. WaitLoop(c, s) /\ nextpid' = nextpid /\ np' = np /\ at' = at
        BY <1>10 DEF Wait, cpus
      <3> QED BY <2>1, <3>1, ReapCollects DEF Tree!TreeNext, Tree!Pid
    <2>2. CASE ~\E t \in Slot : Reap(s, t) BY <1>1, <1>10, <2>2, RestIsQuiet
    <2> QED BY <2>1, <2>2
  <1>11. CASE UNCHANGED vars BY <1>1, <1>11, StutterIsQuiet
  <1>12. ASSUME NEW c \in CPU, Scheduler(c) \/ ExitPanics(c) PROVE Goal
    BY <1>4, <1>12, Domains DEF Silent
  <1>13. ASSUME NEW c \in CPU, NEW s \in Slot,
                \/ Uninterruptible(c, s) \/ KernelWork(c, s) \/ Yield(c, s)
                \/ User(c, s) \/ Wait(c, s)
         PROVE  Goal
    BY <1>4, <1>5, <1>6, <1>7, <1>8, <1>9, <1>10, <1>13 DEF KernelWork, User, Silent
  <1> QED BY <1>2, <1>3, <1>11, <1>12, <1>13 DEF Next

(* At boot no pid has been handed out.                                     *)
LEMMA TreeStarts == Init => PidInv /\ Tree!TreeInit
  <1> SUFFICES ASSUME Init PROVE PidInv /\ Tree!TreeInit OBVIOUS
  <1>1. KernelInv BY InitEstablishes
  <1>2. /\ nextpid = 1 /\ at[0] = "main" /\ \A s \in Slot : state[s] = "UNUSED"
    BY Domains DEF Init
  <1>3. PidInv BY <1>2 DEF PidInv
  <1>4. TreeView BY <1>1, <1>3, ViewIs
  <1>5. \A p \in 1..MaxPid : TreeStatus[p] = "none" /\ TreeParent[p] = 0
    BY <1>2, <1>4 DEF TreeView, ViewNone
  <1>6. /\ TreeStatus = [p \in 1..MaxPid |-> "none"]
        /\ TreeParent = [p \in 1..MaxPid |-> 0]
    BY <1>4, <1>5 DEF TreeView, ViewShape
  <1> QED BY <1>3, <1>6 DEF Tree!TreeInit, Tree!Pid, Tree!NoPid

(* Pids are handed out once, and used slots are told apart by theirs.      *)
THEOREM PidInvariant == Spec => []PidInv
  <1>1. Init => PidInv BY TreeStarts
  <1>2. KernelInv /\ KernelInv' /\ PidInv /\ [Next]_vars => PidInv' BY StepOfTree
  <1> QED BY <1>1, <1>2, KernelInvariant, PTL DEF Spec

(* The table, its locks and its schedulers are a process tree to programs: *)
(* every pid given once, every child reaped once by a living parent.       *)
THEOREM TableIsTree == Spec => ImplementsTree
  <1>1. Init => Tree!TreeInit BY TreeStarts
  <1>2. KernelInv /\ KernelInv' /\ PidInv /\ [Next]_vars =>
            [Tree!TreeNext]_<<TreeStatus, TreeParent>>
    BY StepOfTree
  <1> QED BY <1>1, <1>2, KernelInvariant, PidInvariant, PTL
       DEF Spec, ImplementsTree, Tree!TreeSpec, Tree!treeVars
=============================================================================
