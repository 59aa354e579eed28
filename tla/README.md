# A verification project for the CS-3224 operating-systems repository

The repository holds four homeworks: an xv6 kernel with a `sort` program (homework 1), a
calculator in x86 assembly (homework 2), the same kernel with a lottery scheduler and a
`wait_stat` system call (homework 3), and two run-length encoders, one with eight
threads (homework 4).  The kernel of homework 3 contains that of homework 1, so it is
the one that is modelled; paths below are relative to
`src/homework-3-lottery-scheduling/` unless they say otherwise.

The kernel is where the hard behaviour is: several CPUs in one process table under
spinlocks that are handed from one thread to another in the middle of a context switch,
sleep and wakeup, `kill()` from anywhere, a disk that can lose power between two writes,
buffers and inodes that are recycled under those who look for them.  The TLA+ modules
here model these parts, and the programs above them where they compute something; TLC
checks them on small instances, and TLAPS proves for every size the safety of the
process code (both schedulers), of the spin locks, of pipes, of the log, of the caches
of buffers and of inodes, and of open files.

* [1. The system](#1-the-system)
* [2. Modules and how they correspond to the code](#2-modules-and-how-they-correspond-to-the-code)
* [3. What the runs check](#3-what-the-runs-check)
* [4. What is proved](#4-what-is-proved)
* [5. Disagreements between the code and what it says](#5-disagreements-between-the-code-and-what-it-says)
* [6. What is not modelled, and the plan](#6-what-is-not-modelled-and-the-plan)

## 1. The system

### Components

| component | state it keeps | operations | what makes it correct |
|---|---|---|---|
| process table (`kernel/proc.c`) | `ptable.proc[]`, `nextpid`, `initproc` | `allocproc`, `userinit`, `fork`, `exit`, `wait`, `wait_stat`, `kill`, `sleep`, `wakeup`, `yield` | one CPU per kernel stack; every child reaped once by somebody alive; no lost wakeup |
| lottery scheduler (`proc.c`) | per CPU: the winning ticket, the counter, the scan | `get_total_tickets`, `get_random`, `scheduler` | it always finds a ticket to draw; everybody is run in the end |
| timer and traps (`trap.c`) | `ticks`, `tickslock` | tick of CPU 0, `yield` on a tick, exit of killed processes | sleeps end on time; killed processes leave |
| redo log (`log.c`) | `struct log`, the log blocks on disk | `begin_op`, `log_write`, `end_op`, `commit`, `recover_from_log` | system calls reach the disk whole or not at all; the log never overflows |
| buffer cache and disk (`bio.c`, `ide.c`) | buffers, LRU list, flags; the request queue | `bread`, `bwrite`, `brelse`, `iderw`, `ideintr` | one buffer per block; dirty buffers stay; every request is answered |
| inodes, blocks, directories (`fs.c`, `sysfile.c`) | inode cache, bitmap, inode blocks, directory entries | `ialloc`, `iget`, `ilock`, `iput`, `bmap`, `itrunc`, `writei`, `dirlink`, `link`, `unlink`, `create` | no block in two files; link counts; locks in one order |
| file table (`file.c`) | `ftable`, `proc->ofile` | `filealloc`, `filedup`, `fileclose`, `fileread`, `filewrite` | references counted; closed once |
| pipes (`pipe.c`) | ring, two counters, two open flags | `pipealloc`, `pipewrite`, `piperead`, `pipeclose` | a queue; nobody sleeps past his wakeup; freed once |
| console (`console.c`) | the input line with its three indices | `consoleintr`, `consoleread`, `consolewrite` | what is typed is read once, edits included |
| spinlocks (`spinlock.c`) | `locked`, `cpu`, `ncli`, `intena` | `acquire`, `release`, `pushcli`, `popcli` | exclusion; interrupts are restored to what they were |
| memory (`kalloc.c`, `vm.c`, `exec.c`) | free list, page tables | `kalloc`, `kfree`, `allocuvm`, `copyuvm`, `exec` | a page has one owner; failures free what was taken |
| boot (`bootmain.c`, `main.c`), keyboard and screen (`kbd.c`, `console.c`) | segments, CPUs; modifier keys; the screen | `bootmain`, `startothers`; `kbdgetc`, `cgaputc` | segments whole, a stack for each CPU; flags follow the keys; the screen shows the end |
| init (`user/init.c`) | the pid of its shell | `fork`, `wait` for ever | reaps every orphan |
| allocator (`user/umalloc.c`) | the circular free list | `malloc`, `free` | blocks are disjoint, neighbours coalesce |
| shell (`user/sh.c`) | the parsed line, descriptors, children | `parsecmd`, `runcmd` | every line ends; what is written is what is parsed |
| mkfs, grep, wc, helpers (`mkfs/mkfs.c`, `user/*.c`) | buffers | - | the image is consistent; lines are matched whole |
| sort (`src/homework-1-sort/user/sort.c`) | lines in memory | sort by its options | an ordered permutation |
| calculator (`src/homework-2-x86-calculator/calc.s`) | registers | 32-bit operations | signs and overflow |
| `rle`, `prle` (`src/homework-4-run-length-encodinng-RLE/`) | runs per thread | encode, merge | the merged runs are those of the whole file |

`PROJECT.json` lists each with its status.

### Interactions

* A process enters the kernel by a system call or a trap and runs there on its own
  kernel stack.  It leaves the CPU only through `sched()`, which it enters **holding
  `ptable.lock`**; the lock is released by whoever runs next on that CPU: the scheduler,
  another process coming out of its own `sched()`, or a new process in `forkret()`.
* `sleep(chan, lk)` takes `ptable.lock` before it releases `lk`; `wakeup(chan)` takes
  `ptable.lock`; so a wakeup cannot fall between the test of a condition under `lk` and
  the sleep.  Pipes, the log, the buffer cache, the disk queue, the console and
  `sys_sleep` all rely on it.
* `kill()` sets a flag and makes a sleeper `RUNNABLE`; it takes `ptable.lock` and none
  of the locks under which the sleepers test the flag.
* `exit()` hands its children to `init` and wakes its parent; `wait()` frees the stack
  of a zombie, under the lock the zombie released by switching away.
* The tick handler of CPU 0 takes `tickslock`, then `ptable.lock`.
* Every file-system call is bracketed by `begin_op()` and `end_op()`; the last one out
  commits for all of them.  `log_write()` marks a buffer dirty to keep the cache from
  recycling it before the commit has installed it.

### Hard behaviours

`PROJECT.json` "hazards" names each with its line and the properties that cover it.  The
ones that shaped the models are: the locks that change hands in `swtch()`; the wakeups
of `wait()`, `sys_sleep()`, `begin_op()`, `pipewrite()` and `piperead()`; slots that are
filled and given back without the lock; a draw made once per CPU and never again; a
crash at any point of a commit and of a recovery; counters that wrap; checks made before
the lock is taken.

## 2. Modules and how they correspond to the code

| module | role |
|---|---|
| `Proc` | the process table, the lottery scheduler, the timer, `sys_sleep`, `kill` and init's loop, on any number of CPUs |
| `ProcTree` | abstract specification: what `fork`, `exit` and `wait` promise |
| `ProcInvariants` | the inductive invariant of `Proc`; `Proc` implements `ProcTree` |
| `RoundRobin` | the process table and the round robin of homework 1 |
| `Spinlock` | `acquire`, `release`, `pushcli`, `popcli` under interrupts and context switches |
| `Draws` | `get_random()` called on several CPUs at once |
| `Log`, `LogStore` | the redo log over the buffer cache, with crashes and recovery, and its inductive invariant; abstract: an atomic store |
| `Cache`, `Blocks` | `bget`, `bread`, `bwrite`, `brelse`, the disk queue; abstract: one user of a block at a time, who finds its newest contents |
| `InodeCache`, `Files` | `iget`, `ilock`, `iput`, `ialloc`; abstract: an inode lives while it is named or used |
| `StoreLayers` | both caches side by side, and what they promise together |
| `Content`, `Bytes` | `bmap`, `readi`, `writei`, `itrunc`, the bitmap; abstract: a file is a sequence of bytes |
| `Directory` | `namex`, `dirlink`, `link`, `unlink`, `create`, `open`, `mkdir`, `chdir` and the order of their locks |
| `FileTable` | `struct file`, descriptors, references; in its second part, the offset that processes share |
| `Pipe`, `Fifo` | one pipe, its readers and writers, `kill` and `close`; abstract: a bounded queue |
| `Console`, `Tty` | the input line under the keyboard interrupt; abstract: a terminal that edits and ends lines |
| `Terminal`, `Boot` | keyboard and screen; `bootmain` and `startothers` |
| `Vm`, `Spaces` | the page allocator, page tables, `exec`, `sbrk`, `fork`, `exit` and their failures; abstract: memory of its own for each process |
| `Umalloc` | `malloc`, `free`, `realloc` |
| `Shell`, `Parser` | `runcmd` with its pipes, forks and waits; `parsecmd` |
| `Mkfs`, `Strings` (helpers, `wc`, `grep`), `Sort`, `Calculator`, `RunLength` | programs and helpers, each beside a definition of what it is to compute |
| `Callers` | the processes that `Cache`, `InodeCache`, `Directory`, `FileTable` and `Console` have in common |
| `ProcProofs`, `MachineProofs` (`Spinlock`, `RoundRobin`), `PipeProofs`, `LogProofs`, `StoreProofs` (`Cache`, `InodeCache`), `FileProofs`, `DirectoryProofs`, `HeapProofs` (`Umalloc`) | the TLAPS proofs |
| `MCProc`, `MCServices`, `MCStore`, `MCFiles` | instances for TLC |

A detailed module and its abstract one are related by an `INSTANCE` in the detailed
module.  The parts meet where the code calls from one into another, and each is modelled
over what the one below promises:

* `Pipe`, `Log`, `Cache`, `InodeCache` and `Console` keep a sleeper as a place of the
  process and sleep in one step: `Proc` shows that the channel's lock is released only
  once the process is `SLEEPING`.  They take a lock as its holder: `Spinlock` is the
  lock itself.
* `Log` has a buffer as what it holds and whether it is pinned, `Cache` the buffers.
* `Directory` uses inodes as `Files` promises them, and `FileTable` counts what
  `InodeCache` calls `ip->ref` and `Pipe` the open flags.
* `MCFiles`, `MCStore` and `MCServices` put parts that share nothing else side by side.
  **A behaviour is one of one part** (the variable `layer` or `part`, fixed by the
  initial state); the others stay in one of their initial states.  This is only a way to
  check several parts in one run: no property relies on it.

Both kernels have most of their files in common, byte for byte; all but `defs.h`,
`proc.c`, `proc.h`, `syscall.c`, `syscall.h`, `sysproc.c` and `trap.c`.  One module
stands for both copies, and where the map in `PROJECT.json` has a definition for a whole
component it names the copy of homework 1.

### Proc

One step is a critical section of `ptable.lock` or `tickslock`, an unlocked access to
the table, or a context switch.  A process is its slot in the table; slot 0 is the null
pointer.  Two places of the code that no other CPU can tell apart are one step.

* `on[c]` is the kernel stack CPU `c` runs on, and `at[c]`, `scan[c]`, `winner`,
  `counter`, `found` are the locals of its `scheduler()`.
* `pc[s]` is where the kernel thread of slot `s` is.  The places in `Switching` are
  inside `sched()`: the state has changed, the CPU is still on the stack, and
  `ptable.lock` is held.  `Swtch` leaves it; `SchedPick` enters a thread and the
  thread's next step (`YieldReturns`, `SleepWakes`, `Wait`, `Forkret`) releases the
  lock, or goes on with it in `wait()`.
* `fork()` is four steps, as its accesses to the table are: `ForkAlloc` (the critical
  section of `allocproc`), `ForkStack`, `ForkCopy` and `ForkStart`, the second and third
  of which may fail for lack of memory and give the slot back without the lock.
* `exit()` is one step: it holds the lock from the wakeup of its parent to `sched()`.
  `wait()` is one step for each turn of its loop, from the scan to the reaping or to
  `sched()`; `wait_stat()` has the same loop.
* `sys_sleep(n)` is `SleepCall` (the test under `tickslock`), `SleepEnter` (take
  `ptable.lock`, release `tickslock`, sleep), `SleepWakes`, `SleepAgain`. `left[s]` is
  `n - (ticks - ticks0)`, which `TimerTick` counts down: the clock itself, which grows
  for ever, is left out.
* The timer interrupts wherever interrupts are enabled.  On CPU 0 it is `TimerTick`
  (count, under `tickslock`), `TimerWake` (`wakeup(&ticks)`), then `Yield` or
  `ExitKilled`; on the others `Yield` or `ExitKilled` at once.
* `get_total_tickets()` is a step per slot, since it reads the table without the lock;
  `Draw` is any number that `get_random()` may give.

Abstracted: process images (`Vm`), trap frames, files and directories of a process (they
are closed in `exit()` before the lock is taken; `FileTable`), names, the ticks counted
for `wait_stat`, `random_int[]` (`Draws`).

### RoundRobin

The kernel of homework 1, of which only `proc.c` differs in what matters here.  A step
is a critical section of `ptable.lock`: `scheduler()` takes it for a whole round, so a
step of the scheduler is what it does up to the next `swtch()`, and `sched()` gives the
lock to the scheduler of the CPU.  `ScanFrom` is the rest of the round.  `watched` is
any one slot, chosen at the start, and `overtaken` counts for each other slot how often
it was chosen while `watched` stayed `RUNNABLE`: they are read by no action.

### Spinlock

A thread is a process or the scheduler of a CPU, and `thread[c]` the one on CPU `c`.
`doing[t]` is what it does, `frames[t]` what interrupts have broken off.  `ncli` and
`intena` belong to the CPU, as in `struct cpu`; `sched()` saves and restores `intena`,
`kept[p]` meanwhile.  Interrupts may come at any step on a CPU with `IF_on`.  What a CPU
does with interrupts off on its own variables is one step with what precedes it.  In
which order locks are taken is not this module's affair.

### Log

One step is a critical section of `log.lock` or one disk write (the blocks of this file
system are one sector).  `home`, `logblk` and `hdr` are the disk; `lh` is the header in
memory and `lh.n` its length; `buf` and `dirty` are what the buffer cache holds, and
`Recycle` the loss of a clean buffer at any time. `LogWrite` is the change of a block up
to the check that `log_write()` makes before it takes the lock, `LogAppend` the rest.
`Crash` is possible in every state, and `ReadHead` then starts the recovery, which uses
the same `InstallTrans` and `Erase` as a commit.

`OpBlocks` is the most blocks one call writes; the code states it as `MAXOPBLOCKS` and
`filewrite()` does not keep to it (section 5).  `FileSystem` is what a read finds; while
the kernel is down it is what recovery will make of the disk. `Save` of `LogStore`, the
moment at which system calls become permanent, is `WriteHead` and nothing else.

### Cache and InodeCache

A step of `Cache` is a critical section of `bcache.lock` or of `idelock`.  `lru` gives
each buffer its place in the list, `ToFront` is what `brelse()` does to it, and `bget()`
recycles the last buffer that is neither busy nor dirty.  `bread()` of a buffer that is
not valid, and `bwrite()`, queue the buffer in `idequeue` and sleep; the disk finishes
the first request at any time, and `ideintr()` wakes its process. `bget()` sleeps on a
busy buffer and then starts over, since the buffer may be another block's by then.  A
process uses one buffer at a time.

A step of `InodeCache` is a critical section of `icache.lock` or the use of an inode's
disk block.  `iput()` of a last reference without links is several steps: it marks the
inode busy, lets go of `icache.lock`, truncates and frees the disk inode, and takes the
lock again.  `ialloc()` may meanwhile take the same inode, and `iget()` the entry's
number again.  A process has one inode in hand besides the one it makes (`task`
"create", "undo": `sys_link()` counts a link before it enters it).  Which directory an
entry is in does not show here: `Directory` has that.

### Directory

A step is what a call does while it holds an inode's lock, up to the next lock or
`iput()`.  The file system is a map from inodes and names to inodes; a call is a pair of
paths, from `Request`.  `owner` is who holds an inode's lock, `Wants` what a process
waits for.

### FileTable, Content

`FileTable` counts: `fref` in `struct file`, `uses` in what files stand for.  `arg`,
`obj`, `ff` are the locals between two critical sections, so that `fork`, `exit` and
failing `open` and `pipe` are interleaved with everything else.  `sys_pipe()` takes its
descriptors one by one (`PipeFd0`, `PipeFd1`), and gives the first back if there is no
second.  The second part of the module (`IOSpec`) is apart from the first and has the inode lock, the shared `off` and
the pieces of `filewrite()`.  `Content` has blocks of few bytes, one direct and an
indirect block with two more, and `balloc()` that may fail in the middle of a write.

### Pipe, Console, Shell

For a pipe, `p->lock` is held over several steps because `kill()` does not take it, so
that a kill can come between the test of `killed` and the sleep.  A byte is a step.
`nread` and `nwrite` count modulo `UINT`, a multiple of `PIPESIZE` as 2^32 is of
512.  `CloseRead` and `CloseWrite` are `fileclose()` on an end: only the last descriptor
   reaches `pipeclose()`.  `Console` is built alike: its three indices count modulo
   `Wrap`, and an interrupt holds `cons.lock` for the whole of a key.

A step of `Shell` is one system call of the shell or of a child of it, with the failures
of `fork()` and `pipe()`; which descriptors are left open where is what makes a pipeline
end.

### Vm and Umalloc

A step of `Vm` ends where a page is taken from the free list or goes back.  `goal` and
`at` are the locals of `allocuvm()` and `copyuvm()`, so that two processes interleave in
them and memory may run out under both.  `Lost` is what is neither free nor in a page table
nor a kernel stack: it is computed, and no action counts it.  A process that follows the
null pointer of `uva2ka()` (section 5) is `wild` from then on.  The heap of `Umalloc` is an array of units; a
step is one turn of a loop.

### Programs

`Sort`, `Calculator`, `RunLength`, `Parser`, `Mkfs` and `Strings` are
algorithms, each a state machine where its program reads in pieces or runs threads,
compared with a definition of its answer to every input.  Where the answer is not what
the user wants, the definition says what it is instead (section 5).

## 3. What the runs check

| run | instance | what it shows |
|---|---|---|
| `proc_safety` | 2 CPUs, 3 slots, 3 pids, sleeps of 1 tick, `kill` of pid 2, allocations may fail | every safety invariant of `Proc`; `Proc` implements `ProcTree` |
| `proc_live` | 1 CPU, 3 slots, 3 pids, sleeps of up to 2 ticks, `FairSpec` | no starvation, killed processes exit, sleeps end |
| `proc_orphans` | 1 CPU, 4 slots, 4 pids, `FairSpec` | an orphan is reaped, also when it exits before or after its parent |
| `store` | the log: 2 processes, 3 blocks, 2 values, `LOGSIZE` 4, `MAXOPBLOCKS` 2; files: 4 blocks of 2 bytes, 4 calls; memory: 2 processes, 6 to 16 pages of 2 bytes, 2 to a page table, `sbrk(7)` and `sbrk(-3)`, 6 calls; heap: 10 units, 3 allocations of 2 to 4 | what is stored is kept: through crashes, through failing allocations, for each file, process and block of the heap |
| `files` | 18 layers, below | caches, inodes, names, references, locks, the round robin, and what the machine and the programs compute |
| `services` | pipe: a reader and a writer, a ring of 2, counters modulo 4, calls of up to 2 bytes; console: ring of 2, indices modulo 4, reads of up to 2; shell: 6 processes, two command lines; fairness | `Pipe` implements `Fifo`, `Console` implements `Tty`; no lost wakeup; readers, writers and command lines end |
| `proc_boot`, `proc_kill_zero`, `log_full`, `log_filewrite`, `pipe_killed`, `dir_dotdot` | | the disagreements of section 5 |

**Bounds.** `MaxPid` stops `fork()` once so many pids are used; with 3 pids a parent, a
child that becomes an orphan and `init` meet, and a pid left behind by a failed `fork()`
is met again.  `proc_orphans` has a fourth generation, so that a process is an orphan
while `init` has another child to wait for.  Sleeps of 2 ticks are woken once too early
and go back to sleep.  Two CPUs are what every race in this code needs: at most one
thread is on each side of a lock, and a third CPU would wait for it.  The liveness runs
count on one CPU: with two, a process could be run by a CPU that has drawn and halted at
any rate, which says nothing about the lottery.  Tickets are all the same, as `fork()` copies
init's to everybody: 2 in `proc_live`, so that a counter passes the winner without
meeting it, and 1 in `proc_safety` and `proc_orphans`, where how the winner is counted
changes nothing else.  Pid 2 is init's first shell, running, dead and reaped;
`proc_kill_zero` has pid 0.

In `store`, the log has space for two calls of two blocks, and the block that a finished
call has left there makes the next one wait; three blocks let two calls share one
("absorption").  `NLOG` is `LOGSIZE`,
as `mkfs.c:29` has it.  A file of one direct and two indirect blocks in a file system of
4 lets two files compete for the last block in the middle of a `writei()`.  A process of
9 bytes has three page tables of two pages, and a program of 4 bytes with its stack has
two.  Of 16 pages two processes that grow, `fork()` and `exec()` at once leave one page
where two are needed, again and again: a call for memory fails or loses a page at every
point, two pages in a row are lost so that a page table is missing in the middle,
`loaduvm()` meets an entry that was never filled, and six calls are enough for a page to
stay behind above the size and for the next `sbrk()` to find it.  With 13, 8 and 6 pages
`fork()`, `exec()` and `sbrk()` fail from the first call on (`MCMemory`).  `MaxCalls` bounds
the calls and stores, `Increments` what `sbrk()` is asked for.  The run is reduced by the symmetry of the log's processes,
blocks and values: no action and no part of `LogStore` tells them apart, and no other
part of the run has them.

In `files`:

| layer | instance |
|---|---|
| cache, inodes | 2 processes; 2 buffers for 3 blocks of 2 values; 2 entries and 2 inodes, up to 2 links |
| directories | 2 processes, 3 inodes, names `a` and `b`, the 7 calls of `Requests`, 2 links |
| files, fileio | 2 descriptors each, 3 files, an inode and a pipe; pieces of 2, a file of 3, calls of up to 3 |
| locks | a process and two schedulers on 2 CPUs, `ptable.lock` and one other lock, interrupts that do not nest twice |
| roundrobin | 3 slots, 2 CPUs, the last slot watched |
| boot | sectors of 2, kernels of one or two segments (`MCSegments`), 3 CPUs |
| keyboard, screen | up to 2 keys held and 3 codes on the wire; 2 columns, 4 rows |
| draws | a table of 3 numbers, 4 draws, 2 processes |
| calculator | keys `-`, 1, 2, 7 and 8, up to 4 for a number: 127, 128, -128 and -128 / -128 are met, and 32767 cannot be passed; `-` alone is 0 |
| sort, rle | texts of up to 6, cut by reads of 1 or 2, room for 2 numbers; 4 threads from 9 letters on, inputs of up to 9 |
| parser | lines of up to 4 tokens, and those of the commands in `MCTrees`; 3 arguments |
| mkfs, grep, strings | blocks of 2 cells and up to three files; `grep` with a buffer of 2, patterns of up to 3 (`MCPatterns`) and texts of up to 4; strings of 5 cells, words of 8 bits |

Each is the smallest in which what makes the layer hard happens: fewer buffers than
blocks, an entry used again while another process still waits for its inode, a call of
`filewrite()` in two pieces, a second lock under the first.  No call of `Requests`
walks through `".."`: `dir_dotdot` shows what happens when one does.  What the theorems of
section 4 state holds for every size of these layers.

In `services` a ring of 2 with one byte in it fills in the middle of a call, and counters modulo 4 wrap
after two rounds; a pipe of the shell has room for one byte, so that writers wait for
readers, and the processes left (`free`) are enough for the command line or too few.

**Deadlock** is checked in `proc_live`, where the clock goes on, and in `log_full` and
`log_filewrite`, where the system may always crash.  It is off elsewhere because the instance may stop: `init` exits and panics when `fork()`
fails, every end of the pipe is closed, `MaxCalls` are made, a program is done.  What
must not stop is stated as liveness.

**Fairness.** `Proc!FairSpec` says that the CPU goes on executing and the timer goes on
interrupting, in three parts.  A CPU with interrupts off, or in a loop of `wait()`,
takes its next step: weak fairness of `Uninterruptible` and `WaitGoesOn`. The timer
interrupt is latched while interrupts are off, so it comes in the end although it is
disabled again and again: strong fairness of `TimerTick` and `Yield`.  A tick can come
before any step made with interrupts on and disables that step for a while; a CPU that
executes at least one instruction between two ticks gives each process strong fairness
of what it does in the kernel (`KernelWork`, `Scheduler`), and to `init`, whose program
is a loop of `fork()` and `wait()`, of that program too.  Other user programs promise
nothing.

In `services`, where each condition is that of one part: `Pipe`: a process in the kernel
goes on (weak fairness of `InKernel`); one that waits for a spinlock that is free again
and again gets it in the end (strong fairness, within `Proceeds`, of `Wake`: the lock is
an `xchg` loop, which every CPU wins sooner or later); who has the read end keeps
reading, without which nobody would ever drain anything; a killed process closes its
files, as `exit()` does.  `Console`: weak fairness of `Reads`, and strong fairness of
`KeepsReading`, the loop of sh's `getcmd()`; nobody promises that a key is typed.
`Shell`: weak fairness of `ShGoesOn`, what the shell and its children do once a command
line is typed; each of its steps is disabled only by its own process.

**Properties.**  Beside a type invariant for each module:

* `OneCpuPerStack`: `ptable.lock` held across `swtch()`.  `WaitNoLostWakeup`,
  `KilledNotWaiting`, `SleepNoLostTick`: nobody sleeps past the exit, the kill or the
  tick he waits for.  `ParentAlive`: everybody has a parent that can wait.
  `ImplementsTree`: pids, exits and reaping, one for one.
* `SchedulerLoops`: the draw finds tickets.  `RunnableRuns`, `KilledExits`,
  `SleepReturns`, `OrphansReaped`: liveness.
* `RoundRobinRight`: while a process is `RUNNABLE`, no other is chosen more often than
  there are CPUs; who sleeps in `wait()` has no zombie and was not killed.
* `LocksRight`: locks exclude, no interrupt is taken between `pushcli()` and `popcli()`,
  interrupts come back on where they were on, and no panic of `spinlock.c` or `sched()`
  is reached.
* `CommitAlone`, `SleepersMustWait`, `LogSpace`, `ImplementsStore` for the log.
  `ImplementsStore` says in particular that what a crash leaves (`Recovered`) is at all
  times the file system at a moment when no call was half done.
* `SleepersWoken`, `BlocksAreKept`, `LockedCurrent`, `InodesAreFiles` for the caches;
  `FilesAreBytes` for what is in a file.
* `NoLockCycle`, `NamedLive`: directories do not deadlock, and name what is there.
  `FilesRight`: what a descriptor names is open, and every reference is somebody's.
* `MemoryIsOwn`: a process sees its own memory: what it stored, all of its parent's after
  `fork()`, all of the program or nothing new after `exec()`.  Pages are lost only where
  no page is left or the kernel panics.  A page may be missing below the size of a
  process only if one was lost, and a page may stay behind above its size only if
  `deallocuvm()` passed over a page table that is missing right before it.
* `HeapTiled`: `malloc()` and `free()` neither lose nor share a unit of the heap.
* `SleepersMustWait`, `FreedUnused`, `ImplementsFifo`, `FullDrains`, `ReadsEnd` for the
  pipe; `ImplementsTty`, `LinesRead` for the console; `CommandEnds` for the shell.
* `MachineRight`: `bootmain()` loads the segments, CPUs start one by one, keyboard and
  screen, random numbers.
* `ProgramsRight`, for every input within the bounds:
  * `SortRight`: each number is there once, however `read()` cuts the file: as far as the
    read goes that it begins in, with stale digits behind it only where a longer read
    came before.  It is printed in order, and overflows if and only if there are more numbers
    than room.
  * `RunLengthRight`: `rle.c` can be undone, so can each thread of `prle.c`, in any order;
    `go()` joins them into what `rle.c` prints for inputs that are `Mergeable`, through
    any number of boundaries.  On the others it is wrong (section 5), and only the last
    chunk is as it should be.
  * `CalculatorRight`: `"Error!"` if and only if `Refused`, else the result, also beyond
    the borders, and the sign of -a / -b as the program prints it.
  * `GrepRight`: the lines that match, unless one is longer than the buffer: then a line
    that matches is lost or loses its beginning, and none is printed that does not match,
    unless `^` is asked for.
  * `ParserRight`, `ImageRight`, `StringsRight`, `OffsetsRight`.

Each has in `PROJECT.json` a mutant of the code (a dropped guard, a missing wakeup, an
off-by-one) under which TLC finds it violated.

## 4. What is proved

Every theorem holds for all values of the constants that satisfy the named assumptions
of the module that declares them (sizes are positive, model values are not members of
the sets they complete), and `PROJECT.json` lists each.

**The process table.** `ProcProofs` proves, for every `NPROC`, `NCPU`, `MaxPid`,
`MaxSleep`, every set of tickets and of pids to kill, with or without allocation
failures,

| theorem | property |
|---|---|
| `KernelInvariant` | `[]KernelInv`, from which the others follow |
| `TypeCorrect` | `[]TypeOK` |
| `StacksExclusive` | `[]OneCpuPerStack` |
| `StacksAllocated` | `[]StackAllocated` |
| `NoLostExit` | `[]WaitNoLostWakeup` |
| `NoKilledWaiter` | `[]KilledNotWaiting` |
| `NoLostTick` | `[]SleepNoLostTick` |
| `ParentsAlive` | `[]ParentAlive` |
| `EmbryosOwned` | `[]EmbryoOwned` |
| `PidInvariant` | `[]PidInv` |
| `TableIsTree` | `ImplementsTree` |

(`StackAllocated`: a process that has begun has a stack; `EmbryoOwned`: a slot being
built has one owner.)  None of the properties is inductive by itself: that two CPUs are
never on one stack depends on who holds `ptable.lock` in a context switch, and that on
what the threads before and after it were doing.  `KernelInv` (`ProcInvariants`) adds

* `ScanInv`: a CPU on a process is the one whose scan stopped at it; a CPU in the scan
  and on no process holds `ptable.lock`;
* `SwitchInv`: a process on a CPU is `RUNNING`, or has just given up the CPU; wherever
  it is in `sched()` or `forkret()` that CPU holds `ptable.lock`.  A scheduler that
  would pick a process still on another CPU would thus need a lock that the other CPU
  holds;
* `StackInv`, `ThreadInv`, `ForkInv`: where the threads of unused, new and dead slots
  are, and what `fork()` may rely on between its critical sections, also when the timer
  takes the CPU from it (`Place` looks through a forced `yield()`);
* `InitInv`, `BootInv`: `init` is alive from `userinit()` on and nobody is his own
  parent, hence `exit()` always finds somebody to hand its children to;
* `TickInv`: who holds `tickslock` on the way into `sleep()` and in the tick handler;
  this is what keeps a tick out of the gap between `sys_sleep()`'s test and its sleep.

`ProcProofs` has one lemma for each action (`ForkCopyKeeps`, `ExitKeeps`, ...), with a
step for each conjunct, `NextKeeps` combines them, and the theorems follow by the
invariance rule.

`TableIsTree` is the refinement.  A pid is `none` from `nextpid` on, what the state of
its slot says while a used slot holds it, and `gone` otherwise; this reads the same
from every slot only if used slots hold different pids, which is `PidInv`.  `TreeView`
puts the mapping in terms of slots (`ViewNone`, `ViewGone`, ...), `SlotKept` says which slots a step leaves alone, and
each action of `ProcTree` has a lemma: `UserinitBoots`, `TakeSlotBegins`,
`GivenBackAborts` (both ways out of memory), `ForkStarts`, `ExitLeaves`, `ReapCollects`.
Everything else is `Quiet`: it hands out no pid and moves no process between new, alive
and dead.  `KernelInv` is needed throughout: the parent of a living process is alive
(`ParentAlive`), so that reaping a zombie takes nobody's parent away, and a process in
`exit()` is not in `fork()` (`ForkInv`).

**The log.** `LogProofs` proves, for every number of processes and blocks, every
`LOGSIZE` and `MAXOPBLOCKS`,

| theorem | property | assuming |
|---|---|---|
| `CommitsAlone` | `[]CommitAlone` | |
| `NoLostSpace` | `[]SleepersMustWait` | |
| `SpaceSetAside` | `[]LogSpace` | |
| `LogTypes` | `[]TypeOK` | `Polite` |
| `CallsAreAtomic` | `ImplementsStore` | `Polite` |

where `Polite` is `OpBlocks <= MAXOPBLOCKS`: no call writes more than `begin_op()` sets
aside for it.  Without it the transaction may outgrow the log and nothing is left to
show; `log_filewrite` is a run in which it fails.  The inductive invariant (in `Log`)
has two halves, and one lemma for each half and each action.

* `ControlInv` and `SpaceInv`: who is inside a call, who commits, what each call has
  written.  `LogSpace` is a count: the blocks logged, with `MAXOPBLOCKS` for every call
  inside, less the logged blocks of these calls, stay below `LOGSIZE`.  It is inductive
  in this form only, since a block logged by two calls takes its room once; that the log
  itself fits (`Fits`) follows from it by an injection of the logged pairs into
  `outstanding * MAXOPBLOCKS`.
* `DataInv`: what the disk, the log and the cache hold in each phase.  A buffer that
  differs from the disk is dirty or is being changed; up to `WriteHead` the blocks
  behind `tail` are in the log as they are in the cache (`WritePhase`); after it the
  blocks behind `tail` are home and those ahead of it are in the log and pinned
  (`InstallPhase`), which is also what a recovery finds.

For the refinement each action has a lemma (`WriteHeadStep`, `EraseStep`, ...) that it
is a step of `LogStore` or changes nothing there: `InstallTrans` leaves `Recovered`
alone since the header still names the block it writes, `Erase` since every block is
home.

**The round robin.** `MachineProofs`, for every number of slots and CPUs:
`RoundInvariant`, `RoundTypesHold` (`[]RoundTypeOK`), `RoundRobinIsRight`
(`[]RoundRobinRight`).  The invariant says where each context is (`CpuInv`: on one CPU
or in its slot), what `fork()` has reserved (`ForkInv`), that children have living
parents (`ParentInv`), that waiters are served (`WaitersServed`), and, for fairness,
`TurnInv`: each CPU may choose another process once before its round comes to the
watched one, so `overtaken[s]` and the CPUs that have still to pass `s` (`Passing(s)`)
together are at most the CPUs there are.  A bound on `overtaken` alone is not inductive.

**Spin locks.** `MachineProofs`, for every number of processes, CPUs and locks:
`SpinInvariant` and `LocksAreRight` (`[]LocksRight`).  `PlaceInv` says that each thread
is on one CPU or on none; `FrameInv`, that what an interrupt broke off holds no lock and
had interrupts on; `OffInv`, that a thread in `swtch()` holds nothing but what it hands
over and has kept its `intena`; `LoopInv`, that `scheduler()` takes `ptable.lock` only;
`CountInv`, that `ncli` is the number of locks that the CPU's thread holds or is taking;
`MaskInv`, that interrupts are off while it is positive and `intena` is what they were
before; `LockInv`, who has which lock.  That the panics are not reached follows from the
count.

**Pipes.** `PipeProofs`, for every number of readers and writers and every size of the
ring: `PipeInvariant`, `NoLostPipeWakeup` (`[]SleepersMustWait`), `FreedByTheLast`
(`[]FreedUnused`). `LockInv` says who holds `p->lock`, `EndsInv` that who is inside a
call has his end open, `SleepInv` what a sleeper may count on: the ring is still full
(or empty) and the other end open, or somebody who holds the lock will call `wakeup()`
before he lets go.  `RingIsQueue` (`ImplementsFifo`): the pipe implements `Fifo`, whose
queue are the `(nwrite - nread) % UINT` bytes from `nread` on.  That there are at most
`PIPESIZE` of them (`Fits`) is inductive; the rest is arithmetic of remainders: places
less than `PIPESIZE` apart differ, and a counter that wraps around stays at its place
because `UINT` is a multiple of `PIPESIZE`.  Readers may also be left behind by a writer that was killed
(`KilledWriter`), which is the run `pipe_killed`.

**The buffer cache.** `StoreProofs`, for every number of processes, buffers, blocks and
values:

| theorem | property |
|---|---|
| `CacheInvariant` | `[]CacheInv`, from which the others follow |
| `CacheTypesHold` | `[]CacheTypeOK`, and `lru` holds each buffer once |
| `BufferSleepersServed` | `[]SleepersServed` |
| `CacheImplementsBlocks`, `BlocksAreKeptAlways` | `ImplementsBlocks`, `BlocksAreKept` |

`HoldInv` says that a process inside has a busy buffer of the block it asked for, which
no other has; `OneBuffer` that a block has one buffer: `bget()` searches and recycles in
one critical section, and this is what makes it right.  `QueueInv`: the disk's queue has
no repetition, and its requests are those of the processes asleep in `iderw()`.
`DataInv`: a valid buffer that is not dirty has what the disk has.  `AsleepInv`: who
sleeps in `bget()` waits for a busy buffer.  In the refinement a block's abstract
contents are those of its valid buffer, or else of the disk, and its user the process in
the middle of using it; one lemma for each action says which step of `Blocks` it is, or
that it is none.  Recycling is none, because only a buffer with what the disk has is
recycled.

**The inode cache.** `StoreProofs`, for every number of processes, entries, inodes and
links:

| theorem | property |
|---|---|
| `InodeInvariant` | `[]InodeInv`, from which the others follow |
| `InodeTypesHold` | `[]InodeTypeOK` |
| `LockedIsCurrent` | `[]LockedCurrent` |
| `InodeSleepersServed` | `[]LockHeld` |
| `NoSleeperForgotten` | `[]SleepersWoken`, of both caches together |
| `InodesImplementFiles`, `InodesAreFilesAlways` | `ImplementsFiles`, `InodesAreFiles` |

`RefInv`: `ip->ref` is the number of processes that hold the entry, an exact count.
`EntryInv`: an inode has one entry that is in use.  `BusyInv`: `I_BUSY` has one holder.
`LinkInv`: the links on the disk are the entries that name the inode and the calls that
have counted a link they have still to enter or to take back (`Owing`).  `CopyInv`: a
valid copy is that of the disk.  `AllocInv`: an inode is allocated exactly while
somebody names or uses it, and whoever creates it has it alone.  `FreeInv`: while
`iput()` frees an inode nobody else has it in hand, unless to create it again. These
need each other.  What `iput()` frees is freed by the last holder because the count is
exact; that nobody finds the inode meanwhile needs the links; that they are exact needs
that valid copies are current; and that a new `ialloc()` of the same number does not
find a valid old copy needs the flags that `iput()` clears.  That no process calls
`iget()` before an inode is freed and `ilock()` after it was allocated again is `RefInv`
with `AllocInv`.  In the refinement an inode's owner is the process that has it locked
through any entry, and each action has a lemma.

**Open files.** `FileProofs`, for every number of processes, descriptors, files, inodes
and pipes: `FileInvariant`, `FileTypesHold` (`[]FileTypeOK`), `FilesAreRight`
(`[]FilesRight`).  `FilesRight` speaks of the moments between calls; the invariant has
to say who owns each reference in the middle of them.  `RefsOf(p, f)` is a set: the
descriptors of `p` that name `f`, with 0 for a reference that a call has in hand, and
without one of the descriptors after `sys_dup()` has filled it and before `filedup()`
has counted it.
Between the two descriptors of `sys_pipe()` the first file has its reference in the
descriptor already, the second still in hand.

* `CountInv`: `f->ref` is the size of `Refs(f)`, over all processes; `UsesInv`: the uses
  of an inode or a pipe end are the files that stand for it, the calls of `fileclose()`
  that have still to release it, and the calls of `open()` that have it in hand.
* `MadeInv`: a file that is being made has one reference, so that nobody else can close
  it before its type is set; `NamedInv`: every other descriptor names a file that stands
  for something.  `open()` fills the descriptor before the type: only the process itself
  could use or copy it by then, and it is still in the call.
* `CallInv`, `PlacedInv`, `ChildInv`: what a call has in hand at each place, and that
  each `fork()` has a child of its own, whose descriptors nobody else fills.

The last reference is released by a process that has it alone (`RefCounted`: a set of
one member), hence what `fileclose()` takes out of the file is no descriptor's any more.
`Inherit` is the lemma that a step of `p` keeps what the others rely on as long as it
changes files that are nobody else's, or adds references; each action has a lemma.

**Directories.** `DirectoryProofs`, for every number of processes, inodes and names:

| theorem | property | assuming |
|---|---|---|
| `DirectoryInvariant` | `[]DirInv`, from which the others follow | `NoDotdot` |
| `NamesAreLive` | `[]NamedLive` | `NoDotdot` |
| `NoDeadlock` | `[]NoLockCycle` | `NoDotdot` |
| `InodesAreThere` | `[]IlockFindsType` | `NoDotdot` |

where `NoDotdot` is that no call walks through `".."`; the last name of `unlink()`, which
refuses it, and the new name of `link()` may be `".."`.  The calls of the run `files`
are of this kind.  The hypothesis is not a convenience: `dir_dotdot` is a run that uses
`".."` and violates `IlockFindsType`.  From a directory that was removed, `".."` is the
only name that is not an entry counted by somebody's link, and once a call has walked
through it none of what follows is left.  The invariant has these parts:

* `RefInv`: `ip->ref` is at least the number of references that processes have: their
  current directory, their file, the inode the walk is at, the one the call is about,
  and those it is about to drop (`Refs`).
* `ClaimInv`: `nlink` is at least the number of those who count on a link (`Claims`): the
  entries that name the inode, the subdirectories whose `".."` it is, a `link()` or
  `unlink()` that has still to enter its name or to uncount it, and for the root `/`
  itself.
* `FreeInv`: an inode is freed only when both counts are 0, and has no entries then.
* `TreeInv`, `RankInv`: a directory has one name, and there are ranks that grow from a
  directory to those it names.  `mkdir()` keeps this because a new inode has no entries: it
  is given the rank after its directory's.
* `FillInv`: an inode that `create()` has made and not yet entered has no links and no
  entries, and nobody else refers to it.
* `UnlinkInv`: what `unlink()` has found under the last name is still there when it has
  the second lock, because it has kept the directory locked.
* `OwnerInv`, `CallInv`: who has which inode locked, and what a call has in hand at each
  place.

`Cardinality` is counted by lemmas on one element that comes, goes or is replaced
(`SizeMore`, `SizeWithout`, `SizeSwapped`); `RefsMoved`, `RefsTaken` and their like say
what a step does to references when it only moves, takes or drops some, and each action
then has a lemma (`NamexTurnStep`, `CreateFillsStep`, `UnlinkErasesStep`, ...).
`NamedLive` follows since entries are claims.  For `NoLockCycle`, a call in a circle holds
a lock while it waits for another, so it is a `create()` or an `unlink()` between its two
locks.  It is no `create()`: nobody can hold, and nobody else refer to, the inode that one
waits for (`FillInv`).  An `unlink()` in it waits for an entry of the directory it has
locked, and the next call in the circle has that one locked as its own directory: the
ranks of their directories grow from each to the next, which a finite set of inodes does
not allow.  That `create()` lets go of its directory before it locks a file it has found
(`sysfile.c:228`) is needed here.

**The heap of a program.** `HeapProofs`, for every size of the heap, of `morecore()`'s
requests and of the blocks asked for: `HeapInvariant`, `HeapTypesHold`
(`[]HeapTypeOK`), `HeapIsTiled` (`[]HeapTiled`).  `HeapTiled` speaks of the moments
between calls and computes the free list by following it; the invariant says in the
middle of a call too that there is a set `F` of headers with

* `Ring(F)`: each points to the next one up, the last to `base`; this is what `free()`'s
  loop relies on when it looks for the place of a block (`Between`), and the only reason
  why looking at the two neighbours finds all there is to join;
* `Tiles`: the blocks of the program, those of `F` but `base`, and the one that
  `morecore()` is about to free have room for a header, do not overlap and leave no gap;
* `Apart(F)`: no two free blocks touch, which `base`, of size 0, is exempt from;
* `CallAt(F)`: what a loop has in hand is on the list, and `realloc()` still has the old
  block while it looks for a new one.

`Place` is the case with some work: whichever of the two neighbours are joined, what
becomes one block reaches from `at` to `end`, and `MergedTiles` says that this is enough.
That the list that `OnList` follows is `F` (`OnListIs`) takes two inductions on the turns
of the walk, made by a smallest counterexample: no turn leaves `F`, and an address is
reached after at most as many turns as it is high.

**Only model-checked.**  Liveness under fairness and everything that needs `ENABLED` is
outside the prover: `RunnableRuns`, `KilledExits`, `SleepReturns`, `OrphansReaped`,
`FullDrains`, `ReadsEnd`, `LinesRead`, `CommandEnds`.  So is induction over data: what
`ProgramsRight`, `MachineRight` and `FilesAreBytes` say of computations on texts, and
the lines of `ImplementsTty`; and `MemoryIsOwn`, whose page tables are walked by the
recursion of `Deallocated` (section 6).  Of the type invariants of composed modules, the parts of `Proc`,
`RoundRobin`, `Spinlock`, `Log`, `Pipe`, `Cache`, `InodeCache`, `FileTable`, `Umalloc` and
`Directory` (in `DirInv`) are proved, those of the other modules are not.
`RECURSIVE` operators are in `Strings` and `Parser` only, which no proof uses.

## 5. Disagreements between the code and what it says

| run | what TLC finds |
|---|---|
| `proc_boot` | `main()` starts the other CPUs before `userinit()`: a CPU that enters `scheduler()` first counts 0 tickets and divides by it (`proc.c:408`), although "Scheduler never returns.  It loops" (`proc.c:353`). |
| `proc_kill_zero` | `kill(0)` marks the first `UNUSED` slot (`proc.c:558` does not look at the state), and `allocproc()` never clears `killed`: the next process in it is born killed, against `proc.h:79`. |
| `log_full` | The assertion of `log_write()` (`log.c:195`) is made before the lock is taken and counts the header that `mkfs` includes in `nlog`: two calls pass it together and the transaction runs over the end of the log. |
| `log_filewrite` | A turn of `filewrite()` writes up to 17 blocks (`file.c:116`: 13 of data, one more when not aligned, the bitmap, the indirect block, the inode) where `begin_op()` sets 10 aside; with two at a time `log_write()` panics, against "write a few blocks at a time to avoid exceeding the maximum log transaction size" (`file.c:110`). |
| `pipe_killed` | A writer that is killed while the pipe is full again gives up (`pipe.c:79`) without waking the readers of what it wrote: they sleep on a pipe that is not empty, against the loop of `piperead()` (`pipe.c:97`). |
| `dir_dotdot` | `unlink()` removes a directory that is somebody's current directory, and then its parent.  The entry `..` of the first names an inode that is free by then: `namex()` takes it, and `ilock()` panics (`fs.c:274`) or, if it was allocated again, walks into another file. |

Met while modelling, and not a run of their own:

* `create()` and `link()` in a directory that was removed after it was looked up make an
  inode that no path leads to.
* `allocuvm()` does not look at what `mappages()` returns (`vm.c:220`, against the
  comment at `vm.c:201`), and `copyuvm()` loses the page it has copied when `mappages()`
  fails; `setupkvm()` loses its pages when it fails.  `growproc()` takes a new size of 0
  for a failure, after the memory is gone.  `deallocuvm()` steps over a page table from
  an address that is not aligned to it (`vm.c:240`).  Together: when pages are lost for
  want of a page table, a later shrinking can step over a page beyond the missing table
  and leave it mapped above the size of the process; it is readable there, and growing
  over it meets `panic("remap")` (`vm.c:76`).  The run `store` reaches all of this.
* Where allocations fail in the middle of `exec()`, `loaduvm()` (`vm.c:187`) takes an
  entry that was never filled for physical page 0 and reads the program into it, and
  `uva2ka()` (`vm.c:317`) reads through a null pointer when the stack has no page table:
  it then finds page 0 of the program that calls `exec()`, and takes a word of it for the
  entry.  `clearpteu()` (`vm.c:276`) has the test that it lacks.
* `sys_sleep()` of a negative number never ends (`sysproc.c:49`).  The `stime` of
  `wait_stat()` is never counted (`proc.h:86`), and `retime` includes sleeping.
* `kill()` between the test of `killed` and the sleep of `piperead()` is noticed only
  when the pipe wakes the reader (`pipe.c:98`).
* `get_random()` on two CPUs at once loses numbers of its table.
* `bootmain.c:83-85` says of the bytes that are read too much that it "doesn't matter":
  it does when a segment that is zeroed at its end shares a sector with one loaded
  before.
* `kbd.c` forgets SHIFT when the first of two SHIFT keys held is let go; its maps have
  `KEY_HOME` at 0x97 (`kbd.h:68`) instead of 0xC7.
* `malloc()` of nearly 2^32 bytes wraps to a small block.  `memmove()` of `ulib.c`
  copies upwards only.
* `sort.c` drops what follows the end of a read of the number that it cuts, takes digits
  of the read before if they were longer, and has no sign; more than 512 numbers run over its array.
* `prle.c` merges wrongly where a boundary of two chunks is also one of two runs, where
  the first chunk has more than one run, or another before the last more than two
  (`prle.c:141-205`; `Mergeable` in `RunLength` is its negation): it drops runs, prints them with
  the letters of another chunk, or twice.  It makes its arrays too small for short chunks.
* `calc.s`: (-4)/(-4) shows -1 (`calc.s:241`) and quotients of 0 a sign; numbers below -128
  pass the range test (`calc.s:226` jumps on "greater"), and those above 32767; an empty number, or a `-` that is not first, loses the
  return address.
* `sh.c`: `a & b` is a syntax error, and of two redirections of one descriptor the first
  one wins.
* `grep.c`: of a line longer than its buffer, or that a pipe gives in pieces, the
  beginning is lost; a last line without newline is never printed.
* `mkfs.c`: the size of the root directory is rounded to one block more than it has, and
  nothing stops more inodes or blocks than there are.

## 6. What is not modelled, and the plan

Not modelled: the mode switches in assembly, `vectors.S`, the set-up of the interrupt
controllers and the port I/O of the drivers, `cmostime()` (hardware state); the fetching
of system call arguments, the ELF header (one choice of success or failure); the formats
of `cprintf`, `stati`, `readsb` (fixed copies); `gettoken()`'s characters,
`nulterminate()` and `cd` in `sh.c`; the times that `wait_stat()` returns, which nothing
reads but the program that asks; a read error of the disk; `usertests.c`, `forktest.c`,
`stressfs.c`, which test the kernel, and the programs that pass their arguments to one
system call.

Next: `MemoryIsOwn` in memories of any size.  A proof needs that a page is on the free
list, in one place of one page table, one kernel stack, or lost, and never in two of
these; `Deallocated` walks a page table with steps of one page or of `SPAN`, so it has to
begin with what that recursion computes.
