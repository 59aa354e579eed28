--------------------------------- MODULE Vm ---------------------------------
(***************************************************************************)
(* User memory: the page allocator of kernel/kalloc.c, the page tables of  *)
(* kernel/vm.c, and the calls that change them (exec(), sbrk(), fork(),    *)
(* exit() with wait()).  A step ends where a page is taken from the free   *)
(* list, or where pages go back to it: in between, a page table is seen by *)
(* one process only.  A page of the kernel's part of a page table (one,    *)
(* here) comes and goes with its page directory.                           *)
(***************************************************************************)
EXTENDS Integers, FiniteSets, FiniteSetsExt, Functions

CONSTANTS
    Process,
    NoProcess,     \* not a process
    NPAGES,        \* pages of physical memory
    PGSIZE,
    SPAN,          \* pages that one page table maps: NPTENTRIES
    TOP,           \* the pages below KERNBASE
    TEXT,          \* size of a program
    Increments,    \* bound: what sbrk() is called with
    MaxCalls,      \* bound: system calls made, and stores
    Value,         \* what a program stores in a page
    Zero, Junk, Text, Args     \* what else a page may hold

ASSUME VmAssumption ==
    /\ NoProcess \notin Process
    /\ NPAGES \in Nat /\ NPAGES >= 5 /\ PGSIZE \in Nat \ {0} /\ SPAN \in Nat \ {0} /\ TOP \in Nat \ {0}
    /\ TEXT \in Nat \ {0} /\ TEXT + 3 * PGSIZE <= TOP * PGSIZE /\ MaxCalls \in Nat /\ Increments \subseteq Int

VARIABLES
    phystop,       \* the last page of memory, which stays
    freelist,      \* kmem.freelist: which of its pages kalloc() gives shows nowhere
    page,          \* what each page of memory holds
    pgdir,         \* of each process: its own page table, and the new one it sets up
    kstack,
    vsz,
    vpc,
    np,            \* the child that fork() sets up
    calls,         \* made so far
    goal, at       \* newsz and a (in pages) of allocuvm(); i of copyuvm()

memory == <<freelist, page>>
vmVars == <<phystop, memory, pgdir, np, kstack, vsz, vpc, calls, goal, at>>

KERNBASE == TOP * PGSIZE
Physical == 1..NPAGES
NoPage == 0
UserPages == 0..TOP - 1
Tables == 0..(TOP - 1) \div SPAN
NoPte == [pa |-> NoPage, u |-> FALSE]
NoDir == [dir |-> NoPage, kernel |-> NoPage,
          table |-> [k \in Tables |-> NoPage], pte |-> [i \in UserPages |-> NoPte]]

(* PGROUNDUP() of a size, in pages *)
PagesUpTo(n) == (n + PGSIZE - 1) \div PGSIZE

VmTypeOK ==
    /\ phystop \in Physical /\ freelist \subseteq 1..phystop
    /\ page \in [Physical -> Value \cup {Zero, Junk, Text, Args}]
    /\ \A p \in Process :
          \A d \in {pgdir[p].own, pgdir[p].new} :
              /\ d.dir \in Physical \cup {NoPage} /\ d.kernel \in Physical \cup {NoPage}
              /\ d.table \in [Tables -> Physical \cup {NoPage}]
              /\ d.pte \in [UserPages -> [pa : Physical \cup {NoPage}, u : BOOLEAN]]
    /\ kstack \in [Process -> Physical \cup {NoPage}]
    /\ vsz \in [Process -> 0..KERNBASE] /\ goal \in [Process -> 0..KERNBASE]
    /\ vpc \in [Process -> {"unused", "zombie", "user", "grow", "text", "load", "stack",
                         "args", "embryo", "copykvm", "copy", "copyfails", "panic", "wild"}]
    /\ at \in [Process -> 0..TOP] /\ calls \in 0..MaxCalls

-----------------------------------------------------------------------------
(* kfree() of a set of pages, each filled with junk                        *)
Kfree(s) ==
    /\ freelist' = freelist \cup s
    /\ page' = [x \in Physical |-> IF x \in s THEN Junk ELSE page[x]]

(* kalloc() of a page that then holds v, and of one for a page table if    *)
(* there is none                                                           *)
First == Min(freelist)
Second == Min(freelist \ {First})
Kalloc(n, v) ==
    /\ freelist' = freelist \ (IF n = 1 THEN {First} ELSE {First, Second})
    /\ page' = [page EXCEPT ![First] = v]

Present(d, i) == d.pte[i].pa # NoPage
HasTable(d, i) == d.table[i \div SPAN] # NoPage

(* The pages that deallocuvm() frees from page lo up to hi: where there is *)
(* no page table it goes on SPAN pages further.                            *)
Deallocated(d, lo, hi) ==
    LET from[i \in Nat] ==
            IF i >= hi THEN {}
            ELSE IF ~HasTable(d, i) THEN from[i + SPAN]
            ELSE IF Present(d, i) THEN {d.pte[i].pa} \cup from[i + 1]
            ELSE from[i + 1]
    IN  from[lo]

(* What deallocuvm() leaves *)
Without(d, freed) ==
    [d EXCEPT !.pte = [i \in UserPages |-> IF @[i].pa \in freed THEN NoPte ELSE @[i]]]

(* What freevm() frees *)
AllPages(d) ==
    (Deallocated(d, 0, TOP) \cup Range(d.table) \cup {d.kernel, d.dir}) \ {NoPage}

(* mappages() of the page that kalloc() gives, at i                        *)
Needed(d, i) == IF HasTable(d, i) THEN 1 ELSE 2
Map(d, i, user) ==
    [d EXCEPT !.table[i \div SPAN] = IF HasTable(d, i) THEN @ ELSE Second,
              !.pte[i] = [pa |-> First, u |-> user]]

-----------------------------------------------------------------------------
(* The variables of a function that returns                                *)
Forget(p) == goal' = [goal EXCEPT ![p] = 0] /\ at' = [at EXCEPT ![p] = 0]

VGoto(p, l) == vpc' = [vpc EXCEPT ![p] = l]

(* setupkvm(): when the second page is missing the first is lost.          *)
SetUpKvm(p) ==
    /\ Cardinality(freelist) >= 2
    /\ Kalloc(2, Zero)
    /\ pgdir' = [pgdir EXCEPT ![p].new = [NoDir EXCEPT !.dir = First, !.kernel = Second]]

KvmFails ==
    /\ Cardinality(freelist) < 2
    /\ IF freelist = {} THEN UNCHANGED memory ELSE Kalloc(1, Zero)

(* allocuvm(): the page at a.  It does not look at what mappages() says,   *)
(* which panics where there is a page already.                             *)
AllocPage(p, which) ==
    LET d == pgdir[p][which] IN
        /\ at[p] * PGSIZE < goal[p] /\ freelist # {}
        /\ IF Present(d, at[p])
           THEN Kalloc(1, Zero) /\ VGoto(p, "panic") /\ UNCHANGED <<pgdir, at>>
           ELSE /\ IF Cardinality(freelist) >= Needed(d, at[p])
                   THEN /\ Kalloc(Needed(d, at[p]), Zero)
                        /\ pgdir' = [pgdir EXCEPT ![p][which] = Map(d, at[p], TRUE)]
                   ELSE Kalloc(1, Zero) /\ UNCHANGED pgdir
                /\ at' = [at EXCEPT ![p] = @ + 1]
                /\ UNCHANGED vpc

AllocDone(p) == at[p] * PGSIZE >= goal[p]
AllocFails(p) == ~AllocDone(p) /\ freelist = {}

(* deallocuvm() of p's pages from newsz up to oldsz *)
Dealloc(p, oldsz, newsz) ==
    LET freed == Deallocated(pgdir[p].own, PagesUpTo(newsz), PagesUpTo(oldsz)) IN
        /\ Kfree(freed)
        /\ pgdir' = [pgdir EXCEPT ![p].own = Without(@, freed)]

-----------------------------------------------------------------------------
(* The program: page 0 holds the instructions it executes.                 *)
Running(p) == vpc[p] = "user" /\ Present(pgdir[p].own, 0)

Syscall(p) == Running(p) /\ calls < MaxCalls /\ calls' = calls + 1

Stores(p) ==
    /\ Syscall(p)
    /\ \E i \in UserPages, x \in Value :
          /\ Present(pgdir[p].own, i) /\ pgdir[p].own.pte[i].u
          /\ page' = [page EXCEPT ![pgdir[p].own.pte[i].pa] = x]
    /\ UNCHANGED <<freelist, pgdir, kstack, vsz, vpc, goal, at>>

(* sbrk(): growproc() of n > 0 takes page after page ...                   *)
SbrkGrows(p) ==
    /\ Syscall(p)
    /\ \E n \in Increments :
          /\ n > 0 /\ vsz[p] + n < KERNBASE
          /\ goal' = [goal EXCEPT ![p] = vsz[p] + n]
    /\ at' = [at EXCEPT ![p] = PagesUpTo(vsz[p])]
    /\ VGoto(p, "grow")
    /\ UNCHANGED <<memory, pgdir, kstack, vsz>>

GrowPage(p) ==
    /\ vpc[p] = "grow" /\ AllocPage(p, "own")
    /\ UNCHANGED <<kstack, vsz, goal>>

(* ... until it has all, or gives them back.                               *)
GrowEnds(p) ==
    /\ vpc[p] = "grow"
    /\ \/ AllocDone(p) /\ vsz' = [vsz EXCEPT ![p] = goal[p]] /\ UNCHANGED <<memory, pgdir>>
       \/ AllocFails(p) /\ Dealloc(p, goal[p], vsz[p]) /\ UNCHANGED vsz
    /\ VGoto(p, "user") /\ Forget(p)
    /\ UNCHANGED kstack

(* n < 0: the new size 0 is taken for a failure.                           *)
SbrkShrinks(p) ==
    /\ Syscall(p)
    /\ \E n \in Increments :
          /\ n < 0 /\ vsz[p] + n >= 0
          /\ Dealloc(p, vsz[p], vsz[p] + n)
          /\ vsz' = [vsz EXCEPT ![p] = IF vsz[p] + n = 0 THEN @ ELSE vsz[p] + n]
    /\ UNCHANGED <<kstack, vpc, goal, at>>

-----------------------------------------------------------------------------
(* exec(): a new page table, the program, and two pages for the stack      *)
Exec(p) ==
    /\ Syscall(p) /\ SetUpKvm(p)
    /\ goal' = [goal EXCEPT ![p] = TEXT] /\ at' = [at EXCEPT ![p] = 0]
    /\ VGoto(p, "text")
    /\ UNCHANGED <<kstack, vsz>>

ExecNoKvm(p) == Syscall(p) /\ KvmFails /\ UNCHANGED <<pgdir, kstack, vsz, vpc, goal, at>>

ExecPage(p) ==
    /\ vpc[p] \in {"text", "stack"} /\ AllocPage(p, "new")
    /\ UNCHANGED <<kstack, vsz, goal>>

(* loaduvm(), which panics where there is no page table.  Where there is   *)
(* one and no page, it fills page 0 of the machine, which is nobody's.     *)
Load(p) ==
    /\ vpc[p] = "text" /\ AllocDone(p)
    /\ LET d == pgdir[p].new
           stack == PagesUpTo(TEXT)
       IN  IF \A i \in 0..stack - 1 : HasTable(d, i)
           THEN /\ page' = [x \in Physical |->
                                IF \E i \in 0..stack - 1 : d.pte[i].pa = x THEN Text ELSE page[x]]
                /\ goal' = [goal EXCEPT ![p] = (stack + 2) * PGSIZE]
                /\ at' = [at EXCEPT ![p] = stack]
                /\ VGoto(p, "stack")
           ELSE VGoto(p, "panic") /\ UNCHANGED <<page, goal, at>>
    /\ UNCHANGED <<freelist, pgdir, kstack, vsz>>

(* clearpteu() of the page below the stack, which panics where there is no *)
(* page table, and copyout() to the stack.                                 *)
Guarded(d, i) == [d EXCEPT !.pte[i].u = FALSE]

Top(p) == PagesUpTo(goal[p]) - 1
StackMade(p) == vpc[p] = "stack" /\ AllocDone(p) /\ HasTable(pgdir[p].new, Top(p) - 1)

PushArgs(p) ==
    /\ StackMade(p) /\ Present(pgdir[p].new, Top(p))
    /\ page' = [page EXCEPT ![pgdir[p].new.pte[Top(p)].pa] = Args]
    /\ pgdir' = [pgdir EXCEPT ![p].new = Guarded(@, Top(p) - 1)]
    /\ VGoto(p, "args")
    /\ UNCHANGED <<freelist, kstack, vsz, goal, at>>

(* Where there is no page table for the stack, copyout() follows a null    *)
(* pointer into the program that calls exec(), and takes a word of it for  *)
(* the page: it fails, or faults, or writes to any page of the machine,    *)
(* after which p is not followed.                                          *)
StackPanics(p) ==
    /\ vpc[p] = "stack" /\ AllocDone(p) /\ ~(StackMade(p) /\ HasTable(pgdir[p].new, Top(p)))
    /\ VGoto(p, IF StackMade(p) THEN "wild" ELSE "panic")
    /\ UNCHANGED <<memory, pgdir, kstack, vsz, goal, at>>

(* The new image is used, and the old one freed; or, where something fails *)
(* before that, the other way round: the file, allocuvm(), the number of   *)
(* the arguments, or copyout().                                            *)
ExecCommits(p) ==
    /\ vpc[p] = "args"
    /\ Kfree(AllPages(pgdir[p].own))
    /\ pgdir' = [pgdir EXCEPT ![p] = [own |-> pgdir[p].new, new |-> NoDir]]
    /\ vsz' = [vsz EXCEPT ![p] = goal[p]]
    /\ VGoto(p, "user") /\ Forget(p)
    /\ UNCHANGED kstack

ExecFails(p) ==
    /\ \/ vpc[p] = "text" /\ (at[p] = 0 \/ AllocDone(p) \/ AllocFails(p))
       \/ vpc[p] = "stack" /\ AllocFails(p)
       \/ StackMade(p)
       \/ vpc[p] = "args"
    /\ Kfree(AllPages(pgdir[p].new))
    /\ pgdir' = [pgdir EXCEPT ![p].new = NoDir]
    /\ VGoto(p, "user") /\ Forget(p)
    /\ UNCHANGED <<kstack, vsz>>

-----------------------------------------------------------------------------
(* fork() of q: allocproc() takes a page for the kernel stack, copyuvm()   *)
(* copies page after page.                                                 *)
Fork(p) ==
    /\ Syscall(p) /\ freelist # {}
    /\ \E q \in Process :
          /\ vpc[q] = "unused"
          /\ np' = [np EXCEPT ![p] = q]
          /\ kstack' = [kstack EXCEPT ![q] = First]
          /\ vpc' = [vpc EXCEPT ![p] = "copykvm", ![q] = "embryo"]
    /\ Kalloc(1, Junk)
    /\ UNCHANGED <<pgdir, vsz, goal, at>>

CopyKvm(p) ==
    /\ vpc[p] = "copykvm"
    /\ \/ SetUpKvm(p) /\ VGoto(p, "copy")
       \/ KvmFails /\ VGoto(p, "copyfails") /\ UNCHANGED pgdir
    /\ at' = [at EXCEPT ![p] = 0]
    /\ UNCHANGED <<np, kstack, vsz, goal>>

Copying(p) == vpc[p] = "copy" /\ at[p] * PGSIZE < vsz[p]

Flag_user(d, i) == TRUE
Flag(d, i) == d.pte[i].u

CopyPage(p) ==
    /\ Copying(p) /\ Present(pgdir[p].own, at[p])
    /\ Cardinality(freelist) >= Needed(pgdir[p].new, at[p])
    /\ Kalloc(Needed(pgdir[p].new, at[p]), page[pgdir[p].own.pte[at[p]].pa])
    /\ pgdir' = [pgdir EXCEPT ![p].new = Map(@, at[p], Flag(pgdir[p].own, at[p]))]
    /\ at' = [at EXCEPT ![p] = @ + 1]
    /\ UNCHANGED <<np, kstack, vsz, vpc, goal>>

(* There is no page; or a page, which is lost, and none for its table.     *)
CopyFails(p) ==
    /\ Copying(p) /\ Present(pgdir[p].own, at[p])
    /\ Cardinality(freelist) < Needed(pgdir[p].new, at[p])
    /\ IF freelist = {} THEN UNCHANGED memory ELSE Kalloc(1, Junk)
    /\ VGoto(p, "copyfails")
    /\ UNCHANGED <<pgdir, np, kstack, vsz, goal, at>>

CopyPanics(p) ==
    /\ Copying(p) /\ ~Present(pgdir[p].own, at[p])
    /\ VGoto(p, "panic")
    /\ UNCHANGED <<memory, pgdir, np, kstack, vsz, goal, at>>

ForkFails(p) ==
    /\ vpc[p] = "copyfails"
    /\ Kfree(AllPages(pgdir[p].new) \cup {kstack[np[p]]})
    /\ pgdir' = [pgdir EXCEPT ![p].new = NoDir]
    /\ kstack' = [kstack EXCEPT ![np[p]] = NoPage]
    /\ vpc' = [vpc EXCEPT ![p] = "user", ![np[p]] = "unused"]
    /\ np' = [np EXCEPT ![p] = NoProcess] /\ Forget(p)
    /\ UNCHANGED vsz

ForkReturns(p) ==
    /\ vpc[p] = "copy" /\ ~Copying(p)
    /\ pgdir' = [pgdir EXCEPT ![np[p]].own = pgdir[p].new, ![p].new = NoDir]
    /\ vsz' = [vsz EXCEPT ![np[p]] = vsz[p]]
    /\ vpc' = [vpc EXCEPT ![p] = "user", ![np[p]] = "user"]
    /\ np' = [np EXCEPT ![p] = NoProcess] /\ Forget(p)
    /\ UNCHANGED <<memory, kstack>>

(* exit(), also by a trap; and wait() by somebody                          *)
Ends(p) ==
    /\ vpc[p] = "user" /\ VGoto(p, "zombie")
    /\ UNCHANGED <<memory, pgdir, np, kstack, vsz, goal, at>>

Reaped(q) ==
    /\ vpc[q] = "zombie" /\ \E p \in Process : Running(p)
    /\ Kfree({kstack[q]} \cup AllPages(pgdir[q].own))
    /\ pgdir' = [pgdir EXCEPT ![q].own = NoDir]
    /\ kstack' = [kstack EXCEPT ![q] = NoPage]
    /\ vsz' = [vsz EXCEPT ![q] = 0]
    /\ VGoto(q, "unused")
    /\ UNCHANGED <<np, goal, at>>

-----------------------------------------------------------------------------
(* userinit(): one process of one page, and as much memory as the kernel   *)
(* has left                                                                *)
VmInit ==
    /\ phystop \in 5..NPAGES /\ freelist = 6..phystop
    /\ page = [x \in Physical |-> IF x = 1 THEN Text ELSE Junk]
    /\ \E p \in Process :
          LET own == [NoDir EXCEPT !.dir = 2, !.kernel = 3, !.table[0] = 4,
                                   !.pte[0] = [pa |-> 1, u |-> TRUE]]
          IN  /\ pgdir = [q \in Process |-> [own |-> IF q = p THEN own ELSE NoDir, new |-> NoDir]]
              /\ kstack = [q \in Process |-> IF q = p THEN 5 ELSE NoPage]
              /\ vsz = [q \in Process |-> IF q = p THEN PGSIZE ELSE 0]
              /\ vpc = [q \in Process |-> IF q = p THEN "user" ELSE "unused"]
    /\ np = [p \in Process |-> NoProcess]
    /\ calls = 0
    /\ goal = [p \in Process |-> 0] /\ at = [p \in Process |-> 0]

Calls(p) == Stores(p) \/ SbrkGrows(p) \/ SbrkShrinks(p) \/ Exec(p) \/ ExecNoKvm(p)

GoesOn(p) ==
    \/ GrowPage(p) \/ GrowEnds(p)
    \/ ExecPage(p) \/ Load(p) \/ PushArgs(p) \/ StackPanics(p) \/ ExecCommits(p) \/ ExecFails(p)

ForkGoesOn(p) ==
    \/ CopyKvm(p) \/ CopyPage(p) \/ CopyFails(p) \/ CopyPanics(p)
    \/ ForkFails(p) \/ ForkReturns(p)

VmNext == UNCHANGED phystop /\
    \E p \in Process :
        \/ Calls(p) /\ UNCHANGED np
        \/ Fork(p)
        \/ GoesOn(p) /\ UNCHANGED <<np, calls>>
        \/ (ForkGoesOn(p) \/ Ends(p) \/ Reaped(p)) /\ UNCHANGED calls

VmSpec == VmInit /\ [][VmNext]_vmVars

-----------------------------------------------------------------------------
(* The pages of memory that are nobody's, and not free either              *)
PagesOf(d) == {d.dir, d.kernel} \cup Range(d.table) \cup {d.pte[i].pa : i \in UserPages}
Lost ==
    1..phystop \ (freelist \cup Range(kstack) \cup
                  UNION {PagesOf(pgdir[p].own) \cup PagesOf(pgdir[p].new) : p \in Process})

(* Each process has memory of its own (Spaces), whatever runs out on the   *)
(* way: fork() copies all of it, exec() replaces all of it or nothing, and *)
(* a page that is freed is in nobody's memory.  Pages are lost for ever    *)
(* only where there is none left; and only what was lost may be missing    *)
(* from a process, or make deallocuvm() pass over pages it was to free.    *)
Fresh ==
    [i \in UserPages |->
        IF i < PagesUpTo(TEXT) THEN [v |-> Text, u |-> TRUE]
        ELSE IF i = PagesUpTo(TEXT) THEN [v |-> Zero, u |-> FALSE]
        ELSE IF i = PagesUpTo(TEXT) + 1 THEN [v |-> Args, u |-> TRUE]
        ELSE NoPte]

Lives(p) == vpc[p] \notin {"unused", "embryo", "zombie"}

UserSpace ==
    [p \in Process |-> [i \in UserPages |->
        IF ~Lives(p) \/ ~Present(pgdir[p].own, i) THEN NoPte
        ELSE [v |-> page[pgdir[p].own.pte[i].pa], u |-> pgdir[p].own.pte[i].u]]]
UserSize == [p \in Process |-> IF Lives(p) THEN PagesUpTo(vsz[p]) ELSE 0]

Own == INSTANCE Spaces WITH
    Proc <- Process, Pages <- UserPages, Absent <- NoPte, Reach <- SPAN,
    Image <- Fresh, ImageSize <- PagesUpTo(TEXT) + 2, space <- UserSpace, size <- UserSize,
    lost <- Cardinality(Lost), spent <- freelist = {} \/ \E p \in Process : vpc[p] = "panic"

ImplementsSpaces == Own!SpacesSpec
=============================================================================
