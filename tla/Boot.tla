-------------------------------- MODULE Boot --------------------------------
(***************************************************************************)
(* How the machine comes up: bootmain() of kernel/bootmain.c reads the     *)
(* segments of the kernel from the disk, in whole sectors; then main() of  *)
(* kernel/main.c starts the other processors, one after the other, turns   *)
(* the lock of the page allocator on and makes the first process.          *)
(***************************************************************************)
EXTENDS Integers, Sequences, FiniteSets

CONSTANTS
    SECTSIZE,
    MaxAddress,   \* bound: the memory that is loaded
    Segments,     \* bound: program headers, [paddr, off, filesz, memsz]
    NCPU

ASSUME BootAssumption == {SECTSIZE, NCPU} \subseteq Nat \ {0} /\ MaxAddress \in Nat

VARIABLES
    headers,      \* the program headers of the kernel
    loading,      \* ph; Len(headers) + 1 when all are loaded
    sectpa,       \* pa of the loop of readseg()
    memory,
    bsp,          \* the processor that boots
    bootpc,       \* where main() is
    starting,     \* c of startothers()
    handed,       \* the word at code - 4: the stack for who starts next
    pages,        \* the pages that kalloc() has handed out
    uselock,      \* kmem.use_lock
    cpupc,        \* where each other processor is
    stack,        \* the stack it has switched to
    started       \* cpu->started

loadVars == <<headers, loading, sectpa, memory>>
startVars == <<bsp, bootpc, starting, handed, pages, uselock, cpupc, stack, started>>
bootVars == <<loadVars, startVars>>

Address == -SECTSIZE..MaxAddress
Unloaded == "?"
Cpus == 1..NCPU
NoPage == 0

BootTypeOK ==
    /\ loading \in 1..Len(headers) + 1
    /\ bootpc \in {"bootmain", "startothers", "waits", "kinit2", "userinit", "scheduler", "kalloc"}
    /\ starting \in 1..NCPU + 1
    /\ cpupc \in [Cpus -> {"off", "entryother", "mpenter", "scheduler", "kalloc"}]
    /\ stack \in [Cpus -> 0..NCPU]
    /\ started \in [Cpus -> BOOLEAN]

(* The first sector of a segment begins before it, where its offset in the *)
(* file is not that of a sector.                                           *)
FirstSector(h) == h.paddr - (h.off % SECTSIZE)
SectorAt(h, pa) == (h.off \div SECTSIZE) * SECTSIZE + pa - FirstSector(h)

BootStart(segs, b) ==
    /\ headers = segs /\ loading = 1 /\ sectpa = FirstSector(segs[1])
    /\ memory = [a \in Address |-> Unloaded]
    /\ bsp = b /\ bootpc = "bootmain" /\ starting = 1
    /\ handed = NoPage /\ pages = 0 /\ uselock = FALSE
    /\ cpupc = [c \in Cpus |-> "off"]
    /\ stack = [c \in Cpus |-> NoPage]
    /\ started = [c \in Cpus |-> FALSE]

BootInit ==
    \/ \E h \in Segments : BootStart(<<h>>, 1)
    \/ \E h, k \in Segments : h.paddr + h.memsz <= k.paddr /\ BootStart(<<h, k>>, 1)
    \/ \E b \in Cpus : BootStart(<<CHOOSE h \in Segments : TRUE>>, b)

-----------------------------------------------------------------------------
Header == headers[loading]

(* readsect(): the byte of the file at off is written as its number.       *)
Readsect ==
    /\ bootpc = "bootmain" /\ loading <= Len(headers)
    /\ sectpa < Header.paddr + Header.filesz
    /\ memory' = [a \in Address |->
                    IF a \in sectpa..sectpa + SECTSIZE - 1
                    THEN SectorAt(Header, sectpa) + a - sectpa ELSE memory[a]]
    /\ sectpa' = sectpa + SECTSIZE
    /\ UNCHANGED <<headers, loading, startVars>>

(* stosb(), and the next header                                            *)
ZeroFrom(h) == h.paddr + h.filesz

SegmentEnds ==
    /\ bootpc = "bootmain" /\ loading <= Len(headers)
    /\ sectpa >= Header.paddr + Header.filesz
    /\ memory' = [a \in Address |->
                    IF a \in ZeroFrom(Header)..Header.paddr + Header.memsz - 1
                    THEN "zero" ELSE memory[a]]
    /\ loading' = loading + 1
    /\ sectpa' = IF loading < Len(headers) THEN FirstSector(headers[loading + 1]) ELSE sectpa
    /\ UNCHANGED <<headers, startVars>>

EntersKernel ==
    /\ bootpc = "bootmain" /\ loading > Len(headers)
    /\ bootpc' = "startothers"
    /\ UNCHANGED <<loadVars, bsp, starting, handed, pages, uselock, cpupc, stack, started>>

-----------------------------------------------------------------------------
(* startothers(): a stack for the next processor, in a place that all of   *)
(* them share, and an interrupt                                            *)
StartsNext ==
    /\ bootpc = "startothers" /\ starting <= NCPU /\ starting # bsp
    /\ pages' = pages + 1 /\ handed' = pages + 1
    /\ cpupc' = [cpupc EXCEPT ![starting] = "entryother"]
    /\ bootpc' = "waits"
    /\ UNCHANGED <<loadVars, bsp, starting, uselock, stack, started>>

IsUp_any(c) == TRUE
IsUp(c) == started[c]

SeesStarted ==
    /\ \/ bootpc = "waits" /\ IsUp(starting)
       \/ bootpc = "startothers" /\ starting = bsp
    /\ starting' = starting + 1
    /\ bootpc' = "startothers"
    /\ UNCHANGED <<loadVars, bsp, handed, pages, uselock, cpupc, stack, started>>

AllStarted ==
    /\ bootpc = "startothers" /\ starting > NCPU
    /\ bootpc' = "kinit2"
    /\ UNCHANGED <<loadVars, bsp, starting, handed, pages, uselock, cpupc, stack, started>>

Kinit2 ==
    /\ bootpc = "kinit2"
    /\ uselock' = TRUE
    /\ bootpc' = "userinit"
    /\ UNCHANGED <<loadVars, bsp, starting, handed, pages, cpupc, stack, started>>

Userinit ==
    /\ bootpc = "userinit"
    /\ bootpc' = "scheduler"
    /\ UNCHANGED <<loadVars, bsp, starting, handed, pages, uselock, cpupc, stack, started>>

(* A processor that starts: entryother.S, mpenter() and mpmain()           *)
TakesStack(c) ==
    /\ cpupc[c] = "entryother"
    /\ stack' = [stack EXCEPT ![c] = handed]
    /\ cpupc' = [cpupc EXCEPT ![c] = "mpenter"]
    /\ UNCHANGED <<loadVars, bsp, bootpc, starting, handed, pages, uselock, started>>

Mpmain(c) ==
    /\ cpupc[c] = "mpenter"
    /\ started' = [started EXCEPT ![c] = TRUE]
    /\ cpupc' = [cpupc EXCEPT ![c] = "scheduler"]
    /\ UNCHANGED <<loadVars, bsp, bootpc, starting, handed, pages, uselock, stack>>

(* The scheduler finds a process when there is one, and that calls the     *)
(* page allocator, on any CPU.                                             *)
ProcessAllocates(c) ==
    /\ bootpc \in {"scheduler", "kalloc"}
    /\ IF c = bsp
       THEN /\ bootpc' = IF bootpc = "kalloc" THEN "scheduler" ELSE "kalloc"
            /\ UNCHANGED cpupc
       ELSE /\ cpupc[c] \in {"scheduler", "kalloc"}
            /\ cpupc' = [cpupc EXCEPT ![c] = IF @ = "kalloc" THEN "scheduler" ELSE "kalloc"]
            /\ UNCHANGED bootpc
    /\ UNCHANGED <<loadVars, bsp, starting, handed, pages, uselock, stack, started>>

BootNext ==
    \/ Readsect \/ SegmentEnds \/ EntersKernel
    \/ StartsNext \/ SeesStarted \/ AllStarted \/ Kinit2 \/ Userinit
    \/ \E c \in Cpus : TakesStack(c) \/ Mpmain(c) \/ ProcessAllocates(c)

BootSpec == BootInit /\ [][BootNext]_bootVars

-----------------------------------------------------------------------------
(* Where the sectors of a later segment reach back into an earlier one, it *)
(* finds its own bytes there again only if they are bytes of the file at   *)
(* the same distance.                                                      *)
ReadsBack(h, k) == FirstSector(k) < h.paddr + h.memsz
Harmless(h, k) ==
    ReadsBack(h, k) => h.memsz = h.filesz /\ h.paddr - h.off = k.paddr - k.off

LoadedAt(h, i) == IF i < h.filesz THEN h.off + i ELSE "zero"

(* Every segment is where its header says, whatever was read around it.    *)
KernelLoaded ==
    bootpc # "bootmain" /\ (\A i, j \in DOMAIN headers : i < j => Harmless(headers[i], headers[j])) =>
        \A h \in {headers[i] : i \in DOMAIN headers} :
            \A i \in 0..h.memsz - 1 : memory[h.paddr + i] = LoadedAt(h, i)

(* No two processors run on one stack, and none is in the page allocator   *)
(* before its lock is on, while the one that boots may be.                 *)
ProcessorsApart ==
    /\ \A c, d \in Cpus : c # d /\ stack[c] # NoPage => stack[c] # stack[d]
    /\ ~uselock => \A c \in Cpus : cpupc[c] # "kalloc"
    /\ bootpc \in {"kinit2", "userinit", "scheduler", "kalloc"} =>
         \A c \in Cpus \ {bsp} : cpupc[c] \in {"scheduler", "kalloc"}
=============================================================================
