------------------------------- MODULE Spaces -------------------------------
(***************************************************************************)
(* What kernel/vm.c and exec() keep of what they promise: each process has *)
(* memory of its own, of a size that it sets.  A fork()ed child starts     *)
(* with a copy of all of it, an exec() replaces all of it or nothing, and  *)
(* no call of one process shows in the memory of another.                  *)
(* Where the machine has no page left the kernel may lose pages.  Each     *)
(* leaves a hole in one process at most, and only behind a hole a process  *)
(* may keep pages that it gave back.                                       *)
(***************************************************************************)
EXTENDS Integers, FiniteSets

CONSTANTS
    Proc, Pages,
    Value, Zero,   \* what a program stores in a page, and what is in a new one
    Absent,        \* what is at a page that is not there
    Reach,         \* how many pages a page table maps
    Image, ImageSize   \* what exec() makes

VARIABLES
    space,     \* what the program of each process finds at each page
    size,      \* in pages
    lost,      \* how many pages are lost
    spent      \* is no page left, or the kernel stopped?

Nothing == [i \in Pages |-> Absent]

Becomes(p, s, n) == size' = [size EXCEPT ![p] = n] /\ space' = [space EXCEPT ![p] = s]

Holes(s, n) == {i \in Pages : i < n /\ s[i] = Absent}

Stores(p) ==
    \E i \in Pages, x \in Value :
        /\ space[p][i] # Absent /\ space[p][i].u
        /\ Becomes(p, [space[p] EXCEPT ![i].v = x], size[p])

(* sbrk() adds pages at the end, ...                                       *)
Adds(p) ==
    \E i \in Pages :
        /\ i >= size[p] /\ space[p][i] = Absent
        /\ Becomes(p, [space[p] EXCEPT ![i] = [v |-> Zero, u |-> TRUE]], size[p])

(* ... and sets the size: no page is missing that was not lost.            *)
Grows(p) ==
    \E n \in size[p]..size[p] + Cardinality(Pages) :
        /\ Becomes(p, space[p], n)
        /\ Cardinality(Holes(space[p], n)) <= lost

(* It gives back the pages from n on, and is then of size m: of n, or, of  *)
(* a process that wanted no memory at all, as before.  If it cannot grow   *)
(* it gives back what it added.  A page may stay behind only where one     *)
(* that is missing was passed over less than Reach pages before.           *)
MayStay(p, n) ==
    {i \in Pages : \E h \in Holes(space[p], i) : h >= n /\ i < h + Reach}

GivesBack(p) ==
    \E n \in 0..size[p] :
       \E m \in {n, size[p]}, kept \in SUBSET MayStay(p, n) :
          /\ n = 0 \/ m = n
          /\ kept # {} => lost > 0
          /\ Becomes(p, [i \in Pages |-> IF i < n \/ i \in kept THEN space[p][i] ELSE Absent], m)

(* The child has what is below the size of its parent, without a hole.     *)
Forks(p) ==
    /\ Holes(space[p], size[p]) = {}
    /\ \E q \in Proc \ {p} :
          /\ space[q] = Nothing
          /\ Becomes(q, [i \in Pages |-> IF i < size[p] THEN space[p][i] ELSE Absent], size[p])

Execs(p) ==
    \E missing \in SUBSET (0..ImageSize - 2) :
        /\ Becomes(p, [i \in Pages |-> IF i \in missing THEN Absent ELSE Image[i]], ImageSize)
        /\ Cardinality(missing) <= lost

Ends(p) == Becomes(p, Nothing, 0)

SpacesInit ==
    /\ \E p \in Proc :
          /\ space = [q \in Proc |-> [Nothing EXCEPT ![0] = IF q = p THEN Image[0] ELSE Absent]]
          /\ size = [q \in Proc |-> IF q = p THEN 1 ELSE 0]
    /\ lost = 0

Others(p) == \A q \in Proc \ {p} : space'[q] = space[q]

SpacesNext ==
    /\ lost' = lost \/ (lost' > lost /\ spent')
    /\ \/ UNCHANGED <<space, size>>
       \/ \E p \in Proc :
             \/ Forks(p)
             \/ Others(p) /\ (Adds(p) \/ Stores(p) \/ Grows(p) \/ GivesBack(p) \/ Execs(p) \/ Ends(p))

SpacesSpec == SpacesInit /\ [][SpacesNext]_<<space, size, lost>>
=============================================================================
