------------------------------ MODULE Umalloc ------------------------------
(***************************************************************************)
(* user/umalloc.c: malloc(), free() and realloc() on a heap that sbrk()    *)
(* extends.  Addresses and sizes are in units of a Header; a step is one   *)
(* turn of a loop.  The header of a block is at its first unit; what is in *)
(* the others is not looked at, and is 0 here.                             *)
(***************************************************************************)
EXTENDS Integers, FiniteSets

CONSTANTS
    NALLOC,      \* units that morecore() asks for at least: 4096
    HEAP,        \* bound: units that sbrk() can give
    Sizes        \* bound: nunits of a call, its header included

ASSUME HeapAssumption ==
    /\ NALLOC \in Nat \ {0} /\ HEAP \in Nat \ {0} /\ Sizes \subseteq 1..HEAP

Base == 0        \* the static header base
Start == 1       \* where sbrk() starts
Unit == 0..HEAP
Null == HEAP + 1

VARIABLES
    ptr, size,   \* the fields of each header
    freep,
    top,         \* where sbrk() goes on
    held,        \* the blocks that the program has
    upc,         \* "idle", in the loop of malloc(), in that of free()
    p, prevp, nunits,   \* of malloc()
    bp, q,       \* of free(): the block, and p
    moving       \* the block that realloc() frees once it has another

heap == <<ptr, size, freep, top>>
mallocVars == <<heap, held, upc, p, prevp, nunits, bp, q, moving>>

HeapTypeOK ==
    /\ ptr \in [Unit -> Unit] /\ size \in [Unit -> Unit]
    /\ freep \in Unit \cup {Null} /\ top \in Start..HEAP + 1
    /\ held \subseteq Unit
    /\ upc \in {"idle", "search", "place", "placemore"}
    /\ {p, prevp, nunits, bp, q} \subseteq Unit
    /\ moving \in Unit \cup {Null}

HeapInit ==
    /\ ptr = [a \in Unit |-> 0] /\ size = [a \in Unit |-> 0]
    /\ freep = Null /\ top = Start
    /\ held = {}
    /\ upc = "idle" /\ moving = Null
    /\ p = 0 /\ prevp = 0 /\ nunits = 0 /\ bp = 0 /\ q = 0

-----------------------------------------------------------------------------
(* malloc() starts at the block after freep, at base the first time.       *)
StartSearch(n) ==
    /\ nunits' = n /\ upc' = "search"
    /\ IF freep = Null
       THEN /\ ptr' = [ptr EXCEPT ![Base] = Base]
            /\ freep' = Base /\ prevp' = Base /\ p' = Base
       ELSE prevp' = freep /\ p' = ptr[freep] /\ UNCHANGED <<ptr, freep>>
    /\ UNCHANGED <<size, top, held, bp, q>>

Malloc(n) == upc = "idle" /\ StartSearch(n) /\ UNCHANGED moving

(* realloc() of a block that is too small *)
Realloc(a, n) ==
    /\ upc = "idle" /\ a \in held /\ size[a] < n
    /\ StartSearch(n)
    /\ moving' = a

(* The block is taken, or its tail is.                                     *)
TailOf(a) == a + size[a] - nunits

Returned(a) ==
    /\ held' = held \cup {a}
    /\ IF moving = Null
       THEN upc' = "idle" /\ UNCHANGED <<bp, q>>
       ELSE upc' = "place" /\ bp' = moving /\ q' = freep'
    /\ moving' = Null
    /\ p' = 0 /\ prevp' = 0 /\ nunits' = 0

TakesBlock ==
    /\ upc = "search" /\ size[p] = nunits
    /\ ptr' = [ptr EXCEPT ![prevp] = ptr[p], ![p] = 0]
    /\ freep' = prevp
    /\ Returned(p)
    /\ UNCHANGED <<size, top>>

TakesTail ==
    /\ upc = "search" /\ size[p] > nunits
    /\ size' = [size EXCEPT ![TailOf(p)] = nunits, ![p] = size[p] - nunits]
    /\ freep' = prevp
    /\ Returned(TailOf(p))
    /\ UNCHANGED <<ptr, top>>

NextBlock ==
    /\ upc = "search" /\ size[p] < nunits /\ p # freep
    /\ prevp' = p /\ p' = ptr[p]
    /\ UNCHANGED <<heap, held, upc, nunits, bp, q, moving>>

(* The search is back at freep: morecore() frees what sbrk() gives.        *)
MoreCore ==
    /\ upc = "search" /\ size[p] < nunits /\ p = freep
    /\ LET nu == IF nunits < NALLOC THEN NALLOC ELSE nunits IN
          /\ top + nu <= HEAP + 1
          /\ top' = top + nu
          /\ size' = [size EXCEPT ![top] = nu]
    /\ bp' = top /\ q' = freep
    /\ upc' = "placemore"
    /\ UNCHANGED <<ptr, freep, held, p, prevp, nunits, moving>>

NoCore ==
    /\ upc = "search" /\ size[p] < nunits /\ p = freep
    /\ upc' = "idle" /\ moving' = Null
    /\ p' = 0 /\ prevp' = 0 /\ nunits' = 0
    /\ UNCHANGED <<heap, held, bp, q>>

-----------------------------------------------------------------------------
Free(a) ==
    /\ upc = "idle" /\ a \in held
    /\ upc' = "place" /\ bp' = a /\ q' = freep
    /\ UNCHANGED <<heap, held, p, prevp, nunits, moving>>

(* Between q and the block after it, or after the last block or before the *)
(* first one *)
Fits(a, b) ==
    \/ a > b /\ a < ptr[b]
    \/ b >= ptr[b] /\ (a > b \/ a < ptr[b])

PlaceNext ==
    /\ upc \in {"place", "placemore"} /\ ~Fits(bp, q)
    /\ q' = ptr[q]
    /\ UNCHANGED <<heap, held, upc, p, prevp, nunits, bp, moving>>

(* The two headers once bp is joined to the block after it, and q to bp    *)
JoinsBelow_not(b, a) == FALSE
JoinsBelow(b, a) == b + size[b] = a

Place ==
    /\ upc \in {"place", "placemore"} /\ Fits(bp, q)
    /\ LET next == ptr[q]
           above == bp + size[bp] = next
           below == JoinsBelow(q, bp)
           len == size[bp] + (IF above THEN size[next] ELSE 0)
           after == IF above THEN ptr[next] ELSE next
           at == IF below THEN q ELSE bp
       IN  /\ size' = [a \in Unit |->
                IF a = at THEN IF below THEN size[q] + len ELSE len
                ELSE IF a = bp \/ (above /\ a = next) THEN 0 ELSE size[a]]
           /\ ptr' = [a \in Unit |->
                IF a = at THEN after
                ELSE IF a = q THEN bp
                ELSE IF above /\ a = next THEN 0 ELSE ptr[a]]
    /\ freep' = q
    /\ held' = held \ {bp}
    /\ IF upc = "place"
       THEN upc' = "idle" /\ UNCHANGED <<p, prevp>>
       ELSE upc' = "search" /\ prevp' = q /\ p' = ptr'[q]
    /\ bp' = 0 /\ q' = 0
    /\ UNCHANGED <<top, nunits, moving>>

MallocNext ==
    \/ \E n \in Sizes : Malloc(n)
    \/ \E a \in held : Free(a) \/ \E n \in Sizes : Realloc(a, n)
    \/ TakesBlock \/ TakesTail \/ NextBlock \/ MoreCore \/ NoCore
    \/ PlaceNext \/ Place

MallocSpec == HeapInit /\ [][MallocNext]_mallocVars

-----------------------------------------------------------------------------
(* Between calls the blocks of the program and those on the free list fill *)
(* the heap without overlap or gap, and no two free blocks touch: nothing  *)
(* is given out twice, nothing is lost, nothing stays in pieces.  The free *)
(* list is one ring, on which base is.                                     *)
OnList ==
    LET after[n \in 0..HEAP + 1] == IF n = 0 THEN {Base} ELSE
            after[n - 1] \cup {ptr[a] : a \in after[n - 1]}
    IN  after[HEAP + 1]
FreeBlocks == OnList \ {Base}
BlockUnits(a) == a..a + size[a] - 1

HeapTiled ==
    upc = "idle" /\ freep # Null =>
        /\ freep \in OnList /\ Cardinality({ptr[a] : a \in OnList}) = Cardinality(OnList)
        /\ held \cap FreeBlocks = {}
        /\ \A a \in Start..top - 1 :
              Cardinality({b \in held \cup FreeBlocks : a \in BlockUnits(b)}) = 1
        /\ \A a, b \in FreeBlocks : a + size[a] # b
        /\ \A a \in held \cup FreeBlocks : a + size[a] <= top
=============================================================================
