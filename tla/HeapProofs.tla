----------------------------- MODULE HeapProofs -----------------------------
(***************************************************************************)
(* For a heap of any size and calls of any sizes: the blocks of a program  *)
(* and those on the free list tile the heap, whatever is allocated and     *)
(* freed in which order.                                                   *)
(***************************************************************************)
EXTENDS Umalloc, FiniteSetTheorems, WellFoundedInduction, TLAPS

(* The free list, from Base up: each header points to the next one on it,  *)
(* the last one to Base.                                                   *)
IsNext(F, a, b) ==
    \/ a < b /\ \A c \in F : c <= a \/ b <= c
    \/ b = Base /\ \A c \in F : c <= a

Ring(F) == Base \in F /\ \A a \in F : ptr[a] \in F /\ IsNext(F, a, ptr[a])

(* The block that morecore() is about to free is nobody's.                 *)
Blocks(F) == held \cup (F \ {Base}) \cup (IF upc = "placemore" THEN {bp} ELSE {})

(* Blocks have room, do not overlap, and leave no gap.                     *)
Within(B) == \A a \in B : 1 <= size[a] /\ Start <= a /\ a + size[a] <= top
Disjoint(B) == \A a, b \in B : a < b => a + size[a] <= b
Covers(B) == \A a \in Start..top - 1 : \E b \in B : b <= a /\ a < b + size[b]
Tiles(B) == Within(B) /\ Disjoint(B) /\ Covers(B)

(* No two free blocks touch.                                               *)
Apart(F) == \A a, b \in F \ {Base} : a + size[a] # b

(* Where a call is                                                         *)
CallAt(F) ==
    /\ moving # Null => moving \in held /\ upc \in {"search", "placemore"}
    /\ upc \in {"search", "placemore"} => nunits \in Sizes
    /\ upc = "search" => prevp \in F /\ p = ptr[prevp]
    /\ upc \in {"place", "placemore"} => q \in F
    /\ upc = "place" => bp \in held
    /\ upc = "placemore" => bp \notin held \cup F

ListInv(F) ==
    /\ Ring(F) /\ freep \in F /\ F \cap held = {}
    /\ Tiles(Blocks(F)) /\ Apart(F) /\ CallAt(F)

HeapInv ==
    /\ HeapTypeOK
    /\ size[Base] = 0
    /\ freep = Null => upc = "idle" /\ held = {} /\ top = Start /\ moving = Null
    /\ freep # Null => \E F \in SUBSET Unit : ListInv(F)

-----------------------------------------------------------------------------
LEMMA Constants ==
    /\ NALLOC \in Nat /\ NALLOC >= 1 /\ HEAP \in Nat /\ HEAP >= 1
    /\ \A n \in Sizes : n \in Nat /\ 1 <= n /\ n <= HEAP /\ n \in Unit
    /\ Base = 0 /\ Start = 1 /\ Null = HEAP + 1 /\ Base \in Unit /\ Null \notin Unit
    /\ \A a : a \in Unit <=> a \in Nat /\ a <= HEAP
BY HeapAssumption DEF Base, Start, Null, Unit

LEMMA Types ==
    ASSUME HeapInv
    PROVE  /\ ptr \in [Unit -> Unit] /\ size \in [Unit -> Unit]
           /\ freep \in Unit \cup {Null} /\ top \in Nat /\ 1 <= top /\ top <= HEAP + 1
           /\ held \subseteq Unit /\ upc \in {"idle", "search", "place", "placemore"}
           /\ p \in Unit /\ prevp \in Unit /\ nunits \in Unit /\ bp \in Unit /\ q \in Unit
           /\ moving \in Unit \cup {Null} /\ size[Base] = 0
BY Constants DEF HeapInv, HeapTypeOK

LEMMA InitHolds == HeapInit => HeapInv
<1> SUFFICES ASSUME HeapInit PROVE HeapInv
    OBVIOUS
<1>1. HeapTypeOK
    BY Constants DEF HeapInit, HeapTypeOK
<1> QED
    BY <1>1, Constants DEF HeapInit, HeapInv

LEMMA StutterKeeps ==
    ASSUME HeapInv, UNCHANGED mallocVars
    PROVE  HeapInv'
BY DEF HeapInv, mallocVars, heap, HeapTypeOK, ListInv, Ring, Blocks, Tiles, Within, Disjoint,
       Covers, Apart, CallAt

(* A step that changes no header, nor who has which block                  *)
LEMMA SameBlocks ==
    ASSUME NEW F \in SUBSET Unit, ListInv(F), UNCHANGED <<ptr, size, top, held>>,
           Blocks(F)' = Blocks(F), freep' \in F, CallAt(F)'
    PROVE  ListInv(F)'
<1>1. Ring(F)' /\ F \cap held' = {} /\ Apart(F)'
    BY DEF ListInv, Ring, Apart
<1>2. Tiles(Blocks(F))'
    BY DEF ListInv, Tiles, Within, Disjoint, Covers
<1> QED
    BY <1>1, <1>2 DEF ListInv

LEMMA StartSearchKeeps ==
    ASSUME HeapInv, upc = "idle", NEW n \in Sizes, StartSearch(n), moving' \in held \cup {Null}
    PROVE  HeapInv'
<1>1. HeapTypeOK'
    <2>1. n \in Unit /\ ptr' \in [Unit -> Unit] /\ freep' \in Unit /\ prevp' \in Unit /\ p' \in Unit
        <3>1. CASE freep = Null
            BY <3>1, Constants, Types DEF StartSearch
        <3>2. CASE freep # Null
            BY <3>2, Constants, Types DEF StartSearch
        <3> QED
            BY <3>1, <3>2
    <2>2. moving' \in Unit \cup {Null}
        BY DEF HeapInv, HeapTypeOK
    <2> QED
        BY <2>1, <2>2 DEF HeapInv, HeapTypeOK, StartSearch
<1>2. size'[Base] = 0 /\ freep' # Null
    BY Constants DEF HeapInv, HeapTypeOK, StartSearch
<1>3. \E F \in SUBSET Unit : ListInv(F)'
    <2>1. CASE freep = Null
        <3>1. ptr'[Base] = Base /\ freep' = Base /\ prevp' = Base /\ p' = Base /\ held' = {} /\ top' = Start
              /\ moving' = Null /\ upc' = "search" /\ nunits' \in Sizes
            BY <2>1, Constants DEF StartSearch, HeapInv, HeapTypeOK
        <3>2. Ring({Base})' /\ Blocks({Base})' = {}
            BY <3>1, Constants DEF Ring, IsNext, Blocks
        <3>3. Tiles(Blocks({Base}))'
            BY <3>1, <3>2, Constants DEF Tiles, Within, Disjoint, Covers
        <3>4. ListInv({Base})'
            BY <3>1, <3>2, <3>3, Constants DEF ListInv, Apart, CallAt
        <3> QED
            BY <3>4, Constants
    <2>2. CASE freep # Null
        <3>1. PICK F \in SUBSET Unit : ListInv(F)
            BY <2>2 DEF HeapInv
        <3>2. UNCHANGED <<ptr, size, top, held, freep>> /\ upc' = "search" /\ nunits' = n /\ prevp' = freep /\ p' = ptr[freep]
            BY <2>2 DEF StartSearch
        <3>3. Blocks(F)' = Blocks(F) /\ freep' \in F /\ CallAt(F)'
            BY <3>1, <3>2 DEF ListInv, Blocks, CallAt
        <3>4. ListInv(F)'
            BY <3>1, <3>2, <3>3, SameBlocks
        <3> QED
            BY <3>4
    <2> QED
        BY <2>1, <2>2
<1> QED
    BY <1>1, <1>2, <1>3 DEF HeapInv

LEMMA IdleIsNotMoving ==
    ASSUME HeapInv, upc = "idle"
    PROVE  moving = Null
BY DEF HeapInv, ListInv, CallAt

LEMMA MallocKeeps ==
    ASSUME HeapInv, NEW n \in Sizes, Malloc(n)
    PROVE  HeapInv'
BY IdleIsNotMoving, StartSearchKeeps DEF Malloc

LEMMA ReallocKeeps ==
    ASSUME HeapInv, NEW a, NEW n \in Sizes, Realloc(a, n)
    PROVE  HeapInv'
BY StartSearchKeeps DEF Realloc

LEMMA Searching ==
    ASSUME HeapInv, upc # "idle"
    PROVE  freep # Null /\ \E F \in SUBSET Unit : ListInv(F)
BY DEF HeapInv

LEMMA NextBlockKeeps ==
    ASSUME HeapInv, NextBlock
    PROVE  HeapInv'
<1>1. PICK F \in SUBSET Unit : ListInv(F)
    BY Searching DEF NextBlock
<1>2. p \in F /\ p \in Unit
    BY <1>1 DEF ListInv, CallAt, Ring, NextBlock
<1>3. HeapTypeOK' /\ size'[Base] = 0 /\ freep' # Null
    BY <1>2, Searching DEF HeapInv, HeapTypeOK, NextBlock, heap
<1>4. Blocks(F)' = Blocks(F) /\ freep' \in F /\ CallAt(F)'
    BY <1>1, <1>2 DEF NextBlock, heap, ListInv, Blocks, CallAt
<1>5. ListInv(F)'
    BY <1>1, <1>4, SameBlocks DEF NextBlock, heap
<1> QED
    BY <1>3, <1>5 DEF HeapInv

LEMMA NoCoreKeeps ==
    ASSUME HeapInv, NoCore
    PROVE  HeapInv'
<1>1. PICK F \in SUBSET Unit : ListInv(F)
    BY Searching DEF NoCore
<1>3. HeapTypeOK' /\ size'[Base] = 0 /\ freep' # Null
    BY Searching, Constants DEF HeapInv, HeapTypeOK, NoCore, heap
<1>4. Blocks(F)' = Blocks(F) /\ freep' \in F /\ CallAt(F)'
    BY <1>1 DEF NoCore, heap, ListInv, Blocks, CallAt
<1>5. ListInv(F)'
    BY <1>1, <1>4, SameBlocks DEF NoCore, heap
<1> QED
    BY <1>3, <1>5 DEF HeapInv

LEMMA FreeKeeps ==
    ASSUME HeapInv, NEW a \in held, Free(a)
    PROVE  HeapInv'
<1>1. freep # Null
    BY DEF HeapInv
<1>2. PICK F \in SUBSET Unit : ListInv(F)
    BY <1>1 DEF HeapInv
<1>3. HeapTypeOK' /\ size'[Base] = 0 /\ freep' # Null
    BY <1>1 DEF HeapInv, HeapTypeOK, Free, heap
<1>4. Blocks(F)' = Blocks(F) /\ freep' \in F /\ CallAt(F)'
    BY <1>2, IdleIsNotMoving DEF Free, heap, ListInv, Blocks, CallAt
<1>5. ListInv(F)'
    BY <1>2, <1>4, SameBlocks DEF Free, heap
<1> QED
    BY <1>3, <1>5 DEF HeapInv

LEMMA PlaceNextKeeps ==
    ASSUME HeapInv, PlaceNext
    PROVE  HeapInv'
<1>1. PICK F \in SUBSET Unit : ListInv(F)
    BY Searching DEF PlaceNext
<1>2. q' \in F /\ q' \in Unit
    BY <1>1 DEF ListInv, CallAt, Ring, PlaceNext
<1>3. HeapTypeOK' /\ size'[Base] = 0 /\ freep' # Null
    BY <1>2, Searching DEF HeapInv, HeapTypeOK, PlaceNext, heap
<1>4. Blocks(F)' = Blocks(F) /\ freep' \in F /\ CallAt(F)'
    BY <1>1, <1>2 DEF PlaceNext, heap, ListInv, Blocks, CallAt
<1>5. ListInv(F)'
    BY <1>1, <1>4, SameBlocks DEF PlaceNext, heap
<1> QED
    BY <1>3, <1>5 DEF HeapInv

LEMMA MoreCoreKeeps ==
    ASSUME HeapInv, MoreCore
    PROVE  HeapInv'
<1>1. PICK F \in SUBSET Unit : ListInv(F)
    BY Searching DEF MoreCore
<1>2. PICK nu \in Nat : nu >= 1 /\ top + nu <= HEAP + 1 /\ top' = top + nu
                        /\ size' = [size EXCEPT ![top] = nu]
    <2>1. nunits \in Nat /\ nunits >= 1
        BY <1>1, Constants DEF ListInv, CallAt, MoreCore
    <2> QED
        BY <2>1, Constants DEF MoreCore
<1>3. top \in Nat /\ top >= 1 /\ top \in Unit /\ nu \in Unit /\ freep # Null
    BY <1>2, Constants, Types, Searching DEF MoreCore
<1>4. HeapTypeOK'
    BY <1>2, <1>3, Constants, Types DEF HeapTypeOK, MoreCore
<1>5. size'[top] = nu /\ size'[Base] = 0 /\ \A a \in Unit \ {top} : size'[a] = size[a]
    BY <1>2, <1>3, Constants DEF HeapInv, HeapTypeOK
<1>6. Blocks(F) = held \cup (F \ {Base}) /\ Blocks(F)' = Blocks(F) \cup {top} /\ Blocks(F) \subseteq Unit
    BY DEF Blocks, MoreCore, HeapInv, HeapTypeOK
<1>7. \A a \in Blocks(F) : a < top /\ size'[a] = size[a]
    BY <1>1, <1>3, <1>5, <1>6, Constants, Types DEF ListInv, Tiles, Within
<1>8. top \notin held \cup F
    BY <1>3, <1>6, <1>7, Constants
<1>9. Within(Blocks(F))' /\ Disjoint(Blocks(F))'
    <2>1. Within(Blocks(F)) /\ Disjoint(Blocks(F))
        BY <1>1 DEF ListInv, Tiles
    <2> QED
        BY <1>2, <1>3, <1>5, <1>6, <1>7, <2>1, Constants, Types DEF Within, Disjoint
<1>10. Covers(Blocks(F))'
    <2> SUFFICES ASSUME NEW a \in Start..top' - 1
                 PROVE  \E b \in Blocks(F)' : b <= a /\ a < b + size'[b]
        BY DEF Covers
    <2>1. CASE a < top
        <3>1. PICK b \in Blocks(F) : b <= a /\ a < b + size[b]
            BY <1>1, <1>3, <2>1, Constants DEF ListInv, Tiles, Covers
        <3> QED
            BY <1>6, <1>7, <3>1
    <2>2. CASE a >= top
        BY <1>2, <1>3, <1>5, <1>6, <2>2, Constants
    <2> QED
        BY <1>3, <2>1, <2>2, Constants
<1>11. Ring(F)' /\ F \cap held' = {} /\ freep' \in F
    BY <1>1 DEF MoreCore, ListInv, Ring
<1>12. Apart(F)'
    BY <1>1, <1>5, <1>8 DEF ListInv, Apart
<1>13. CallAt(F)'
    BY <1>1, <1>8 DEF MoreCore, ListInv, CallAt
<1>14. ListInv(F)'
    BY <1>9, <1>10, <1>11, <1>12, <1>13 DEF ListInv, Tiles
<1> QED
    BY <1>3, <1>4, <1>5, <1>14 DEF HeapInv, MoreCore

-----------------------------------------------------------------------------
(* What search has found is a block.                                       *)
LEMMA Found ==
    ASSUME HeapInv, NEW F \in SUBSET Unit, ListInv(F), upc = "search", size[p] >= nunits
    PROVE  /\ nunits \in Nat /\ nunits >= 1
           /\ p \in F /\ p # Base /\ p \in Unit /\ p \in Blocks(F) /\ p \notin held
           /\ prevp \in F /\ prevp \in Unit /\ prevp # p /\ p = ptr[prevp] /\ size[p] \in Nat
           /\ Blocks(F) = held \cup (F \ {Base})
<1>1. nunits \in Nat /\ nunits >= 1 /\ prevp \in F /\ p = ptr[prevp]
    BY Constants DEF ListInv, CallAt
<1>2. p \in F /\ IsNext(F, prevp, p)
    BY <1>1 DEF ListInv, Ring
<1>3. p # Base
    BY <1>1, Constants DEF HeapInv
<1>4. prevp # p
    BY <1>1, <1>2, <1>3, Constants DEF IsNext
<1>5. Blocks(F) = held \cup (F \ {Base})
    BY DEF Blocks
<1> QED
    BY <1>1, <1>2, <1>3, <1>4, <1>5, Types, Constants DEF ListInv

(* malloc() returns a, which the list G does not hold.                     *)
LEMMA ReturnedKeeps ==
    ASSUME HeapInv, upc = "search", NEW F \in SUBSET Unit, ListInv(F),
           NEW G \in SUBSET F, NEW a \in Unit \ G, Returned(a),
           ptr' \in [Unit -> Unit], size' \in [Unit -> Unit], freep' \in G, top' = top,
           size'[Base] = 0, Ring(G)', Apart(G)', Tiles(held \cup {a} \cup (G \ {Base}))'
    PROVE  HeapInv'
<1>1. held' = held \cup {a} /\ moving' = Null /\ p' = 0 /\ prevp' = 0 /\ nunits' = 0
      /\ (upc' = "idle" \/ (upc' = "place" /\ bp' = moving /\ q' = freep' /\ moving # Null))
      /\ (upc' = "idle" => bp' = bp /\ q' = q)
    BY DEF Returned
<1>2. moving # Null => moving \in held
    BY DEF ListInv, CallAt
<1>3. freep' # Null /\ 0 \in Unit
    BY Constants
<1>4. HeapTypeOK'
    BY <1>1, <1>2, <1>3, Types, Constants DEF HeapTypeOK
<1>5. Blocks(G)' = (held \cup {a} \cup (G \ {Base}))'
    BY <1>1 DEF Blocks
<1>6. G \cap held' = {}
    BY <1>1 DEF ListInv
<1>7. CallAt(G)'
    BY <1>1, <1>2 DEF CallAt
<1>8. ListInv(G)'
    BY <1>5, <1>6, <1>7 DEF ListInv
<1> QED
    BY <1>3, <1>4, <1>8 DEF HeapInv

LEMMA TakesBlockKeeps ==
    ASSUME HeapInv, TakesBlock
    PROVE  HeapInv'
<1>1. PICK F \in SUBSET Unit : ListInv(F)
    BY Searching DEF TakesBlock
<1>0. PICK b, G : b = p /\ G = F \ {b}
    OBVIOUS
<1>2. /\ upc = "search" /\ nunits >= 1 /\ b \in F /\ b # Base /\ b \in Unit /\ b \in Blocks(F)
      /\ prevp \in G /\ prevp \in Unit /\ b = ptr[prevp] /\ Blocks(F) = held \cup (F \ {Base})
    BY <1>0, <1>1, Found, Types, Constants DEF TakesBlock
<1>3. /\ ptr' \in [Unit -> Unit] /\ ptr'[prevp] = ptr[b]
      /\ \A a \in G \ {prevp} : ptr'[a] = ptr[a]
    BY <1>0, <1>2, Types, Constants DEF TakesBlock
<1>4. \A a \in F : a \in Nat /\ ptr[a] \in F /\ IsNext(F, a, ptr[a])
    BY <1>1, Constants DEF ListInv, Ring
<1>5. Base \in G /\ ptr[b] # b
    BY <1>0, <1>1, <1>2, <1>4, Constants DEF ListInv, Ring, IsNext
<1>6. Ring(G)'
    <2> SUFFICES ASSUME NEW a \in G PROVE ptr'[a] \in G /\ IsNext(G, a, ptr[a])'
        BY <1>5 DEF Ring
    <2>1. CASE a = prevp
        BY <1>0, <1>2, <1>3, <1>4, <1>5, <2>1, Constants DEF IsNext
    <2>2. CASE a # prevp
        <3>1. ptr[a] # b
            BY <1>0, <1>2, <1>4, <2>2, Constants DEF IsNext
        <3> QED
            BY <1>0, <1>3, <1>4, <2>2, <3>1 DEF IsNext
    <2> QED
        BY <2>1, <2>2
<1>7. UNCHANGED <<size, top>> /\ freep' = prevp /\ Returned(b)
    BY <1>0 DEF TakesBlock
<1>8. Apart(G)'
    BY <1>0, <1>1, <1>7 DEF ListInv, Apart
<1>9. held' = held \cup {b}
    BY <1>7 DEF Returned
<1>10. (held \cup {b} \cup (G \ {Base}))' = Blocks(F)
    BY <1>0, <1>2, <1>9
<1>11. Tiles(held \cup {b} \cup (G \ {Base}))'
    BY <1>1, <1>7, <1>10 DEF ListInv, Tiles, Within, Disjoint, Covers
<1>12. G \in SUBSET F /\ b \in Unit \ G
    BY <1>0, <1>2
<1> QED
    BY <1>1, <1>2, <1>3, <1>6, <1>7, <1>8, <1>11, <1>12, Types, ReturnedKeeps

LEMMA TakesTailKeeps ==
    ASSUME HeapInv, TakesTail
    PROVE  HeapInv'
<1>1. PICK F \in SUBSET Unit : ListInv(F)
    BY Searching DEF TakesTail
<1>2. /\ upc = "search" /\ nunits \in Nat /\ nunits >= 1 /\ nunits < size[p] /\ size[p] \in Nat
      /\ p \in F /\ p # Base /\ p \in Unit /\ p \in Blocks(F) /\ p \notin held
      /\ prevp \in F /\ Blocks(F) = held \cup (F \ {Base}) /\ Blocks(F) \subseteq Unit
    <2>1. upc = "search" /\ nunits < size[p] /\ size[p] >= nunits
        BY Types, Constants DEF TakesTail
    <2> QED
        BY <1>1, <2>1, Found, Types, Constants
<1>3. PICK t : t = p + size[p] - nunits
    OBVIOUS
<1>4. Within(Blocks(F)) /\ Disjoint(Blocks(F)) /\ Covers(Blocks(F)) /\ Apart(F) /\ Ring(F)
    BY <1>1 DEF ListInv, Tiles
<1>5. t \in Unit /\ p < t /\ t + nunits = p + size[p] /\ p \in Nat /\ p >= 1
    BY <1>2, <1>3, <1>4, Types, Constants DEF Within
<1>6. t \notin Blocks(F) /\ t # Base /\ t \notin F
    BY <1>2, <1>4, <1>5, Constants DEF Disjoint
<1>7. /\ size' \in [Unit -> Unit] /\ size'[t] = nunits /\ size'[p] = size[p] - nunits
      /\ \A a \in Unit \ {p, t} : size'[a] = size[a]
    <2>1. size' = [size EXCEPT ![t] = nunits, ![p] = size[p] - nunits]
        BY <1>3 DEF TakesTail, TailOf
    <2>2. nunits \in Unit /\ size[p] - nunits \in Unit
        BY <1>2, Types, Constants
    <2> QED
        BY <1>2, <1>5, <2>1, <2>2, Types
<1>8. UNCHANGED <<ptr, top>> /\ freep' = prevp /\ Returned(t)
    BY <1>3 DEF TakesTail, TailOf
<1>9. held' = held \cup {t}
    BY <1>8 DEF Returned
<1>10. PICK B : B = (held \cup {t} \cup (F \ {Base}))'
    OBVIOUS
<1>11. B = Blocks(F) \cup {t}
    BY <1>2, <1>9, <1>10
<1>12. Within(B)'
    <2> SUFFICES ASSUME NEW a \in B PROVE 1 <= size'[a] /\ Start <= a /\ a + size'[a] <= top
        BY <1>8, <1>10 DEF Within
    <2>1. CASE a = t
        BY <1>2, <1>4, <1>5, <1>7, <2>1, Constants DEF Within
    <2>2. CASE a = p
        BY <1>2, <1>4, <1>5, <1>7, <2>2, Types, Constants DEF Within
    <2>3. CASE a # t /\ a # p
        BY <1>2, <1>4, <1>7, <1>11, <2>3 DEF Within
    <2> QED
        BY <2>1, <2>2, <2>3
<1>13. Disjoint(B)'
    <2> SUFFICES ASSUME NEW a \in B, NEW b \in B, a < b PROVE a + size'[a] <= b
        BY <1>10 DEF Disjoint
    <2>1. \A c \in Blocks(F) : c \in Nat /\ size[c] \in Nat /\ (c < p => c + size[c] <= p) /\ (p < c => p + size[p] <= c)
        BY <1>2, <1>4, Types, Constants DEF Disjoint
    <2>2. CASE a = t
        BY <1>2, <1>5, <1>7, <1>11, <2>1, <2>2, Constants
    <2>3. CASE b = t /\ a # t
        <3>1. CASE a = p
            BY <1>2, <1>5, <1>7, <2>3, <3>1, Constants
        <3>2. CASE a # p
            <4>1. size'[a] = size[a] /\ a \in Blocks(F)
                BY <1>2, <1>7, <1>11, <2>3, <3>2
            <4>2. a < p
                BY <1>2, <1>5, <2>1, <2>3, <3>2, <4>1, Constants
            <4> QED
                BY <1>5, <2>1, <2>3, <4>1, <4>2, Constants
        <3> QED
            BY <3>1, <3>2
    <2>4. CASE a # t /\ b # t
        <3>1. a \in Blocks(F) /\ b \in Blocks(F) /\ a + size[a] <= b
            BY <1>4, <1>11, <2>4 DEF Disjoint
        <3>2. size'[a] \in Nat /\ size'[a] <= size[a]
            BY <1>2, <1>7, <2>1, <2>4, <3>1
        <3> QED
            BY <2>1, <3>1, <3>2
    <2> QED
        BY <2>2, <2>3, <2>4
<1>14. Covers(B)'
    <2> SUFFICES ASSUME NEW a \in Start..top - 1
                 PROVE  \E b \in B : b <= a /\ a < b + size'[b]
        BY <1>8, <1>10 DEF Covers
    <2>1. PICK b \in Blocks(F) : b <= a /\ a < b + size[b]
        BY <1>4 DEF Covers
    <2>2. CASE b # p
        BY <1>2, <1>6, <1>7, <1>11, <2>1, <2>2
    <2>3. CASE b = p
        <3>1. CASE a < t
            BY <1>2, <1>5, <1>7, <1>11, <2>1, <2>3, <3>1, Constants
        <3>2. CASE a >= t
            BY <1>2, <1>5, <1>7, <1>11, <2>1, <2>3, <3>2, Constants
        <3> QED
            BY <1>5, <3>1, <3>2, Constants
    <2> QED
        BY <2>2, <2>3
<1>15. Apart(F)'
    <2> SUFFICES ASSUME NEW a \in F \ {Base}, NEW b \in F \ {Base} PROVE a + size'[a] # b
        BY DEF Apart
    <2>1. CASE a = p
        BY <1>2, <1>5, <1>6, <1>7, <2>1, Constants
    <2>2. CASE a # p
        <3>1. a # t
            BY <1>6
        <3> QED
            BY <1>4, <1>7, <2>2, <3>1 DEF Apart
    <2> QED
        BY <2>1, <2>2
<1>16. Ring(F)' /\ Tiles(held \cup {t} \cup (F \ {Base}))'
    BY <1>4, <1>8, <1>10, <1>12, <1>13, <1>14 DEF Ring, Tiles
<1>17. size'[Base] = 0
    BY <1>2, <1>6, <1>7, Types, Constants
<1> QED
    BY <1>1, <1>2, <1>5, <1>6, <1>7, <1>8, <1>15, <1>16, <1>17, Types, ReturnedKeeps

-----------------------------------------------------------------------------
(* free() puts the block bp after q, where its address belongs.            *)
LEMMA Between ==
    ASSUME HeapInv, NEW F \in SUBSET Unit, ListInv(F), upc \in {"place", "placemore"}, Fits(bp, q)
    PROVE  /\ q \in F /\ ptr[q] \in F /\ bp \in Blocks(F) /\ bp \notin F /\ bp >= 1 /\ q < bp
           /\ bp \in Nat /\ q \in Nat /\ ptr[q] \in Nat
           /\ \/ ptr[q] = Base /\ \A c \in F : c <= q
              \/ bp < ptr[q] /\ \A c \in F : c <= q \/ ptr[q] <= c
<1>1. q \in F /\ bp \in Blocks(F) /\ bp \notin F
    BY DEF ListInv, CallAt, Blocks
<1>2. ptr[q] \in F /\ IsNext(F, q, ptr[q])
    BY <1>1 DEF ListInv, Ring
<1>3. bp >= 1 /\ bp \in Nat /\ q \in Nat /\ ptr[q] \in Nat
    BY <1>1, <1>2, Types, Constants DEF ListInv, Tiles, Within
<1> QED
    BY <1>1, <1>2, <1>3, Constants DEF Fits, IsNext

(* When blocks become one, from at up to end                               *)
LEMMA MergedTiles ==
    ASSUME NEW B, B \subseteq Unit, Tiles(B), top' = top, top \in Nat,
           size \in [Unit -> Unit], size' \in [Unit -> Unit],
           NEW gone, NEW at \in B \ gone, NEW end \in Nat, at + size'[at] = end, at < end, end <= top,
           \A c \in B \ gone : c # at => size'[c] = size[c],
           \A c \in gone \cup {at} : at <= c /\ c + size[c] <= end,
           \A c \in B \ gone : c > at => end <= c
    PROVE  Tiles(B \ gone)'
<1>1. PICK C : C = B \ gone
    OBVIOUS
<1>2. \A c \in B : c \in Nat /\ size[c] \in Nat /\ size'[c] \in Nat
    BY Constants
<1>3. Within(B) /\ Disjoint(B) /\ Covers(B)
    BY DEF Tiles
<1>4. Within(C)'
    BY <1>1, <1>2, <1>3, Constants DEF Within
<1>5. Disjoint(C)'
    <2> SUFFICES ASSUME NEW a \in C, NEW b \in C, a < b PROVE a + size'[a] <= b
        BY DEF Disjoint
    <2>1. CASE a = at
        BY <1>1, <2>1
    <2>2. CASE a # at
        BY <1>1, <1>3, <2>2 DEF Disjoint
    <2> QED
        BY <2>1, <2>2
<1>6. Covers(C)'
    <2> SUFFICES ASSUME NEW a \in Start..top - 1
                 PROVE  \E b \in C : b <= a /\ a < b + size'[b]
        BY DEF Covers
    <2>1. PICK b \in B : b <= a /\ a < b + size[b]
        BY <1>3 DEF Covers
    <2>2. CASE b \in gone \cup {at}
        <3>1. at <= a /\ a < at + size'[at]
            BY <1>2, <2>1, <2>2, Constants
        <3> QED
            BY <1>1, <3>1
    <2>3. CASE b \notin gone \cup {at}
        BY <1>1, <2>1, <2>3
    <2> QED
        BY <2>2, <2>3
<1>7. Tiles(C)'
    BY <1>4, <1>5, <1>6 DEF Tiles
<1> QED
    BY <1>1, <1>7

LEMMA PlaceKeeps ==
    ASSUME HeapInv, Place
    PROVE  HeapInv'
<1>1. PICK F \in SUBSET Unit : ListInv(F)
    BY Searching DEF Place
<1>2. PICK a, b, n, la, lb, ln, B : /\ a = bp /\ b = q /\ n = ptr[q] /\ B = Blocks(F)
                                    /\ la = size[a] /\ lb = size[b] /\ ln = size[n]
    OBVIOUS
<1> DEFINE above == a + la = n
           below == b + lb = a
           at == IF below THEN b ELSE a
           end == IF above THEN n + ln ELSE a + la
           gone == (IF below THEN {a} ELSE {}) \cup (IF above THEN {n} ELSE {})
           G == (F \cup {at}) \ gone
<1>3. /\ b \in F /\ n \in F /\ a \in B /\ a \notin F /\ a >= 1 /\ b < a
      /\ a \in Nat /\ b \in Nat /\ n \in Nat
      /\ \/ n = Base /\ \A c \in F : c <= b
         \/ a < n /\ \A c \in F : c <= b \/ n <= c
    BY <1>1, <1>2, Between DEF Place
<1>4. /\ B = held \cup (F \ {Base}) \cup {a} /\ B \subseteq Unit /\ Base \notin B /\ Tiles(B)
      /\ \A c \in B : c \in Nat /\ c >= 1 /\ size[c] \in Nat /\ size[c] >= 1 /\ c + size[c] <= top
    <2>1. B = held \cup (F \ {Base}) \cup {a} /\ B \subseteq Unit /\ Tiles(B)
        BY <1>1, <1>2, Types DEF Place, ListInv, CallAt, Blocks
    <2> QED
        BY <2>1, Types, Constants DEF Tiles, Within
<1>5. \A c, d \in B : c < d => c + size[c] <= d
    BY <1>4 DEF Tiles, Disjoint
<1>6. la \in Nat /\ lb \in Nat /\ ln \in Nat /\ la >= 1 /\ (b = Base => lb = 0)
    BY <1>2, <1>3, <1>4, Types
<1>7. above => n \in B /\ n # Base /\ a < n
    BY <1>3, <1>4, <1>6, Constants
<1>8. below => b \in B /\ b # Base
    BY <1>3, <1>4, <1>6, Constants
<1>9. UNCHANGED <<top, nunits, moving>> /\ freep' = b /\ held' = held \ {a} /\ bp' = 0 /\ q' = 0
    BY <1>2 DEF Place
<1>10. at \in B /\ at \in Nat /\ at >= 1 /\ at <= a /\ b <= at /\ at \notin gone /\ at \in Unit
    BY <1>3, <1>4, <1>7, <1>8
<1>11. end \in Nat /\ at < end /\ end <= top /\ a + la <= end
    BY <1>2, <1>3, <1>4, <1>6, <1>7, <1>10
<1>12. /\ at + size'[at] = end
       /\ \A c \in Unit : c # at /\ c \notin gone => size'[c] = size[c]
       /\ size' \in [Unit -> Unit]
    <2>1. size' = [c \in Unit |->
                IF c = at THEN IF below THEN lb + (la + IF above THEN ln ELSE 0)
                               ELSE la + IF above THEN ln ELSE 0
                ELSE IF c = a \/ (above /\ c = n) THEN 0 ELSE size[c]]
        BY <1>2 DEF Place, JoinsBelow
    <2>2. end - at = IF below THEN lb + (la + IF above THEN ln ELSE 0) ELSE la + IF above THEN ln ELSE 0
        BY <1>3, <1>6
    <2>3. end - at \in Unit /\ 0 \in Unit
        BY <1>10, <1>11, Types, Constants
    <2>4. a # at => a \in gone
        OBVIOUS
    <2>5. size' = [c \in Unit |-> IF c = at THEN end - at
                                  ELSE IF c = a \/ (above /\ c = n) THEN 0 ELSE size[c]]
        BY <2>1, <2>2
    <2> HIDE DEF at, end, above, below
    <2>6. size'[at] = end - at
        BY <1>10, <2>5
    <2>7. \A c \in Unit : c # at /\ c \notin gone => size'[c] = size[c]
        BY <2>4, <2>5
    <2>8. size' \in [Unit -> Unit]
        BY <2>3, <2>5, Types
    <2> QED
        BY <1>10, <1>11, <2>6, <2>7, <2>8
<1>13. /\ ptr' \in [Unit -> Unit] /\ ptr'[at] = (IF above THEN ptr[n] ELSE n) /\ (~below => ptr'[b] = a)
       /\ \A c \in Unit : c # at /\ c # b /\ c \notin gone => ptr'[c] = ptr[c]
    <2>1. ptr' = [c \in Unit |->
                IF c = at THEN IF above THEN ptr[n] ELSE n
                ELSE IF c = b THEN a
                ELSE IF above /\ c = n THEN 0 ELSE ptr[c]]
        BY <1>2 DEF Place, JoinsBelow
    <2>2. n \in Unit /\ a \in Unit /\ b \in Unit /\ 0 \in Unit /\ ptr[n] \in Unit
        BY <1>3, <1>4, Types, Constants
    <2>3. above => n \in gone
        OBVIOUS
    <2>4. ~below => at # b
        BY <1>3
    <2> HIDE DEF at, above, below, gone
    <2> QED
        BY <1>10, <2>1, <2>2, <2>3, <2>4, Types
<1>14. Tiles(B \ gone)'
    <2>1. \A c \in gone \cup {at} : at <= c /\ c + size[c] <= end
        BY <1>2, <1>3, <1>4, <1>6, <1>7, <1>8, <1>10, <1>11
    <2>2. \A c \in B \ gone : c > at => end <= c
        <3> SUFFICES ASSUME NEW c \in B \ gone, c > at PROVE end <= c
            OBVIOUS
        <3>1. c > a
            <4>1. CASE below
                BY <1>2, <1>3, <1>4, <1>5, <1>6, <1>8, <4>1
            <4>2. CASE ~below
                BY <4>2
            <4> QED
                BY <4>1, <4>2
        <3>2. a + la <= c
            BY <1>2, <1>3, <1>5, <3>1
        <3>3. CASE above
            BY <1>2, <1>3, <1>4, <1>5, <1>7, <3>2, <3>3
        <3>4. CASE ~above
            BY <3>2, <3>4
        <3> QED
            BY <3>3, <3>4
    <2>3. \A c \in B \ gone : c # at => size'[c] = size[c]
        BY <1>4, <1>12
    <2>4. at \in B \ gone /\ top' = top /\ top \in Nat /\ size \in [Unit -> Unit]
        BY <1>9, <1>10, Types
    <2> HIDE DEF at, end, gone
    <2> QED
        BY <1>4, <1>11, <1>12, <2>1, <2>2, <2>3, <2>4, MergedTiles
<1>15. Ring(G)'
    <2>1. \A c \in F : c \in Nat /\ ptr[c] \in F /\ IsNext(F, c, ptr[c])
        BY <1>1, Constants DEF ListInv, Ring
    <2>2. Base \in G
        BY <1>1, <1>3, <1>7, Constants DEF ListInv, Ring
    <2>3. IF above THEN ptr[n] \in G /\ IsNext(G, at, ptr[n]) ELSE n \in G /\ IsNext(G, at, n)
        <3>1. CASE above
            <4>1. ptr[n] \in F /\ IsNext(F, n, ptr[n]) /\ ptr[n] # n
                BY <1>3, <1>7, <2>1, <3>1, Constants DEF IsNext
            <4>2. ptr[n] \in G
                BY <1>3, <3>1, <4>1
            <4>3. \A c \in G : c <= at \/ (c \in F /\ c > n)
                BY <1>3, <1>7, <1>10, <2>1, <3>1, Constants
            <4>4. at < n /\ n \in Nat /\ ptr[n] \in Nat /\ at \in Nat
                <5>1. n \in Nat /\ ptr[n] \in Nat
                    BY <1>3, <2>1, <4>1
                <5>2. a < n
                    BY <1>7, <3>1
                <5> HIDE DEF at, above
                <5> QED
                    BY <1>3, <1>10, <5>1, <5>2
            <4>5. IsNext(G, at, ptr[n])
                <5> HIDE DEF G, gone, at, above
                <5>1. CASE n < ptr[n] /\ \A c \in F : c <= n \/ ptr[n] <= c
                    <6>1. at < ptr[n]
                        BY <4>4, <5>1
                    <6>2. ASSUME NEW c \in G, ~ c <= at PROVE ptr[n] <= c
                        <7>1. c \in F /\ c > n /\ c \in Nat
                            BY <2>1, <4>3, <6>2
                        <7> QED
                            BY <4>4, <5>1, <7>1
                    <6> QED
                        BY <6>1, <6>2 DEF IsNext
                <5>2. CASE ptr[n] = Base /\ \A c \in F : c <= n
                    <6>1. ASSUME NEW c \in G PROVE c <= at
                        <7>1. c <= at \/ (c \in F /\ c > n /\ c \in Nat)
                            BY <2>1, <4>3
                        <7> QED
                            BY <4>4, <5>2, <7>1
                    <6> QED
                        BY <5>2, <6>1 DEF IsNext
                <5> QED
                    BY <4>1, <5>1, <5>2 DEF IsNext
            <4> QED
                BY <3>1, <4>2, <4>5
        <3>2. CASE ~above
            <4>1. n \in G
                BY <1>3, <3>2
            <4>2. \A c \in G : c <= at \/ (a < n /\ n <= c)
                BY <1>3, <1>10, <2>1
            <4> QED
                BY <1>3, <1>10, <3>2, <4>1, <4>2, Constants DEF IsNext
        <3> QED
            BY <3>1, <3>2
    <2>4. ~below => a \in G /\ IsNext(G, b, a)
        BY <1>3, <1>7, <2>1, Constants DEF IsNext
    <2>5. ASSUME NEW c \in G, c # at, c # b
          PROVE  ptr[c] \in G /\ IsNext(G, c, ptr[c])
        <3>1. c \in F /\ IsNext(F, c, ptr[c]) /\ c # a
            BY <1>3, <2>1, <2>5
        <3>2. above => ptr[c] # n
            BY <1>3, <1>7, <2>1, <2>5, <3>1, Constants DEF IsNext
        <3>3. ptr[c] \in G
            BY <1>3, <2>1, <3>1, <3>2
        <3>4. \A d \in G : d \in F \/ d = a
            BY <1>3
        <3>5. c < b \/ a < c
            BY <1>3, <2>1, <2>5, <3>1
        <3> HIDE DEF G, gone, at
        <3>6. c \in Nat /\ ptr[c] \in Nat /\ \A d \in G : d \in Nat
            BY <1>3, <2>1, <3>1, <3>4
        <3>7. CASE c < b
            <4>1. c < ptr[c] /\ \A d \in F : d <= c \/ ptr[c] <= d
                BY <1>3, <3>1, <3>7, Constants DEF IsNext
            <4>2. ptr[c] <= b /\ ptr[c] <= a
                BY <1>3, <3>6, <3>7, <4>1
            <4> QED
                BY <3>3, <3>4, <4>1, <4>2 DEF IsNext
        <3>8. CASE a < c
            <4>1. a <= c
                BY <1>3, <3>6, <3>8
            <4> QED
                BY <3>1, <3>3, <3>4, <4>1 DEF IsNext
        <3> QED
            BY <3>5, <3>7, <3>8
    <2>6. \A c \in G : c \in Unit /\ c \notin gone
        BY <1>3, <1>10
    <2> SUFFICES ASSUME NEW c \in G PROVE (ptr[c] \in G /\ IsNext(G, c, ptr[c]))'
        BY <2>2 DEF Ring
    <2> HIDE DEF G, gone, at, above, below
    <2>7. CASE c = at
        BY <1>13, <2>3, <2>7 DEF IsNext
    <2>8. CASE c # at /\ c = b
        BY <1>13, <2>4, <2>8 DEF IsNext, at
    <2>9. CASE c # at /\ c # b
        BY <1>13, <2>5, <2>6, <2>9 DEF IsNext
    <2> QED
        BY <2>7, <2>8, <2>9
<1>16. Apart(G)'
    <2> SUFFICES ASSUME NEW c \in G \ {Base}, NEW d \in G \ {Base}, c + size'[c] = d PROVE FALSE
        BY DEF Apart
    <2>1. /\ \A x, y \in F \ {Base} : x + size[x] # y
          /\ \A x \in G : x \in F \/ x = at
          /\ \A x \in F \ {Base} : x \in B /\ x \in Unit
        BY <1>1, <1>4 DEF ListInv, Apart
    <2>2. c \notin gone /\ c \in B /\ d \in B /\ d \notin gone
        BY <1>10, <2>1
    <2>3. CASE c = at
        <3>1. d = end /\ d # at /\ d \in F
            BY <1>11, <1>12, <2>1, <2>3
        <3>2. CASE above
            BY <1>2, <1>3, <1>7, <2>1, <3>1, <3>2
        <3>3. CASE ~above
            BY <1>2, <1>3, <1>4, <1>5, <1>6, <3>1, <3>3, Constants
        <3> QED
            BY <3>2, <3>3
    <2>4. CASE c # at
        <3>1. c \in F /\ c + size[c] = d
            BY <1>12, <2>1, <2>2, <2>4
        <3>2. d = at /\ d = a /\ ~below
            BY <1>3, <2>1, <3>1
        <3>3. c <= b
            BY <1>3, <1>4, <2>2, <3>1, <3>2
        <3>4. c # b
            BY <1>2, <3>1, <3>2
        <3>5. c + size[c] <= b /\ b \in B
            BY <1>3, <1>4, <1>5, <2>1, <2>2, <3>3, <3>4, Constants
        <3> QED
            BY <1>3, <3>1, <3>2, <3>5
    <2> QED
        BY <2>3, <2>4
<1>17. G \in SUBSET Unit /\ freep' \in G /\ G \cap held' = {} /\ freep' # Null
    BY <1>1, <1>3, <1>4, <1>7, <1>9, <1>10, Constants DEF ListInv
<1>18. Blocks(G)' = B \ gone
    <2>1. Blocks(G)' = (held \ {a}) \cup (G \ {Base})
        BY <1>9 DEF Blocks, Place
    <2>2. (held \ {a}) \cup (G \ {Base}) = B \ gone
        BY <1>1, <1>3, <1>4, <1>7, <1>8, <1>10 DEF ListInv
    <2> QED
        BY <2>1, <2>2
<1>19. CallAt(G)'
    <2>1. moving' # Null => moving' \in held' /\ upc' = "search"
        BY <1>1, <1>2, <1>9 DEF Place, ListInv, CallAt
    <2>2. upc' \in {"idle", "search"} /\ (upc' = "search" => prevp' = b /\ p' = ptr'[b] /\ nunits' \in Sizes)
        BY <1>1, <1>2, <1>9 DEF Place, ListInv, CallAt
    <2> QED
        BY <1>9, <1>17, <2>1, <2>2 DEF CallAt
<1>20. HeapTypeOK' /\ size'[Base] = 0
    <2>1. size'[Base] = 0
        BY <1>3, <1>7, <1>10, <1>12, Types, Constants
    <2>2. prevp' \in Unit /\ p' \in Unit /\ upc' \in {"idle", "search"}
        BY <1>2, <1>3, <1>13, Types DEF Place
    <2>3. held' \subseteq Unit /\ freep' \in Unit /\ 0 \in Unit /\ top' \in Start..HEAP + 1
        BY <1>3, <1>9, Types, Constants
    <2> QED
        BY <1>9, <1>12, <1>13, <2>1, <2>2, <2>3, Types DEF HeapTypeOK
<1> HIDE DEF G, gone
<1>21. ListInv(G)'
    BY <1>14, <1>15, <1>16, <1>17, <1>18, <1>19 DEF ListInv
<1> QED
    BY <1>17, <1>20, <1>21 DEF HeapInv

-----------------------------------------------------------------------------
LEMMA NextKeeps ==
    ASSUME HeapInv, [MallocNext]_mallocVars
    PROVE  HeapInv'
<1>1. CASE UNCHANGED mallocVars
    BY <1>1, StutterKeeps
<1>2. CASE MallocNext
    <2>1. ASSUME NEW n \in Sizes, Malloc(n) PROVE HeapInv'
        BY <2>1, MallocKeeps
    <2>2. ASSUME NEW a \in held, Free(a) PROVE HeapInv'
        BY <2>2, FreeKeeps
    <2>3. ASSUME NEW a \in held, NEW n \in Sizes, Realloc(a, n) PROVE HeapInv'
        BY <2>3, ReallocKeeps
    <2> QED
        BY <1>2, <2>1, <2>2, <2>3, TakesBlockKeeps, TakesTailKeeps, NextBlockKeeps, MoreCoreKeeps,
           NoCoreKeeps, PlaceNextKeeps, PlaceKeeps DEF MallocNext
<1> QED
    BY <1>1, <1>2

(* HeapInv, also in the middle of malloc(), free() and realloc(): the free *)
(* list is in the order of addresses, and with the blocks of the program,  *)
(* and the one that morecore() adds, it covers the heap (umalloc.c:24-100).*)
THEOREM HeapInvariant == MallocSpec => []HeapInv
<1>1. HeapInit => HeapInv
    BY InitHolds
<1>2. HeapInv /\ [MallocNext]_mallocVars => HeapInv'
    BY NextKeeps
<1> QED
    BY <1>1, <1>2, PTL DEF MallocSpec

(* The variables of malloc() and free() keep their types: no address and   *)
(* no size leaves the heap.                                                *)
THEOREM HeapTypesHold == MallocSpec => []HeapTypeOK
<1>1. HeapInv => HeapTypeOK
    BY DEF HeapInv
<1> QED
    BY <1>1, HeapInvariant, PTL

-----------------------------------------------------------------------------
(* What OnList computes: what a walk of n turns from Base has come to      *)
Walks(g, m) ==
    g = [k \in 0..m |-> IF k = 0 THEN {Base} ELSE g[k - 1] \cup {ptr[a] : a \in g[k - 1]}]

LEMMA Smallest ==
    ASSUME NEW T, T \subseteq Nat, T # {}
    PROVE  \E x \in T : \A y \in T : x <= y
<1>1. PICK R : R = {ss \in Nat \X Nat : ss[1] < ss[2]}
    OBVIOUS
<1>2. IsWellFoundedOn(R, Nat)
    BY <1>1, NatLessThanWellFounded DEF OpToRel
<1>3. PICK x \in T : \A y \in T : ~ (<<y, x>> \in R)
    BY <1>2, WFMin
<1>4. \A y \in T : ~ (y < x)
    BY <1>1, <1>3
<1> QED
    BY <1>3, <1>4

LEMMA WalkExists ==
    ASSUME NEW m \in Nat
    PROVE  \E g : Walks(g, m)
<1> SUFFICES ASSUME ~ \E g : Walks(g, m) PROVE FALSE
    OBVIOUS
<1> DEFINE T == {k \in Nat : ~ \E g : Walks(g, k)}
<1>1. PICK x \in T : \A y \in T : x <= y
    BY Smallest
<1>2. CASE x = 0
    <2>1. PICK g : g = [k \in 0..0 |-> {Base}]
        OBVIOUS
    <2>2. Walks(g, 0)
        BY <2>1 DEF Walks
    <2> QED
        BY <1>2, <2>2
<1>3. CASE x # 0
    <2>1. x - 1 \in Nat /\ x - 1 \notin T
        BY <1>1, <1>3
    <2>2. PICK g : Walks(g, x - 1)
        BY <2>1
    <2>3. PICK h : h = [k \in 0..x |-> IF k = x THEN g[x - 1] \cup {ptr[a] : a \in g[x - 1]} ELSE g[k]]
        OBVIOUS
    <2>4. \A k \in 0..x - 1 : h[k] = g[k]
        BY <1>1, <2>3
    <2>5. ASSUME NEW k \in 0..x
          PROVE  h[k] = IF k = 0 THEN {Base} ELSE h[k - 1] \cup {ptr[a] : a \in h[k - 1]}
        <3>1. CASE k = x
            <4>1. h[k] = g[x - 1] \cup {ptr[a] : a \in g[x - 1]}
                BY <2>3, <3>1
            <4>2. h[k - 1] = g[x - 1]
                BY <2>1, <2>4, <3>1
            <4> QED
                BY <1>3, <3>1, <4>1, <4>2
        <3>2. CASE k # x
            <4>1. k \in 0..x - 1
                BY <1>1, <3>2
            <4>2. g[k] = IF k = 0 THEN {Base} ELSE g[k - 1] \cup {ptr[a] : a \in g[k - 1]}
                BY <2>2, <4>1 DEF Walks
            <4>3. k # 0 => h[k - 1] = g[k - 1]
                BY <2>4, <4>1
            <4> QED
                BY <2>4, <4>1, <4>2, <4>3
        <3> QED
            BY <3>1, <3>2
    <2>6. h = [k \in 0..x |-> h[k]]
        BY <2>3
    <2>7. Walks(h, x)
        BY <2>5, <2>6 DEF Walks
    <2> QED
        BY <2>7
<1> QED
    BY <1>2, <1>3

(* All but Base come after another one.                                    *)
LEMMA Follows ==
    ASSUME HeapInv, NEW F \in SUBSET Unit, Ring(F), NEW a \in F \ {Base}
    PROVE  \E b \in F : b < a /\ ptr[b] = a
<1>1. \A c \in F : c \in Nat /\ c <= HEAP /\ ptr[c] \in F /\ IsNext(F, c, ptr[c])
    BY Constants DEF Ring
<1>2. Base \in F /\ HEAP \in Nat /\ Base < a
    BY <1>1, Constants DEF Ring
<1>3. PICK T : T = {HEAP - c : c \in {d \in F : d < a}}
    OBVIOUS
<1>4. T \subseteq Nat /\ T # {}
    BY <1>1, <1>2, <1>3
<1>5. PICK x \in T : \A y \in T : x <= y
    BY <1>4, Smallest
<1>6. PICK b \in F : b < a /\ x = HEAP - b
    BY <1>3, <1>5
<1>7. ASSUME NEW c \in F, c < a PROVE c <= b
    <2>1. HEAP - c \in T /\ HEAP - b <= HEAP - c
        BY <1>3, <1>5, <1>6, <1>7
    <2> QED
        BY <1>1, <1>2, <2>1
<1>8. a \in Nat /\ b \in Nat /\ ptr[b] \in Nat /\ ptr[b] \in F /\ IsNext(F, b, ptr[b])
    BY <1>1
<1>9. ~ (a <= b)
    BY <1>6, <1>8
<1>10. b < ptr[b] /\ \A c \in F : c <= b \/ ptr[b] <= c
    BY <1>8, <1>9 DEF IsNext
<1>11. ptr[b] <= a
    BY <1>9, <1>10
<1>12. ~ (ptr[b] < a)
    BY <1>7, <1>8, <1>10
<1> QED
    BY <1>6, <1>8, <1>11, <1>12

(* OnList is the list.                                                     *)
LEMMA OnListIs ==
    ASSUME HeapInv, NEW F \in SUBSET Unit, Ring(F)
    PROVE  OnList = F
<1>1. PICK g : Walks(g, HEAP + 1) /\ OnList = g[HEAP + 1]
    <2>1. \E g : Walks(g, HEAP + 1)
        BY WalkExists, Constants
    <2>2. OnList = (CHOOSE g : Walks(g, HEAP + 1))[HEAP + 1]
        BY DEF OnList, Walks
    <2> QED
        BY <2>1, <2>2
<1>2. PICK m \in Nat : m = HEAP + 1
    BY Constants
<1>3. g[0] = {Base} /\ \A k \in 1..m : g[k] = g[k - 1] \cup {ptr[a] : a \in g[k - 1]}
    <2>1. ASSUME NEW k \in 0..m
          PROVE  g[k] = IF k = 0 THEN {Base} ELSE g[k - 1] \cup {ptr[a] : a \in g[k - 1]}
        BY <1>1, <1>2 DEF Walks
    <2>2. 0 \in 0..m /\ \A k \in 1..m : k \in 0..m /\ k # 0
        OBVIOUS
    <2> QED
        BY <2>1, <2>2
<1>4. \A c \in F : c \in Nat /\ c <= m /\ ptr[c] \in F
    BY <1>2, Constants DEF Ring
<1>5. g[m] \subseteq F
    <2> SUFFICES ASSUME ~ (g[m] \subseteq F) PROVE FALSE
        OBVIOUS
    <2>1. PICK k \in {j \in 0..m : ~ (g[j] \subseteq F)} : \A j \in 0..m : ~ (g[j] \subseteq F) => k <= j
        <3>1. PICK T : T = {j \in 0..m : ~ (g[j] \subseteq F)}
            OBVIOUS
        <3>2. PICK k \in T : \A j \in T : k <= j
            BY <3>1, Smallest
        <3> QED
            BY <3>1, <3>2
    <2>2. k # 0
        BY <1>3, <2>1 DEF Ring
    <2>3. k \in 1..m /\ k - 1 \in 0..m /\ ~ (k <= k - 1)
        BY <2>1, <2>2
    <2>4. g[k - 1] \subseteq F
        BY <2>1, <2>3
    <2> QED
        BY <1>3, <1>4, <2>1, <2>3, <2>4
<1>6. F \subseteq g[m]
    <2> SUFFICES ASSUME NEW c \in F, c \notin g[m] PROVE FALSE
        OBVIOUS
    <2> DEFINE Missed(j) == \E a \in F : a <= j /\ a \notin g[j]
    <2>1. PICK k \in {j \in 0..m : Missed(j)} : \A j \in 0..m : Missed(j) => k <= j
        <3>1. PICK T : T = {j \in 0..m : Missed(j)}
            OBVIOUS
        <3>2. m \in T
            BY <1>4, <3>1
        <3>3. PICK k \in T : \A j \in T : k <= j
            BY <3>1, <3>2, Smallest
        <3> QED
            BY <3>1, <3>3
    <2>2. PICK a \in F : a <= k /\ a \notin g[k]
        BY <2>1
    <2>3. k # 0
        BY <1>3, <1>4, <2>2, Constants
    <2>4. k \in 1..m /\ k - 1 \in 0..m /\ ~ (k <= k - 1)
        BY <2>1, <2>3
    <2>5. \A b \in F : b <= k - 1 => b \in g[k - 1]
        BY <2>1, <2>4
    <2>6. a = k
        BY <1>3, <1>4, <2>2, <2>4, <2>5
    <2>7. a # Base
        BY <2>4, <2>6, Constants
    <2>8. PICK b \in F : b < a /\ ptr[b] = a
        BY <2>7, Follows
    <2>9. b \in g[k - 1]
        BY <1>4, <2>4, <2>5, <2>6, <2>8
    <2> QED
        BY <1>3, <2>2, <2>4, <2>8, <2>9
<1> QED
    BY <1>1, <1>2, <1>5, <1>6

LEMMA UnitFinite == IsFiniteSet(Unit)
<1>1. Unit = 0..HEAP /\ 0 \in Int /\ HEAP \in Int
    BY Constants DEF Unit
<1> QED
    BY <1>1, FS_Interval

(* Each block on the list is pointed to once.                              *)
LEMMA RingIsOneRing ==
    ASSUME HeapInv, NEW F \in SUBSET Unit, Ring(F)
    PROVE  Cardinality({ptr[a] : a \in F}) = Cardinality(F)
<1>1. PICK T : T = {ptr[a] : a \in F}
    OBVIOUS
<1>2. PICK f : f = [a \in F |-> ptr[a]]
    OBVIOUS
<1>3. \A a \in F : a \in Nat /\ ptr[a] \in F /\ IsNext(F, a, ptr[a])
    BY Constants DEF Ring
<1>4. ASSUME NEW a \in F, NEW b \in F, ptr[a] = ptr[b] PROVE a = b
    <2>1. a \in Nat /\ b \in Nat /\ ptr[a] \in Nat
        BY <1>3
    <2>2. \A c, d \in F : ptr[c] = ptr[d] => d <= c
        <3> SUFFICES ASSUME NEW c \in F, NEW d \in F, ptr[c] = ptr[d] PROVE d <= c
            OBVIOUS
        <3>1. c \in Nat /\ d \in Nat /\ ptr[c] \in Nat /\ IsNext(F, c, ptr[c]) /\ IsNext(F, d, ptr[d])
            BY <1>3
        <3>2. CASE ptr[c] = Base
            BY <3>1, <3>2, Constants DEF IsNext
        <3>3. CASE ptr[c] # Base
            BY <3>1, <3>3 DEF IsNext
        <3> QED
            BY <3>2, <3>3
    <2> QED
        BY <1>4, <2>1, <2>2
<1>5. f \in Surjection(F, T) /\ f \in Injection(F, T)
    BY <1>1, <1>2, <1>4 DEF Surjection, Injection, IsInjective
<1>6. IsFiniteSet(F)
    BY UnitFinite, FS_Subset
<1> QED
    BY <1>1, <1>5, <1>6, FS_Surjection

LEMMA InvHeapTiled ==
    ASSUME HeapInv
    PROVE  HeapTiled
<1> SUFFICES ASSUME upc = "idle", freep # Null PROVE HeapTiled
    BY DEF HeapTiled
<1>1. PICK F \in SUBSET Unit : ListInv(F)
    BY DEF HeapInv
<1>2. OnList = F /\ FreeBlocks = F \ {Base}
    BY <1>1, OnListIs DEF ListInv, FreeBlocks
<1>3. PICK B : B = held \cup (F \ {Base})
    OBVIOUS
<1>4. B = Blocks(F) /\ Within(B) /\ Disjoint(B) /\ Covers(B)
    BY <1>1, <1>3 DEF ListInv, Tiles, Blocks
<1>5. \A b \in B : b \in Nat /\ size[b] \in Nat
    BY <1>3, Types, Constants
<1>6. ASSUME NEW a \in Start..top - 1
      PROVE  Cardinality({b \in B : a \in BlockUnits(b)}) = 1
    <2>1. PICK c \in B : c <= a /\ a < c + size[c]
        BY <1>4 DEF Covers
    <2>2. a \in Nat
        BY Types, Constants
    <2>3. a \in BlockUnits(c)
        BY <1>5, <2>1, <2>2 DEF BlockUnits
    <2>4. ASSUME NEW b \in B, a \in BlockUnits(b) PROVE b = c
        <3>1. b <= a /\ a < b + size[b]
            BY <1>5, <2>2, <2>4 DEF BlockUnits
        <3> QED
            BY <1>4, <1>5, <2>1, <2>2, <3>1 DEF Disjoint
    <2>5. {b \in B : a \in BlockUnits(b)} = {c}
        BY <2>3, <2>4
    <2> QED
        BY <2>5, FS_Singleton
<1>7. freep \in OnList /\ Cardinality({ptr[a] : a \in OnList}) = Cardinality(OnList)
    BY <1>1, <1>2, RingIsOneRing DEF ListInv
<1>8. held \cap FreeBlocks = {} /\ \A a, b \in FreeBlocks : a + size[a] # b
    BY <1>1, <1>2 DEF ListInv, Apart
<1>9. held \cup FreeBlocks = B /\ \A a \in B : a + size[a] <= top
    BY <1>2, <1>3, <1>4 DEF Within
<1> QED
    BY <1>6, <1>7, <1>8, <1>9 DEF HeapTiled

(* Nothing is given out twice, nothing is lost and nothing stays in pieces *)
(* (malloc(), free() and realloc(), umalloc.c:24-100): between calls the   *)
(* blocks of the program and the free ones tile the heap, no two free ones *)
(* touch, and the free list is one ring with base on it.                   *)
THEOREM HeapIsTiled == MallocSpec => []HeapTiled
<1>1. HeapInv => HeapTiled
    BY InvHeapTiled
<1> QED
    BY <1>1, HeapInvariant, PTL
=============================================================================
