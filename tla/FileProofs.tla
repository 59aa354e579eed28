----------------------------- MODULE FileProofs -----------------------------
(***************************************************************************)
(* For any number of processes, descriptors, files and objects: the counts *)
(* of FileTable are those of who has what in hand, and FilesRight follows. *)
(***************************************************************************)
EXTENDS FileTable, FiniteSetTheorems, SequenceTheorems, WellFoundedInduction, TLAPS

FileTypes ==
    /\ fref \in [File -> Nat]
    /\ fobj \in [File -> Object \cup {NoObject}]
    /\ ofile \in [Proc -> [Fd -> File \cup {NoFile}]]
    /\ uses \in [Object -> Nat]
    /\ fpc \in [Proc -> {"unused", "embryo", "user", "open", "fdalloc", "set", "pipe",
                         "pipe2", "fdalloc2", "fdalloc3", "dup", "fork", "drop", "exit"}]
    /\ arg \in [Proc -> Seq(File)]
    /\ obj \in [Proc -> Inodes \cup {NoObject}]
    /\ ff \in [Proc -> Object \cup {NoObject}]
    /\ child \in [Proc -> Proc]

-----------------------------------------------------------------------------
(* The calls with a reference in hand for each file of arg                 *)
Handing == {"fdalloc", "pipe", "pipe2", "fdalloc2", "drop"}

(* The calls with a file in hand that stands for nothing yet               *)
Making == {"fdalloc", "set", "pipe", "pipe2"}

Has(p, f) == \E k \in 1..Len(arg[p]) : arg[p][k] = f

(* Of the descriptors of a file, the one that dup() has not yet counted:   *)
(* the least, say, since only their number shows.                          *)
Uncounted(p, fd) ==
    /\ fpc[p] = "dup" /\ ofile[p][fd] = arg[p][1]
    /\ \A fe \in Fd : ofile[p][fe] = arg[p][1] => fd <= fe

(* The references of p to a file: descriptors, and what it has in hand;    *)
(* in the middle of sys_pipe() that is the second file only.               *)
RefsOf(p, f) ==
    {fd \in Fd : ofile[p][fd] = f /\ ~Uncounted(p, fd)}
        \cup (IF (fpc[p] \in Handing /\ Has(p, f)) \/ (fpc[p] = "fdalloc3" /\ arg[p][2] = f)
              THEN {0} ELSE {})

Refs(f) == {w \in Proc \X (0..NOFILE) : w[2] \in RefsOf(w[1], f)}

Standing(o) == {f \in File : fobj[f] = o}
Releasing(o) == {p \in Proc : ff[p] = o}
Opening(o) == {p \in Proc : obj[p] = o}

-----------------------------------------------------------------------------
(* f->ref counts the references.                                           *)
CountInv == \A f \in File : fref[f] = Cardinality(Refs(f))

(* ip->ref and the pipe's flags count the files and the calls in between.  *)
UsesInv ==
    \A o \in Object :
        uses[o] = Cardinality(Standing(o)) + Cardinality(Releasing(o)) + Cardinality(Opening(o))

(* What a call has in hand where                                           *)
CallAt(p) ==
    /\ fpc[p] \in {"unused", "embryo", "user", "open", "fork", "exit"} => arg[p] = <<>>
    /\ fpc[p] \in {"fdalloc", "set", "pipe", "dup"} => Len(arg[p]) = 1
    /\ fpc[p] \in {"pipe2", "fdalloc2", "fdalloc3"} => Len(arg[p]) = 2
    /\ Len(arg[p]) <= 2 /\ (Len(arg[p]) = 2 => arg[p][1] # arg[p][2])
    /\ fpc[p] \in {"open", "fdalloc", "set"} => obj[p] # NoObject
    /\ fpc[p] \notin {"open", "fdalloc", "set", "drop"} => obj[p] = NoObject
    /\ fpc[p] \notin {"drop", "exit"} => ff[p] = NoObject

CallInv == \A p \in Proc : CallAt(p)

(* Descriptors that are there before the file, or the reference, is        *)
PlacedAt(p) ==
    /\ fpc[p] \in {"set", "fdalloc3"} => \E fd \in Fd : ofile[p][fd] = arg[p][1]
    /\ fpc[p] = "dup" => \E fd, fe \in Fd :
          fd # fe /\ ofile[p][fd] = arg[p][1] /\ ofile[p][fe] = arg[p][1]

PlacedInv == \A p \in Proc : PlacedAt(p)

(* A file that is being made is one process'.                              *)
MadeAt(p, f) ==
    /\ fpc[p] \in Making /\ Has(p, f) => fobj[f] = NoObject /\ fref[f] = 1
    /\ fpc[p] \in {"fdalloc2", "fdalloc3"} /\ Has(p, f) => fobj[f] # NoObject

MadeInv == \A p \in Proc, f \in File : MadeAt(p, f)

(* Descriptors name what is there.                                         *)
NamedAt(p, fd) ==
    ofile[p][fd] # NoFile =>
        \/ fobj[ofile[p][fd]] # NoObject
        \/ fpc[p] = "set" /\ arg[p][1] = ofile[p][fd]

NamedInv ==
    /\ \A f \in File : fref[f] = 0 => fobj[f] = NoObject
    /\ \A p \in Proc, fd \in Fd : NamedAt(p, fd)

(* Each fork() has its child.                                              *)
ChildInv ==
    /\ \A p \in Proc : fpc[p] = "fork" => fpc[child[p]] = "embryo"
    /\ \A p, q \in Proc : fpc[p] = "fork" /\ fpc[q] = "fork" /\ child[p] = child[q] => p = q

FileInv ==
    /\ FileTypes /\ CountInv /\ UsesInv /\ CallInv
    /\ PlacedInv /\ MadeInv /\ NamedInv /\ ChildInv

-----------------------------------------------------------------------------
(* A set of numbers has a least member.                                    *)
LEMMA LeastOf ==
    ASSUME NEW S, S \subseteq Nat, S # {}
    PROVE  Min(S) \in S /\ \A y \in S : Min(S) <= y
<1>1. IsWellFoundedOn({ss \in Nat \X Nat : ss[1] < ss[2]}, Nat)
    BY NatLessThanWellFounded DEF OpToRel
<1>2. PICK x \in S : \A y \in S : <<y, x>> \notin {ss \in Nat \X Nat : ss[1] < ss[2]}
    BY <1>1, WFMin
<1>3. ASSUME NEW y \in S PROVE x <= y
    <2>1. x \in Nat /\ y \in Nat
        OBVIOUS
    <2>2. <<y, x>> \in Nat \X Nat /\ <<y, x>>[1] = y /\ <<y, x>>[2] = x
        BY <2>1
    <2>3. ~(y < x)
        BY <1>2, <2>2
    <2> QED
        BY <2>1, <2>3
<1> QED
    BY <1>3 DEF Min

LEMMA Numbers ==
    /\ Fd \subseteq Nat \ {0} /\ File \subseteq Nat \ {0}
    /\ NoFile \notin File /\ 0 \notin Fd /\ Fd \subseteq 0..NOFILE /\ 0 \in 0..NOFILE
    /\ IsFiniteSet(0..NOFILE) /\ IsFiniteSet(File) /\ IsFiniteSet(Proc) /\ NoObject \notin Object
    /\ Inodes \subseteq Object
<1>1. NOFILE \in Nat \ {0} /\ NFILE \in Nat \ {0} /\ IsFiniteSet(Proc)
    BY FileTableAssumption
<1>2. IsFiniteSet(0..NOFILE) /\ IsFiniteSet(1..NFILE)
    BY <1>1, FS_Interval
<1> QED
    BY <1>1, <1>2, FileTableAssumption DEF Fd, File, NoFile, Object, End

Bit(b) == IF b THEN 1 ELSE 0
Same(u, v) == IF u = v THEN 1 ELSE 0

(* The size of a finite set when only x may come or go                     *)
LEMMA Recount ==
    ASSUME NEW D, IsFiniteSet(D), NEW G \in SUBSET D, NEW H \in SUBSET D, NEW x \in D,
           \A y \in D \ {x} : y \in H <=> y \in G
    PROVE  /\ Cardinality(G) \in Nat /\ Cardinality(H) \in Nat
           /\ Cardinality(H) = Cardinality(G) + Bit(x \in H) - Bit(x \in G)
<1>1. IsFiniteSet(G) /\ IsFiniteSet(H) /\ Cardinality(G) \in Nat /\ Cardinality(H) \in Nat
    BY FS_Subset, FS_CardinalityType
<1>2. ASSUME x \in H <=> x \in G PROVE H = G
    BY <1>2
<1>3. ASSUME x \in H, x \notin G PROVE Cardinality(H) = Cardinality(G) + 1
    <2>1. H = G \cup {x}
        BY <1>3
    <2> QED
        BY <1>1, <1>3, <2>1, FS_AddElement
<1>4. ASSUME x \notin H, x \in G PROVE Cardinality(H) = Cardinality(G) - 1
    <2>1. H = G \ {x}
        BY <1>4
    <2> QED
        BY <1>1, <1>4, <2>1, FS_RemoveElement
<1> QED
    BY <1>1, <1>2, <1>3, <1>4 DEF Bit

-----------------------------------------------------------------------------
LEMMA RefsFinite ==
    ASSUME NEW f
    PROVE  /\ IsFiniteSet(Refs(f)) /\ Cardinality(Refs(f)) \in Nat
           /\ \A p \in Proc : RefsOf(p, f) \subseteq 0..NOFILE
           /\ \A p \in Proc : \A x : <<p, x>> \in Refs(f) <=> x \in RefsOf(p, f)
<1>1. \A p \in Proc : RefsOf(p, f) \subseteq 0..NOFILE
    BY Numbers DEF RefsOf
<1>2. IsFiniteSet(Proc \X (0..NOFILE)) /\ Refs(f) \subseteq Proc \X (0..NOFILE)
    BY Numbers, FS_Product DEF Refs
<1>3. IsFiniteSet(Refs(f)) /\ Cardinality(Refs(f)) \in Nat
    BY <1>2, FS_Subset, FS_CardinalityType
<1> QED
    BY <1>1, <1>3 DEF Refs

(* The references of all but p are as they were.                           *)
Alone(p) ==
    \A q \in Proc \ {p} : ofile'[q] = ofile[q] /\ fpc'[q] = fpc[q] /\ arg'[q] = arg[q]

LEMMA AloneRefs ==
    ASSUME NEW p \in Proc, Alone(p), NEW f
    PROVE  \A q \in Proc \ {p} : RefsOf(q, f)' = RefsOf(q, f)
BY DEF Alone, RefsOf, Uncounted, Has

LEMMA RefsKept ==
    ASSUME NEW f, \A q \in Proc : RefsOf(q, f)' = RefsOf(q, f)
    PROVE  Cardinality(Refs(f)') = Cardinality(Refs(f))
<1>1. Refs(f)' = Refs(f)
    BY DEF Refs
<1> QED
    BY <1>1

LEMMA RefsMore ==
    ASSUME NEW p \in Proc, NEW f, \A q \in Proc \ {p} : RefsOf(q, f)' = RefsOf(q, f),
           NEW x \in 0..NOFILE, x \notin RefsOf(p, f), RefsOf(p, f)' = RefsOf(p, f) \cup {x}
    PROVE  Cardinality(Refs(f)') = Cardinality(Refs(f)) + 1
<1>1. Refs(f)' = Refs(f) \cup {<<p, x>>} /\ <<p, x>> \notin Refs(f)
    BY DEF Refs
<1> QED
    BY <1>1, RefsFinite, FS_AddElement

LEMMA RefsLess ==
    ASSUME NEW p \in Proc, NEW f, \A q \in Proc \ {p} : RefsOf(q, f)' = RefsOf(q, f),
           NEW x \in RefsOf(p, f), RefsOf(p, f)' = RefsOf(p, f) \ {x}
    PROVE  Cardinality(Refs(f)') = Cardinality(Refs(f)) - 1
<1>1. <<p, x>> \in Refs(f)
    BY RefsFinite
<1>2. ASSUME NEW w \in Proc \X (0..NOFILE)
      PROVE  w[2] \in RefsOf(w[1], f)' <=> w[2] \in RefsOf(w[1], f) /\ w # <<p, x>>
    <2>1. w = <<w[1], w[2]>> /\ w[1] \in Proc
        OBVIOUS
    <2> QED
        BY <2>1
<1>3. Refs(f)' = Refs(f) \ {<<p, x>>}
    BY <1>2 DEF Refs
<1>4. IsFiniteSet(Refs(f)) /\ Cardinality(Refs(f)) \in Nat
    BY RefsFinite
<1>5. Cardinality(Refs(f) \ {<<p, x>>}) = Cardinality(Refs(f)) - 1
    BY <1>1, <1>4, FS_RemoveElement
<1> QED
    BY <1>3, <1>5

LEMMA RefsMoved ==
    ASSUME NEW p \in Proc, NEW f, \A q \in Proc \ {p} : RefsOf(q, f)' = RefsOf(q, f),
           NEW x \in 0..NOFILE, x \notin RefsOf(p, f), NEW y \in RefsOf(p, f) \cup {x},
           RefsOf(p, f)' = (RefsOf(p, f) \cup {x}) \ {y}
    PROVE  Cardinality(Refs(f)') = Cardinality(Refs(f))
<1> DEFINE R == Refs(f) \cup {<<p, x>>}
<1>1. <<p, x>> \notin Refs(f) /\ <<p, y>> \in R
    BY RefsFinite
<1>2. IsFiniteSet(R) /\ Cardinality(R) = Cardinality(Refs(f)) + 1
    BY <1>1, RefsFinite, FS_AddElement
<1>3. ASSUME NEW w \in Proc \X (0..NOFILE)
      PROVE  w[2] \in RefsOf(w[1], f)'
                <=> (w[2] \in RefsOf(w[1], f) \/ w = <<p, x>>) /\ w # <<p, y>>
    <2>1. w = <<w[1], w[2]>> /\ w[1] \in Proc
        OBVIOUS
    <2>2. CASE w[1] = p
        BY <2>1, <2>2
    <2>3. CASE w[1] # p
        BY <2>1, <2>3
    <2> QED
        BY <2>2, <2>3
<1>4. <<p, x>> \in Proc \X (0..NOFILE)
    OBVIOUS
<1>5. Refs(f)' = R \ {<<p, y>>}
    <2>1. R = {w \in Proc \X (0..NOFILE) : w[2] \in RefsOf(w[1], f) \/ w = <<p, x>>}
        BY <1>4 DEF Refs
    <2> QED
        BY <1>3, <2>1 DEF Refs
<1>6. Cardinality(Refs(f)') = Cardinality(R) - 1
    <2>1. PICK T : T = R
        OBVIOUS
    <2>2. Cardinality(T \ {<<p, y>>}) = Cardinality(T) - 1
        BY ONLY <1>1, <1>2, <2>1, FS_RemoveElement
    <2> QED
        BY <1>5, <2>1, <2>2
<1> QED
    BY <1>2, <1>6, RefsFinite

LEMMA Cards ==
    ASSUME FileInv, NEW o
    PROVE  /\ Cardinality(Standing(o)) \in Nat /\ Cardinality(Releasing(o)) \in Nat
           /\ Cardinality(Opening(o)) \in Nat
BY Numbers, FS_Subset, FS_CardinalityType DEF Standing, Releasing, Opening

LEMMA StandingMoves ==
    ASSUME FileTypes, NEW f \in File, NEW v, fobj' = [fobj EXCEPT ![f] = v], NEW o
    PROVE  Cardinality(Standing(o)') = Cardinality(Standing(o)) + Same(v, o) - Same(fobj[f], o)
<1>1. \A y \in File \ {f} : y \in Standing(o)' <=> y \in Standing(o)
    BY DEF Standing, FileTypes
<1>2. /\ f \in Standing(o)' <=> v = o
      /\ f \in Standing(o) <=> fobj[f] = o
    BY DEF Standing, FileTypes
<1>3. Standing(o)' \subseteq File /\ Standing(o) \subseteq File /\ IsFiniteSet(File)
    BY Numbers DEF Standing
<1>4. Cardinality(Standing(o)')
         = Cardinality(Standing(o)) + Bit(f \in Standing(o)') - Bit(f \in Standing(o))
    BY <1>1, <1>3, Recount
<1> QED
    BY <1>2, <1>4 DEF Bit, Same

LEMMA ReleasingMoves ==
    ASSUME FileTypes, NEW p \in Proc, NEW v, ff' = [ff EXCEPT ![p] = v], NEW o
    PROVE  Cardinality(Releasing(o)') = Cardinality(Releasing(o)) + Same(v, o) - Same(ff[p], o)
<1>1. \A y \in Proc \ {p} : y \in Releasing(o)' <=> y \in Releasing(o)
    BY DEF Releasing, FileTypes
<1>2. /\ p \in Releasing(o)' <=> v = o
      /\ p \in Releasing(o) <=> ff[p] = o
    BY DEF Releasing, FileTypes
<1>3. Releasing(o)' \subseteq Proc /\ Releasing(o) \subseteq Proc /\ IsFiniteSet(Proc)
    BY Numbers DEF Releasing
<1>4. Cardinality(Releasing(o)')
         = Cardinality(Releasing(o)) + Bit(p \in Releasing(o)') - Bit(p \in Releasing(o))
    BY <1>1, <1>3, Recount
<1> QED
    BY <1>2, <1>4 DEF Bit, Same

LEMMA OpeningMoves ==
    ASSUME FileTypes, NEW p \in Proc, NEW v, obj' = [obj EXCEPT ![p] = v], NEW o
    PROVE  Cardinality(Opening(o)') = Cardinality(Opening(o)) + Same(v, o) - Same(obj[p], o)
<1>1. \A y \in Proc \ {p} : y \in Opening(o)' <=> y \in Opening(o)
    BY DEF Opening, FileTypes
<1>2. /\ p \in Opening(o)' <=> v = o
      /\ p \in Opening(o) <=> obj[p] = o
    BY DEF Opening, FileTypes
<1>3. Opening(o)' \subseteq Proc /\ Opening(o) \subseteq Proc /\ IsFiniteSet(Proc)
    BY Numbers DEF Opening
<1>4. Cardinality(Opening(o)')
         = Cardinality(Opening(o)) + Bit(p \in Opening(o)') - Bit(p \in Opening(o))
    BY <1>1, <1>3, Recount
<1> QED
    BY <1>2, <1>4 DEF Bit, Same

-----------------------------------------------------------------------------
(* Who has a file                                                          *)
LEMMA DescRef ==
    ASSUME FileInv, NEW p \in Proc, NEW fd \in Fd, NEW f \in File, ofile[p][fd] = f
    PROVE  \E fe \in Fd : fe \in RefsOf(p, f) /\ ofile[p][fe] = f
<1>1. CASE ~Uncounted(p, fd)
    BY <1>1 DEF RefsOf
<1>2. CASE Uncounted(p, fd)
    <2>1. PICK fe, fg \in Fd : fe # fg /\ ofile[p][fe] = f /\ ofile[p][fg] = f
        BY <1>2 DEF Uncounted, FileInv, PlacedInv, PlacedAt
    <2>2. ~Uncounted(p, fe) \/ ~Uncounted(p, fg)
        BY <1>2, <2>1, Numbers DEF Uncounted
    <2> QED
        BY <2>1, <2>2 DEF RefsOf
<1> QED
    BY <1>1, <1>2

LEMMA HandRef ==
    ASSUME NEW p \in Proc, NEW f, fpc[p] \in Handing, Has(p, f)
    PROVE  0 \in RefsOf(p, f)
BY DEF RefsOf

LEMMA RefCounted ==
    ASSUME FileInv, NEW p \in Proc, NEW f \in File, NEW x \in RefsOf(p, f)
    PROVE  /\ fref[f] > 0
           /\ fref[f] = 1 => \A q \in Proc : \A y \in RefsOf(q, f) : q = p /\ y = x
<1>1. fref[f] = Cardinality(Refs(f)) /\ fref[f] \in Nat
    BY DEF FileInv, CountInv, FileTypes
<1>2. <<p, x>> \in Refs(f) /\ IsFiniteSet(Refs(f))
    BY RefsFinite
<1>3. fref[f] # 0
    BY <1>1, <1>2, FS_EmptySet
<1>4. ASSUME fref[f] = 1, NEW q \in Proc, NEW y \in RefsOf(q, f) PROVE q = p /\ y = x
    <2>1. PICK w : Refs(f) = {w}
        BY <1>1, <1>2, <1>4, FS_Singleton
    <2>2. <<q, y>> \in Refs(f)
        BY RefsFinite
    <2>3. <<q, y>> = <<p, x>>
        BY <1>2, <2>1, <2>2
    <2> QED
        BY <2>3
<1> QED
    BY <1>1, <1>3, <1>4

LEMMA MakerRef ==
    ASSUME FileInv, NEW p \in Proc, NEW f \in File, fpc[p] \in Making, Has(p, f)
    PROVE  \E x : x \in RefsOf(p, f)
<1>1. CASE fpc[p] \in Handing
    BY <1>1, HandRef
<1>2. CASE fpc[p] = "set"
    <2>1. PICK fd \in Fd : ofile[p][fd] = arg[p][1]
        BY <1>2 DEF FileInv, PlacedInv, PlacedAt
    <2>2. arg[p][1] = f
        BY <1>2 DEF FileInv, CallInv, CallAt, Has
    <2> QED
        BY <2>1, <2>2, DescRef
<1> QED
    BY <1>1, <1>2 DEF Making, Handing

LEMMA OneMaker ==
    ASSUME FileInv, NEW p \in Proc, NEW f \in File, fpc[p] \in Making, Has(p, f),
           NEW q \in Proc, NEW y \in RefsOf(q, f)
    PROVE  q = p
<1>1. fref[f] = 1
    BY DEF FileInv, MadeInv, MadeAt
<1>2. PICK x : x \in RefsOf(p, f)
    BY MakerRef
<1> QED
    BY <1>1, <1>2, RefCounted

(* What a call has in hand, one file or two                                *)
LEMMA InHand ==
    ASSUME FileInv, NEW p \in Proc
    PROVE  /\ CallAt(p) /\ arg[p] \in Seq(File)
           /\ Len(arg[p]) = 1 => arg[p][1] \in File /\ \A h : Has(p, h) <=> h = arg[p][1]
           /\ Len(arg[p]) = 2 =>
                 /\ arg[p][1] \in File /\ arg[p][2] \in File /\ arg[p][1] # arg[p][2]
                 /\ \A h : Has(p, h) <=> h \in {arg[p][1], arg[p][2]}
<1>1. CallAt(p) /\ arg[p] \in Seq(File)
    BY DEF FileInv, FileTypes, CallInv
<1>2. Len(arg[p]) = 2 => arg[p][1] # arg[p][2]
    BY <1>1 DEF CallAt
<1>3. /\ Len(arg[p]) = 1 => 1..Len(arg[p]) = {1}
      /\ Len(arg[p]) = 2 => 1..Len(arg[p]) = {1, 2}
    BY SMTT(20)
<1>4. \A k \in 1..Len(arg[p]) : arg[p][k] \in File
    BY <1>1
<1> QED
    BY <1>1, <1>2, <1>3, <1>4 DEF Has

-----------------------------------------------------------------------------
(* What is left to show of a step of p: that its own place is right, and   *)
(* that the files it changes are no other's, or only get a reference more. *)
Touches(p) ==
    \A f \in File :
        \/ fobj'[f] = fobj[f] /\ fref'[f] = fref[f]
        \/ /\ fobj'[f] = fobj[f]
           /\ \E r \in Proc : fpc[r] \notin Making /\ RefsOf(r, f) # {}
        \/ \A q \in Proc \ {p} : RefsOf(q, f) = {}

LEMMA Inherit ==
    ASSUME FileInv, NEW p \in Proc, Alone(p), Touches(p),
           \A q \in Proc \ {p} : obj'[q] = obj[q] /\ ff'[q] = ff[q],
           CallAt(p)', PlacedAt(p)', \A f \in File : MadeAt(p, f)', \A fd \in Fd : NamedAt(p, fd)',
           \A f \in File : fref'[f] = 0 => fobj'[f] = NoObject
    PROVE  CallInv' /\ PlacedInv' /\ MadeInv' /\ NamedInv'
<1>1. CallInv' /\ PlacedInv'
    BY DEF FileInv, CallInv, CallAt, PlacedInv, PlacedAt, Alone
<1>2. ASSUME NEW q \in Proc \ {p}, NEW f \in File PROVE MadeAt(q, f)'
    <2>1. Has(q, f)' = Has(q, f) /\ fpc'[q] = fpc[q]
        BY DEF Alone, Has
    <2>2. MadeAt(q, f)
        BY DEF FileInv, MadeInv
    <2>3. CASE fobj'[f] = fobj[f] /\ fref'[f] = fref[f]
        BY <2>1, <2>2, <2>3 DEF MadeAt
    <2>4. ASSUME fobj'[f] = fobj[f],
                 NEW r \in Proc, fpc[r] \notin Making, RefsOf(r, f) # {}
          PROVE  MadeAt(q, f)'
        <3>1. ~(fpc[q] \in Making /\ Has(q, f))
            BY <2>4, OneMaker
        <3> QED
            BY <2>1, <2>2, <2>4, <3>1 DEF MadeAt
    <2>5. CASE RefsOf(q, f) = {}
        <3>1. ~(fpc[q] \in Making /\ Has(q, f))
            BY <2>5, MakerRef
        <3>2. ~(fpc[q] = "fdalloc2" /\ Has(q, f))
            BY <2>5, HandRef DEF Handing
        <3>3. ASSUME fpc[q] = "fdalloc3", Has(q, f) PROVE FALSE
            <4>1. f \in {arg[q][1], arg[q][2]}
                BY <3>3, InHand DEF CallAt
            <4>2. f # arg[q][1]
                BY <2>5, <3>3, DescRef DEF FileInv, PlacedInv, PlacedAt
            <4>3. f # arg[q][2]
                BY <2>5, <3>3 DEF RefsOf
            <4> QED
                BY <4>1, <4>2, <4>3
        <3> QED
            BY <2>1, <3>1, <3>2, <3>3 DEF MadeAt
    <2> QED
        BY <2>3, <2>4, <2>5 DEF Touches
<1>3. ASSUME NEW q \in Proc \ {p}, NEW fd \in Fd PROVE NamedAt(q, fd)'
    <2>1. ofile'[q] = ofile[q] /\ fpc'[q] = fpc[q] /\ arg'[q] = arg[q] /\ NamedAt(q, fd)
        BY DEF FileInv, NamedInv, Alone
    <2>2. CASE ofile[q][fd] = NoFile
        BY <2>1, <2>2 DEF NamedAt
    <2>3. CASE ofile[q][fd] \in File
        <3>1. RefsOf(q, ofile[q][fd]) # {}
            BY <2>3, DescRef
        <3>2. fobj'[ofile[q][fd]] = fobj[ofile[q][fd]]
            BY <2>3, <3>1 DEF Touches
        <3> QED
            BY <2>1, <3>2 DEF NamedAt
    <2> QED
        BY <2>2, <2>3 DEF FileInv, FileTypes
<1> QED
    BY <1>1, <1>2, <1>3 DEF MadeInv, NamedInv

(* Steps that leave references, or objects, alone                          *)
LEMMA SameCount ==
    ASSUME FileInv, fref' = fref, \A f \in File : \A q \in Proc : RefsOf(q, f)' = RefsOf(q, f)
    PROVE  CountInv'
<1>1. ASSUME NEW f \in File PROVE fref'[f] = Cardinality(Refs(f)')
    BY RefsKept DEF FileInv, CountInv
<1> QED
    BY <1>1 DEF CountInv

LEMMA SameUses ==
    ASSUME FileInv, UNCHANGED <<fobj, uses, obj, ff>>
    PROVE  UsesInv'
BY DEF FileInv, UsesInv, Standing, Releasing, Opening

LEMMA SameChild ==
    ASSUME FileInv, child' = child,
           \A q \in Proc : /\ fpc'[q] = "fork" <=> fpc[q] = "fork"
                           /\ fpc[q] = "embryo" => fpc'[q] = "embryo"
    PROVE  ChildInv'
BY DEF FileInv, ChildInv, FileTypes

LEMMA Unreferred ==
    ASSUME FileInv, NEW f \in File, fref[f] = 0
    PROVE  \A q \in Proc : RefsOf(q, f) = {}
BY RefCounted

LEMMA Allocated ==
    ASSUME FileInv, NEW f, Filealloc(f)
    PROVE  f \in File /\ fref[f] = 0 /\ fobj[f] = NoObject /\ fref' = [fref EXCEPT ![f] = 1]
<1>1. f \in FreeFiles
    BY LeastOf, Numbers DEF Filealloc, FreeFiles
<1> QED
    BY <1>1 DEF FreeFiles, Filealloc, FileInv, NamedInv

LEMMA Freed ==
    ASSUME FileInv, NEW p \in Proc, FreeFds(p) # {}
    PROVE  Min(FreeFds(p)) \in Fd /\ ofile[p][Min(FreeFds(p))] = NoFile
<1>1. Min(FreeFds(p)) \in FreeFds(p)
    BY LeastOf, Numbers DEF FreeFds
<1> QED
    BY <1>1 DEF FreeFds

-----------------------------------------------------------------------------
LEMMA OpenKeeps ==
    ASSUME FileInv, NEW p \in Proc, NEW n \in Inodes, Open(p, n)
    PROVE  FileInv'
<1>1. /\ fpc[p] = "user" /\ fpc' = [fpc EXCEPT ![p] = "open"] /\ fpc'[p] = "open"
      /\ obj' = [obj EXCEPT ![p] = n] /\ uses' = [uses EXCEPT ![n] = @ + 1]
      /\ UNCHANGED <<fref, fobj, ofile, arg, ff, child>>
      /\ arg[p] = <<>> /\ obj[p] = NoObject /\ n \in Object /\ n # NoObject
    BY Numbers DEF Open, Steps, FileInv, CallInv, CallAt, FileTypes
<1>2. FileTypes'
    BY <1>1 DEF FileInv, FileTypes
<1>3. Alone(p)
    BY <1>1 DEF Alone, FileInv, FileTypes
<1>4. \A f \in File : \A q \in Proc : RefsOf(q, f)' = RefsOf(q, f)
    <2>1. \A f : RefsOf(p, f)' = RefsOf(p, f)
        BY <1>1 DEF RefsOf, Uncounted, Handing
    <2> QED
        BY <1>3, <2>1, AloneRefs
<1>5. CountInv'
    BY <1>1, <1>4, SameCount
<1>6. ASSUME NEW o \in Object
      PROVE  uses'[o] = Cardinality(Standing(o)') + Cardinality(Releasing(o)')
                        + Cardinality(Opening(o)')
    <2>1. Standing(o)' = Standing(o) /\ Releasing(o)' = Releasing(o)
        BY <1>1 DEF Standing, Releasing
    <2>2. Cardinality(Opening(o)') = Cardinality(Opening(o)) + Same(n, o) - Same(obj[p], o)
        BY <1>1, OpeningMoves DEF FileInv
    <2>3. obj[p] # o
        BY <1>1, Numbers
    <2>4. uses[o] = Cardinality(Standing(o)) + Cardinality(Releasing(o)) + Cardinality(Opening(o))
        BY DEF FileInv, UsesInv
    <2>5. uses'[o] = uses[o] + Same(n, o)
        BY <1>1 DEF FileInv, FileTypes, Same
    <2> QED
        BY <2>1, <2>2, <2>3, <2>4, <2>5, Cards DEF Same
<1>7. CallAt(p)' /\ PlacedAt(p)' /\ Touches(p)
    <2>1. arg'[p] = <<>> /\ Len(<<>>) = 0 /\ obj'[p] = n /\ ff'[p] = ff[p] /\ CallAt(p)
        BY <1>1 DEF FileInv, FileTypes, CallInv
    <2>2. CallAt(p)'
        BY <1>1, <2>1 DEF CallAt
    <2>3. PlacedAt(p)'
        BY <1>1 DEF PlacedAt
    <2>4. Touches(p)
        BY <1>1 DEF Touches
    <2> QED
        BY <2>2, <2>3, <2>4
<1>8. /\ \A f \in File : MadeAt(p, f)'
      /\ \A fd \in Fd : NamedAt(p, fd)'
      /\ \A f \in File : fref'[f] = 0 => fobj'[f] = NoObject
    BY <1>1 DEF MadeAt, NamedAt, Making, FileInv, NamedInv
<1>9. ChildInv'
    BY <1>1, SameChild DEF FileInv, FileTypes
<1> QED
    BY <1>1, <1>2, <1>3, <1>5, <1>6, <1>7, <1>8, <1>9, Inherit DEF FileInv, UsesInv, FileTypes

(* A step in which p gets a new file, the last of what it has in hand      *)
LEMMA MakesKeeps ==
    ASSUME FileInv, NEW p \in Proc, NEW f \in File, Filealloc(f),
           NEW from, NEW to, Steps(p, from, to),
           <<from, to>> \in {<<"open", "fdalloc">>, <<"user", "pipe">>, <<"pipe", "pipe2">>},
           arg' = [arg EXCEPT ![p] = Append(arg[p], f)],
           UNCHANGED <<fobj, ofile, uses, obj, ff, child>>
    PROVE  FileInv'
<1>1. /\ fpc[p] = from /\ fpc' = [fpc EXCEPT ![p] = to] /\ fpc'[p] = to
      /\ fref' = [fref EXCEPT ![f] = 1] /\ fref[f] = 0 /\ fobj[f] = NoObject
    BY Allocated DEF Steps, FileInv, FileTypes
<1>2. FileTypes'
    BY <1>1 DEF FileInv, FileTypes
<1>3. Alone(p)
    BY <1>1 DEF Alone, FileInv, FileTypes
<1>4. /\ arg[p] \in Seq(File) /\ arg'[p] = Append(arg[p], f)
      /\ Len(arg'[p]) = Len(arg[p]) + 1 /\ arg'[p][Len(arg[p]) + 1] = f
      /\ \A k \in 1..Len(arg[p]) : arg'[p][k] = arg[p][k] /\ arg[p][k] \in File
      /\ Len(arg[p]) = IF from = "pipe" THEN 1 ELSE 0
    BY <1>1 DEF FileInv, FileTypes, CallInv, CallAt
<1>5. ~Has(p, f)
    <2>1. RefsOf(p, f) = {}
        BY <1>1, Unreferred
    <2> QED
        BY <1>1, <1>4, <2>1, HandRef DEF Has, Handing
<1>6. \A g : Has(p, g)' <=> Has(p, g) \/ g = f
    BY <1>4 DEF Has
<1>7. CountInv'
    <2>1. ASSUME NEW g \in File \ {f} PROVE fref'[g] = Cardinality(Refs(g)')
        <3>1. RefsOf(p, g)' = RefsOf(p, g)
            <4>1. fpc[p] \notin Handing => ~Has(p, g)
                BY <1>1, <1>4 DEF Has, Handing
            <4> QED
                BY <1>1, <1>6, <4>1 DEF RefsOf, Uncounted, Handing
        <3>2. Cardinality(Refs(g)') = Cardinality(Refs(g))
            BY <1>3, <3>1, AloneRefs, RefsKept
        <3> QED
            BY <1>1, <3>2 DEF FileInv, CountInv, FileTypes
    <2>2. fref'[f] = Cardinality(Refs(f)')
        <3>1. RefsOf(p, f)' = RefsOf(p, f) \cup {0} /\ 0 \notin RefsOf(p, f)
            BY <1>1, <1>5, <1>6, Numbers DEF RefsOf, Uncounted, Handing
        <3>2. Cardinality(Refs(f)') = Cardinality(Refs(f)) + 1
            BY <1>3, <3>1, AloneRefs, RefsMore, Numbers
        <3> QED
            BY <1>1, <3>2 DEF FileInv, CountInv, FileTypes
    <2> QED
        BY <2>1, <2>2 DEF CountInv
<1>8. UsesInv'
    BY SameUses
<1>9. CallAt(p)' /\ PlacedAt(p)'
    <2>1. from = "pipe" => arg'[p][1] # arg'[p][2]
        BY <1>4, <1>5 DEF Has
    <2>2. CallAt(p)
        BY DEF FileInv, CallInv
    <2> QED
        BY <1>1, <1>4, <2>1, <2>2 DEF CallAt, PlacedAt
<1>10. Touches(p)
    BY <1>1, Unreferred DEF Touches, FileInv, FileTypes
<1>11. /\ \A g \in File : MadeAt(p, g)'
       /\ \A fd \in Fd : NamedAt(p, fd)'
       /\ \A g \in File : fref'[g] = 0 => fobj'[g] = NoObject
    <2>1. ASSUME NEW g \in File PROVE MadeAt(p, g)'
        <3>1. CASE g = f
            BY <1>1, <3>1 DEF MadeAt, FileInv, FileTypes
        <3>2. CASE g # f
            <4>1. MadeAt(p, g) /\ fref'[g] = fref[g]
                BY <1>1, <3>2 DEF FileInv, MadeInv, FileTypes
            <4>2. fpc[p] \notin Making => ~Has(p, g)
                BY <1>1, <1>4 DEF Has, Making
            <4> QED
                BY <1>1, <1>6, <3>2, <4>1, <4>2 DEF MadeAt, Making
        <3> QED
            BY <3>1, <3>2
    <2>2. ASSUME NEW fd \in Fd PROVE NamedAt(p, fd)'
        BY <1>1 DEF FileInv, NamedInv, NamedAt
    <2> QED
        BY <1>1, <2>1, <2>2 DEF FileInv, NamedInv, FileTypes
<1>12. ChildInv'
    BY <1>1, SameChild DEF FileInv, FileTypes
<1> QED
    BY <1>2, <1>3, <1>7, <1>8, <1>9, <1>10, <1>11, <1>12, Inherit DEF FileInv

(* A step that only changes where p is, with what it has in hand           *)
LEMMA GoesKeeps ==
    ASSUME FileInv, NEW p \in Proc, NEW from, NEW to, Steps(p, from, to),
           \/ from \in {"open", "fdalloc", "pipe", "pipe2", "fdalloc2"} /\ to = "drop"
           \/ from = "user" /\ to = "exit"
           \/ from = "exit" /\ to = "unused" /\ ff[p] = NoObject,
           UNCHANGED <<fref, fobj, ofile, uses, arg, obj, ff, child>>
    PROVE  FileInv'
<1>1. fpc[p] = from /\ fpc' = [fpc EXCEPT ![p] = to] /\ fpc'[p] = to
    BY DEF Steps, FileInv, FileTypes
<1>2. FileTypes'
    BY <1>1 DEF FileInv, FileTypes
<1>3. Alone(p)
    BY <1>1 DEF Alone, FileInv, FileTypes
<1>4. CountInv'
    <2>1. \A f : RefsOf(p, f)' = RefsOf(p, f)
        <3>1. fpc[p] \notin Handing \/ fpc'[p] \notin Handing => arg[p] = <<>>
            BY <1>1 DEF FileInv, CallInv, CallAt, Handing
        <3>2. arg[p] = <<>> => \A f : ~Has(p, f)
            BY DEF Has
        <3>3. \A f : Has(p, f)' <=> Has(p, f)
            BY DEF Has
        <3> QED
            BY <1>1, <3>1, <3>2, <3>3 DEF RefsOf, Uncounted
    <2> QED
        BY <1>3, <2>1, AloneRefs, SameCount
<1>5. UsesInv'
    BY SameUses
<1>6. CallAt(p)' /\ PlacedAt(p)' /\ Touches(p)
    BY <1>1 DEF CallAt, PlacedAt, Touches, FileInv, CallInv
<1>7. /\ \A f \in File : MadeAt(p, f)'
      /\ \A fd \in Fd : NamedAt(p, fd)'
      /\ \A f \in File : fref'[f] = 0 => fobj'[f] = NoObject
    BY <1>1 DEF MadeAt, NamedAt, Making, FileInv, NamedInv
<1>8. ChildInv'
    BY <1>1, SameChild DEF FileInv, FileTypes
<1> QED
    BY <1>2, <1>3, <1>4, <1>5, <1>6, <1>7, <1>8, Inherit DEF FileInv

LEMMA FdallocKeeps ==
    ASSUME FileInv, NEW p \in Proc, Steps(p, "fdalloc", "set"), NEW fd \in Fd,
           ofile[p][fd] = NoFile, Place(p, fd, arg[p][1]),
           UNCHANGED <<fref, fobj, uses, arg, obj, ff, child>>
    PROVE  FileInv'
<1>1. /\ fpc[p] = "fdalloc" /\ fpc' = [fpc EXCEPT ![p] = "set"] /\ fpc'[p] = "set"
      /\ ofile' = [ofile EXCEPT ![p][fd] = arg[p][1]]
    BY DEF Steps, Place, FileInv, FileTypes
<1>2. PICK f : f = arg[p][1]
    OBVIOUS
<1>3. /\ f \in File /\ CallAt(p) /\ \A g : Has(p, g) <=> g = f
      /\ ofile'[p][fd] = f /\ \A e \in Fd \ {fd} : ofile'[p][e] = ofile[p][e]
    BY <1>1, <1>2, InHand DEF FileInv, FileTypes, CallAt
<1>4. FileTypes'
    BY <1>1, <1>2, <1>3 DEF FileInv, FileTypes
<1>5. Alone(p)
    BY <1>1 DEF Alone, FileInv, FileTypes
<1>6. CountInv'
    <2>1. ASSUME NEW g \in File PROVE Cardinality(Refs(g)') = Cardinality(Refs(g))
        <3>1. CASE g # f
            <4>1. RefsOf(p, g)' = RefsOf(p, g)
                BY <1>1, <1>3, <3>1, Numbers DEF RefsOf, Uncounted, Handing
            <4> QED
                BY <1>5, <4>1, AloneRefs, RefsKept
        <3>2. CASE g = f
            <4>1. /\ fd \notin RefsOf(p, f) /\ 0 \in RefsOf(p, f)
                  /\ RefsOf(p, f)' = (RefsOf(p, f) \cup {fd}) \ {0}
                BY <1>1, <1>3, Numbers DEF RefsOf, Uncounted, Handing
            <4> QED
                BY <1>5, <3>2, <4>1, AloneRefs, RefsMoved, Numbers
        <3> QED
            BY <3>1, <3>2
    <2> QED
        BY <2>1 DEF CountInv, FileInv
<1>7. UsesInv'
    BY SameUses
<1>8. CallAt(p)' /\ PlacedAt(p)' /\ Touches(p)
    <2>1. CallAt(p)'
        BY <1>1, <1>3 DEF CallAt
    <2>2. PlacedAt(p)'
        BY <1>1, <1>2, <1>3 DEF PlacedAt
    <2>3. Touches(p)
        BY DEF Touches
    <2> QED
        BY <2>1, <2>2, <2>3
<1>9. \A g \in File : MadeAt(p, g)'
    <2>1. ASSUME NEW g \in File PROVE MadeAt(p, g)'
        <3>1. MadeAt(p, g) /\ (Has(p, g)' <=> Has(p, g))
            BY DEF FileInv, MadeInv, Has
        <3> QED
            BY <1>1, <3>1 DEF MadeAt, Making
    <2> QED
        BY <2>1
<1>10. \A e \in Fd : NamedAt(p, e)'
    BY <1>1, <1>2, <1>3 DEF NamedAt, FileInv, NamedInv
<1>11. \A g \in File : fref'[g] = 0 => fobj'[g] = NoObject
    BY DEF FileInv, NamedInv
<1>12. ChildInv'
    BY <1>1, SameChild DEF FileInv, FileTypes
<1> QED
    BY <1>4, <1>5, <1>6, <1>7, <1>8, <1>9, <1>10, <1>11, <1>12, Inherit DEF FileInv

LEMMA SetsKeeps ==
    ASSUME FileInv, NEW p \in Proc, OpenSets(p)
    PROVE  FileInv'
<1>1. PICK f, n : f = arg[p][1] /\ n = obj[p]
    OBVIOUS
<1>2. /\ fpc[p] = "set" /\ fpc' = [fpc EXCEPT ![p] = "user"] /\ fpc'[p] = "user"
      /\ fobj' = [fobj EXCEPT ![f] = n] /\ obj' = [obj EXCEPT ![p] = NoObject]
      /\ arg' = [arg EXCEPT ![p] = <<>>] /\ arg'[p] = <<>> /\ obj'[p] = NoObject
      /\ UNCHANGED <<fref, ofile, uses, ff, child>>
    BY <1>1 DEF OpenSets, Hand, Steps, FileInv, FileTypes
<1>3. /\ f \in File /\ n \in Object /\ n # NoObject /\ ff[p] = NoObject /\ Has(p, f)
      /\ fobj[f] = NoObject /\ fref[f] = 1
    <2>1. Len(arg[p]) = 1 /\ obj[p] # NoObject /\ ff[p] = NoObject
        BY <1>2, InHand DEF CallAt
    <2>2. f \in File /\ Has(p, f)
        BY <1>1, <2>1, InHand
    <2>3. n \in Object /\ n # NoObject
        BY <1>1, <2>1, Numbers DEF FileInv, FileTypes
    <2>4. MadeAt(p, f)
        BY <2>2 DEF FileInv, MadeInv
    <2> QED
        BY <1>2, <2>1, <2>2, <2>3, <2>4 DEF MadeAt, Making
<1>4. FileTypes'
    BY <1>2, <1>3 DEF FileInv, FileTypes
<1>5. Alone(p)
    BY <1>2 DEF Alone, FileInv, FileTypes
<1>6. CountInv'
    <2>1. \A g : RefsOf(p, g)' = RefsOf(p, g)
        BY <1>2 DEF RefsOf, Uncounted, Handing
    <2> QED
        BY <1>2, <1>5, <2>1, AloneRefs, SameCount
<1>7. ASSUME NEW o \in Object
      PROVE  uses'[o] = Cardinality(Standing(o)') + Cardinality(Releasing(o)')
                        + Cardinality(Opening(o)')
    <2>1. Cardinality(Standing(o)') = Cardinality(Standing(o)) + Same(n, o) - Same(NoObject, o)
        BY <1>2, <1>3, StandingMoves DEF FileInv
    <2>2. Cardinality(Opening(o)') = Cardinality(Opening(o)) + Same(NoObject, o) - Same(n, o)
        BY <1>1, <1>2, OpeningMoves DEF FileInv
    <2>3. Releasing(o)' = Releasing(o)
        BY <1>2 DEF Releasing
    <2>4. uses[o] = Cardinality(Standing(o)) + Cardinality(Releasing(o)) + Cardinality(Opening(o))
        BY DEF FileInv, UsesInv
    <2>5. uses' = uses /\ Same(n, o) \in Int /\ Same(NoObject, o) \in Int
        BY <1>2 DEF Same
    <2> QED
        BY <2>1, <2>2, <2>3, <2>4, <2>5, Cards
<1>8. CallAt(p)' /\ PlacedAt(p)' /\ Touches(p)
    <2>1. CallAt(p)'
        BY <1>2, <1>3 DEF CallAt
    <2>2. PlacedAt(p)'
        BY <1>2 DEF PlacedAt
    <2>3. \A q \in Proc \ {p} : RefsOf(q, f) = {}
        BY <1>2, <1>3, OneMaker DEF Making
    <2>4. \A g \in File \ {f} : fobj'[g] = fobj[g]
        BY <1>2 DEF FileInv, FileTypes
    <2>5. Touches(p)
        BY <1>2, <2>3, <2>4 DEF Touches
    <2> QED
        BY <2>1, <2>2, <2>5
<1>9. \A g \in File : MadeAt(p, g)'
    BY <1>2 DEF MadeAt, Making
<1>10. /\ \A e \in Fd : NamedAt(p, e)'
       /\ \A g \in File : fref'[g] = 0 => fobj'[g] = NoObject
    BY <1>1, <1>2, <1>3 DEF NamedAt, FileInv, NamedInv, FileTypes
<1>11. ChildInv'
    BY <1>2, SameChild DEF FileInv, FileTypes
<1>12. \A q \in Proc \ {p} : obj'[q] = obj[q] /\ ff'[q] = ff[q]
    BY <1>2 DEF FileInv, FileTypes
<1>13. UsesInv'
    BY <1>7 DEF UsesInv
<1> QED
    BY <1>4, <1>5, <1>6, <1>8, <1>9, <1>10, <1>11, <1>12, <1>13, Inherit DEF FileInv

-----------------------------------------------------------------------------
LEMMA PipeFitsKeeps ==
    ASSUME FileInv, NEW p \in Proc, PipeFits(p)
    PROVE  FileInv'
<1>1. PICK f, g : f = arg[p][1] /\ g = arg[p][2]
    OBVIOUS
<1>2. PICK r, w \in End :
          /\ r # w /\ uses[r] = 0 /\ uses[w] = 0
          /\ uses' = [uses EXCEPT ![r] = 1, ![w] = 1]
          /\ fobj' = [fobj EXCEPT ![f] = r, ![g] = w]
    <2>1. PICK q \in Pipes :
              /\ uses[<<q, "r">>] = 0 /\ uses[<<q, "w">>] = 0
              /\ uses' = [uses EXCEPT ![<<q, "r">>] = 1, ![<<q, "w">>] = 1]
              /\ fobj' = [fobj EXCEPT ![f] = <<q, "r">>, ![g] = <<q, "w">>]
        BY <1>1 DEF PipeFits
    <2>2. <<q, "r">> \in End /\ <<q, "w">> \in End /\ <<q, "r">> # <<q, "w">>
        BY DEF End
    <2> QED
        BY <2>1, <2>2
<1>3. /\ fpc[p] = "pipe2" /\ fpc' = [fpc EXCEPT ![p] = "fdalloc2"] /\ fpc'[p] = "fdalloc2"
      /\ UNCHANGED <<fref, ofile, arg, obj, ff, child>>
    BY DEF PipeFits, Steps, FileInv, FileTypes
<1>4. /\ f \in File /\ g \in File /\ f # g /\ r \in Object /\ w \in Object
      /\ \A h : Has(p, h) <=> h \in {f, g}
      /\ CallAt(p)
    <2>1. Len(arg[p]) = 2 /\ CallAt(p)
        BY <1>3, InHand DEF CallAt
    <2> QED
        BY <1>1, <2>1, InHand DEF Object
<1>5. fobj[f] = NoObject /\ fref[f] = 1 /\ fobj[g] = NoObject /\ fref[g] = 1
    BY <1>3, <1>4 DEF FileInv, MadeInv, MadeAt, Making
<1>6. /\ fobj'[f] = r /\ fobj'[g] = w /\ \A h \in File \ {f, g} : fobj'[h] = fobj[h]
      /\ r # NoObject /\ w # NoObject
    BY <1>2, <1>4, Numbers DEF FileInv, FileTypes
<1>7. FileTypes'
    BY <1>2, <1>3, <1>4 DEF FileInv, FileTypes
<1>8. Alone(p)
    BY <1>3 DEF Alone, FileInv, FileTypes
<1>9. CountInv'
    <2>1. \A h : RefsOf(p, h)' = RefsOf(p, h)
        BY <1>3 DEF RefsOf, Uncounted, Handing, Has
    <2> QED
        BY <1>3, <1>8, <2>1, AloneRefs, SameCount
<1>10. ASSUME NEW o \in Object
       PROVE  uses'[o] = Cardinality(Standing(o)') + Cardinality(Releasing(o)')
                         + Cardinality(Opening(o)')
    <2>1. Standing(o) \subseteq File /\ Standing(o)' \subseteq File /\ o # NoObject
        BY Numbers DEF Standing
    <2>2. CASE o = r
        <3>1. /\ \A h \in File \ {f} : h \in Standing(o)' <=> h \in Standing(o)
              /\ f \in Standing(o)' /\ f \notin Standing(o)
            BY <1>2, <1>4, <1>5, <1>6, <2>1, <2>2 DEF Standing
        <3>2. Cardinality(Standing(o)') = Cardinality(Standing(o)) + 1
            <4>1. /\ Standing(o) \in SUBSET File /\ Standing(o)' \in SUBSET File
                  /\ IsFiniteSet(File)
                BY <2>1, Numbers
            <4>2. Cardinality(Standing(o)')
                     = Cardinality(Standing(o)) + Bit(f \in Standing(o)') - Bit(f \in Standing(o))
                BY <1>4, <3>1, <4>1, Recount
            <4> QED
                BY <3>1, <4>2, Cards DEF Bit
        <3>3. uses'[o] = uses[o] + 1
            BY <1>2, <1>4, <2>2 DEF FileInv, FileTypes
        <3> QED
            BY <1>3, <3>2, <3>3, Cards DEF FileInv, UsesInv, Releasing, Opening
    <2>3. CASE o = w
        <3>1. /\ \A h \in File \ {g} : h \in Standing(o)' <=> h \in Standing(o)
              /\ g \in Standing(o)' /\ g \notin Standing(o)
            BY <1>2, <1>4, <1>5, <1>6, <2>1, <2>3 DEF Standing
        <3>2. Cardinality(Standing(o)') = Cardinality(Standing(o)) + 1
            <4>1. /\ Standing(o) \in SUBSET File /\ Standing(o)' \in SUBSET File
                  /\ IsFiniteSet(File)
                BY <2>1, Numbers
            <4>2. Cardinality(Standing(o)')
                     = Cardinality(Standing(o)) + Bit(g \in Standing(o)') - Bit(g \in Standing(o))
                BY <1>4, <3>1, <4>1, Recount
            <4> QED
                BY <3>1, <4>2, Cards DEF Bit
        <3>3. uses'[o] = uses[o] + 1
            BY <1>2, <1>4, <2>3 DEF FileInv, FileTypes
        <3> QED
            BY <1>3, <3>2, <3>3, Cards DEF FileInv, UsesInv, Releasing, Opening
    <2>4. CASE o \notin {r, w}
        <3>1. Standing(o)' = Standing(o)
            BY <1>4, <1>5, <1>6, <2>1, <2>4 DEF Standing
        <3>2. uses'[o] = uses[o]
            BY <1>2, <2>4 DEF FileInv, FileTypes
        <3> QED
            BY <1>3, <3>1, <3>2 DEF FileInv, UsesInv, Releasing, Opening
    <2> QED
        BY <2>2, <2>3, <2>4
<1>11. UsesInv'
    BY <1>10 DEF UsesInv
<1>12. CallAt(p)' /\ PlacedAt(p)' /\ Touches(p)
    <2>1. CallAt(p)' /\ PlacedAt(p)'
        BY <1>3, <1>4 DEF CallAt, PlacedAt
    <2>2. \A q \in Proc \ {p} : RefsOf(q, f) = {} /\ RefsOf(q, g) = {}
        BY <1>3, <1>4, OneMaker DEF Making
    <2>3. Touches(p)
        BY <1>3, <1>6, <2>2 DEF Touches
    <2> QED
        BY <2>1, <2>3
<1>13. \A h \in File : MadeAt(p, h)'
    BY <1>3, <1>4, <1>6 DEF MadeAt, Making, Has
<1>14. /\ \A e \in Fd : NamedAt(p, e)'
       /\ \A h \in File : fref'[h] = 0 => fobj'[h] = NoObject
    <2>1. ASSUME NEW e \in Fd PROVE NamedAt(p, e)'
        <3>1. NamedAt(p, e) /\ ofile'[p][e] = ofile[p][e]
            BY <1>3 DEF FileInv, NamedInv
        <3>2. ofile[p][e] = NoFile \/ ofile[p][e] \in File
            BY DEF FileInv, FileTypes
        <3> QED
            BY <1>3, <1>6, <3>1, <3>2 DEF NamedAt
    <2>2. ASSUME NEW h \in File, fref'[h] = 0 PROVE fobj'[h] = NoObject
        BY <1>3, <1>5, <1>6, <2>2 DEF FileInv, NamedInv
    <2> QED
        BY <2>1, <2>2
<1>15. ChildInv'
    BY <1>3, SameChild DEF FileInv, FileTypes
<1> QED
    BY <1>3, <1>7, <1>8, <1>9, <1>11, <1>12, <1>13, <1>14, <1>15, Inherit DEF FileInv

(* What the steps of sys_pipe() have in common that place descriptors      *)
LEMMA PipeStepKeeps ==
    ASSUME FileInv, NEW p \in Proc, fpc[p] \in {"fdalloc2", "fdalloc3"},
           NEW to \in {"fdalloc3", "user", "drop"}, Steps(p, fpc[p], to),
           NEW fd \in Fd, NEW v \in File \cup {NoFile}, Place(p, fd, v),
           NEW hand \in Seq(File), arg' = [arg EXCEPT ![p] = hand],
           UNCHANGED <<fref, fobj, uses, obj, ff, child>>,
           \A h \in File : Cardinality(Refs(h)') = Cardinality(Refs(h)),
           CallAt(p)', PlacedAt(p)', \A h \in File : MadeAt(p, h)', NamedAt(p, fd)'
    PROVE  FileInv'
<1>1. fpc' = [fpc EXCEPT ![p] = to] /\ fpc'[p] = to /\ ofile' = [ofile EXCEPT ![p][fd] = v]
    BY DEF Steps, Place, FileInv, FileTypes
<1>2. FileTypes'
    BY <1>1 DEF FileInv, FileTypes
<1>3. Alone(p) /\ \A e \in Fd \ {fd} : ofile'[p][e] = ofile[p][e]
    BY <1>1 DEF Alone, FileInv, FileTypes
<1>4. CountInv' /\ UsesInv'
    BY SameUses DEF CountInv, FileInv
<1>5. Touches(p)
    BY DEF Touches
<1>6. /\ \A e \in Fd : NamedAt(p, e)'
      /\ \A h \in File : fref'[h] = 0 => fobj'[h] = NoObject
    <2>1. ASSUME NEW e \in Fd \ {fd} PROVE NamedAt(p, e)'
        <3>1. NamedAt(p, e) /\ fpc[p] # "set" /\ ofile'[p][e] = ofile[p][e]
            BY <1>3 DEF FileInv, NamedInv
        <3> QED
            BY <3>1 DEF NamedAt
    <2> QED
        BY <2>1 DEF FileInv, NamedInv
<1>7. ChildInv'
    BY <1>1, SameChild DEF FileInv, FileTypes
<1> QED
    BY <1>2, <1>3, <1>4, <1>5, <1>6, <1>7, Inherit DEF FileInv

LEMMA PipeFd0Keeps ==
    ASSUME FileInv, NEW p \in Proc, Steps(p, "fdalloc2", "fdalloc3"), NEW fd \in Fd,
           ofile[p][fd] = NoFile, Place(p, fd, arg[p][1]),
           UNCHANGED <<fref, fobj, uses, arg, obj, ff, child>>
    PROVE  FileInv'
<1>1. PICK f, g : f = arg[p][1] /\ g = arg[p][2]
    OBVIOUS
<1>2. /\ fpc[p] = "fdalloc2" /\ fpc' = [fpc EXCEPT ![p] = "fdalloc3"] /\ fpc'[p] = "fdalloc3"
      /\ ofile' = [ofile EXCEPT ![p][fd] = f] /\ arg[p] \in Seq(File)
    BY <1>1 DEF Steps, Place, FileInv, FileTypes
<1>3. /\ f \in File /\ g \in File /\ f # g /\ \A h : Has(p, h) <=> h \in {f, g}
      /\ CallAt(p)
    <2>1. Len(arg[p]) = 2 /\ CallAt(p)
        BY <1>2, InHand DEF CallAt
    <2> QED
        BY <1>1, <2>1, InHand
<1>4. /\ ofile'[p][fd] = f /\ \A e \in Fd \ {fd} : ofile'[p][e] = ofile[p][e]
      /\ Alone(p)
    BY <1>2 DEF Alone, FileInv, FileTypes
<1>5. ASSUME NEW h \in File PROVE Cardinality(Refs(h)') = Cardinality(Refs(h))
    <2>1. CASE h = f
        <3>1. /\ fd \notin RefsOf(p, f) /\ 0 \in RefsOf(p, f)
              /\ RefsOf(p, f)' = (RefsOf(p, f) \cup {fd}) \ {0}
            BY <1>1, <1>2, <1>3, <1>4, Numbers DEF RefsOf, Uncounted, Handing
        <3> QED
            BY <1>4, <2>1, <3>1, AloneRefs, RefsMoved, Numbers
    <2>2. CASE h # f
        <3>1. RefsOf(p, h)' = RefsOf(p, h)
            BY <1>1, <1>2, <1>3, <1>4, <2>2, Numbers DEF RefsOf, Uncounted, Handing
        <3> QED
            BY <1>4, <3>1, AloneRefs, RefsKept
    <2> QED
        BY <2>1, <2>2
<1>6. CallAt(p)' /\ PlacedAt(p)'
    BY <1>1, <1>2, <1>3, <1>4 DEF CallAt, PlacedAt
<1>7. \A h \in File : MadeAt(p, h)'
    <2>1. \A h : Has(p, h)' <=> Has(p, h)
        BY DEF Has
    <2> QED
        BY <1>2, <2>1 DEF MadeAt, Making, FileInv, MadeInv
<1>8. NamedAt(p, fd)'
    <2>1. fobj[f] # NoObject
        BY <1>2, <1>3 DEF FileInv, MadeInv, MadeAt
    <2> QED
        BY <1>4, <2>1 DEF NamedAt
<1>9. arg' = [arg EXCEPT ![p] = arg[p]]
    BY DEF FileInv, FileTypes
<1> QED
    BY <1>1, <1>2, <1>3, <1>5, <1>6, <1>7, <1>8, <1>9, PipeStepKeeps

LEMMA PipeFd1Keeps ==
    ASSUME FileInv, NEW p \in Proc, Steps(p, "fdalloc3", "user"), NEW fd \in Fd,
           ofile[p][fd] = NoFile, Place(p, fd, arg[p][2]), Hand(p, <<>>),
           UNCHANGED <<fref, fobj, uses, obj, ff, child>>
    PROVE  FileInv'
<1>1. PICK f, g : f = arg[p][1] /\ g = arg[p][2]
    OBVIOUS
<1>2. /\ fpc[p] = "fdalloc3" /\ fpc' = [fpc EXCEPT ![p] = "user"] /\ fpc'[p] = "user"
      /\ ofile' = [ofile EXCEPT ![p][fd] = g]
      /\ arg' = [arg EXCEPT ![p] = <<>>] /\ arg'[p] = <<>> /\ <<>> \in Seq(File)
    BY <1>1 DEF Steps, Place, Hand, FileInv, FileTypes
<1>3. /\ f \in File /\ g \in File /\ f # g /\ \A h : Has(p, h) <=> h \in {f, g}
      /\ obj[p] = NoObject /\ ff[p] = NoObject
    <2>1. Len(arg[p]) = 2 /\ obj[p] = NoObject /\ ff[p] = NoObject
        BY <1>2, InHand DEF CallAt
    <2> QED
        BY <1>1, <2>1, InHand
<1>4. /\ ofile'[p][fd] = g /\ \A e \in Fd \ {fd} : ofile'[p][e] = ofile[p][e]
      /\ Alone(p)
    BY <1>2 DEF Alone, FileInv, FileTypes
<1>5. ASSUME NEW h \in File PROVE Cardinality(Refs(h)') = Cardinality(Refs(h))
    <2>1. CASE h = g
        <3>1. /\ fd \notin RefsOf(p, g) /\ 0 \in RefsOf(p, g)
              /\ RefsOf(p, g)' = (RefsOf(p, g) \cup {fd}) \ {0}
            BY <1>1, <1>2, <1>3, <1>4, Numbers DEF RefsOf, Uncounted, Handing
        <3> QED
            BY <1>4, <2>1, <3>1, AloneRefs, RefsMoved, Numbers
    <2>2. CASE h # g
        <3>1. RefsOf(p, h)' = RefsOf(p, h)
            BY <1>1, <1>2, <1>3, <1>4, <2>2, Numbers DEF RefsOf, Uncounted, Handing
        <3> QED
            BY <1>4, <3>1, AloneRefs, RefsKept
    <2> QED
        BY <2>1, <2>2
<1>6. CallAt(p)' /\ PlacedAt(p)' /\ \A h \in File : MadeAt(p, h)'
    BY <1>2, <1>3 DEF CallAt, PlacedAt, MadeAt, Making
<1>7. NamedAt(p, fd)'
    <2>1. fobj[g] # NoObject
        BY <1>2, <1>3 DEF FileInv, MadeInv, MadeAt
    <2> QED
        BY <1>4, <2>1 DEF NamedAt
<1> QED
    BY <1>1, <1>2, <1>3, <1>5, <1>6, <1>7, PipeStepKeeps

(* proc->ofile[fd0] = 0: the call has both files in hand again.            *)
LEMMA PipeUndoKeeps ==
    ASSUME FileInv, NEW p \in Proc, Steps(p, "fdalloc3", "drop"), Place(p, Fd0(p), NoFile),
           UNCHANGED <<fref, fobj, uses, arg, obj, ff, child>>
    PROVE  FileInv'
<1>1. PICK f, g, fd : f = arg[p][1] /\ g = arg[p][2] /\ fd = Fd0(p)
    OBVIOUS
<1>2. /\ fpc[p] = "fdalloc3" /\ fpc' = [fpc EXCEPT ![p] = "drop"] /\ fpc'[p] = "drop"
      /\ ofile' = [ofile EXCEPT ![p][fd] = NoFile] /\ arg[p] \in Seq(File)
    BY <1>1 DEF Steps, Place, FileInv, FileTypes
<1>3. /\ f \in File /\ g \in File /\ f # g /\ \A h : Has(p, h) <=> h \in {f, g}
      /\ CallAt(p)
    <2>1. Len(arg[p]) = 2 /\ CallAt(p)
        BY <1>2, InHand DEF CallAt
    <2> QED
        BY <1>1, <2>1, InHand
<1>4. fd \in Fd /\ ofile[p][fd] = f
    <2>1. PICK D : D = {e \in Fd : ofile[p][e] = f}
        OBVIOUS
    <2>2. D \subseteq Nat /\ D # {}
        BY <1>1, <1>2, <2>1, Numbers DEF FileInv, PlacedInv, PlacedAt
    <2>3. fd \in D
        BY <1>1, <2>1, <2>2, LeastOf DEF Fd0
    <2> QED
        BY <2>1, <2>3
<1>5. /\ ofile'[p][fd] = NoFile /\ \A e \in Fd \ {fd} : ofile'[p][e] = ofile[p][e]
      /\ Alone(p)
    BY <1>2, <1>4 DEF Alone, FileInv, FileTypes
<1>6. ASSUME NEW h \in File PROVE Cardinality(Refs(h)') = Cardinality(Refs(h))
    <2>1. RefsOf(p, h) = {e \in Fd : ofile[p][e] = h} \cup (IF h = g THEN {0} ELSE {})
        BY <1>1, <1>2 DEF RefsOf, Uncounted, Handing
    <2>2. RefsOf(p, h)' = {e \in Fd : ofile'[p][e] = h} \cup (IF h \in {f, g} THEN {0} ELSE {})
        <3>1. Has(p, h)' <=> h \in {f, g}
            BY <1>3 DEF Has
        <3> QED
            BY <1>2, <3>1 DEF RefsOf, Uncounted, Handing
    <2>3. CASE h = f
        <3>1. {e \in Fd : ofile'[p][e] = h} = {e \in Fd : ofile[p][e] = h} \ {fd}
            BY <1>3, <1>4, <1>5, <2>3, Numbers
        <3>2. /\ 0 \notin RefsOf(p, f) /\ fd \in RefsOf(p, f) \cup {0}
              /\ RefsOf(p, f)' = (RefsOf(p, f) \cup {0}) \ {fd}
            BY <1>3, <1>4, <2>1, <2>2, <2>3, <3>1, Numbers
        <3> QED
            BY <1>5, <2>3, <3>2, AloneRefs, RefsMoved, Numbers
    <2>4. CASE h # f
        <3>1. {e \in Fd : ofile'[p][e] = h} = {e \in Fd : ofile[p][e] = h}
            BY <1>4, <1>5, <2>4, Numbers
        <3>2. RefsOf(p, h)' = RefsOf(p, h)
            BY <2>1, <2>2, <2>4, <3>1
        <3> QED
            BY <1>5, <3>2, AloneRefs, RefsKept
    <2> QED
        BY <2>3, <2>4
<1>7. CallAt(p)' /\ PlacedAt(p)' /\ \A h \in File : MadeAt(p, h)'
    BY <1>2, <1>3 DEF CallAt, PlacedAt, MadeAt, Making
<1>8. NamedAt(p, fd)'
    BY <1>5 DEF NamedAt
<1>9. arg' = [arg EXCEPT ![p] = arg[p]]
    BY DEF FileInv, FileTypes
<1> QED
    BY <1>1, <1>2, <1>4, <1>6, <1>7, <1>8, <1>9, PipeStepKeeps

-----------------------------------------------------------------------------
LEMMA DupKeeps ==
    ASSUME FileInv, NEW p \in Proc, NEW fd \in Fd, Dup(p, fd)
    PROVE  FileInv'
<1>1. PICK f, new : f = ofile[p][fd] /\ new = Min(FreeFds(p))
    OBVIOUS
<1>2. /\ fpc[p] = "user" /\ fpc' = [fpc EXCEPT ![p] = "dup"] /\ fpc'[p] = "dup"
      /\ ofile' = [ofile EXCEPT ![p][new] = f]
      /\ arg' = [arg EXCEPT ![p] = <<f>>] /\ arg'[p] = <<f>>
      /\ new \in Fd /\ ofile[p][new] = NoFile /\ f \in File
    BY <1>1, Freed DEF Dup, Steps, Place, Hand, FileInv, FileTypes
<1>3. /\ UNCHANGED <<fref, fobj, uses, obj, ff, child>>
      /\ obj[p] = NoObject /\ ff[p] = NoObject
    BY <1>2, InHand DEF Dup, CallAt
<1>4. /\ ofile'[p][new] = f /\ \A e \in Fd \ {new} : ofile'[p][e] = ofile[p][e]
      /\ fd # new /\ arg'[p][1] = f /\ Len(arg'[p]) = 1
    BY <1>1, <1>2, Numbers DEF FileInv, FileTypes
<1>5. FileTypes'
    BY <1>2, <1>3 DEF FileInv, FileTypes
<1>6. Alone(p)
    BY <1>2 DEF Alone, FileInv, FileTypes
<1>7. ASSUME NEW h \in File PROVE Cardinality(Refs(h)') = Cardinality(Refs(h))
    <2>1. CASE h = f
        <3> DEFINE D == {e \in Fd : ofile[p][e] = f} \cup {new}
        <3>1. PICK m : m \in D /\ \A e \in D : m <= e
            <4>1. D \subseteq Nat /\ D # {}
                BY <1>2, Numbers
            <4> QED
                BY ONLY <4>1, LeastOf
        <3>2. RefsOf(p, f) = {e \in Fd : ofile[p][e] = f} /\ D \subseteq Fd
            BY <1>2 DEF RefsOf, Uncounted, Handing
        <3>3. \A e \in Fd : ofile'[p][e] = f <=> e \in D
            BY <1>2, <1>4
        <3>4. \A e \in D : Uncounted(p, e)' <=> e = m
            BY <1>2, <1>4, <3>1, <3>2, <3>3, Numbers DEF Uncounted
        <3>5. /\ new \in 0..NOFILE /\ new \notin RefsOf(p, f) /\ m \in RefsOf(p, f) \cup {new}
              /\ RefsOf(p, f)' = (RefsOf(p, f) \cup {new}) \ {m}
            BY <1>2, <3>1, <3>2, <3>3, <3>4, Numbers DEF RefsOf, Handing
        <3> QED
            BY <1>6, <2>1, <3>5, AloneRefs, RefsMoved
    <2>2. CASE h # f
        <3>1. RefsOf(p, h)' = RefsOf(p, h)
            BY <1>2, <1>4, <2>2, Numbers DEF RefsOf, Uncounted, Handing
        <3> QED
            BY <1>6, <3>1, AloneRefs, RefsKept
    <2> QED
        BY <2>1, <2>2
<1>8. CountInv'
    BY <1>3, <1>7 DEF CountInv, FileInv
<1>9. UsesInv'
    BY <1>3, SameUses
<1>10. CallAt(p)' /\ PlacedAt(p)' /\ Touches(p)
    <2>1. CallAt(p)'
        <3>1. fpc'[p] = "dup" /\ obj'[p] = NoObject /\ ff'[p] = NoObject
            BY <1>2, <1>3
        <3> QED
            BY ONLY <1>4, <3>1 DEF CallAt
    <2>2. PlacedAt(p)'
        BY <1>1, <1>2, <1>4 DEF PlacedAt
    <2> QED
        BY <1>3, <2>1, <2>2 DEF Touches
<1>11. \A h \in File : MadeAt(p, h)'
    BY <1>2 DEF MadeAt, Making
<1>12. \A e \in Fd : NamedAt(p, e)'
    <2>1. fobj[f] # NoObject
        BY <1>1, <1>2, Numbers DEF FileInv, NamedInv, NamedAt
    <2> QED
        BY <1>2, <1>3, <1>4, <2>1 DEF NamedAt, FileInv, NamedInv
<1>13. \A h \in File : fref'[h] = 0 => fobj'[h] = NoObject
    BY <1>3 DEF FileInv, NamedInv
<1>14. ChildInv'
    BY <1>2, <1>3, SameChild DEF FileInv, FileTypes
<1> QED
    BY <1>3, <1>5, <1>6, <1>8, <1>9, <1>10, <1>11, <1>12, <1>13, <1>14, Inherit DEF FileInv

LEMMA DupCountsKeeps ==
    ASSUME FileInv, NEW p \in Proc, DupCounts(p)
    PROVE  FileInv'
<1>1. PICK f : f = arg[p][1]
    OBVIOUS
<1>2. /\ fpc[p] = "dup" /\ fpc' = [fpc EXCEPT ![p] = "user"] /\ fpc'[p] = "user"
      /\ fref[f] >= 1 /\ fref' = [fref EXCEPT ![f] = @ + 1]
      /\ arg' = [arg EXCEPT ![p] = <<>>] /\ arg'[p] = <<>>
      /\ UNCHANGED <<fobj, ofile, uses, obj, ff, child>>
    BY <1>1 DEF DupCounts, Steps, Filedup, Hand, FileInv, FileTypes
<1>3. /\ Len(arg[p]) = 1 /\ f \in File /\ obj[p] = NoObject /\ ff[p] = NoObject
    <2>1. Len(arg[p]) = 1 /\ obj[p] = NoObject /\ ff[p] = NoObject
        BY <1>2, InHand DEF CallAt
    <2> QED
        BY <1>1, <2>1, InHand
<1>4. PICK a \in Fd : ofile[p][a] = f
    BY <1>1, <1>2 DEF FileInv, PlacedInv, PlacedAt
<1>5. FileTypes'
    BY <1>2, <1>3 DEF FileInv, FileTypes
<1>6. Alone(p)
    BY <1>2 DEF Alone, FileInv, FileTypes
<1>7. ASSUME NEW h \in File PROVE fref'[h] = Cardinality(Refs(h)')
    <2>1. CASE h = f
        <3> DEFINE D == {e \in Fd : ofile[p][e] = f}
        <3>1. PICK m : m \in D /\ \A e \in D : m <= e
            BY <1>4, LeastOf, Numbers
        <3>2. \A e \in D : Uncounted(p, e) <=> e = m
            <4>1. D \subseteq Nat /\ \A e \in Fd : e \in D <=> ofile[p][e] = arg[p][1]
                BY <1>1, Numbers
            <4>2. \A e \in D : Uncounted(p, e) <=> \A e2 \in D : e <= e2
                BY <1>2, <4>1 DEF Uncounted
            <4> QED
                BY <3>1, <4>1, <4>2
        <3>3. RefsOf(p, f) = D \ {m}
            BY <1>2, <3>2 DEF RefsOf, Handing
        <3>4. /\ m \in 0..NOFILE /\ m \notin RefsOf(p, f)
              /\ RefsOf(p, f)' = RefsOf(p, f) \cup {m}
            BY <1>2, <3>1, <3>3, Numbers DEF RefsOf, Uncounted, Handing
        <3>5. Cardinality(Refs(f)') = Cardinality(Refs(f)) + 1
            BY <1>6, <3>4, AloneRefs, RefsMore
        <3> QED
            BY <1>2, <1>3, <2>1, <3>5 DEF FileInv, FileTypes, CountInv
    <2>2. CASE h # f
        <3>1. RefsOf(p, h)' = RefsOf(p, h)
            BY <1>1, <1>2, <2>2 DEF RefsOf, Uncounted, Handing
        <3>2. Cardinality(Refs(h)') = Cardinality(Refs(h))
            BY <1>6, <3>1, AloneRefs, RefsKept
        <3> QED
            BY <1>2, <2>2, <3>2 DEF FileInv, FileTypes, CountInv
    <2> QED
        BY <2>1, <2>2
<1>8. CountInv'
    BY <1>7 DEF CountInv
<1>9. UsesInv'
    BY <1>2, SameUses
<1>10. CallAt(p)' /\ PlacedAt(p)' /\ Touches(p)
    <2>1. CallAt(p)' /\ PlacedAt(p)'
        BY <1>2, <1>3 DEF CallAt, PlacedAt
    <2>2. RefsOf(p, f) # {} /\ fpc[p] \notin Making
        BY <1>2, <1>3, <1>4, DescRef DEF Making
    <2>3. \A h \in File \ {f} : fref'[h] = fref[h]
        BY <1>2 DEF FileInv, FileTypes
    <2>4. Touches(p)
        BY <1>2, <2>2, <2>3 DEF Touches
    <2> QED
        BY <2>1, <2>4
<1>11. \A h \in File : MadeAt(p, h)'
    BY <1>2 DEF MadeAt, Making
<1>12. \A e \in Fd : NamedAt(p, e)'
    BY <1>2 DEF NamedAt, FileInv, NamedInv
<1>13. \A h \in File : fref'[h] = 0 => fobj'[h] = NoObject
    BY <1>2, <1>3 DEF FileInv, NamedInv, FileTypes
<1>14. ChildInv'
    BY <1>2, SameChild DEF FileInv, FileTypes
<1> QED
    BY <1>2, <1>5, <1>6, <1>8, <1>9, <1>10, <1>11, <1>12, <1>13, <1>14, Inherit DEF FileInv

-----------------------------------------------------------------------------
(* fork() at its two ends: processes that have nothing in hand             *)
Idle == {"unused", "embryo", "user", "fork"}

LEMMA ForksKeep ==
    ASSUME FileInv, UNCHANGED <<fref, fobj, ofile, uses, arg, obj, ff>>, FileTypes', ChildInv',
           \A q \in Proc : fpc'[q] = fpc[q] \/ (fpc[q] \in Idle /\ fpc'[q] \in Idle)
    PROVE  FileInv'
<1>1. CountInv'
    <2>1. \A f : \A q \in Proc : RefsOf(q, f)' = RefsOf(q, f)
        BY DEF RefsOf, Uncounted, Has, Handing, Idle
    <2> QED
        BY <2>1, SameCount
<1>2. UsesInv'
    BY SameUses
<1>3. CallInv' /\ PlacedInv'
    BY DEF FileInv, CallInv, CallAt, PlacedInv, PlacedAt, Idle
<1>4. MadeInv'
    BY DEF FileInv, MadeInv, MadeAt, Has, Making, Idle
<1>5. NamedInv'
    BY DEF FileInv, NamedInv, NamedAt, Idle
<1> QED
    BY <1>1, <1>2, <1>3, <1>4, <1>5 DEF FileInv

LEMMA ForkKeeps ==
    ASSUME FileInv, NEW p \in Proc, NEW q \in Proc, Fork(p, q)
    PROVE  FileInv'
<1>1. /\ fpc[p] = "user" /\ fpc[q] = "unused" /\ p # q
      /\ fpc' = [fpc EXCEPT ![p] = "fork", ![q] = "embryo"]
      /\ child' = [child EXCEPT ![p] = q]
      /\ UNCHANGED <<fref, fobj, ofile, uses, arg, obj, ff>>
    BY DEF Fork
<1>2. /\ fpc'[p] = "fork" /\ fpc'[q] = "embryo" /\ child'[p] = q
      /\ \A r \in Proc \ {p, q} : fpc'[r] = fpc[r]
      /\ \A r \in Proc \ {p} : child'[r] = child[r]
    BY <1>1 DEF FileInv, FileTypes
<1>3. FileTypes'
    BY <1>1 DEF FileInv, FileTypes
<1>4. ASSUME NEW r \in Proc \ {p}, fpc'[r] = "fork"
      PROVE  fpc[r] = "fork" /\ child'[r] \notin {p, q} /\ fpc'[child'[r]] = "embryo"
    <2>1. fpc[r] = "fork"
        BY <1>1, <1>2, <1>4
    <2>2. child[r] \in Proc /\ fpc[child[r]] = "embryo"
        BY <2>1 DEF FileInv, ChildInv, FileTypes
    <2> QED
        BY <1>1, <1>2, <2>1, <2>2
<1>5. ChildInv'
    <2>1. \A r \in Proc : fpc'[r] = "fork" => fpc'[child'[r]] = "embryo"
        BY <1>2, <1>4
    <2>2. ASSUME NEW r \in Proc, NEW t \in Proc, fpc'[r] = "fork", fpc'[t] = "fork",
                 child'[r] = child'[t]
          PROVE  r = t
        <3>1. CASE r = p \/ t = p
            BY <1>2, <1>4, <2>2, <3>1
        <3>2. CASE r # p /\ t # p
            BY <1>2, <1>4, <2>2, <3>2 DEF FileInv, ChildInv
        <3> QED
            BY <3>1, <3>2
    <2> QED
        BY <2>1, <2>2 DEF ChildInv
<1> QED
    BY <1>1, <1>2, <1>3, <1>5, ForksKeep DEF Idle

LEMMA ForkEndsKeeps ==
    ASSUME FileInv, NEW p \in Proc, ForkEnds(p)
    PROVE  FileInv'
<1>1. PICK c : c = child[p]
    OBVIOUS
<1>2. /\ fpc[p] = "fork" /\ fpc[c] = "embryo" /\ c \in Proc /\ p # c
      /\ fpc' = [fpc EXCEPT ![p] = "user", ![c] = "user"]
      /\ child' = [child EXCEPT ![p] = p]
      /\ UNCHANGED <<fref, fobj, ofile, uses, arg, obj, ff>>
    BY <1>1 DEF ForkEnds, FileInv, ChildInv, FileTypes
<1>3. /\ fpc'[p] = "user" /\ fpc'[c] = "user"
      /\ \A r \in Proc \ {p, c} : fpc'[r] = fpc[r]
      /\ \A r \in Proc \ {p} : child'[r] = child[r]
    BY <1>2 DEF FileInv, FileTypes
<1>4. FileTypes'
    BY <1>2 DEF FileInv, FileTypes
<1>5. ASSUME NEW r \in Proc, fpc'[r] = "fork"
      PROVE  r # p /\ fpc[r] = "fork" /\ fpc'[child'[r]] = "embryo"
    <2>1. r # p /\ fpc[r] = "fork"
        BY <1>2, <1>3, <1>5
    <2>2. child[r] \in Proc /\ fpc[child[r]] = "embryo" /\ child[r] # c
        BY <1>1, <1>2, <2>1 DEF FileInv, ChildInv, FileTypes
    <2> QED
        BY <1>2, <1>3, <2>1, <2>2
<1>6. ChildInv'
    BY <1>3, <1>5 DEF ChildInv, FileInv
<1> QED
    BY <1>2, <1>3, <1>4, <1>6, ForksKeep DEF Idle

LEMMA CopyKeeps ==
    ASSUME FileInv, NEW p \in Proc, ForkCopies(p)
    PROVE  FileInv'
<1>1. PICK fd, c : fd = Min(ToCopy(p)) /\ c = child[p]
    OBVIOUS
<1>2. fd \in ToCopy(p)
    BY <1>1, LeastOf, Numbers DEF ForkCopies, ToCopy, OpenFds
<1>3. fd \in Fd /\ ofile[p][fd] # NoFile /\ ofile[c][fd] = NoFile
    BY <1>1, <1>2 DEF ToCopy, OpenFds, FreeFds
<1>4. PICK f : f = ofile[p][fd]
    OBVIOUS
<1>5. /\ fpc[p] = "fork" /\ fpc[c] = "embryo" /\ c \in Proc /\ p # c /\ f \in File
      /\ fref[f] >= 1 /\ fref' = [fref EXCEPT ![f] = @ + 1]
      /\ ofile' = [ofile EXCEPT ![c][fd] = f]
      /\ UNCHANGED <<fobj, uses, fpc, arg, obj, ff, child>>
    BY <1>1, <1>3, <1>4
    DEF ForkCopies, Filedup, Place, FileInv, ChildInv, FileTypes
<1>6. /\ ofile'[c][fd] = f /\ \A e \in Fd \ {fd} : ofile'[c][e] = ofile[c][e]
      /\ fobj[f] # NoObject
    BY <1>3, <1>4, <1>5 DEF FileInv, FileTypes, NamedInv, NamedAt
<1>7. FileTypes'
    BY <1>3, <1>5 DEF FileInv, FileTypes
<1>8. Alone(c)
    BY <1>5 DEF Alone, FileInv, FileTypes
<1>9. ASSUME NEW h \in File PROVE fref'[h] = Cardinality(Refs(h)')
    <2>1. CASE h = f
        <3>1. /\ fd \in 0..NOFILE /\ fd \notin RefsOf(c, f)
              /\ RefsOf(c, f)' = RefsOf(c, f) \cup {fd}
            BY <1>3, <1>5, <1>6, Numbers DEF RefsOf, Uncounted, Handing
        <3>2. Cardinality(Refs(f)') = Cardinality(Refs(f)) + 1
            BY <1>5, <1>8, <3>1, AloneRefs, RefsMore
        <3> QED
            BY <1>5, <2>1, <3>2 DEF FileInv, FileTypes, CountInv
    <2>2. CASE h # f
        <3>1. RefsOf(c, h)' = RefsOf(c, h)
            BY <1>3, <1>5, <1>6, <2>2, Numbers DEF RefsOf, Uncounted, Handing
        <3>2. Cardinality(Refs(h)') = Cardinality(Refs(h))
            BY <1>5, <1>8, <3>1, AloneRefs, RefsKept
        <3> QED
            BY <1>5, <2>2, <3>2 DEF FileInv, FileTypes, CountInv
    <2> QED
        BY <2>1, <2>2
<1>10. CountInv'
    BY <1>9 DEF CountInv
<1>11. UsesInv'
    BY <1>5, SameUses
<1>12. CallAt(c)' /\ PlacedAt(c)' /\ Touches(c)
    <2>1. CallAt(c)' /\ PlacedAt(c)'
        BY <1>5, InHand DEF CallAt, PlacedAt
    <2>2. RefsOf(p, f) # {} /\ fpc[p] \notin Making
        BY <1>3, <1>4, <1>5, DescRef DEF Making
    <2>3. \A h \in File \ {f} : fref'[h] = fref[h]
        BY <1>5 DEF FileInv, FileTypes
    <2>4. Touches(c)
        BY <1>5, <2>2, <2>3 DEF Touches
    <2> QED
        BY <2>1, <2>4
<1>13. \A h \in File : MadeAt(c, h)'
    BY <1>5 DEF MadeAt, Making
<1>14. \A e \in Fd : NamedAt(c, e)'
    BY <1>5, <1>6 DEF NamedAt, FileInv, NamedInv
<1>15. \A h \in File : fref'[h] = 0 => fobj'[h] = NoObject
    BY <1>5 DEF FileInv, NamedInv, FileTypes
<1>16. ChildInv'
    BY <1>5, SameChild
<1> QED
    BY <1>5, <1>7, <1>8, <1>10, <1>11, <1>12, <1>13, <1>14, <1>15, <1>16, Inherit DEF FileInv

-----------------------------------------------------------------------------
LEMMA CloseKeeps ==
    ASSUME FileInv, NEW p \in Proc, NEW fd \in Fd, Close(p, fd)
    PROVE  FileInv'
<1>1. PICK f : f = ofile[p][fd]
    OBVIOUS
<1>2. /\ fpc[p] = "user" /\ fpc' = [fpc EXCEPT ![p] = "drop"] /\ fpc'[p] = "drop"
      /\ ofile' = [ofile EXCEPT ![p][fd] = NoFile]
      /\ arg' = [arg EXCEPT ![p] = <<f>>] /\ arg'[p] = <<f>> /\ f \in File
      /\ UNCHANGED <<fref, fobj, uses, obj, ff, child>>
    BY <1>1 DEF Close, Steps, Place, Hand, FileInv, FileTypes
<1>3. obj[p] = NoObject /\ ff[p] = NoObject
    BY <1>2, InHand DEF CallAt
<1>4. /\ ofile'[p][fd] = NoFile /\ \A e \in Fd \ {fd} : ofile'[p][e] = ofile[p][e]
      /\ arg'[p][1] = f /\ Len(arg'[p]) = 1
    BY <1>2 DEF FileInv, FileTypes
<1>5. FileTypes'
    BY <1>2 DEF FileInv, FileTypes
<1>6. Alone(p)
    BY <1>2 DEF Alone, FileInv, FileTypes
<1>7. ASSUME NEW h \in File PROVE Cardinality(Refs(h)') = Cardinality(Refs(h))
    <2>1. Has(p, h)' <=> h = f
        BY <1>4 DEF Has
    <2>2. CASE h = f
        <3>1. /\ 0 \in 0..NOFILE /\ 0 \notin RefsOf(p, f) /\ fd \in RefsOf(p, f) \cup {0}
              /\ RefsOf(p, f)' = (RefsOf(p, f) \cup {0}) \ {fd}
            BY <1>1, <1>2, <1>4, <2>1, <2>2, Numbers DEF RefsOf, Uncounted, Handing
        <3> QED
            BY <1>6, <2>2, <3>1, AloneRefs, RefsMoved
    <2>3. CASE h # f
        <3>1. RefsOf(p, h)' = RefsOf(p, h)
            BY <1>1, <1>2, <1>4, <2>1, <2>3, Numbers DEF RefsOf, Uncounted, Handing
        <3> QED
            BY <1>6, <3>1, AloneRefs, RefsKept
    <2> QED
        BY <2>2, <2>3
<1>8. CountInv'
    BY <1>2, <1>7 DEF CountInv, FileInv
<1>9. UsesInv'
    BY <1>2, SameUses
<1>10. CallAt(p)' /\ PlacedAt(p)' /\ Touches(p)
    <2>1. CallAt(p)'
        BY <1>2, <1>4 DEF CallAt
    <2> QED
        BY <1>2, <2>1 DEF PlacedAt, Touches
<1>11. \A h \in File : MadeAt(p, h)'
    BY <1>2 DEF MadeAt, Making
<1>12. /\ \A e \in Fd : NamedAt(p, e)'
       /\ \A h \in File : fref'[h] = 0 => fobj'[h] = NoObject
    BY <1>2, <1>4 DEF NamedAt, FileInv, NamedInv
<1>13. ChildInv'
    BY <1>2, SameChild DEF FileInv, FileTypes
<1> QED
    BY <1>2, <1>5, <1>6, <1>8, <1>9, <1>10, <1>11, <1>12, <1>13, Inherit DEF FileInv

(* fileclose() of a reference of p, by sys_close() or exit()               *)
LEMMA FilecloseKeeps ==
    ASSUME FileInv, NEW p \in Proc, NEW f \in File, Fileclose(p, f), NEW x \in RefsOf(p, f),
           fpc[p] \in {"drop", "exit"}, ff[p] = NoObject,
           Alone(p), RefsOf(p, f)' = RefsOf(p, f) \ {x},
           \A h \in File \ {f} : RefsOf(p, h)' = RefsOf(p, h),
           ofile' \in [Proc -> [Fd -> File \cup {NoFile}]], arg' \in [Proc -> Seq(File)],
           \A e \in Fd : ofile'[p][e] \in {NoFile, ofile[p][e]},
           Len(arg'[p]) <= 1, fpc[p] = "exit" => arg'[p] = <<>>,
           UNCHANGED <<uses, fpc, obj, child>>
    PROVE  FileInv'
<1>1. /\ fref[f] >= 1 /\ fref' = [fref EXCEPT ![f] = @ - 1] /\ fref \in [File -> Nat]
      /\ fref[f] = 1 =>
            fobj' = [fobj EXCEPT ![f] = NoObject] /\ ff' = [ff EXCEPT ![p] = fobj[f]]
      /\ fref[f] # 1 => fobj' = fobj /\ ff' = ff
    BY DEF Fileclose, LastRef, Cleared, FileInv, FileTypes
<1>2. FileTypes'
    <2>1. FileTypes
        BY DEF FileInv
    <2>2. fref' \in [File -> Nat]
        BY <1>1
    <2>3. fobj' \in [File -> Object \cup {NoObject}] /\ ff' \in [Proc -> Object \cup {NoObject}]
        <3>1. fobj[f] \in Object \cup {NoObject}
            BY <2>1 DEF FileTypes
        <3>2. CASE fref[f] = 1
            BY <1>1, <2>1, <3>1, <3>2 DEF FileTypes
        <3>3. CASE fref[f] # 1
            BY <1>1, <2>1, <3>3 DEF FileTypes
        <3> QED
            BY <3>2, <3>3
    <2> QED
        BY <2>1, <2>2, <2>3 DEF FileTypes
<1>3. /\ \A h \in File \ {f} : fref'[h] = fref[h] /\ fobj'[h] = fobj[h]
      /\ \A q \in Proc \ {p} : ff'[q] = ff[q]
      /\ fref'[f] = fref[f] - 1 /\ (fref[f] = 1 => fobj'[f] = NoObject)
    BY <1>1 DEF FileInv, FileTypes
<1>4. ASSUME NEW h \in File PROVE fref'[h] = Cardinality(Refs(h)')
    <2>1. CASE h = f
        <3>1. Cardinality(Refs(f)') = Cardinality(Refs(f)) - 1
            BY AloneRefs, RefsLess
        <3> QED
            BY <1>3, <2>1, <3>1 DEF FileInv, CountInv
    <2>2. CASE h # f
        <3>1. Cardinality(Refs(h)') = Cardinality(Refs(h))
            BY <2>2, AloneRefs, RefsKept
        <3> QED
            BY <1>3, <2>2, <3>1 DEF FileInv, CountInv
    <2> QED
        BY <2>1, <2>2
<1>5. CountInv'
    BY <1>4 DEF CountInv
<1>6. CASE fref[f] # 1
    <2>1. UsesInv'
        BY <1>1, <1>6, SameUses
    <2>2. ff'[p] = NoObject /\ RefsOf(p, f) # {} /\ fpc[p] \notin Making
        BY <1>1, <1>6 DEF Making
    <2>3. Touches(p)
        BY <1>1, <1>3, <1>6, <2>2 DEF Touches
    <2>4. CallAt(p)'
        BY <1>2, <2>2, InHand DEF CallAt, FileTypes
    <2>5. \A e \in Fd : NamedAt(p, e)'
        BY <1>1, <1>6 DEF NamedAt, FileInv, NamedInv
    <2>6. \A h \in File : fref'[h] = 0 => fobj'[h] = NoObject
        BY <1>1, <1>3, <1>6 DEF FileInv, NamedInv
    <2>7. PlacedAt(p)' /\ \A h \in File : MadeAt(p, h)'
        BY DEF PlacedAt, MadeAt, Making
    <2>8. ChildInv'
        BY SameChild
    <2> QED
        BY <1>2, <1>3, <1>5, <2>1, <2>3, <2>4, <2>5, <2>6, <2>7, <2>8, Inherit DEF FileInv
<1>7. CASE fref[f] = 1
    <2>1. \A q \in Proc : \A y \in RefsOf(q, f) : q = p /\ y = x
        BY <1>7, RefCounted
    <2>2. UsesInv'
        <3>1. ASSUME NEW o \in Object
              PROVE  uses'[o] = Cardinality(Standing(o)') + Cardinality(Releasing(o)')
                                  + Cardinality(Opening(o)')
            <4>1. Cardinality(Standing(o)')
                     = Cardinality(Standing(o)) + Same(NoObject, o) - Same(fobj[f], o)
                BY <1>1, <1>7, StandingMoves DEF FileInv
            <4>2. Cardinality(Releasing(o)')
                     = Cardinality(Releasing(o)) + Same(fobj[f], o) - Same(ff[p], o)
                BY <1>1, <1>7, ReleasingMoves DEF FileInv
            <4>3. Opening(o)' = Opening(o)
                BY DEF Opening
            <4>4. uses[o] = Cardinality(Standing(o)) + Cardinality(Releasing(o))
                              + Cardinality(Opening(o))
                BY DEF FileInv, UsesInv
            <4>5. Same(NoObject, o) \in Int /\ Same(fobj[f], o) \in Int
                BY DEF Same
            <4> QED
                BY <4>1, <4>2, <4>3, <4>4, <4>5, Cards
        <3> QED
            BY <3>1 DEF UsesInv
    <2>3. Touches(p)
        BY <1>3, <2>1 DEF Touches
    <2>4. CallAt(p)'
        BY <1>2, InHand DEF CallAt, FileTypes
    <2>5. ASSUME NEW e \in Fd PROVE NamedAt(p, e)'
        <3>1. CASE ofile'[p][e] = NoFile
            BY <3>1 DEF NamedAt
        <3>2. CASE ofile'[p][e] = f
            <4>1. e \in RefsOf(p, f)'
                BY <3>2 DEF RefsOf, Uncounted
            <4> QED
                BY <2>1, <4>1
        <3>3. CASE ofile'[p][e] \in File \ {f}
            <4>1. ofile'[p][e] = ofile[p][e] /\ NamedAt(p, e)
                BY <3>3, Numbers DEF FileInv, NamedInv
            <4> QED
                BY <1>3, <3>3, <4>1 DEF NamedAt
        <3>4. ofile'[p][e] \in File \cup {NoFile}
            OBVIOUS
        <3> QED
            BY <3>1, <3>2, <3>3, <3>4
    <2>6. \A h \in File : fref'[h] = 0 => fobj'[h] = NoObject
        BY <1>3, <1>7 DEF FileInv, NamedInv
    <2>7. PlacedAt(p)' /\ \A h \in File : MadeAt(p, h)'
        BY DEF PlacedAt, MadeAt, Making
    <2>8. ChildInv'
        BY SameChild
    <2> QED
        BY <1>2, <1>3, <1>5, <2>2, <2>3, <2>4, <2>5, <2>6, <2>7, <2>8, Inherit DEF FileInv
<1> QED
    BY <1>6, <1>7

LEMMA DropFileKeeps ==
    ASSUME FileInv, NEW p \in Proc, DropFile(p)
    PROVE  FileInv'
<1>1. PICK f, rest : f = Head(arg[p]) /\ rest = Tail(arg[p])
    OBVIOUS
<1>2. /\ fpc[p] = "drop" /\ ff[p] = NoObject /\ Fileclose(p, f)
      /\ arg' = [arg EXCEPT ![p] = rest]
      /\ UNCHANGED <<ofile, uses, fpc, obj, child>>
    BY <1>1 DEF DropFile, Hand
<1>3. /\ arg[p] \in Seq(File) /\ arg[p] # <<>> /\ Len(arg[p]) \in {1, 2}
    <2>1. arg[p] \in Seq(File) /\ arg[p] # <<>> /\ Len(arg[p]) <= 2
        BY InHand DEF DropFile, CallAt
    <2>2. PICK k : k = Len(arg[p])
        OBVIOUS
    <2>3. k \in Nat /\ k # 0 /\ k <= 2
        BY <2>1, <2>2, EmptySeq
    <2>4. k \in {1, 2}
        BY ONLY <2>3
    <2> QED
        BY <2>1, <2>2, <2>4
<1>4. /\ f = arg[p][1] /\ f \in File /\ rest \in Seq(File) /\ Len(rest) = Len(arg[p]) - 1
      /\ \A k \in 1..Len(rest) : rest[k] = arg[p][k + 1]
    BY <1>1, <1>3
<1>5. /\ arg'[p] = rest /\ arg' \in [Proc -> Seq(File)]
    BY <1>2, <1>4 DEF FileInv, FileTypes
<1>6. /\ Has(p, f) /\ ~Has(p, f)'
      /\ \A h : h # f => (Has(p, h)' <=> Has(p, h))
    <2>1. CASE Len(arg[p]) = 1
        <3>1. 1..Len(rest) = {}
            BY <1>4, <2>1
        <3> QED
            BY <1>4, <1>5, <2>1, <3>1, InHand DEF Has
    <2>2. CASE Len(arg[p]) = 2
        <3>1. 1..Len(rest) = {1} /\ rest[1] = arg[p][2]
            BY <1>4, <2>2
        <3> QED
            <4>1. \A h : Has(p, h)' <=> h = arg[p][2]
                BY <1>5, <3>1 DEF Has
            <4>2. f # arg[p][2] /\ \A h : Has(p, h) <=> h \in {f, arg[p][2]}
                BY <1>4, <2>2, InHand
            <4> QED
                BY <4>1, <4>2
    <2> QED
        BY <1>3, <2>1, <2>2
<1>7. Alone(p)
    BY <1>2 DEF Alone, FileInv, FileTypes
<1>8. /\ 0 \in RefsOf(p, f) /\ RefsOf(p, f)' = RefsOf(p, f) \ {0}
      /\ \A h \in File \ {f} : RefsOf(p, h)' = RefsOf(p, h)
    BY <1>2, <1>6, Numbers DEF RefsOf, Uncounted, Handing
<1>9. /\ ofile' \in [Proc -> [Fd -> File \cup {NoFile}]] /\ Len(arg'[p]) <= 1
      /\ \A e \in Fd : ofile'[p][e] \in {NoFile, ofile[p][e]}
    <2>1. Len(arg'[p]) <= 1
        BY <1>3, <1>4, <1>5
    <2> QED
        BY <1>2, <2>1 DEF FileInv, FileTypes
<1> QED
    BY <1>2, <1>4, <1>5, <1>7, <1>8, <1>9, FilecloseKeeps

LEMMA ExitClosesKeeps ==
    ASSUME FileInv, NEW p \in Proc, ExitCloses(p)
    PROVE  FileInv'
<1>1. PICK fd, f : fd = Min(OpenFds(p)) /\ f = ofile[p][fd]
    OBVIOUS
<1>2. fd \in Fd /\ f # NoFile
    <2>1. fd \in OpenFds(p)
        BY <1>1, LeastOf, Numbers DEF ExitCloses, OpenFds
    <2> QED
        BY <1>1, <2>1 DEF OpenFds, FreeFds
<1>3. /\ fpc[p] = "exit" /\ ff[p] = NoObject /\ Fileclose(p, f) /\ f \in File
      /\ ofile' = [ofile EXCEPT ![p][fd] = NoFile]
      /\ UNCHANGED <<uses, fpc, arg, obj, child>>
    BY <1>1, <1>2 DEF ExitCloses, Place, FileInv, FileTypes
<1>4. ofile'[p][fd] = NoFile /\ \A e \in Fd \ {fd} : ofile'[p][e] = ofile[p][e]
    BY <1>2, <1>3 DEF FileInv, FileTypes
<1>5. Alone(p)
    BY <1>3 DEF Alone, FileInv, FileTypes
<1>6. /\ fd \in RefsOf(p, f) /\ RefsOf(p, f)' = RefsOf(p, f) \ {fd}
      /\ \A h \in File \ {f} : RefsOf(p, h)' = RefsOf(p, h)
    BY <1>1, <1>2, <1>3, <1>4, Numbers DEF RefsOf, Uncounted, Handing
<1>7. /\ ofile' \in [Proc -> [Fd -> File \cup {NoFile}]] /\ arg' \in [Proc -> Seq(File)]
      /\ \A e \in Fd : ofile'[p][e] \in {NoFile, ofile[p][e]}
    BY <1>2, <1>3, <1>4 DEF FileInv, FileTypes
<1>8. arg'[p] = <<>> /\ Len(arg'[p]) <= 1
    <2>1. arg[p] = <<>> /\ Len(<<>>) = 0
        BY <1>3, InHand DEF CallAt
    <2> QED
        BY <1>3, <2>1
<1> QED
    BY <1>3, <1>5, <1>6, <1>7, <1>8, FilecloseKeeps

(* pipeclose() or iput(): one use less                                     *)
LEMMA FilecloseEndsKeeps ==
    ASSUME FileInv, NEW p \in Proc, FilecloseEnds(p)
    PROVE  FileInv'
<1>1. PICK t : t = ff[p]
    OBVIOUS
<1>2. /\ t \in Object /\ t # NoObject /\ uses' = [uses EXCEPT ![t] = @ - 1]
      /\ ff' = [ff EXCEPT ![p] = NoObject]
      /\ UNCHANGED <<fref, fobj, ofile, fpc, arg, obj, child>>
    BY <1>1 DEF FilecloseEnds, FileInv, FileTypes
<1>3. ASSUME NEW o \in Object
      PROVE  /\ uses'[o] = Cardinality(Standing(o)') + Cardinality(Releasing(o)')
                           + Cardinality(Opening(o)')
             /\ uses'[o] \in Nat
    <2>1. Cardinality(Releasing(o)') = Cardinality(Releasing(o)) + Same(NoObject, o) - Same(t, o)
        BY <1>1, <1>2, ReleasingMoves DEF FileInv
    <2>2. Standing(o)' = Standing(o) /\ Opening(o)' = Opening(o) /\ o # NoObject
        BY <1>2, Numbers DEF Standing, Opening
    <2>3. uses[o] = Cardinality(Standing(o)) + Cardinality(Releasing(o)) + Cardinality(Opening(o))
        BY DEF FileInv, UsesInv
    <2>4. uses'[o] = uses[o] - Same(t, o) /\ Same(NoObject, o) = 0 /\ Same(t, o) \in {0, 1}
        BY <1>2, <2>2 DEF FileInv, FileTypes, Same
    <2>5. Cardinality(Releasing(o)') \in Nat
        <3>1. Releasing(o)' \subseteq Proc
            BY DEF Releasing
        <3> QED
            BY <3>1, Numbers, FS_Subset, FS_CardinalityType
    <2> QED
        BY <2>1, <2>2, <2>3, <2>4, <2>5, Cards
<1>4. FileTypes'
    BY <1>2, <1>3 DEF FileInv, FileTypes
<1>5. Alone(p)
    BY <1>2 DEF Alone, FileInv, FileTypes
<1>6. CountInv'
    <2>1. \A f : RefsOf(p, f)' = RefsOf(p, f)
        BY <1>2 DEF RefsOf, Uncounted, Has
    <2> QED
        BY <1>2, <1>5, <2>1, AloneRefs, SameCount
<1>7. UsesInv'
    BY <1>3 DEF UsesInv
<1>8. CallInv' /\ PlacedInv' /\ MadeInv' /\ NamedInv'
    <2>1. \A q \in Proc : ff'[q] = ff[q] \/ ff'[q] = NoObject
        BY <1>2 DEF FileInv, FileTypes
    <2> QED
        BY <1>2, <2>1
        DEF FileInv, CallInv, CallAt, PlacedInv, PlacedAt, MadeInv, MadeAt, Has, NamedInv, NamedAt
<1>9. ChildInv'
    BY <1>2, SameChild
<1> QED
    BY <1>4, <1>6, <1>7, <1>8, <1>9 DEF FileInv

LEMMA DropEndsKeeps ==
    ASSUME FileInv, NEW p \in Proc, DropEnds(p)
    PROVE  FileInv'
<1>1. PICK n : n = obj[p]
    OBVIOUS
<1>2. /\ fpc[p] = "drop" /\ fpc' = [fpc EXCEPT ![p] = "user"] /\ fpc'[p] = "user"
      /\ ff[p] = NoObject /\ arg[p] = <<>>
      /\ obj' = [obj EXCEPT ![p] = NoObject] /\ obj'[p] = NoObject
      /\ n = NoObject => uses' = uses
      /\ n # NoObject => n \in Object /\ uses' = [uses EXCEPT ![n] = @ - 1]
      /\ UNCHANGED <<fref, fobj, ofile, arg, ff, child>>
    BY <1>1, Numbers DEF DropEnds, Steps, FileInv, FileTypes
<1>3. ASSUME NEW o \in Object
      PROVE  /\ uses'[o] = Cardinality(Standing(o)') + Cardinality(Releasing(o)')
                           + Cardinality(Opening(o)')
             /\ uses'[o] \in Nat
    <2>1. Cardinality(Opening(o)') = Cardinality(Opening(o)) + Same(NoObject, o) - Same(n, o)
        <3>1. FileTypes /\ obj' = [obj EXCEPT ![p] = NoObject] /\ obj[p] = n
            BY <1>1, <1>2 DEF FileInv
        <3>2. Cardinality(Opening(o)')
                 = Cardinality(Opening(o)) + Same(NoObject, o) - Same(obj[p], o)
            BY <3>1, OpeningMoves
        <3> QED
            BY <3>1, <3>2
    <2>2. Standing(o)' = Standing(o) /\ Releasing(o)' = Releasing(o) /\ o # NoObject
        BY <1>2, Numbers DEF Standing, Releasing
    <2>3. uses[o] = Cardinality(Standing(o)) + Cardinality(Releasing(o)) + Cardinality(Opening(o))
        BY DEF FileInv, UsesInv
    <2>4. uses'[o] = uses[o] - Same(n, o) /\ Same(NoObject, o) = 0 /\ Same(n, o) \in {0, 1}
        BY <1>2, <2>2 DEF FileInv, FileTypes, Same
    <2>5. Cardinality(Opening(o)') \in Nat
        <3>1. Opening(o)' \subseteq Proc
            BY DEF Opening
        <3> QED
            BY <3>1, Numbers, FS_Subset, FS_CardinalityType
    <2> QED
        BY <2>1, <2>2, <2>3, <2>4, <2>5, Cards
<1>4. FileTypes'
    <2>1. uses' \in [Object -> Nat]
        <3>1. CASE n = NoObject
            BY <1>2, <3>1 DEF FileInv, FileTypes
        <3>2. CASE n # NoObject
            BY <1>2, <1>3, <3>2 DEF FileInv, FileTypes
        <3> QED
            BY <3>1, <3>2
    <2> QED
        BY <1>2, <2>1 DEF FileInv, FileTypes
<1>5. Alone(p)
    BY <1>2 DEF Alone, FileInv, FileTypes
<1>6. CountInv'
    <2>1. \A f : ~Has(p, f)
        BY <1>2 DEF Has
    <2>2. \A f : RefsOf(p, f)' = RefsOf(p, f)
        BY <1>2, <2>1 DEF RefsOf, Uncounted, Handing
    <2> QED
        BY <1>2, <1>5, <2>2, AloneRefs, SameCount
<1>7. UsesInv'
    BY <1>3 DEF UsesInv
<1>8. CallAt(p)' /\ PlacedAt(p)' /\ Touches(p)
    <2>1. arg'[p] = <<>> /\ Len(<<>>) = 0 /\ ff'[p] = NoObject
        BY <1>2
    <2>2. CallAt(p)'
        BY <1>2, <2>1 DEF CallAt
    <2> QED
        BY <1>2, <2>2 DEF PlacedAt, Touches
<1>9. /\ \A f \in File : MadeAt(p, f)'
      /\ \A fd \in Fd : NamedAt(p, fd)'
      /\ \A f \in File : fref'[f] = 0 => fobj'[f] = NoObject
    BY <1>2 DEF MadeAt, NamedAt, Making, FileInv, NamedInv
<1>10. ChildInv'
    BY <1>2, SameChild DEF FileInv, FileTypes
<1>11. \A q \in Proc \ {p} : obj'[q] = obj[q] /\ ff'[q] = ff[q]
    BY <1>2 DEF FileInv, FileTypes
<1> QED
    BY <1>4, <1>5, <1>6, <1>7, <1>8, <1>9, <1>10, <1>11, Inherit DEF FileInv

-----------------------------------------------------------------------------
(* Every step keeps the invariant.                                         *)
LEMMA StepKeeps ==
    ASSUME FileInv, [FileNext]_fileVars
    PROVE  FileInv'
<1>1. ASSUME NEW p \in Proc, NEW n \in Inodes, Open(p, n) PROVE FileInv'
    BY <1>1, OpenKeeps
<1>2. ASSUME NEW p \in Proc, OpenAllocs(p) PROVE FileInv'
    <2>1. ASSUME NEW f \in File, Steps(p, "open", "fdalloc"), Filealloc(f), Hand(p, <<f>>)
          PROVE  FileInv'
        <3>1. arg[p] = <<>> /\ Append(<<>>, f) = <<f>>
            BY <2>1, InHand DEF CallAt, Steps
        <3>2. arg' = [arg EXCEPT ![p] = Append(arg[p], f)]
            BY <2>1, <3>1 DEF Hand
        <3> QED
            BY <1>2, <2>1, <3>2, MakesKeeps DEF OpenAllocs
    <2>2. ASSUME Steps(p, "open", "drop"), UNCHANGED <<fref, arg>> PROVE FileInv'
        BY <1>2, <2>2, GoesKeeps DEF OpenAllocs
    <2> QED
        BY <1>2, <2>1, <2>2 DEF OpenAllocs
<1>3. ASSUME NEW p \in Proc, OpenFdalloc(p) PROVE FileInv'
    <2>1. CASE Steps(p, "fdalloc", "set") /\ FreeFds(p) # {} /\ Place(p, Min(FreeFds(p)), arg[p][1])
        BY <1>3, <2>1, Freed, FdallocKeeps DEF OpenFdalloc
    <2>2. CASE Steps(p, "fdalloc", "drop") /\ UNCHANGED ofile
        BY <1>3, <2>2, GoesKeeps DEF OpenFdalloc
    <2> QED
        BY <1>3, <2>1, <2>2 DEF OpenFdalloc
<1>4. ASSUME NEW p \in Proc, MakePipe(p) PROVE FileInv'
    <2>1. PICK f \in File : Filealloc(f) /\ Hand(p, <<f>>)
        BY <1>4 DEF MakePipe
    <2>2. arg[p] = <<>> /\ Append(<<>>, f) = <<f>>
        BY <1>4, InHand DEF MakePipe, CallAt, Steps
    <2>3. arg' = [arg EXCEPT ![p] = Append(arg[p], f)]
        BY <2>1, <2>2 DEF Hand
    <2> QED
        BY <1>4, <2>1, <2>3, MakesKeeps DEF MakePipe
<1>5. ASSUME NEW p \in Proc, PipeAllocs(p) PROVE FileInv'
    <2>1. ASSUME NEW f \in File, Steps(p, "pipe", "pipe2"), Filealloc(f), Hand(p, Append(arg[p], f))
          PROVE  FileInv'
        BY <1>5, <2>1, MakesKeeps DEF PipeAllocs, Hand
    <2>2. ASSUME Steps(p, "pipe", "drop"), UNCHANGED <<fref, arg>> PROVE FileInv'
        BY <1>5, <2>2, GoesKeeps DEF PipeAllocs
    <2> QED
        BY <1>5, <2>1, <2>2 DEF PipeAllocs
<1>6. ASSUME NEW p \in Proc, PipeFd0(p) \/ PipeFd1(p) PROVE FileInv'
    <2>1. CASE /\ PipeFd0(p) /\ Steps(p, "fdalloc2", "fdalloc3")
               /\ FreeFds(p) # {} /\ Place(p, Min(FreeFds(p)), arg[p][1])
        BY <2>1, Freed, PipeFd0Keeps DEF PipeFd0
    <2>2. CASE PipeFd0(p) /\ Steps(p, "fdalloc2", "drop") /\ UNCHANGED ofile
        BY <2>2, GoesKeeps DEF PipeFd0
    <2>3. CASE /\ PipeFd1(p) /\ Steps(p, "fdalloc3", "user") /\ FreeFds(p) # {}
               /\ Place(p, Min(FreeFds(p)), arg[p][2]) /\ Hand(p, <<>>)
        BY <2>3, Freed, PipeFd1Keeps DEF PipeFd1
    <2>4. CASE /\ PipeFd1(p) /\ Steps(p, "fdalloc3", "drop") /\ Place(p, Fd0(p), NoFile)
               /\ UNCHANGED arg
        BY <2>4, PipeUndoKeeps DEF PipeFd1
    <2> QED
        BY <1>6, <2>1, <2>2, <2>3, <2>4 DEF PipeFd0, PipeFd1
<1>7. ASSUME NEW p \in Proc, PipeNoPage(p) PROVE FileInv'
    BY <1>7, GoesKeeps DEF PipeNoPage
<1>8. ASSUME NEW p \in Proc, Exit(p) PROVE FileInv'
    BY <1>8, GoesKeeps DEF Exit
<1>9. ASSUME NEW p \in Proc, ExitEnds(p) PROVE FileInv'
    BY <1>9, GoesKeeps DEF ExitEnds
<1>10. ASSUME NEW p \in Proc, OpenSets(p) \/ PipeFits(p) \/ DupCounts(p) PROVE FileInv'
    BY <1>10, SetsKeeps, PipeFitsKeeps, DupCountsKeeps
<1>11. ASSUME NEW p \in Proc, NEW fd \in Fd, Dup(p, fd) \/ Close(p, fd) PROVE FileInv'
    BY <1>11, DupKeeps, CloseKeeps
<1>12. ASSUME NEW p \in Proc, NEW q \in Proc, Fork(p, q) PROVE FileInv'
    BY <1>12, ForkKeeps
<1>13. ASSUME NEW p \in Proc, ForkCopies(p) \/ ForkEnds(p) PROVE FileInv'
    BY <1>13, CopyKeeps, ForkEndsKeeps
<1>14. ASSUME NEW p \in Proc, DropFile(p) \/ FilecloseEnds(p) \/ DropEnds(p) \/ ExitCloses(p)
       PROVE  FileInv'
    BY <1>14, DropFileKeeps, FilecloseEndsKeeps, DropEndsKeeps, ExitClosesKeeps
<1>15. CASE UNCHANGED fileVars
    <2>1. UNCHANGED <<fref, fobj, ofile, uses, fpc, arg, obj, ff, child>>
        BY <1>15 DEF fileVars
    <2>2. FileTypes' /\ ChildInv'
        BY <2>1 DEF FileInv, FileTypes, ChildInv
    <2> QED
        BY <2>1, <2>2, ForksKeep
<1> QED
    BY <1>1, <1>2, <1>3, <1>4, <1>5, <1>6, <1>7, <1>8, <1>9, <1>10, <1>11, <1>12, <1>13, <1>14,
       <1>15 DEF FileNext

LEMMA InitHolds ==
    ASSUME FileInit
    PROVE  FileInv
<1>1. FileTypes
    BY FileTableAssumption DEF FileInit, FileTypes
<1>2. CountInv
    <2>1. \A p \in Proc : \A f \in File : RefsOf(p, f) = {}
        BY Numbers DEF FileInit, RefsOf, Handing
    <2>2. \A f \in File : Refs(f) = {}
        BY <2>1 DEF Refs
    <2> QED
        BY <2>2, FS_EmptySet DEF FileInit, CountInv
<1>3. UsesInv
    <2>1. ASSUME NEW o \in Object PROVE Standing(o) = {} /\ Releasing(o) = {} /\ Opening(o) = {}
        BY Numbers DEF FileInit, Standing, Releasing, Opening
    <2>2. Cardinality({}) = 0 /\ 0 + 0 + 0 = 0 /\ \A o \in Object : uses[o] = 0
        BY FS_EmptySet DEF FileInit
    <2> QED
        BY <2>1, <2>2 DEF UsesInv
<1>4. CallInv /\ PlacedInv
    <2>1. \A p \in Proc : fpc[p] \in {"user", "unused"} /\ arg[p] = <<>> /\ Len(arg[p]) = 0
        BY DEF FileInit
    <2> QED
        BY <2>1 DEF FileInit, CallInv, CallAt, PlacedInv, PlacedAt
<1>5. MadeInv /\ NamedInv /\ ChildInv
    BY DEF FileInit, MadeInv, MadeAt, Making, NamedInv, NamedAt, ChildInv
<1> QED
    BY <1>1, <1>2, <1>3, <1>4, <1>5 DEF FileInv

-----------------------------------------------------------------------------
(* The references of ftable, of the inodes and of the pipes are those that *)
(* processes have, in descriptors or in the middle of a call: always.      *)
THEOREM FileInvariant == FileSpec => []FileInv
<1>1. FileInit => FileInv
    BY InitHolds
<1>2. FileInv /\ [FileNext]_fileVars => FileInv'
    BY StepKeeps
<1> QED
    BY <1>1, <1>2, PTL DEF FileSpec

LEMMA ShortSeq ==
    ASSUME NEW n \in Nat, NEW s \in Seq(File), Len(s) <= n
    PROVE  s \in BoundedSeq(File, n)
<1>1. s \in [1..Len(s) -> File] /\ Len(s) \in 0..n
    OBVIOUS
<1> QED
    BY <1>1 DEF BoundedSeq, SeqOf

(* The types, and that a call has no more than two files in hand           *)
THEOREM FileTypesHold == FileSpec => []FileTypeOK
<1>1. ASSUME FileInv PROVE FileTypeOK
    <2>1. ASSUME NEW p \in Proc PROVE arg[p] \in BoundedSeq(File, 2)
        <3>1. arg[p] \in Seq(File) /\ Len(arg[p]) <= 2
            BY <1>1, InHand DEF CallAt
        <3> QED
            BY <3>1, ShortSeq
    <2>2. arg \in [Proc -> BoundedSeq(File, 2)]
        BY <1>1, <2>1 DEF FileInv, FileTypes
    <2> QED
        BY <1>1, <2>2 DEF FileInv, FileTypes, FileTypeOK
<1> QED
    BY <1>1, FileInvariant, PTL

LEMMA OpenOnes ==
    ASSUME FileInv
    PROVE  DescriptorsOpen
<1>1. ASSUME NEW p \in Proc, fpc[p] = "user", NEW fd \in OpenFds(p), NEW f, f = ofile[p][fd]
      PROVE  fref[f] > 0 /\ fobj[f] # NoObject /\ uses[fobj[f]] > 0
    <2>1. fd \in Fd /\ f \in File
        BY <1>1 DEF OpenFds, FreeFds, FileInv, FileTypes
    <2>2. fref[f] > 0
        BY <1>1, <2>1, DescRef, RefCounted
    <2>3. fobj[f] # NoObject
        BY <1>1, <2>1, Numbers DEF FileInv, NamedInv, NamedAt
    <2>4. PICK o : o = fobj[f]
        OBVIOUS
    <2>5. o \in Object /\ f \in Standing(o)
        BY <2>1, <2>3, <2>4 DEF FileInv, FileTypes, Standing
    <2>6. Cardinality(Standing(o)) # 0
        <3>1. IsFiniteSet(Standing(o))
            BY Numbers, FS_Subset DEF Standing
        <3> QED
            BY <2>5, <3>1, FS_EmptySet
    <2>7. uses[o] > 0
        BY <2>5, <2>6, Cards DEF FileInv, UsesInv
    <2> QED
        BY <2>2, <2>3, <2>4, <2>7
<1> QED
    BY <1>1 DEF DescriptorsOpen

LEMMA NoneLeaked ==
    ASSUME FileInv
    PROVE  NothingLeaked
<1> SUFFICES ASSUME \A p \in Proc : fpc[p] \in {"user", "unused"} /\ ff[p] = NoObject
             PROVE  /\ \A f \in File : /\ fref[f] = Cardinality(Descriptors(f))
                                       /\ fref[f] = 0 => fobj[f] = NoObject
                    /\ \A o \in Object : uses[o] = Cardinality({f \in File : fobj[f] = o})
    BY DEF NothingLeaked
<1>1. ASSUME NEW f \in File PROVE fref[f] = Cardinality(Descriptors(f))
    <2>1. \A p \in Proc : RefsOf(p, f) = {fd \in Fd : ofile[p][fd] = f}
        BY DEF RefsOf, Uncounted, Handing
    <2>2. Refs(f) = Descriptors(f)
        <3>1. \A w \in Proc \X (0..NOFILE) :
                 w[2] \in RefsOf(w[1], f) <=> w[2] \in Fd /\ ofile[w[1]][w[2]] = f
            BY <2>1
        <3> QED
            BY <3>1, Numbers DEF Refs, Descriptors
    <2> QED
        BY <2>2 DEF FileInv, CountInv
<1>2. \A f \in File : fref[f] = 0 => fobj[f] = NoObject
    BY DEF FileInv, NamedInv
<1>3. ASSUME NEW o \in Object PROVE uses[o] = Cardinality({f \in File : fobj[f] = o})
    <2>1. \A p \in Proc : obj[p] = NoObject
        BY DEF FileInv, CallInv, CallAt
    <2>2. Releasing(o) = {} /\ Opening(o) = {}
        BY <2>1, Numbers DEF Releasing, Opening
    <2>3. uses[o] = Cardinality(Standing(o)) + 0 + 0
        BY <2>2, FS_EmptySet DEF FileInv, UsesInv
    <2>4. Cardinality(Standing(o)) \in Nat
        BY Cards
    <2> QED
        BY <2>3, <2>4 DEF Standing
<1> QED
    BY <1>1, <1>2, <1>3

(* What a descriptor names is open, and between calls nothing is left open *)
(* that no descriptor names: filealloc(), filedup(), fileclose() and the   *)
(* calls that share files, however they interleave and wherever they fail. *)
THEOREM FilesAreRight == FileSpec => []FilesRight
<1>1. FileInv => FilesRight
    BY OpenOnes, NoneLeaked DEF FilesRight
<1> QED
    BY <1>1, FileInvariant, PTL
=============================================================================
