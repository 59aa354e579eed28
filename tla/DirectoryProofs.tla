--------------------------- MODULE DirectoryProofs ---------------------------
(***************************************************************************)
(* For any number of processes, inodes and names, if no call walks through *)
(* "..": a directory names what is there, and calls that lock two inodes   *)
(* do not wait for each other in a circle.                                 *)
(***************************************************************************)
EXTENDS Directory, FiniteSetTheorems, SequenceTheorems, WellFoundedInduction, TLAPS

(* No call walks through "..": the name that unlink() refuses to remove,   *)
(* and the new name of link(), may be "..".                                *)
NoDotdot ==
    \A r \in Request :
        /\ \A i \in 1..Len(r.path) : r.path[i] = ".." => r.call = "unlink" /\ i = Len(r.path)
        /\ \A i \in 1..Len(r.path2) : r.path2[i] = ".." => i = Len(r.path2)

-----------------------------------------------------------------------------
(* The references of a process: its directory, its file, the inode the     *)
(* walk is at, the one the call is about, and those it is about to drop.   *)
Kind == {"cwd", "file", "cur", "target", "put1", "put2"}

HasCur(p) == dpc[p] \in {"walk", "parent", "found", "fill", "unlink"}
Linking(p) == call[p] = "link2" /\ dpc[p] \in {"walk", "parent"}
HasTarget(p) == dpc[p] \in {"old", "fill", "made", "unlink", "unlinked", "undo"} \/ Linking(p)

(* To be dropped last, and before the last                                 *)
Put1(s) == IF Len(s) >= 1 THEN s[Len(s)] ELSE NoNode
Put2(s) == IF Len(s) >= 2 THEN s[Len(s) - 1] ELSE NoNode

Ref(p, k) ==
    CASE k = "cwd" -> cwd[p]
      [] k = "file" -> file[p]
      [] k = "cur" -> IF HasCur(p) THEN cur[p] ELSE NoNode
      [] k = "target" -> IF HasTarget(p) THEN target[p] ELSE NoNode
      [] k = "put1" -> Put1(puts[p])
      [] k = "put2" -> Put2(puts[p])

Refs(n) == {w \in Proc \X Kind : Ref(w[1], w[2]) = n}

(* What the links of an inode are for: an entry that names it, the ".." of *)
(* a directory in it, a call that has counted its link first or uncounts   *)
(* it last, and the root.                                                  *)
Pending(p) == dpc[p] \in {"undo", "unlinked"} \/ Linking(p)

Claim ==
    ({"entry"} \X Node \X Name) \cup ({"dotdot"} \X Node \X Name)
        \cup ({"call"} \X Proc \X {NoNode}) \cup {<<"root", NoNode, NoNode>>}

Child(n, x) == entry[n][x] # NoNode /\ type[entry[n][x]] = "T_DIR"

Claims(n) ==
    {c \in Claim :
        \/ c[1] = "entry" /\ entry[c[2]][c[3]] = n
        \/ c[1] = "dotdot" /\ c[2] = n /\ Child(n, c[3])
        \/ c[1] = "call" /\ Pending(c[2]) /\ target[c[2]] = n
        \/ c[1] = "root" /\ n = ROOTINO}

-----------------------------------------------------------------------------
RefInv == \A n \in Node : Cardinality(Refs(n)) <= iref[n]

ClaimInv == \A n \in Node : Cardinality(Claims(n)) <= nlink[n]

FreeInv ==
    \A n \in Node : type[n] = "free" => iref[n] = 0 /\ nlink[n] = 0 /\ entry[n] = NoEntries

(* Only directories have entries, and a directory has one name.            *)
TreeInv ==
    /\ \A n \in Node : type[n] # "T_DIR" => entry[n] = NoEntries
    /\ \A m, n \in Node : \A x, y \in Name : 
          Child(m, x) /\ entry[m][x] = entry[n][y] => m = n /\ x = y

(* Directories are below those that name them.                             *)
RankInv ==
    \E rank \in [Node -> Nat] :
        \A n \in Node : \A x \in Name : Child(n, x) => rank[n] < rank[entry[n][x]]

(* Where a call is                                                         *)
CallAt(p) ==
    /\ dpc[p] \in {"fill", "made", "old"} => call[p] \in {"creat", "mkdir"}
    /\ dpc[p] \in {"unlink", "unlinked"} => call[p] = "unlink"
    /\ dpc[p] = "undo" => call[p] = "link2"
    /\ dpc[p] = "found" => call[p] \in {"open", "chdir", "link"}
    /\ dpc[p] \in {"parent", "fill", "unlink"} =>
          /\ WantsParent(p) /\ Len(path[p]) = 1 /\ type[cur[p]] = "T_DIR"
    /\ dpc[p] \in {"walk", "found"} /\ call[p] # "link2" =>
          request[p] \in Request /\ request[p].call = call[p]
    /\ dpc[p] \in {"walk", "parent"} => \A i \in 1..Len(path[p]) : path[p][i] = ".." =>
          call[p] \in {"unlink", "link2"} /\ i = Len(path[p])
    /\ Linking(p) \/ dpc[p] = "undo" => type[target[p]] = "T_FILE"
    /\ HasCur(p) => cur[p] # NoNode
    /\ HasTarget(p) => target[p] # NoNode
    /\ Len(puts[p]) <= 2

CallInv == \A p \in Proc : CallAt(p)

(* A new inode is its maker's.                                             *)
FillAt(p) ==
    /\ nlink[target[p]] = 0 /\ entry[target[p]] = NoEntries
    /\ type[target[p]] = "T_DIR" => call[p] = "mkdir"
    /\ \A q \in Proc, k \in Kind : Ref(q, k) = target[p] => q = p /\ k = "target"

FillInv == \A p \in Proc : dpc[p] = "fill" => FillAt(p)

(* What unlink() has found is there until it is erased.                    *)
UnlinkAt(p) == FinalName(p) \in Name /\ entry[cur[p]][FinalName(p)] = target[p]

UnlinkInv == \A p \in Proc : dpc[p] = "unlink" => UnlinkAt(p)

Holds(p, n) ==
    \/ dpc[p] \in {"fill", "unlink"} /\ cur[p] = n
    \/ dpc[p] \in {"made", "unlinked"} /\ target[p] = n

OwnerInv == \A p \in Proc, n \in Node : owner[n] = p <=> Holds(p, n)

DirInv ==
    /\ DirTypeOK /\ RefInv /\ ClaimInv /\ FreeInv /\ TreeInv /\ RankInv
    /\ CallInv /\ FillInv /\ UnlinkInv /\ OwnerInv

-----------------------------------------------------------------------------
LEMMA Basics ==
    /\ IsFiniteSet(Proc) /\ IsFiniteSet(Name) /\ IsFiniteSet(Node) /\ IsFiniteSet(Kind)
    /\ ROOTINO \in Node /\ NoNode \notin Node /\ Node \subseteq Nat /\ Nobody \notin Proc
    /\ MaxNlink \in Nat \ {0}
    /\ "." \notin Name /\ ".." \notin Name
<1>1. IsFiniteSet(Node)
    BY FS_Interval, DirectoryAssumption DEF Node
<1> DEFINE A == {"cwd"} \cup {"file"}
           B == A \cup {"cur"}
           C == B \cup {"target"}
           D == C \cup {"put1"}
<1>2. IsFiniteSet(A)
    BY FS_Singleton, FS_AddElement
<1>3. IsFiniteSet(B)
    BY <1>2, FS_AddElement
<1>4. IsFiniteSet(C)
    BY <1>3, FS_AddElement
<1>5. IsFiniteSet(D)
    BY <1>4, FS_AddElement
<1>6. IsFiniteSet(D \cup {"put2"})
    BY <1>5, FS_AddElement
<1>7. Kind = D \cup {"put2"}
    BY DEF Kind
<1> QED
    BY <1>1, <1>6, <1>7, DirectoryAssumption, NobodyAssumption DEF Node, NoNode, ROOTINO, Dots

(* The size of a set, when one element at most comes, goes, or both        *)
LEMMA SizeLess ==
    ASSUME NEW S, IsFiniteSet(S), NEW T, T \subseteq S
    PROVE  Cardinality(T) \in Nat /\ Cardinality(S) \in Nat /\ Cardinality(T) <= Cardinality(S)
BY FS_Subset, FS_CardinalityType

LEMMA SizeMore ==
    ASSUME NEW S, IsFiniteSet(S), NEW a, NEW T, T \subseteq S \cup {a}
    PROVE  Cardinality(T) <= Cardinality(S) + 1
<1>0. Cardinality(S) \in Nat
    BY FS_CardinalityType
<1>1. IsFiniteSet(S \cup {a}) /\ Cardinality(S \cup {a}) <= Cardinality(S) + 1
    BY <1>0, FS_AddElement
<1>2. Cardinality(T) <= Cardinality(S \cup {a}) /\ Cardinality(T) \in Nat /\ Cardinality(S \cup {a}) \in Nat
    BY <1>1, SizeLess
<1> QED
    BY <1>1, <1>2, FS_CardinalityType

LEMMA SizeWithout ==
    ASSUME NEW S, IsFiniteSet(S), NEW a \in S, NEW T, T \subseteq S \ {a}
    PROVE  Cardinality(T) <= Cardinality(S) - 1
<1>1. IsFiniteSet(S \ {a}) /\ Cardinality(S \ {a}) = Cardinality(S) - 1
    BY FS_RemoveElement
<1>2. Cardinality(T) <= Cardinality(S \ {a})
    BY <1>1, SizeLess
<1> QED
    BY <1>1, <1>2

LEMMA SizeSwapped ==
    ASSUME NEW S, IsFiniteSet(S), NEW a \in S, NEW b, NEW T, T \subseteq (S \ {a}) \cup {b}
    PROVE  Cardinality(T) <= Cardinality(S)
<1>1. IsFiniteSet(S \ {a}) /\ Cardinality(S \ {a}) = Cardinality(S) - 1
    BY FS_RemoveElement
<1>2. Cardinality(T) <= Cardinality(S \ {a}) + 1
    BY <1>1, SizeMore
<1> QED
    BY <1>1, <1>2, FS_CardinalityType

-----------------------------------------------------------------------------
(* References                                                              *)
LEMMA Puts ==
    /\ Put1(<<>>) = NoNode /\ Put2(<<>>) = NoNode
    /\ \A a : Put1(<<a>>) = a /\ Put2(<<a>>) = NoNode
    /\ \A a, b : Put1(<<a, b>>) = b /\ Put2(<<a, b>>) = a
BY DEF Put1, Put2

LEMMA RefIs ==
    ASSUME NEW p
    PROVE  /\ Ref(p, "cwd") = cwd[p] /\ Ref(p, "file") = file[p]
           /\ Ref(p, "cur") = IF HasCur(p) THEN cur[p] ELSE NoNode
           /\ Ref(p, "target") = IF HasTarget(p) THEN target[p] ELSE NoNode
           /\ Ref(p, "put1") = Put1(puts[p]) /\ Ref(p, "put2") = Put2(puts[p])
BY DEF Ref

LEMMA RefsFinite ==
    ASSUME NEW n
    PROVE  /\ IsFiniteSet(Refs(n)) /\ Cardinality(Refs(n)) \in Nat
           /\ \A q \in Proc, k \in Kind : <<q, k>> \in Refs(n) <=> Ref(q, k) = n
<1>1. IsFiniteSet(Proc \X Kind) /\ Refs(n) \subseteq Proc \X Kind
    BY Basics, FS_Product DEF Refs
<1> QED
    BY <1>1, FS_Subset, FS_CardinalityType DEF Refs

(* What is referred to is counted, hence not free.                         *)
LEMMA Alive ==
    ASSUME DirTypeOK, RefInv, FreeInv, NEW q \in Proc, NEW k \in Kind, NEW n \in Node, Ref(q, k) = n
    PROVE  iref[n] >= 1 /\ type[n] # "free"
<1>1. <<q, k>> \in Refs(n)
    BY RefsFinite
<1>2. Cardinality(Refs(n)) # 0
    BY <1>1, RefsFinite, FS_EmptySet
<1>3. iref[n] \in Nat /\ Cardinality(Refs(n)) <= iref[n]
    BY DEF DirTypeOK, RefInv
<1> QED
    BY <1>2, <1>3, RefsFinite DEF FreeInv

(* In a step of p each reference stays, goes or is one of p's before; or it *)
(* is to m, of which the call takes one.                                   *)
Permutes(f) == f \in [Kind -> Kind] /\ \A k, l \in Kind : f[k] = f[l] => k = l

OthersKeep(p) == \A q \in Proc \ {p}, k \in Kind : Ref(q, k)' = Ref(q, k)

Moves(p, f) == \A k \in Kind : Ref(p, k)' \in {NoNode, Ref(p, f[k])}
Takes(p, f, j, m) ==
    \A k \in Kind : Ref(p, k)' \in {NoNode, Ref(p, f[k])} \/ (k = j /\ Ref(p, k)' = m)

Moved(w, p, f) == IF w[1] = p THEN <<p, f[w[2]]>> ELSE w

LEMMA MovesInto ==
    ASSUME NEW p \in Proc, NEW f, Permutes(f), NEW S, IsFiniteSet(S), S \subseteq Proc \X Kind,
           NEW T, T \subseteq Proc \X Kind, \A w \in T : Moved(w, p, f) \in S
    PROVE  Cardinality(T) <= Cardinality(S)
<1> DEFINE g == [w \in T |-> Moved(w, p, f)]
<1>1. g \in [T -> S]
    OBVIOUS
<1>2. ASSUME NEW v \in T, NEW w \in T, g[v] = g[w] PROVE v = w
    <2>1. v = <<v[1], v[2]>> /\ w = <<w[1], w[2]>> /\ v[2] \in Kind /\ w[2] \in Kind
        OBVIOUS
    <2>2. Moved(v, p, f) = Moved(w, p, f)
        BY <1>2
    <2>3. Moved(v, p, f)[1] = v[1] /\ Moved(w, p, f)[1] = w[1]
        BY <2>1 DEF Moved
    <2>4. CASE v[1] = p
        <3>1. Moved(v, p, f)[2] = f[v[2]] /\ Moved(w, p, f)[2] = f[w[2]]
            BY <2>2, <2>3, <2>4 DEF Moved
        <3>2. f[v[2]] = f[w[2]]
            BY <2>2, <3>1
        <3> QED
            BY <2>1, <2>2, <2>3, <3>2 DEF Permutes
    <2>5. CASE v[1] # p
        BY <2>2, <2>3, <2>5 DEF Moved
    <2> QED
        BY <2>4, <2>5
<1>3. g \in Injection(T, S)
    BY <1>1, <1>2 DEF Injection, IsInjective
<1> QED
    BY <1>3, FS_Injection

LEMMA RefsMoved ==
    ASSUME DirTypeOK, RefInv, NEW p \in Proc, NEW f, Permutes(f), OthersKeep(p), Moves(p, f), iref' = iref
    PROVE  RefInv'
<1> SUFFICES ASSUME NEW n \in Node PROVE Cardinality(Refs(n)') <= iref[n]
    BY DEF RefInv
<1>1. IsFiniteSet(Refs(n)) /\ Refs(n) \subseteq Proc \X Kind /\ Refs(n)' \subseteq Proc \X Kind
    BY RefsFinite DEF Refs
<1>2. ASSUME NEW w \in Refs(n)' PROVE Moved(w, p, f) \in Refs(n)
    <2>1. w = <<w[1], w[2]>> /\ w[1] \in Proc /\ w[2] \in Kind /\ Ref(w[1], w[2])' = n
        BY DEF Refs
    <2>2. CASE w[1] = p
        BY <2>1, <2>2, Basics DEF Moves, Refs, Moved, Permutes
    <2>3. CASE w[1] # p
        BY <2>1, <2>3 DEF OthersKeep, Refs, Moved
    <2> QED
        BY <2>2, <2>3
<1>3. Cardinality(Refs(n)') <= Cardinality(Refs(n))
    BY <1>1, <1>2, MovesInto
<1>4. PICK c : c = Cardinality(Refs(n)')
    OBVIOUS
<1>5. c \in Nat
    BY <1>1, <1>4, Basics, FS_Product, FS_Subset, FS_CardinalityType
<1> QED
    BY <1>3, <1>4, <1>5, RefsFinite DEF RefInv, DirTypeOK

LEMMA RefsTaken ==
    ASSUME DirTypeOK, RefInv, NEW p \in Proc, NEW f, Permutes(f), OthersKeep(p),
           NEW j \in Kind, NEW m \in Node, Takes(p, f, j, m), iref' = [iref EXCEPT ![m] = @ + 1]
    PROVE  RefInv'
<1> SUFFICES ASSUME NEW n \in Node PROVE Cardinality(Refs(n)') <= iref'[n]
    BY DEF RefInv
<1>1. IsFiniteSet(Refs(n)) /\ Refs(n) \subseteq Proc \X Kind /\ Refs(n)' \subseteq Proc \X Kind
    BY RefsFinite DEF Refs
<1>2. ASSUME NEW w \in Refs(n)', n = m => w # <<p, j>> PROVE Moved(w, p, f) \in Refs(n)
    <2>1. w = <<w[1], w[2]>> /\ w[1] \in Proc /\ w[2] \in Kind /\ Ref(w[1], w[2])' = n
        BY DEF Refs
    <2>2. CASE w[1] = p
        BY <1>2, <2>1, <2>2, Basics DEF Takes, Refs, Moved, Permutes
    <2>3. CASE w[1] # p
        BY <2>1, <2>3 DEF OthersKeep, Refs, Moved
    <2> QED
        BY <2>2, <2>3
<1>3. PICK T : T = Refs(n)'
    OBVIOUS
<1>4. IsFiniteSet(T) /\ Cardinality(T) \in Nat
    BY <1>1, <1>3, Basics, FS_Product, FS_Subset, FS_CardinalityType
<1>5. CASE n = m
    <2>1. Cardinality(T \ {<<p, j>>}) <= Cardinality(Refs(n))
        BY <1>1, <1>2, <1>3, MovesInto
    <2>2. Cardinality(T) <= Cardinality(T \ {<<p, j>>}) + 1
        <3>1. IsFiniteSet(T \ {<<p, j>>}) /\ T \subseteq (T \ {<<p, j>>}) \cup {<<p, j>>}
            BY <1>4, FS_Subset
        <3> QED
            BY <3>1, SizeMore
    <2>3. Cardinality(T \ {<<p, j>>}) \in Nat
        BY <1>4, FS_Subset, FS_CardinalityType
    <2>4. iref'[n] = iref[n] + 1 /\ iref[n] \in Nat
        BY <1>5 DEF DirTypeOK
    <2> QED
        BY <1>3, <1>4, <2>1, <2>2, <2>3, <2>4, RefsFinite DEF RefInv
<1>6. CASE n # m
    <2>1. Cardinality(T) <= Cardinality(Refs(n))
        BY <1>1, <1>2, <1>3, <1>6, MovesInto
    <2>2. iref'[n] = iref[n] /\ iref[n] \in Nat
        BY <1>6 DEF DirTypeOK
    <2> QED
        BY <1>3, <1>4, <2>1, <2>2, RefsFinite DEF RefInv
<1> QED
    BY <1>5, <1>6

-----------------------------------------------------------------------------
(* Claims                                                                  *)
LEMMA ClaimsAre ==
    ASSUME NEW n
    PROVE  /\ \A m \in Node, x \in Name :
                 /\ <<"entry", m, x>> \in Claims(n) <=> entry[m][x] = n
                 /\ <<"dotdot", m, x>> \in Claims(n) <=> m = n /\ Child(n, x)
           /\ \A q \in Proc : <<"call", q, NoNode>> \in Claims(n) <=> Pending(q) /\ target[q] = n
           /\ <<"root", NoNode, NoNode>> \in Claims(n) <=> n = ROOTINO
<1>1. /\ \A m \in Node, x \in Name : <<"entry", m, x>> \in Claim /\ <<"dotdot", m, x>> \in Claim
      /\ \A q \in Proc : <<"call", q, NoNode>> \in Claim
      /\ <<"root", NoNode, NoNode>> \in Claim
    BY DEF Claim
<1> QED
    BY <1>1 DEF Claims

LEMMA ClaimsAreNext ==
    ASSUME NEW n
    PROVE  /\ \A m \in Node, x \in Name :
                 /\ <<"entry", m, x>> \in Claims(n)' <=> entry'[m][x] = n
                 /\ <<"dotdot", m, x>> \in Claims(n)' <=> m = n /\ Child(n, x)'
           /\ \A q \in Proc : <<"call", q, NoNode>> \in Claims(n)' <=> Pending(q)' /\ target'[q] = n
<1>1. /\ \A m \in Node, x \in Name : <<"entry", m, x>> \in Claim /\ <<"dotdot", m, x>> \in Claim
      /\ \A q \in Proc : <<"call", q, NoNode>> \in Claim
    BY DEF Claim
<1> QED
    BY <1>1 DEF Claims

LEMMA ClaimKinds ==
    ASSUME NEW c \in Claim
    PROVE  \/ \E m \in Node, x \in Name : c = <<"entry", m, x>>
           \/ \E m \in Node, x \in Name : c = <<"dotdot", m, x>>
           \/ \E q \in Proc : c = <<"call", q, NoNode>>
           \/ c = <<"root", NoNode, NoNode>>
BY DEF Claim

LEMMA ClaimFinite == IsFiniteSet(Claim)
<1>2. IsFiniteSet(Node \X Name)
    BY Basics, FS_Product
<1> DEFINE A == {c \in Claim : c[1] = "entry"}
           B == {c \in Claim : c[1] = "dotdot"}
           C == {c \in Claim : c[1] = "call"}
           E == {<<"root", NoNode, NoNode>>}
<1>5. IsFiniteSet(A)
    <2> DEFINE g == [c \in A |-> <<c[2], c[3]>>]
    <2>1. A \subseteq {"entry"} \X Node \X Name
        BY ClaimKinds DEF Claim
    <2>2. g \in Injection(A, Node \X Name)
        BY <2>1 DEF Injection, IsInjective
    <2> QED
        BY <1>2, <2>2, FS_Injection
<1>6. IsFiniteSet(B)
    <2> DEFINE g == [c \in B |-> <<c[2], c[3]>>]
    <2>1. B \subseteq {"dotdot"} \X Node \X Name
        BY ClaimKinds DEF Claim
    <2>2. g \in Injection(B, Node \X Name)
        BY <2>1 DEF Injection, IsInjective
    <2> QED
        BY <1>2, <2>2, FS_Injection
<1>7. IsFiniteSet(C)
    <2> DEFINE g == [c \in C |-> c[2]]
    <2>1. C \subseteq {"call"} \X Proc \X {NoNode}
        BY ClaimKinds DEF Claim
    <2>2. g \in Injection(C, Proc)
        BY <2>1 DEF Injection, IsInjective
    <2> QED
        BY <2>2, Basics, FS_Injection
<1>8. IsFiniteSet((A \cup B) \cup (C \cup E))
    <2>1. IsFiniteSet(A \cup B)
        BY <1>5, <1>6, FS_Union
    <2>2. IsFiniteSet(C \cup E)
        BY <1>7, FS_AddElement
    <2> QED
        BY <2>1, <2>2, FS_Union
<1>9. Claim \subseteq (A \cup B) \cup (C \cup E)
    BY ClaimKinds
<1> QED
    BY <1>8, <1>9, FS_Subset

LEMMA ClaimsFinite ==
    ASSUME NEW n
    PROVE  /\ IsFiniteSet(Claims(n)) /\ Cardinality(Claims(n)) \in Nat
           /\ IsFiniteSet(Claims(n)') /\ Cardinality(Claims(n)') \in Nat
<1>1. Claims(n) \subseteq Claim /\ Claims(n)' \subseteq Claim
    BY DEF Claims
<1> QED
    BY <1>1, ClaimFinite, FS_Subset, FS_CardinalityType

(* What an inode is claimed for has a link, so the inode is not free.      *)
LEMMA Claimed ==
    ASSUME DirTypeOK, ClaimInv, FreeInv, NEW n \in Node, NEW c \in Claims(n)
    PROVE  nlink[n] >= 1 /\ type[n] # "free"
<1>1. Cardinality(Claims(n)) \in Nat /\ Cardinality(Claims(n)) # 0
    BY ClaimsFinite, FS_EmptySet
<1>2. nlink[n] \in 0..MaxNlink /\ Cardinality(Claims(n)) <= nlink[n]
    BY DEF DirTypeOK, ClaimInv
<1>3. nlink[n] \in Nat
    BY <1>2, Basics
<1> QED
    BY <1>1, <1>2, <1>3 DEF FreeInv

LEMMA Named ==
    ASSUME DirTypeOK, ClaimInv, FreeInv, NEW m \in Node, NEW x \in Name, entry[m][x] # NoNode
    PROVE  entry[m][x] \in Node /\ nlink[entry[m][x]] >= 1 /\ type[entry[m][x]] # "free"
<1>1. entry[m][x] \in Node
    BY DEF DirTypeOK
<1>2. <<"entry", m, x>> \in Claims(entry[m][x])
    BY ClaimsAre
<1> QED
    BY <1>1, <1>2, Claimed

LEMMA RootAlive ==
    ASSUME DirTypeOK, ClaimInv, FreeInv
    PROVE  nlink[ROOTINO] >= 1 /\ type[ROOTINO] # "free"
BY Basics, ClaimsAre, Claimed

(* In a step the claims to n are those of before, and E.                   *)
ClaimsWithin(n, E) ==
    /\ \A m \in Node, x \in Name : entry'[m][x] = n => entry[m][x] = n \/ <<"entry", m, x>> \in E
    /\ \A x \in Name : Child(n, x)' => Child(n, x) \/ <<"dotdot", n, x>> \in E
    /\ \A q \in Proc : Pending(q)' /\ target'[q] = n =>
          (Pending(q) /\ target[q] = n) \/ <<"call", q, NoNode>> \in E

LEMMA ClaimsGrow ==
    ASSUME NEW n, NEW E, ClaimsWithin(n, E)
    PROVE  Claims(n)' \subseteq Claims(n) \cup E
<1> SUFFICES ASSUME NEW c \in Claims(n)' PROVE c \in Claims(n) \cup E
    OBVIOUS
<1>1. c \in Claim
    BY DEF Claims, Claim
<1>2. ASSUME NEW m \in Node, NEW x \in Name, c = <<"entry", m, x>> PROVE c \in Claims(n) \cup E
    BY <1>2, ClaimsAre DEF ClaimsWithin, Claims
<1>3. ASSUME NEW m \in Node, NEW x \in Name, c = <<"dotdot", m, x>> PROVE c \in Claims(n) \cup E
    BY <1>3, ClaimsAre DEF ClaimsWithin, Claims
<1>4. ASSUME NEW q \in Proc, c = <<"call", q, NoNode>> PROVE c \in Claims(n) \cup E
    BY <1>4, ClaimsAre DEF ClaimsWithin, Claims
<1>5. CASE c = <<"root", NoNode, NoNode>>
    BY <1>5, ClaimsAre DEF Claims
<1> QED
    BY <1>1, <1>2, <1>3, <1>4, <1>5, ClaimKinds

LEMMA ClaimsKept ==
    ASSUME DirTypeOK, ClaimInv, nlink' = nlink, \A n \in Node : ClaimsWithin(n, {})
    PROVE  ClaimInv'
<1> SUFFICES ASSUME NEW n \in Node PROVE Cardinality(Claims(n)') <= nlink[n]
    BY DEF ClaimInv
<1>1. Claims(n)' \subseteq Claims(n)
    BY ClaimsGrow
<1>2. Cardinality(Claims(n)') <= Cardinality(Claims(n)) /\ Cardinality(Claims(n)') \in Nat
    BY <1>1, ClaimsFinite, SizeLess
<1>3. nlink[n] \in Nat
    BY Basics DEF DirTypeOK
<1> QED
    BY <1>2, <1>3, ClaimsFinite DEF ClaimInv

-----------------------------------------------------------------------------
(* A step of p leaves the calls of the others alone.                       *)
Alone(p) ==
    \A q \in Proc \ {p} :
        /\ cwd'[q] = cwd[q] /\ file'[q] = file[q] /\ dpc'[q] = dpc[q] /\ call'[q] = call[q]
        /\ request'[q] = request[q] /\ path'[q] = path[q] /\ cur'[q] = cur[q]
        /\ target'[q] = target[q] /\ puts'[q] = puts[q]

LEMMA AloneKeeps ==
    ASSUME NEW p \in Proc, Alone(p)
    PROVE  /\ OthersKeep(p)
           /\ \A q \in Proc \ {p} : Pending(q)' = Pending(q) /\ HasCur(q)' = HasCur(q)
                                    /\ HasTarget(q)' = HasTarget(q) /\ WantsParent(q)' = WantsParent(q)
<1>1. \A q \in Proc \ {p} : Pending(q)' = Pending(q) /\ HasCur(q)' = HasCur(q)
                            /\ HasTarget(q)' = HasTarget(q) /\ WantsParent(q)' = WantsParent(q)
    BY DEF Alone, Pending, Linking, HasCur, HasTarget, WantsParent
<1> QED
    BY <1>1 DEF Alone, OthersKeep, Ref

Swap(a, b) == [k \in Kind |-> IF k = a THEN b ELSE IF k = b THEN a ELSE k]
Swap2(a, b, c, d) ==
    [k \in Kind |-> IF k = a THEN b ELSE IF k = b THEN a ELSE IF k = c THEN d ELSE IF k = d THEN c ELSE k]
AsIs == [k \in Kind |-> k]
ChdirMoves ==
    [k \in Kind |-> IF k = "put1" THEN "cwd" ELSE IF k = "cwd" THEN "cur"
                    ELSE IF k = "cur" THEN "put1" ELSE k]

LEMMA SwapsPermute ==
    /\ \A a, b \in Kind : Permutes(Swap(a, b))
    /\ Permutes(AsIs) /\ Permutes(ChdirMoves)
    /\ Permutes(Swap2("put2", "target", "put1", "cur"))
    /\ Permutes(Swap2("put2", "cur", "put1", "target"))
BY DEF Permutes, Swap, Swap2, AsIs, ChdirMoves, Kind

LEMMA RefIsNext ==
    ASSUME NEW p
    PROVE  /\ Ref(p, "cwd")' = cwd'[p] /\ Ref(p, "file")' = file'[p]
           /\ Ref(p, "cur")' = IF HasCur(p)' THEN cur'[p] ELSE NoNode
           /\ Ref(p, "target")' = IF HasTarget(p)' THEN target'[p] ELSE NoNode
           /\ Ref(p, "put1")' = Put1(puts'[p]) /\ Ref(p, "put2")' = Put2(puts'[p])
BY DEF Ref

LEMMA MovesIs ==
    ASSUME NEW p, NEW f, NEW j, NEW m
    PROVE  /\ Moves(p, f) <=>
                /\ Ref(p, "cwd")' \in {NoNode, Ref(p, f["cwd"])}
                /\ Ref(p, "file")' \in {NoNode, Ref(p, f["file"])}
                /\ Ref(p, "cur")' \in {NoNode, Ref(p, f["cur"])}
                /\ Ref(p, "target")' \in {NoNode, Ref(p, f["target"])}
                /\ Ref(p, "put1")' \in {NoNode, Ref(p, f["put1"])}
                /\ Ref(p, "put2")' \in {NoNode, Ref(p, f["put2"])}
           /\ Takes(p, f, j, m) <=>
                /\ Ref(p, "cwd")' \in {NoNode, Ref(p, f["cwd"])} \/ (j = "cwd" /\ Ref(p, "cwd")' = m)
                /\ Ref(p, "file")' \in {NoNode, Ref(p, f["file"])} \/ (j = "file" /\ Ref(p, "file")' = m)
                /\ Ref(p, "cur")' \in {NoNode, Ref(p, f["cur"])} \/ (j = "cur" /\ Ref(p, "cur")' = m)
                /\ Ref(p, "target")' \in {NoNode, Ref(p, f["target"])}
                      \/ (j = "target" /\ Ref(p, "target")' = m)
                /\ Ref(p, "put1")' \in {NoNode, Ref(p, f["put1"])} \/ (j = "put1" /\ Ref(p, "put1")' = m)
                /\ Ref(p, "put2")' \in {NoNode, Ref(p, f["put2"])} \/ (j = "put2" /\ Ref(p, "put2")' = m)
BY DEF Moves, Takes, Kind

LEMMA SwapsAre ==
    /\ \A a, b : \A k \in Kind : Swap(a, b)[k] = IF k = a THEN b ELSE IF k = b THEN a ELSE k
    /\ \A k \in Kind : AsIs[k] = k
    /\ \A k \in Kind : ChdirMoves[k] = IF k = "put1" THEN "cwd" ELSE IF k = "cwd" THEN "cur"
                                       ELSE IF k = "cur" THEN "put1" ELSE k
    /\ \A a, b, c, d : \A k \in Kind : Swap2(a, b, c, d)[k] =
          IF k = a THEN b ELSE IF k = b THEN a ELSE IF k = c THEN d ELSE IF k = d THEN c ELSE k
    /\ "cwd" \in Kind /\ "file" \in Kind /\ "cur" \in Kind /\ "target" \in Kind
    /\ "put1" \in Kind /\ "put2" \in Kind
BY DEF Swap, Swap2, AsIs, ChdirMoves, Kind

-----------------------------------------------------------------------------
(* The call of p where references of p change hands, or one is taken: what *)
(* is true of the inode m, which the call may take                         *)
NotFilled(p, m) ==
    m \in Node /\ type[m] # "free" /\ \A q \in Proc \ {p} : dpc[q] = "fill" => target[q] # m

LEMMA RefNotFilled ==
    ASSUME DirInv, NEW p \in Proc, NEW k \in Kind, NEW m \in Node, Ref(p, k) = m
    PROVE  NotFilled(p, m)
<1>1. type[m] # "free"
    BY Alive DEF DirInv
<1>2. ASSUME NEW q \in Proc \ {p}, dpc[q] = "fill", target[q] = m PROVE FALSE
    BY <1>2 DEF DirInv, FillInv, FillAt
<1> QED
    BY <1>1, <1>2 DEF NotFilled

LEMMA NamedNotFilled ==
    ASSUME DirInv, NEW p \in Proc, NEW n \in Node, NEW x \in Name, entry[n][x] # NoNode
    PROVE  NotFilled(p, entry[n][x])
<1>1. entry[n][x] \in Node /\ nlink[entry[n][x]] >= 1 /\ type[entry[n][x]] # "free"
    BY Named DEF DirInv
<1>2. ASSUME NEW q \in Proc \ {p}, dpc[q] = "fill", target[q] = entry[n][x] PROVE FALSE
    <2>1. nlink[target[q]] = 0
        BY <1>2 DEF DirInv, FillInv, FillAt
    <2> QED
        BY <1>1, <1>2, <2>1
<1> QED
    BY <1>1, <1>2 DEF NotFilled

LEMMA StartNotFilled ==
    ASSUME DirInv, NEW p \in Proc, NEW b \in BOOLEAN
    PROVE  NotFilled(p, Start(p, b))
<1>1. CASE b
    <2>1. nlink[ROOTINO] >= 1 /\ type[ROOTINO] # "free"
        BY RootAlive DEF DirInv
    <2>2. ASSUME NEW q \in Proc \ {p}, dpc[q] = "fill", target[q] = ROOTINO PROVE FALSE
        <3>1. nlink[target[q]] = 0
            BY <2>2 DEF DirInv, FillInv, FillAt
        <3> QED
            BY <2>1, <2>2, <3>1
    <2> QED
        BY <1>1, <2>1, <2>2, Basics DEF NotFilled, Start
<1>2. CASE ~b
    <2>1. cwd[p] \in Node /\ Ref(p, "cwd") = cwd[p] /\ "cwd" \in Kind
        BY RefIs, SwapsAre DEF DirInv, DirTypeOK
    <2>2. NotFilled(p, cwd[p])
        BY <2>1, RefNotFilled
    <2> QED
        BY <1>2, <2>2 DEF Start
<1> QED
    BY <1>1, <1>2

-----------------------------------------------------------------------------
(* Nobody but its maker comes to refer to an inode that is being made.     *)
AvoidsNew(p) == \A q \in Proc \ {p}, k \in Kind : dpc[q] = "fill" => Ref(p, k)' # target[q]

LEMMA FillerTarget ==
    ASSUME DirInv, NEW q \in Proc, dpc[q] = "fill"
    PROVE  target[q] \in Node /\ Ref(q, "target") = target[q] /\ type[target[q]] # "free"
<1>1. target[q] \in Node
    BY DEF DirInv, DirTypeOK, CallInv, CallAt, HasTarget
<1>2. Ref(q, "target") = target[q]
    BY RefIs DEF HasTarget
<1> QED
    BY <1>1, <1>2, Alive, SwapsAre DEF DirInv

LEMMA MovesAvoid ==
    ASSUME DirInv, NEW p \in Proc, NEW f, Permutes(f), Moves(p, f)
    PROVE  AvoidsNew(p)
<1> SUFFICES ASSUME NEW q \in Proc \ {p}, NEW k \in Kind, dpc[q] = "fill", Ref(p, k)' = target[q]
             PROVE  FALSE
    BY DEF AvoidsNew
<1>1. target[q] \in Node
    BY FillerTarget
<1>2. f[k] \in Kind /\ Ref(p, f[k]) = target[q]
    BY <1>1, Basics DEF Moves, Permutes
<1> QED
    BY <1>2 DEF DirInv, FillInv, FillAt

LEMMA TakesAvoid ==
    ASSUME DirInv, NEW p \in Proc, NEW f, Permutes(f), NEW j, NEW m, Takes(p, f, j, m),
           NotFilled(p, m)
    PROVE  AvoidsNew(p)
<1> SUFFICES ASSUME NEW q \in Proc \ {p}, NEW k \in Kind, dpc[q] = "fill", Ref(p, k)' = target[q]
             PROVE  FALSE
    BY DEF AvoidsNew
<1>1. target[q] \in Node
    BY FillerTarget
<1>2. f[k] \in Kind /\ (Ref(p, f[k]) = target[q] \/ m = target[q])
    BY <1>1, Basics DEF Takes, Permutes
<1> QED
    BY <1>2 DEF DirInv, FillInv, FillAt, NotFilled

(* The parts of the invariant that the others' calls have, when p has taken *)
(* its step and what they rely on is as it was                             *)
LEMMA OthersCalls ==
    ASSUME DirInv, NEW p \in Proc, Alone(p), CallAt(p)',
           \A n \in Node : type'[n] = type[n] \/ \A q \in Proc \ {p}, k \in Kind : Ref(q, k) # n
    PROVE  CallInv'
<1> SUFFICES ASSUME NEW q \in Proc \ {p} PROVE CallAt(q)'
    BY DEF CallInv
<1>1. CallAt(q) /\ "cur" \in Kind /\ "target" \in Kind
    BY SwapsAre DEF DirInv, CallInv
<1>2. ASSUME HasCur(q) PROVE type'[cur[q]] = type[cur[q]]
    <2>1. cur[q] \in Node /\ Ref(q, "cur") = cur[q]
        BY <1>1, <1>2, RefIs DEF DirInv, DirTypeOK, CallAt
    <2> QED
        BY <2>1, <1>1
<1>3. ASSUME HasTarget(q) PROVE type'[target[q]] = type[target[q]]
    <2>1. target[q] \in Node /\ Ref(q, "target") = target[q]
        BY <1>1, <1>3, RefIs DEF DirInv, DirTypeOK, CallAt
    <2> QED
        BY <2>1, <1>1
<1>4. /\ dpc'[q] = dpc[q] /\ call'[q] = call[q] /\ path'[q] = path[q] /\ request'[q] = request[q]
      /\ cur'[q] = cur[q] /\ target'[q] = target[q] /\ puts'[q] = puts[q]
    BY DEF Alone
<1>5. /\ dpc[q] \in {"parent", "fill", "unlink"} => HasCur(q)
      /\ Linking(q) \/ dpc[q] = "undo" => HasTarget(q)
    BY DEF HasCur, HasTarget
<1>6. /\ HasCur(q)' = HasCur(q) /\ HasTarget(q)' = HasTarget(q) /\ WantsParent(q)' = WantsParent(q)
      /\ Linking(q)' = Linking(q)
    BY <1>4 DEF HasCur, HasTarget, Linking, WantsParent
<1> QED
    BY <1>1, <1>2, <1>3, <1>4, <1>5, <1>6 DEF CallAt

LEMMA OthersFill ==
    ASSUME DirInv, NEW p \in Proc, Alone(p), AvoidsNew(p),
           \A q \in Proc \ {p} : dpc[q] = "fill" =>
              /\ nlink'[target[q]] = nlink[target[q]] /\ entry'[target[q]] = entry[target[q]]
              /\ type'[target[q]] = type[target[q]],
           dpc'[p] = "fill" => FillAt(p)'
    PROVE  FillInv'
<1> SUFFICES ASSUME NEW q \in Proc \ {p}, dpc'[q] = "fill" PROVE FillAt(q)'
    BY DEF FillInv
<1>1. dpc[q] = "fill" /\ target'[q] = target[q] /\ call'[q] = call[q]
    BY DEF Alone
<1>2. OthersKeep(p)
    BY AloneKeeps
<1>3. FillAt(q)
    BY <1>1 DEF DirInv, FillInv
<1>4. ASSUME NEW r \in Proc, NEW k \in Kind, Ref(r, k)' = target[q] PROVE r = q /\ k = "target"
    <2>1. r # p
        BY <1>1, <1>4 DEF AvoidsNew
    <2>2. Ref(r, k) = target[q]
        BY <1>2, <1>4, <2>1 DEF OthersKeep
    <2> QED
        BY <1>3, <2>2 DEF FillAt
<1> QED
    BY <1>1, <1>3, <1>4 DEF FillAt, NoEntries

LEMMA OthersUnlink ==
    ASSUME DirInv, NEW p \in Proc, Alone(p),
           \A q \in Proc \ {p} : dpc[q] = "unlink" => entry'[cur[q]] = entry[cur[q]],
           dpc'[p] = "unlink" => UnlinkAt(p)'
    PROVE  UnlinkInv'
BY DEF DirInv, UnlinkInv, UnlinkAt, Alone, FinalName

LEMMA OthersOwn ==
    ASSUME DirInv, NEW p \in Proc, Alone(p), DirTypeOK',
           owner' # owner => \A n \in Node : 
              owner'[n] = owner[n] \/ (owner[n] \in {p, Nobody} /\ owner'[n] \in {p, Nobody}),
           \A n \in Node : owner'[n] = p <=> Holds(p, n)'
    PROVE  OwnerInv'
<1> SUFFICES ASSUME NEW q \in Proc \ {p}, NEW n \in Node PROVE owner'[n] = q <=> Holds(q, n)'
    BY DEF OwnerInv
<1>1. Holds(q, n)' = Holds(q, n)
    BY DEF Alone, Holds
<1>2. owner'[n] = q <=> owner[n] = q
    BY Basics
<1> QED
    BY <1>1, <1>2 DEF DirInv, OwnerInv

(* A step that writes no inode, and then one that has no lock, before or    *)
(* after                                                                   *)
LEMMA UnwrittenStep ==
    ASSUME DirInv, NEW p \in Proc, Alone(p), UNCHANGED <<type, nlink, entry>>,
           DirTypeOK', RefInv', CallAt(p)', AvoidsNew(p),
           \A n \in Node : type[n] = "free" => iref'[n] = 0,
           dpc'[p] = "fill" => FillAt(p)', dpc'[p] = "unlink" => UnlinkAt(p)',
           owner' # owner => \A n \in Node :
              owner'[n] = owner[n] \/ (owner[n] \in {p, Nobody} /\ owner'[n] \in {p, Nobody}),
           \A n \in Node : owner'[n] = p <=> Holds(p, n)',
           Pending(p)' => Pending(p) /\ target'[p] = target[p]
    PROVE  DirInv'
<1>1. ClaimInv'
    <2>1. \A q \in Proc : Pending(q)' => Pending(q) /\ target'[q] = target[q]
        BY AloneKeeps DEF Alone
    <2>2. \A n \in Node : ClaimsWithin(n, {})
        BY <2>1 DEF ClaimsWithin, Child
    <2> QED
        BY <2>2, ClaimsKept DEF DirInv
<1>2. FreeInv' /\ TreeInv'
    BY DEF DirInv, FreeInv, TreeInv, Child, NoEntries
<1>3. RankInv'
    <2>1. PICK rank \in [Node -> Nat] :
              \A n \in Node : \A x \in Name : Child(n, x) => rank[n] < rank[entry[n][x]]
        BY DEF DirInv, RankInv
    <2>2. \A n \in Node : \A x \in Name : Child(n, x)' => rank[n] < rank[entry'[n][x]]
        BY <2>1 DEF Child
    <2> QED
        BY <2>2 DEF RankInv
<1>4. CallInv'
    BY OthersCalls
<1>5. FillInv'
    BY OthersFill
<1>6. UnlinkInv'
    BY OthersUnlink
<1>7. OwnerInv'
    BY OthersOwn
<1> QED
    BY <1>1, <1>2, <1>3, <1>4, <1>5, <1>6, <1>7 DEF DirInv

LEMMA QuietStep ==
    ASSUME DirInv, NEW p \in Proc, Alone(p), UNCHANGED <<type, nlink, entry, owner>>,
           DirTypeOK', RefInv', CallAt(p)', AvoidsNew(p),
           \A n \in Node : type[n] = "free" => iref'[n] = 0,
           {dpc[p], dpc'[p]} \cap {"fill", "made", "unlink", "unlinked"} = {},
           Pending(p)' => Pending(p) /\ target'[p] = target[p]
    PROVE  DirInv'
<1>1. \A n \in Node : owner'[n] = p <=> Holds(p, n)'
    BY DEF DirInv, OwnerInv, Holds
<1> QED
    BY <1>1, UnwrittenStep

LEMMA QuietMoves ==
    ASSUME DirInv, NEW p \in Proc, Alone(p), UNCHANGED <<type, nlink, entry, owner, iref>>,
           DirTypeOK', CallAt(p)', NEW f, Permutes(f), Moves(p, f),
           {dpc[p], dpc'[p]} \cap {"fill", "made", "unlink", "unlinked"} = {},
           Pending(p)' => Pending(p) /\ target'[p] = target[p]
    PROVE  DirInv'
<1>1. RefInv'
    BY RefsMoved, AloneKeeps DEF DirInv
<1>2. AvoidsNew(p)
    BY MovesAvoid
<1>3. \A n \in Node : type[n] = "free" => iref'[n] = 0
    BY DEF DirInv, FreeInv
<1> QED
    BY <1>1, <1>2, <1>3, QuietStep

LEMMA QuietTakes ==
    ASSUME DirInv, NEW p \in Proc, Alone(p), UNCHANGED <<type, nlink, entry, owner>>,
           DirTypeOK', CallAt(p)', NEW f, Permutes(f), NEW j \in Kind, NEW m, NotFilled(p, m),
           Takes(p, f, j, m), iref' = [iref EXCEPT ![m] = @ + 1],
           {dpc[p], dpc'[p]} \cap {"fill", "made", "unlink", "unlinked"} = {},
           Pending(p)' => Pending(p) /\ target'[p] = target[p]
    PROVE  DirInv'
<1>1. RefInv'
    BY RefsTaken, AloneKeeps DEF DirInv, NotFilled
<1>2. AvoidsNew(p)
    BY TakesAvoid
<1>3. \A n \in Node : type[n] = "free" => iref'[n] = 0
    BY DEF DirInv, FreeInv, NotFilled, DirTypeOK
<1> QED
    BY <1>1, <1>2, <1>3, QuietStep

-----------------------------------------------------------------------------
(* The steps that write no inode                                           *)
LEMMA Paths ==
    ASSUME NEW s \in Seq(Element), s # <<>>
    PROVE  /\ Len(s) \in Nat /\ Len(s) >= 1 /\ Head(s) = s[1] /\ Head(s) \in Element
           /\ Tail(s) \in Seq(Element) /\ Len(Tail(s)) = Len(s) - 1
           /\ \A i \in 1..Len(Tail(s)) : i + 1 \in 1..Len(s) /\ Tail(s)[i] = s[i + 1]
OBVIOUS

LEMMA TakesAsIs ==
    ASSUME NEW p, NEW m,
           Ref(p, "cwd")' \in {NoNode, Ref(p, "cwd")}, Ref(p, "file")' \in {NoNode, Ref(p, "file")},
           Ref(p, "cur")' = m, Ref(p, "target")' \in {NoNode, Ref(p, "target")},
           Ref(p, "put1")' \in {NoNode, Ref(p, "put1")}, Ref(p, "put2")' \in {NoNode, Ref(p, "put2")}
    PROVE  Takes(p, AsIs, "cur", m)
BY SwapsAre DEF Takes, Kind

(* The reference that a call drops is the one it walked with, or the one   *)
(* to what it is about, or this one becomes that of an open file.          *)
LEMMA PutCur ==
    ASSUME NEW p, cwd'[p] = cwd[p], file'[p] = file[p], target'[p] = target[p],
           puts'[p] = <<cur[p]>>, HasCur(p), ~HasCur(p)', HasTarget(p)' => HasTarget(p)
    PROVE  Moves(p, Swap("put1", "cur"))
<1>1. Put1(<<cur[p]>>) = cur[p] /\ Put2(<<cur[p]>>) = NoNode
    BY Puts
<1>2. /\ Ref(p, "cwd")' = Ref(p, "cwd") /\ Ref(p, "file")' = Ref(p, "file")
      /\ Ref(p, "put1")' = Ref(p, "cur") /\ Ref(p, "put2")' = NoNode
    BY <1>1, RefIsNext, RefIs
<1>3. Ref(p, "cur")' = NoNode
    BY RefIsNext
<1>4. Ref(p, "target")' \in {NoNode, Ref(p, "target")}
    BY RefIsNext, RefIs
<1> QED
    BY <1>2, <1>3, <1>4, MovesIs, SwapsAre

LEMMA PutTarget ==
    ASSUME NEW p, cwd'[p] = cwd[p], file'[p] = file[p],
           puts'[p] = <<target[p]>>, HasTarget(p), ~HasTarget(p)', ~HasCur(p)'
    PROVE  Moves(p, Swap("put1", "target"))
<1>1. Put1(<<target[p]>>) = target[p] /\ Put2(<<target[p]>>) = NoNode
    BY Puts
<1>2. /\ Ref(p, "cwd")' = Ref(p, "cwd") /\ Ref(p, "file")' = Ref(p, "file")
      /\ Ref(p, "put1")' = Ref(p, "target") /\ Ref(p, "put2")' = NoNode
    BY <1>1, RefIsNext, RefIs
<1>3. Ref(p, "cur")' = NoNode /\ Ref(p, "target")' = NoNode
    BY RefIsNext
<1>4. PICK f : f = Swap("put1", "target")
    OBVIOUS
<1>5. /\ f["cwd"] = "cwd" /\ f["file"] = "file" /\ f["cur"] = "cur"
      /\ f["target"] = "put1" /\ f["put1"] = "target" /\ f["put2"] = "put2"
    BY <1>4, SwapsAre
<1> QED
    BY <1>2, <1>3, <1>4, <1>5, MovesIs

LEMMA OpenTarget ==
    ASSUME NEW p, cwd'[p] = cwd[p], file[p] = NoNode, file'[p] = target[p],
           puts'[p] = <<>>, HasTarget(p), ~HasTarget(p)', ~HasCur(p)'
    PROVE  Moves(p, Swap("file", "target"))
<1>2. /\ Ref(p, "cwd")' = Ref(p, "cwd") /\ Ref(p, "file")' = Ref(p, "target")
      /\ Ref(p, "put1")' = NoNode /\ Ref(p, "put2")' = NoNode
    BY Puts, RefIsNext, RefIs
<1>3. Ref(p, "cur")' = NoNode /\ Ref(p, "target")' = NoNode
    BY RefIsNext
<1>4. PICK f : f = Swap("file", "target")
    OBVIOUS
<1>5. /\ f["cwd"] = "cwd" /\ f["file"] = "target" /\ f["cur"] = "cur"
      /\ f["target"] = "file" /\ f["put1"] = "put1" /\ f["put2"] = "put2"
    BY <1>4, SwapsAre
<1> QED
    BY <1>2, <1>3, <1>4, <1>5, MovesIs

LEMMA EnterStep ==
    ASSUME NoDotdot, DirInv, NEW p \in Proc, NEW r \in Request, Enter(p, r)
    PROVE  DirInv'
<1>1. DirTypeOK /\ CallAt(p)
    BY DEF DirInv, CallInv
<1>2. Start(p, r.root) \in Node
    BY <1>1, Basics DEF Start, DirTypeOK
<1>3. /\ r.call \in {"open", "creat", "mkdir", "chdir", "unlink", "link"}
      /\ r.path \in Seq(Element) /\ r.root \in BOOLEAN
    BY DirectoryAssumption
<1>4. /\ dpc[p] = "user" /\ puts[p] = <<>> /\ dpc'[p] = "walk" /\ call'[p] = r.call /\ request'[p] = r
      /\ path'[p] = r.path /\ cur'[p] = Start(p, r.root) /\ puts'[p] = <<>>
      /\ cwd'[p] = cwd[p] /\ file'[p] = file[p]
      /\ iref' = [iref EXCEPT ![Start(p, r.root)] = @ + 1]
    BY <1>1 DEF Enter, Step, Ready, Goto, GetInode, DirTypeOK
<1>5. Alone(p)
    BY <1>1 DEF Alone, Enter, Step, Ready, Goto, GetInode, DirTypeOK
<1>6. DirTypeOK'
    BY <1>1, <1>2, <1>3 DEF Enter, Step, Ready, Goto, GetInode, DirTypeOK, inodes
<1>7. CallAt(p)'
    BY <1>2, <1>3, <1>4, Basics DEF CallAt, NoDotdot, Linking, HasCur, HasTarget
<1>8. Takes(p, AsIs, "cur", Start(p, r.root))
    <2>1. /\ Ref(p, "cwd")' = Ref(p, "cwd") /\ Ref(p, "file")' = Ref(p, "file")
          /\ Ref(p, "cur")' = Start(p, r.root) /\ Ref(p, "target")' = NoNode
          /\ Ref(p, "put1")' = NoNode /\ Ref(p, "put2")' = NoNode
        BY <1>3, <1>4, RefIsNext, RefIs, Puts DEF HasCur, HasTarget, Linking
    <2> QED
        BY <2>1, TakesAsIs
<1>9. NotFilled(p, Start(p, r.root))
    BY <1>3, StartNotFilled
<1>10. Pending(p)' => Pending(p) /\ target'[p] = target[p]
    BY <1>3, <1>4 DEF Pending, Linking
<1>11. UNCHANGED <<type, nlink, entry, owner>>
    BY DEF Enter, inodes
<1> QED
    <2>1. Permutes(AsIs) /\ "cur" \in Kind
        BY SwapsPermute, SwapsAre
    <2>2. {dpc[p], dpc'[p]} \cap {"fill", "made", "unlink", "unlinked"} = {}
        BY <1>4
    <2> QED
        BY <1>4, <1>5, <1>6, <1>7, <1>8, <1>9, <1>10, <1>11, <2>1, <2>2, QuietTakes

LEMMA ReturnStep ==
    ASSUME DirInv, NEW p \in Proc, Return(p)
    PROVE  DirInv'
<1>1. DirTypeOK /\ CallAt(p)
    BY DEF DirInv, CallInv
<1>4. /\ dpc[p] = "return" /\ puts[p] = <<>> /\ dpc'[p] = "user" /\ call'[p] = "open"
      /\ path'[p] = <<>> /\ puts'[p] = <<>> /\ cwd'[p] = cwd[p] /\ file'[p] = file[p]
    BY <1>1 DEF Return, Step, Ready, Goto, DirTypeOK, refs
<1>5. Alone(p)
    BY <1>1 DEF Alone, Return, Step, Ready, Goto, DirTypeOK, refs
<1>6. DirTypeOK'
    BY <1>1 DEF Return, Step, Ready, Goto, DirTypeOK, inodes, refs
<1>7. CallAt(p)'
    BY <1>4 DEF CallAt, Linking, HasCur, HasTarget
<1>8. Moves(p, AsIs)
    <2>1. /\ Ref(p, "cwd")' = Ref(p, "cwd") /\ Ref(p, "file")' = Ref(p, "file")
          /\ Ref(p, "cur")' = NoNode /\ Ref(p, "target")' = NoNode
          /\ Ref(p, "put1")' = NoNode /\ Ref(p, "put2")' = NoNode
        BY <1>4, RefIsNext, RefIs, Puts DEF HasCur, HasTarget, Linking
    <2> QED
        BY <2>1, MovesIs, SwapsAre
<1>10. ~Pending(p)'
    BY <1>4 DEF Pending, Linking
<1>11. UNCHANGED <<type, nlink, entry, owner, iref>>
    BY DEF Return, inodes, refs
<1> QED
    BY <1>4, <1>5, <1>6, <1>7, <1>8, <1>10, <1>11, QuietMoves, SwapsPermute

LEMMA NamexEndsStep ==
    ASSUME DirInv, NEW p \in Proc, NamexEnds(p)
    PROVE  DirInv'
<1>1. DirTypeOK /\ CallAt(p)
    BY DEF DirInv, CallInv
<1>4. /\ dpc[p] = "walk" /\ puts[p] = <<>> /\ call'[p] = call[p] /\ cur'[p] = cur[p]
      /\ target'[p] = target[p] /\ request'[p] = request[p]
      /\ path'[p] = <<>> /\ cwd'[p] = cwd[p] /\ file'[p] = file[p]
      /\ cur[p] \in Node /\ call[p] \in {"open", "creat", "mkdir", "chdir", "unlink", "link", "link2"}
    BY <1>1 DEF NamexEnds, Ready, DirTypeOK, refs, walk, CallAt, HasCur
<1>5. Alone(p)
    BY <1>1 DEF Alone, NamexEnds, Ready, Goto, Fails, Drops, DirTypeOK, refs, walk
<1>6. DirTypeOK'
    <2>1. dpc' \in [Proc -> {"user", "walk", "parent", "found", "create", "fill", "made", "old",
                             "unlink", "unlinked", "undo", "return"}]
        BY <1>1 DEF NamexEnds, Goto, Fails, DirTypeOK
    <2>2. puts' \in [Proc -> Seq(Node)]
        <3>1. <<cur[p]>> \in Seq(Node)
            BY <1>4
        <3> QED
            BY <1>1, <3>1 DEF NamexEnds, Drops, DirTypeOK
    <2> QED
        BY <1>1, <2>1, <2>2 DEF NamexEnds, DirTypeOK, inodes, refs, walk
<1>11. UNCHANGED <<type, nlink, entry, owner, iref>>
    BY DEF NamexEnds, inodes, refs
<1>2. CASE ~WantsParent(p)
    <2>1. dpc'[p] = "found" /\ puts'[p] = <<>> /\ call[p] \in {"open", "chdir", "link"}
        BY <1>1, <1>2, <1>4 DEF NamexEnds, WantsParent, Goto, DirTypeOK
    <2>2. CallAt(p)'
        BY <1>1, <1>4, <1>11, <2>1 DEF CallAt, Linking, HasCur, HasTarget
    <2>3. Moves(p, AsIs)
        <3>1. /\ Ref(p, "cwd")' = Ref(p, "cwd") /\ Ref(p, "file")' = Ref(p, "file")
              /\ Ref(p, "cur")' = Ref(p, "cur") /\ Ref(p, "target")' = NoNode
              /\ Ref(p, "put1")' = NoNode /\ Ref(p, "put2")' = NoNode
            BY <1>4, <2>1, RefIsNext, RefIs, Puts DEF HasCur, HasTarget, Linking
        <3> QED
            BY <3>1, MovesIs, SwapsAre
    <2>4. ~Pending(p)'
        BY <1>4, <2>1 DEF Pending, Linking
    <2> QED
        BY <1>4, <1>5, <1>6, <1>11, <2>1, <2>2, <2>3, <2>4, QuietMoves, SwapsPermute
<1>3. CASE WantsParent(p)
    <2>1. dpc'[p] = (IF call[p] = "link2" THEN "undo" ELSE "return") /\ puts'[p] = <<cur[p]>>
        BY <1>1, <1>3, <1>4 DEF NamexEnds, WantsParent, Goto, DirTypeOK, Fails, Drops
    <2>2. CallAt(p)'
        BY <1>1, <1>4, <1>11, <2>1 DEF CallAt, Linking, HasCur, HasTarget
    <2>3. Moves(p, Swap("put1", "cur"))
        <3>1. HasCur(p) /\ ~HasCur(p)' /\ (HasTarget(p)' => HasTarget(p))
            BY <1>4, <2>1 DEF HasCur, HasTarget, Linking
        <3> QED
            BY <1>4, <2>1, <3>1, PutCur
    <2>4. Pending(p)' => Pending(p)
        BY <1>4, <2>1 DEF Pending, Linking
    <2> QED
        BY <1>4, <1>5, <1>6, <1>11, <2>1, <2>2, <2>3, <2>4, QuietMoves, SwapsPermute, SwapsAre
<1> QED
    BY <1>2, <1>3

LEMMA NamexTurnStep ==
    ASSUME DirInv, NEW p \in Proc, NamexTurn(p)
    PROVE  DirInv'
<1>1. DirTypeOK /\ CallAt(p)
    BY DEF DirInv, CallInv
<1>2. /\ dpc[p] = "walk" /\ puts[p] = <<>> /\ path[p] # <<>>
      /\ call'[p] = call[p] /\ target'[p] = target[p] /\ request'[p] = request[p]
      /\ cwd'[p] = cwd[p] /\ file'[p] = file[p]
      /\ cur[p] \in Node /\ call[p] \in {"open", "creat", "mkdir", "chdir", "unlink", "link", "link2"}
      /\ path[p] \in Seq(Element) /\ <<cur[p]>> \in Seq(Node)
    BY <1>1 DEF NamexTurn, Ready, DirTypeOK, CallAt, HasCur
<1>3. UNCHANGED <<type, nlink, entry, owner>>
    BY DEF NamexTurn, inodes
<1>4. /\ dotdot' = dotdot /\ call' = call /\ request' = request /\ target' = target
      /\ cwd' = cwd /\ file' = file
    BY DEF NamexTurn, inodes
<1> DEFINE next == Dirlookup(cur[p], Head(path[p]))
<1>5. CASE /\ Fails(p) /\ Drops(p, <<cur[p]>>) /\ UNCHANGED <<iref, path, cur>>
    <2>1. dpc'[p] = (IF call[p] = "link2" THEN "undo" ELSE "return") /\ puts'[p] = <<cur[p]>>
        BY <1>1, <1>2, <1>5 DEF Goto, DirTypeOK, Fails, Drops
    <2>2. Alone(p)
        BY <1>1, <1>4, <1>5 DEF Alone, Goto, Fails, Drops, DirTypeOK
    <2>3. DirTypeOK'
        BY <1>1, <1>2, <1>3, <1>4, <1>5 DEF Goto, Fails, Drops, DirTypeOK
    <2>4. CallAt(p)'
        BY <1>1, <1>2, <1>3, <1>5, <2>1 DEF CallAt, Linking, HasCur, HasTarget
    <2>5. Moves(p, Swap("put1", "cur"))
        <3>1. HasCur(p) /\ ~HasCur(p)' /\ (HasTarget(p)' => HasTarget(p))
            BY <1>2, <2>1 DEF HasCur, HasTarget, Linking
        <3> QED
            BY <1>2, <2>1, <3>1, PutCur
    <2>6. Pending(p)' => Pending(p)
        BY <1>2, <2>1 DEF Pending, Linking
    <2> QED
        BY <1>2, <1>3, <1>5, <2>1, <2>2, <2>3, <2>4, <2>5, <2>6, QuietMoves, SwapsPermute, SwapsAre
<1>6. CASE /\ type[cur[p]] = "T_DIR" /\ WantsParent(p) /\ Len(path[p]) = 1
           /\ Goto(p, "parent") /\ UNCHANGED <<iref, path, cur, puts>>
    <2>1. dpc'[p] = "parent" /\ puts'[p] = <<>> /\ path'[p] = path[p] /\ cur'[p] = cur[p]
        BY <1>1, <1>2, <1>6 DEF Goto, DirTypeOK
    <2>2. Alone(p)
        BY <1>1, <1>4, <1>6 DEF Alone, Goto, DirTypeOK
    <2>3. DirTypeOK'
        BY <1>1, <1>2, <1>3, <1>4, <1>6 DEF Goto, DirTypeOK
    <2>4. CallAt(p)'
        BY <1>1, <1>2, <1>3, <1>6, <2>1 DEF CallAt, Linking, HasCur, HasTarget, WantsParent
    <2>5. Moves(p, AsIs)
        <3>1. HasCur(p) /\ HasCur(p)' /\ (HasTarget(p)' => HasTarget(p))
            BY <1>2, <2>1 DEF HasCur, HasTarget, Linking
        <3>2. /\ Ref(p, "cwd")' = Ref(p, "cwd") /\ Ref(p, "file")' = Ref(p, "file")
              /\ Ref(p, "put1")' = NoNode /\ Ref(p, "put2")' = NoNode
            BY <1>2, <2>1, RefIsNext, RefIs, Puts
        <3>3. Ref(p, "cur")' = Ref(p, "cur")
            BY <2>1, <3>1, RefIsNext, RefIs
        <3>4. Ref(p, "target")' \in {NoNode, Ref(p, "target")}
            BY <1>2, <3>1, RefIsNext, RefIs
        <3> QED
            BY <3>2, <3>3, <3>4, MovesIs, SwapsAre
    <2>6. Pending(p)' => Pending(p)
        BY <1>2, <2>1 DEF Pending, Linking
    <2> QED
        BY <1>2, <1>3, <1>6, <2>1, <2>2, <2>3, <2>4, <2>5, <2>6, QuietMoves, SwapsPermute
<1>7. CASE /\ type[cur[p]] = "T_DIR" /\ ~(WantsParent(p) /\ Len(path[p]) = 1) /\ next # NoNode
           /\ Drops(p, <<cur[p]>>) /\ GetInode(next) /\ cur' = [cur EXCEPT ![p] = next]
           /\ path' = [path EXCEPT ![p] = Tail(@)] /\ UNCHANGED dpc
    <2> PICK m : m = next
        OBVIOUS
    <2>1. /\ Len(path[p]) \in Nat /\ Len(path[p]) >= 1 /\ Head(path[p]) = path[p][1]
          /\ Head(path[p]) \in Element /\ Tail(path[p]) \in Seq(Element)
          /\ Len(Tail(path[p])) = Len(path[p]) - 1
          /\ \A i \in 1..Len(Tail(path[p])) : i + 1 \in 1..Len(path[p])
                                             /\ Tail(path[p])[i] = path[p][i + 1]
        BY <1>2, Paths
    <2>2. Head(path[p]) # ".."
        <3>1. SUFFICES ASSUME Head(path[p]) = ".." PROVE FALSE
            OBVIOUS
        <3>2. 1 \in 1..Len(path[p]) /\ path[p][1] = ".."
            BY <2>1, <3>1
        <3>3. call[p] \in {"unlink", "link2"} /\ 1 = Len(path[p])
            BY <1>1, <1>2, <3>2 DEF CallAt
        <3> QED
            BY <1>7, <3>3 DEF WantsParent
    <2>3. NotFilled(p, m)
        <3>1. CASE Head(path[p]) = "."
            <4>1. m = cur[p]
                BY <1>7, <3>1 DEF Dirlookup
            <4>2. Ref(p, "cur") = cur[p]
                BY <1>2, RefIs DEF HasCur
            <4> QED
                BY <1>2, <4>1, <4>2, RefNotFilled, SwapsAre
        <3>2. CASE Head(path[p]) # "."
            <4>1. Head(path[p]) \in Name /\ m = entry[cur[p]][Head(path[p])]
                BY <2>1, <2>2, <3>2 DEF Dirlookup, Element, Dots
            <4> QED
                BY <1>2, <1>7, <4>1, NamedNotFilled
        <3> QED
            BY <3>1, <3>2
    <2>4. m \in Node /\ m # NoNode
        BY <2>3, Basics DEF NotFilled
    <2>5. /\ dpc'[p] = "walk" /\ puts'[p] = <<cur[p]>> /\ cur'[p] = m /\ path'[p] = Tail(path[p])
        BY <1>1, <1>2, <1>7 DEF DirTypeOK, Drops
    <2>6. Alone(p)
        BY <1>1, <1>4, <1>7 DEF Alone, Drops, DirTypeOK
    <2>7. iref' = [iref EXCEPT ![m] = @ + 1]
        BY <1>7 DEF GetInode
    <2>8. DirTypeOK'
        BY <1>1, <1>2, <1>3, <1>4, <1>7, <2>1, <2>4, <2>7 DEF Drops, DirTypeOK
    <2>9. CallAt(p)'
        <3>1. \A i \in 1..Len(path'[p]) : path'[p][i] = ".." =>
                  call[p] \in {"unlink", "link2"} /\ i = Len(path'[p])
            <4>1. \A i \in 1..Len(path[p]) : path[p][i] = ".." =>
                      call[p] \in {"unlink", "link2"} /\ i = Len(path[p])
                BY <1>1, <1>2 DEF CallAt
            <4>2. ASSUME NEW i \in 1..Len(Tail(path[p])), Tail(path[p])[i] = ".."
                  PROVE  call[p] \in {"unlink", "link2"} /\ i = Len(Tail(path[p]))
                <5>1. i + 1 \in 1..Len(path[p]) /\ path[p][i + 1] = ".."
                    BY <2>1, <4>2
                <5>2. call[p] \in {"unlink", "link2"} /\ i + 1 = Len(path[p])
                    BY <4>1, <5>1
                <5> QED
                    BY <2>1, <5>2
            <4> QED
                BY <2>5, <4>2
        <3> QED
            BY <1>1, <1>2, <1>3, <2>4, <2>5, <3>1 DEF CallAt, Linking, HasCur, HasTarget, WantsParent
    <2>10. Takes(p, Swap("put1", "cur"), "cur", m)
        <3>1. HasCur(p) /\ HasCur(p)' /\ (HasTarget(p)' => HasTarget(p))
            BY <1>2, <2>5 DEF HasCur, HasTarget, Linking
        <3>2. Put1(<<cur[p]>>) = cur[p] /\ Put2(<<cur[p]>>) = NoNode
            BY Puts
        <3>3. /\ Ref(p, "cwd")' = Ref(p, "cwd") /\ Ref(p, "file")' = Ref(p, "file")
              /\ Ref(p, "put1")' = Ref(p, "cur") /\ Ref(p, "put2")' = NoNode
            BY <1>2, <2>5, <3>1, <3>2, RefIsNext, RefIs
        <3>4. Ref(p, "cur")' = m
            BY <2>5, <3>1, RefIsNext
        <3>5. Ref(p, "target")' \in {NoNode, Ref(p, "target")}
            BY <1>2, <3>1, RefIsNext, RefIs
        <3> QED
            BY <3>3, <3>4, <3>5, MovesIs, SwapsAre
    <2>11. Pending(p)' => Pending(p)
        BY <1>2, <2>5 DEF Pending, Linking
    <2> QED
        <3>1. Permutes(Swap("put1", "cur")) /\ "cur" \in Kind
            BY SwapsPermute, SwapsAre
        <3>2. {dpc[p], dpc'[p]} \cap {"fill", "made", "unlink", "unlinked"} = {}
            BY <1>2, <2>5
        <3> QED
            BY <1>2, <1>3, <2>3, <2>6, <2>7, <2>8, <2>9, <2>10, <2>11, <3>1, <3>2, QuietTakes
<1> QED
    BY <1>5, <1>6, <1>7 DEF NamexTurn

LEMMA Returns ==
    ASSUME NEW p \in Proc, dpc'[p] \in {"return", "user"}, Len(puts'[p]) <= 2
    PROVE  CallAt(p)' /\ ~Pending(p)' /\ ~HasCur(p)' /\ ~HasTarget(p)'
BY DEF CallAt, Pending, HasCur, HasTarget, Linking

LEMMA Lengths ==
    ASSUME NEW a, NEW b
    PROVE  Len(<<>>) <= 2 /\ Len(<<a>>) <= 2 /\ Len(<<a, b>>) <= 2
OBVIOUS

LEMMA OpenFoundStep ==
    ASSUME DirInv, NEW p \in Proc, OpenFound(p)
    PROVE  DirInv'
<1>1. DirTypeOK /\ CallAt(p)
    BY DEF DirInv, CallInv
<1>2. /\ dpc[p] = "found" /\ dpc'[p] = "return" /\ puts[p] = <<>> /\ call[p] = "open"
      /\ target'[p] = target[p] /\ cwd'[p] = cwd[p] /\ cur[p] \in Node /\ <<cur[p]>> \in Seq(Node)
    BY <1>1 DEF OpenFound, Step, Ready, Goto, DirTypeOK, CallAt, HasCur
<1>3. /\ HasCur(p) /\ ~HasTarget(p)
    BY <1>2 DEF HasCur, HasTarget, Linking
<1>4. /\ UNCHANGED <<type, nlink, entry, owner, iref>> /\ UNCHANGED <<dotdot, cwd, call, request, path, cur, target>>
    BY DEF OpenFound, inodes, walk
<1>5. CASE file[p] = NoNode /\ file' = [file EXCEPT ![p] = cur[p]] /\ UNCHANGED puts
    <2>1. puts'[p] = <<>> /\ file'[p] = cur[p]
        BY <1>1, <1>2, <1>5 DEF DirTypeOK
    <2>2. Alone(p)
        BY <1>1, <1>4, <1>5 DEF Alone, OpenFound, Step, Goto, DirTypeOK
    <2>3. DirTypeOK'
        BY <1>1, <1>2, <1>4, <1>5 DEF OpenFound, Step, Goto, DirTypeOK
    <2>4. CallAt(p)' /\ ~Pending(p)' /\ ~HasCur(p)' /\ ~HasTarget(p)'
        BY <1>2, <2>1, Returns, Lengths
    <2>5. Moves(p, Swap("file", "cur"))
        <3>1. /\ Ref(p, "cwd")' = Ref(p, "cwd") /\ Ref(p, "file")' = Ref(p, "cur")
              /\ Ref(p, "put1")' = NoNode /\ Ref(p, "put2")' = NoNode
            BY <1>2, <1>3, <2>1, Puts, RefIsNext, RefIs
        <3>2. Ref(p, "cur")' = NoNode /\ Ref(p, "target")' = NoNode
            BY <2>4, RefIsNext
        <3>3. PICK f : f = Swap("file", "cur")
            OBVIOUS
        <3>4. /\ f["cwd"] = "cwd" /\ f["file"] = "cur" /\ f["cur"] = "file"
              /\ f["target"] = "target" /\ f["put1"] = "put1" /\ f["put2"] = "put2"
            BY <3>3, SwapsAre
        <3> QED
            BY <3>1, <3>2, <3>3, <3>4, MovesIs
    <2> QED
        BY <1>2, <1>4, <2>2, <2>3, <2>4, <2>5, QuietMoves, SwapsPermute, SwapsAre
<1>6. CASE Drops(p, <<cur[p]>>) /\ UNCHANGED file
    <2>1. puts'[p] = <<cur[p]>> /\ file'[p] = file[p]
        BY <1>1, <1>6 DEF DirTypeOK, Drops
    <2>2. Alone(p)
        BY <1>1, <1>4, <1>6 DEF Alone, OpenFound, Step, Goto, Drops, DirTypeOK
    <2>3. DirTypeOK'
        BY <1>1, <1>2, <1>4, <1>6 DEF OpenFound, Step, Goto, Drops, DirTypeOK
    <2>4. CallAt(p)' /\ ~Pending(p)' /\ ~HasCur(p)' /\ ~HasTarget(p)'
        BY <1>2, <2>1, Returns, Lengths
    <2>5. Moves(p, Swap("put1", "cur"))
        BY <1>2, <1>3, <2>1, <2>4, PutCur
    <2> QED
        BY <1>2, <1>4, <2>2, <2>3, <2>4, <2>5, QuietMoves, SwapsPermute, SwapsAre
<1> QED
    BY <1>5, <1>6 DEF OpenFound

LEMMA CloseFileStep ==
    ASSUME DirInv, NEW p \in Proc, CloseFile(p)
    PROVE  DirInv'
<1>1. DirTypeOK /\ CallAt(p)
    BY DEF DirInv, CallInv
<1>2. /\ dpc[p] = "user" /\ dpc'[p] = "user" /\ puts[p] = <<>> /\ puts'[p] = <<file[p]>>
      /\ target'[p] = target[p] /\ cwd'[p] = cwd[p] /\ file'[p] = NoNode
      /\ file[p] \in Node /\ <<file[p]>> \in Seq(Node)
    BY <1>1 DEF CloseFile, Ready, Drops, DirTypeOK
<1>3. UNCHANGED <<type, nlink, entry, owner, iref>>
    BY DEF CloseFile, inodes
<1>4. Alone(p)
    BY <1>1 DEF Alone, CloseFile, Drops, DirTypeOK, walk
<1>5. DirTypeOK'
    BY <1>1, <1>2 DEF CloseFile, Drops, DirTypeOK, inodes, walk
<1>6. CallAt(p)' /\ ~Pending(p)' /\ ~HasCur(p)' /\ ~HasTarget(p)'
    BY <1>2, Returns, Lengths
<1>7. Moves(p, Swap("put1", "file"))
    <2>1. Put1(<<file[p]>>) = file[p] /\ Put2(<<file[p]>>) = NoNode
        BY Puts
    <2>2. /\ Ref(p, "cwd")' = Ref(p, "cwd") /\ Ref(p, "file")' = NoNode
          /\ Ref(p, "put1")' = Ref(p, "file") /\ Ref(p, "put2")' = NoNode
        BY <1>2, <2>1, RefIsNext, RefIs
    <2>3. Ref(p, "cur")' = NoNode /\ Ref(p, "target")' = NoNode
        BY <1>6, RefIsNext
    <2>4. PICK f : f = Swap("put1", "file")
        OBVIOUS
    <2>5. /\ f["cwd"] = "cwd" /\ f["file"] = "put1" /\ f["cur"] = "cur"
          /\ f["target"] = "target" /\ f["put1"] = "file" /\ f["put2"] = "put2"
        BY <2>4, SwapsAre
    <2> QED
        BY <2>2, <2>3, <2>4, <2>5, MovesIs
<1> QED
    BY <1>2, <1>3, <1>4, <1>5, <1>6, <1>7, QuietMoves, SwapsPermute, SwapsAre

LEMMA ChdirFoundStep ==
    ASSUME DirInv, NEW p \in Proc, ChdirFound(p)
    PROVE  DirInv'
<1>1. DirTypeOK /\ CallAt(p)
    BY DEF DirInv, CallInv
<1>2. /\ dpc[p] = "found" /\ dpc'[p] = "return" /\ puts[p] = <<>> /\ call[p] = "chdir"
      /\ target'[p] = target[p] /\ file'[p] = file[p]
      /\ cur[p] \in Node /\ <<cur[p]>> \in Seq(Node) /\ <<cwd[p]>> \in Seq(Node)
    BY <1>1 DEF ChdirFound, Step, Ready, Goto, DirTypeOK, CallAt, HasCur
<1>3. /\ HasCur(p) /\ ~HasTarget(p)
    BY <1>2 DEF HasCur, HasTarget, Linking
<1>4. /\ UNCHANGED <<type, nlink, entry, owner, iref>> /\ UNCHANGED <<dotdot, file, call, request, path, cur, target>>
    BY DEF ChdirFound, inodes, walk
<1>5. CASE Drops(p, <<cwd[p]>>) /\ cwd' = [cwd EXCEPT ![p] = cur[p]]
    <2>1. puts'[p] = <<cwd[p]>> /\ cwd'[p] = cur[p]
        BY <1>1, <1>2, <1>5 DEF DirTypeOK, Drops
    <2>2. Alone(p)
        BY <1>1, <1>4, <1>5 DEF Alone, ChdirFound, Step, Goto, Drops, DirTypeOK
    <2>3. DirTypeOK'
        BY <1>1, <1>2, <1>4, <1>5 DEF ChdirFound, Step, Goto, Drops, DirTypeOK
    <2>4. CallAt(p)' /\ ~Pending(p)' /\ ~HasCur(p)' /\ ~HasTarget(p)'
        BY <1>2, <2>1, Returns, Lengths
    <2>5. Moves(p, ChdirMoves)
        <3> Put1(<<cwd[p]>>) = cwd[p] /\ Put2(<<cwd[p]>>) = NoNode
            BY Puts
        <3>1. /\ Ref(p, "cwd")' = Ref(p, "cur") /\ Ref(p, "file")' = Ref(p, "file")
              /\ Ref(p, "put1")' = Ref(p, "cwd") /\ Ref(p, "put2")' = NoNode
            BY <1>2, <1>3, <2>1, RefIsNext, RefIs
        <3>2. Ref(p, "cur")' = NoNode /\ Ref(p, "target")' = NoNode
            BY <2>4, RefIsNext
        <3>3. PICK f : f = ChdirMoves
            OBVIOUS
        <3>4. /\ f["cwd"] = "cur" /\ f["file"] = "file" /\ f["cur"] = "put1"
              /\ f["target"] = "target" /\ f["put1"] = "cwd" /\ f["put2"] = "put2"
            BY <3>3, SwapsAre
        <3> QED
            BY <3>1, <3>2, <3>3, <3>4, MovesIs
    <2> QED
        BY <1>2, <1>4, <2>2, <2>3, <2>4, <2>5, QuietMoves, SwapsPermute, SwapsAre
<1>6. CASE Drops(p, <<cur[p]>>) /\ UNCHANGED cwd
    <2>1. puts'[p] = <<cur[p]>> /\ cwd'[p] = cwd[p]
        BY <1>1, <1>6 DEF DirTypeOK, Drops
    <2>2. Alone(p)
        BY <1>1, <1>4, <1>6 DEF Alone, ChdirFound, Step, Goto, Drops, DirTypeOK
    <2>3. DirTypeOK'
        BY <1>1, <1>2, <1>4, <1>6 DEF ChdirFound, Step, Goto, Drops, DirTypeOK
    <2>4. CallAt(p)' /\ ~Pending(p)' /\ ~HasCur(p)' /\ ~HasTarget(p)'
        BY <1>2, <2>1, Returns, Lengths
    <2>5. Moves(p, Swap("put1", "cur"))
        BY <1>2, <1>3, <2>1, <2>4, PutCur
    <2> QED
        BY <1>2, <1>4, <2>2, <2>3, <2>4, <2>5, QuietMoves, SwapsPermute, SwapsAre
<1> QED
    BY <1>5, <1>6 DEF ChdirFound

LEMMA CreateOldStep ==
    ASSUME DirInv, NEW p \in Proc, CreateOld(p)
    PROVE  DirInv'
<1>1. DirTypeOK /\ CallAt(p)
    BY DEF DirInv, CallInv
<1>2. PICK m : m = Dirlookup(cur[p], FinalName(p))
    OBVIOUS
<1>3. /\ dpc[p] = "parent" /\ dpc'[p] = "old" /\ puts[p] = <<>> /\ puts'[p] = <<cur[p]>>
      /\ call[p] \in {"creat", "mkdir"} /\ call'[p] = call[p] /\ target'[p] = m /\ m # NoNode
      /\ cwd'[p] = cwd[p] /\ file'[p] = file[p] /\ cur[p] \in Node /\ <<cur[p]>> \in Seq(Node)
      /\ iref' = [iref EXCEPT ![m] = @ + 1]
    BY <1>1, <1>2 DEF CreateOld, Creating, Step, Ready, Goto, Drops, GetInode, DirTypeOK, CallAt, HasCur
<1>4. NotFilled(p, m)
    <2>1. path[p] \in Seq(Element) /\ Len(path[p]) = 1
        BY <1>1, <1>3 DEF DirTypeOK, CallAt
    <2>2. FinalName(p) \in Element /\ FinalName(p) # ".."
        BY <1>1, <1>3, <2>1 DEF FinalName, CallAt
    <2>3. CASE FinalName(p) = "."
        <3>1. m = cur[p] /\ Ref(p, "cur") = cur[p]
            BY <1>2, <1>3, <2>3, RefIs DEF Dirlookup, HasCur
        <3> QED
            BY <1>3, <3>1, RefNotFilled, SwapsAre
    <2>4. CASE FinalName(p) # "."
        <3>1. FinalName(p) \in Name /\ m = entry[cur[p]][FinalName(p)]
            BY <1>2, <2>2, <2>4 DEF Dirlookup, Element, Dots
        <3> QED
            BY <1>3, <3>1, NamedNotFilled
    <2> QED
        BY <2>3, <2>4
<1>5. m \in Node
    BY <1>4 DEF NotFilled
<1>6. UNCHANGED <<type, nlink, entry, owner>>
    BY DEF CreateOld, inodes
<1>7. Alone(p)
    BY <1>1 DEF Alone, CreateOld, Step, Goto, Drops, DirTypeOK, walk
<1>8. DirTypeOK'
    BY <1>1, <1>2, <1>3, <1>5 DEF CreateOld, Step, Goto, Drops, DirTypeOK, inodes, walk
<1>9. HasCur(p) /\ ~HasCur(p)' /\ ~HasTarget(p) /\ HasTarget(p)' /\ ~Pending(p)' /\ ~Linking(p)'
    BY <1>3 DEF HasCur, HasTarget, Pending, Linking
<1>10. CallAt(p)'
    BY <1>3, <1>9 DEF CallAt
<1>11. Takes(p, Swap("put1", "cur"), "target", m)
    <2> Put1(<<cur[p]>>) = cur[p] /\ Put2(<<cur[p]>>) = NoNode
        BY Puts
    <2>1. /\ Ref(p, "cwd")' = Ref(p, "cwd") /\ Ref(p, "file")' = Ref(p, "file")
          /\ Ref(p, "put1")' = Ref(p, "cur") /\ Ref(p, "put2")' = NoNode
        BY <1>3, <1>9, RefIsNext, RefIs
    <2>2. Ref(p, "cur")' = NoNode
        BY <1>9, RefIsNext
    <2>3. Ref(p, "target")' = m
        BY <1>3, <1>9, RefIsNext
    <2> QED
        BY <2>1, <2>2, <2>3, MovesIs, SwapsAre
<1>12. Permutes(Swap("put1", "cur")) /\ "target" \in Kind
    BY SwapsPermute, SwapsAre
<1>13. {dpc[p], dpc'[p]} \cap {"fill", "made", "unlink", "unlinked"} = {}
    BY <1>3
<1> QED
    BY <1>3, <1>4, <1>6, <1>7, <1>8, <1>9, <1>10, <1>11, <1>12, <1>13, QuietTakes

LEMMA CreateOldOpensStep ==
    ASSUME DirInv, NEW p \in Proc, CreateOldOpens(p)
    PROVE  DirInv'
<1>1. DirTypeOK /\ CallAt(p)
    BY DEF DirInv, CallInv
<1>2. /\ dpc[p] = "old" /\ dpc'[p] = "return" /\ puts[p] = <<>> /\ target'[p] = target[p]
      /\ cwd'[p] = cwd[p] /\ target[p] \in Node /\ <<target[p]>> \in Seq(Node)
    BY <1>1 DEF CreateOldOpens, Step, Ready, Goto, DirTypeOK, CallAt, HasTarget
<1>3. HasTarget(p)
    BY <1>2 DEF HasTarget
<1>4. /\ UNCHANGED <<type, nlink, entry, owner, iref>> /\ UNCHANGED <<dotdot, cwd, call, request, path, cur, target>>
    BY DEF CreateOldOpens, inodes, walk
<1>5. CASE file[p] = NoNode /\ file' = [file EXCEPT ![p] = target[p]] /\ UNCHANGED puts
    <2>1. puts'[p] = <<>> /\ file'[p] = target[p]
        BY <1>1, <1>2, <1>5 DEF DirTypeOK
    <2>2. Alone(p)
        BY <1>1, <1>4, <1>5 DEF Alone, CreateOldOpens, Step, Goto, DirTypeOK
    <2>3. DirTypeOK'
        BY <1>1, <1>2, <1>4, <1>5 DEF CreateOldOpens, Step, Goto, DirTypeOK
    <2>4. CallAt(p)' /\ ~Pending(p)' /\ ~HasCur(p)' /\ ~HasTarget(p)'
        BY <1>2, <2>1, Returns, Lengths
    <2>5. Moves(p, Swap("file", "target"))
        BY <1>2, <1>3, <1>5, <2>1, <2>4, OpenTarget
    <2> QED
        BY <1>2, <1>4, <2>2, <2>3, <2>4, <2>5, QuietMoves, SwapsPermute, SwapsAre
<1>6. CASE Drops(p, <<target[p]>>) /\ UNCHANGED file
    <2>1. puts'[p] = <<target[p]>> /\ file'[p] = file[p]
        BY <1>1, <1>6 DEF DirTypeOK, Drops
    <2>2. Alone(p)
        BY <1>1, <1>4, <1>6 DEF Alone, CreateOldOpens, Step, Goto, Drops, DirTypeOK
    <2>3. DirTypeOK'
        BY <1>1, <1>2, <1>4, <1>6 DEF CreateOldOpens, Step, Goto, Drops, DirTypeOK
    <2>4. CallAt(p)' /\ ~Pending(p)' /\ ~HasCur(p)' /\ ~HasTarget(p)'
        BY <1>2, <2>1, Returns, Lengths
    <2>5. Moves(p, Swap("put1", "target"))
        BY <1>2, <1>3, <2>1, <2>4, PutTarget
    <2> QED
        BY <1>2, <1>4, <2>2, <2>3, <2>4, <2>5, QuietMoves, SwapsPermute, SwapsAre
<1> QED
    BY <1>5, <1>6 DEF CreateOldOpens

-----------------------------------------------------------------------------
(* The steps that write inodes                                             *)
LEMMA CreateNewStep ==
    ASSUME DirInv, NEW p \in Proc, CreateNew(p)
    PROVE  DirInv'
<1>1. DirTypeOK /\ CallAt(p) /\ RefInv /\ ClaimInv /\ FreeInv
    BY DEF DirInv, CallInv
<1>2. PICK n \in Node :
          /\ type[n] = "free"
          /\ type' = [type EXCEPT ![n] = IF call[p] = "mkdir" THEN "T_DIR" ELSE "T_FILE"]
          /\ nlink' = [nlink EXCEPT ![n] = 0] /\ entry' = [entry EXCEPT ![n] = NoEntries]
          /\ target' = [target EXCEPT ![p] = n] /\ iref' = [iref EXCEPT ![n] = @ + 1]
    BY DEF CreateNew, GetInode
<1>3. /\ dpc[p] = "parent" /\ dpc'[p] = "fill" /\ puts[p] = <<>> /\ puts'[p] = <<>>
      /\ call[p] \in {"creat", "mkdir"} /\ call'[p] = call[p] /\ target'[p] = n
      /\ cwd'[p] = cwd[p] /\ file'[p] = file[p] /\ cur'[p] = cur[p] /\ path'[p] = path[p]
      /\ cur[p] \in Node /\ type[cur[p]] = "T_DIR" /\ WantsParent(p) /\ Len(path[p]) = 1
      /\ owner' = [owner EXCEPT ![cur[p]] = p] /\ owner[cur[p]] = Nobody
    BY <1>1, <1>2 DEF CreateNew, Creating, Step, Ready, Goto, Locks, CanLock, DirTypeOK, CallAt, HasCur, walk
<1>4. nlink' = nlink /\ entry' = entry
    BY <1>1, <1>2 DEF DirTypeOK, FreeInv
<1>5. Alone(p)
    BY <1>1, <1>2 DEF Alone, CreateNew, Step, Goto, DirTypeOK, walk
<1>6. DirTypeOK'
    BY <1>1, <1>2, <1>3, <1>4 DEF CreateNew, Step, Goto, DirTypeOK, walk
<1>7. HasCur(p) /\ HasCur(p)' /\ ~HasTarget(p) /\ HasTarget(p)' /\ ~Pending(p)' /\ ~Linking(p)'
    BY <1>3 DEF HasCur, HasTarget, Pending, Linking
<1>8. Takes(p, AsIs, "target", n)
    <2>1. /\ Ref(p, "cwd")' = Ref(p, "cwd") /\ Ref(p, "file")' = Ref(p, "file")
          /\ Ref(p, "put1")' = NoNode /\ Ref(p, "put2")' = NoNode
        BY <1>3, Puts, RefIsNext, RefIs
    <2>2. Ref(p, "cur")' = Ref(p, "cur")
        BY <1>3, <1>7, RefIsNext, RefIs
    <2>3. Ref(p, "target")' = n
        BY <1>3, <1>7, RefIsNext
    <2> QED
        BY <2>1, <2>2, <2>3, MovesIs, SwapsAre
<1>9. \A q \in Proc, k \in Kind : Ref(q, k) # n
    BY <1>1, <1>2, Alive
<1>10. \A m \in Node, x \in Name : Child(m, x)' = Child(m, x)
    <2> SUFFICES ASSUME NEW m \in Node, NEW x \in Name PROVE Child(m, x)' = Child(m, x)
        OBVIOUS
    <2>1. CASE entry[m][x] = NoNode
        BY <1>4, <2>1 DEF Child
    <2>2. CASE entry[m][x] # NoNode
        <3>1. entry[m][x] \in Node /\ entry[m][x] # n
            BY <1>1, <1>2, <2>2, Named
        <3> QED
            BY <1>1, <1>2, <1>4, <3>1 DEF Child, DirTypeOK
    <2> QED
        BY <2>1, <2>2
<1>11. RefInv'
    BY <1>1, <1>2, <1>5, <1>8, RefsTaken, AloneKeeps, SwapsPermute, SwapsAre
<1>12. ClaimInv'
    <2>1. \A q \in Proc : Pending(q)' => Pending(q) /\ target'[q] = target[q]
        BY <1>5, <1>7, AloneKeeps DEF Alone
    <2>2. \A m \in Node : ClaimsWithin(m, {})
        BY <1>4, <1>10, <2>1 DEF ClaimsWithin
    <2> QED
        BY <1>1, <1>4, <2>2, ClaimsKept
<1>13. FreeInv'
    BY <1>1, <1>2, <1>4 DEF FreeInv, DirTypeOK, NoEntries
<1>14. TreeInv'
    <2>1. TreeInv
        BY DEF DirInv
    <2>2. ASSUME NEW m \in Node, type'[m] # "T_DIR" PROVE entry'[m] = NoEntries
        BY <1>1, <1>2, <1>4, <2>1, <2>2 DEF DirTypeOK, TreeInv, FreeInv
    <2>3. \A m, k \in Node : \A x, y \in Name :
              Child(m, x)' /\ entry'[m][x] = entry'[k][y] => m = k /\ x = y
        BY <1>4, <1>10, <2>1 DEF TreeInv
    <2> QED
        BY <2>2, <2>3 DEF TreeInv, NoEntries
<1>15. RankInv'
    <2>1. PICK rank \in [Node -> Nat] :
              \A m \in Node : \A x \in Name : Child(m, x) => rank[m] < rank[entry[m][x]]
        BY DEF DirInv, RankInv
    <2>2. \A m \in Node : \A x \in Name : Child(m, x)' => rank[m] < rank[entry'[m][x]]
        BY <1>4, <1>10, <2>1
    <2> QED
        BY <2>2 DEF RankInv
<1>16. CallInv'
    <2>1. cur[p] # n
        BY <1>2, <1>3
    <2>2. type'[cur[p]] = "T_DIR"
        BY <1>1, <1>2, <1>3, <2>1 DEF DirTypeOK
    <2>3. CallAt(p)'
        BY <1>1, <1>2, <1>3, <1>7, <2>2, Basics DEF CallAt, WantsParent
    <2>4. \A m \in Node : type'[m] = type[m] \/ \A q \in Proc \ {p}, k \in Kind : Ref(q, k) # m
        BY <1>1, <1>2, <1>9 DEF DirTypeOK
    <2> QED
        BY <1>5, <2>3, <2>4, OthersCalls
<1>17. FillInv'
    <2>1. AvoidsNew(p)
        <3> SUFFICES ASSUME NEW q \in Proc \ {p}, NEW k \in Kind, dpc[q] = "fill", Ref(p, k)' = target[q]
                     PROVE  FALSE
            BY DEF AvoidsNew
        <3>1. target[q] \in Node /\ target[q] # n
            BY <1>2, FillerTarget
        <3>2. Ref(p, k) = target[q]
            BY <1>8, <3>1, Basics, SwapsAre DEF Takes
        <3> QED
            BY <3>2 DEF DirInv, FillInv, FillAt
    <2>2. \A q \in Proc \ {p} : dpc[q] = "fill" => type'[target[q]] = type[target[q]]
        BY <1>1, <1>2, FillerTarget DEF DirTypeOK
    <2>3. FillAt(p)'
        <3>1. nlink'[n] = 0 /\ entry'[n] = NoEntries
            BY <1>1, <1>2 DEF DirTypeOK
        <3>2. type'[n] = "T_DIR" => call'[p] = "mkdir"
            BY <1>1, <1>2, <1>3 DEF DirTypeOK
        <3>3. ASSUME NEW q \in Proc, NEW k \in Kind, Ref(q, k)' = n PROVE q = p /\ k = "target"
            <4>1. CASE q = p
                BY <1>8, <1>9, <3>3, <4>1, Basics, SwapsAre DEF Takes
            <4>2. CASE q # p
                BY <1>5, <1>9, <3>3, <4>2, AloneKeeps DEF OthersKeep
            <4> QED
                BY <4>1, <4>2
        <3> QED
            BY <1>3, <3>1, <3>2, <3>3 DEF FillAt, NoEntries
    <2> QED
        BY <1>4, <1>5, <2>1, <2>2, <2>3, OthersFill
<1>18. UnlinkInv'
    BY <1>3, <1>4, <1>5, OthersUnlink
<1>19. OwnerInv'
    <2>1. \A m \in Node : owner'[m] = owner[m] \/ (owner[m] \in {p, Nobody} /\ owner'[m] \in {p, Nobody})
        BY <1>1, <1>3 DEF DirTypeOK
    <2>2. \A m \in Node : owner'[m] = p <=> m = cur[p]
        <3>1. \A m \in Node : owner[m] # p
            BY <1>3 DEF DirInv, OwnerInv, Holds
        <3> QED
            BY <1>1, <1>3, <3>1 DEF DirTypeOK
    <2>3. \A m \in Node : Holds(p, m)' <=> m = cur[p]
        BY <1>3 DEF Holds
    <2> QED
        BY <1>5, <1>6, <2>1, <2>2, <2>3, OthersOwn
<1> QED
    BY <1>6, <1>11, <1>12, <1>13, <1>14, <1>15, <1>16, <1>17, <1>18, <1>19 DEF DirInv

(* Claims that an inode gains, or swaps one of for another                 *)
LEMMA ClaimsGone ==
    ASSUME DirTypeOK, ClaimInv, FreeInv, NEW n \in Node, NEW c \in Claims(n), ClaimsWithin(n, {}),
           c \notin Claims(n)'
    PROVE  Cardinality(Claims(n)') <= nlink[n] - 1 /\ nlink[n] >= 1
<1>1. Claims(n)' \subseteq Claims(n) \ {c}
    BY ClaimsGrow
<1>2. IsFiniteSet(Claims(n)) /\ Cardinality(Claims(n)) \in Nat /\ nlink[n] \in Nat
    BY ClaimsFinite, Basics DEF DirTypeOK
<1>3. PICK T : T = Claims(n)'
    OBVIOUS
<1>4. Cardinality(T) <= Cardinality(Claims(n)) - 1 /\ Cardinality(T) \in Nat
    BY <1>1, <1>2, <1>3, SizeWithout, FS_Subset, FS_CardinalityType
<1> QED
    BY <1>2, <1>3, <1>4, Claimed DEF ClaimInv

LEMMA ClaimsSwapped ==
    ASSUME DirTypeOK, ClaimInv, NEW n \in Node, NEW c \in Claims(n), NEW b, ClaimsWithin(n, {b}),
           c \notin Claims(n)'
    PROVE  Cardinality(Claims(n)') <= nlink[n]
<1>1. Claims(n)' \subseteq (Claims(n) \ {c}) \cup {b}
    BY ClaimsGrow
<1>2. IsFiniteSet(Claims(n)) /\ Cardinality(Claims(n)) \in Nat /\ nlink[n] \in Nat
    BY ClaimsFinite, Basics DEF DirTypeOK
<1>3. PICK T : T = Claims(n)'
    OBVIOUS
<1>4. Cardinality(T) <= Cardinality(Claims(n)) /\ Cardinality(T) \in Nat
    <2>1. IsFiniteSet((Claims(n) \ {c}) \cup {b})
        BY <1>2, FS_RemoveElement, FS_AddElement
    <2> QED
        BY <1>1, <1>2, <1>3, <2>1, SizeSwapped, FS_Subset, FS_CardinalityType
<1> QED
    BY <1>2, <1>3, <1>4 DEF ClaimInv

LEMMA ClaimsMore ==
    ASSUME DirTypeOK, ClaimInv, NEW n \in Node, NEW b, ClaimsWithin(n, {b})
    PROVE  Cardinality(Claims(n)') <= nlink[n] + 1
<1>1. Claims(n)' \subseteq Claims(n) \cup {b}
    BY ClaimsGrow
<1>2. IsFiniteSet(Claims(n)) /\ Cardinality(Claims(n)) \in Nat /\ nlink[n] \in Nat
    BY ClaimsFinite, Basics DEF DirTypeOK
<1>3. PICK T : T = Claims(n)'
    OBVIOUS
<1>4. Cardinality(T) <= Cardinality(Claims(n)) + 1 /\ Cardinality(T) \in Nat
    <2>1. IsFiniteSet(Claims(n) \cup {b})
        BY <1>2, FS_AddElement
    <2> QED
        BY <1>1, <1>2, <1>3, <2>1, SizeMore, FS_Subset, FS_CardinalityType
<1> QED
    BY <1>2, <1>3, <1>4 DEF ClaimInv

LEMMA ClaimsSame ==
    ASSUME DirTypeOK, ClaimInv, NEW n \in Node, ClaimsWithin(n, {})
    PROVE  Cardinality(Claims(n)') <= nlink[n]
<1>1. Claims(n)' \subseteq Claims(n)
    BY ClaimsGrow
<1>2. Cardinality(Claims(n)') <= Cardinality(Claims(n)) /\ Cardinality(Claims(n)') \in Nat
    BY <1>1, ClaimsFinite, SizeLess
<1>3. nlink[n] \in Nat
    BY Basics DEF DirTypeOK
<1> QED
    BY <1>2, <1>3, ClaimsFinite DEF ClaimInv

LEMMA Unclaimed ==
    ASSUME DirTypeOK, ClaimInv, NEW n \in Node, nlink[n] = 0
    PROVE  Claims(n) = {}
<1>1. Cardinality(Claims(n)) = 0
    BY ClaimsFinite DEF ClaimInv
<1> QED
    BY <1>1, ClaimsFinite, FS_EmptySet

LEMMA CreateFillsStep ==
    ASSUME DirInv, NEW p \in Proc, CreateFills(p)
    PROVE  DirInv'
<1>1. DirTypeOK /\ CallAt(p) /\ RefInv /\ ClaimInv /\ FreeInv /\ TreeInv
    BY DEF DirInv, CallInv
<1>2. PICK t, c, x : t = target[p] /\ c = cur[p] /\ x = FinalName(p)
    OBVIOUS
<1>3. /\ dpc[p] = "fill" /\ dpc'[p] = "made" /\ puts[p] = <<>> /\ puts'[p] = <<c>>
      /\ call[p] \in {"creat", "mkdir"} /\ call'[p] = call[p] /\ target'[p] = t
      /\ cwd'[p] = cwd[p] /\ file'[p] = file[p] /\ cur'[p] = c
      /\ c \in Node /\ t \in Node /\ type[c] = "T_DIR" /\ <<c>> \in Seq(Node)
      /\ owner[t] = Nobody /\ nlink[c] < MaxNlink
    BY <1>1, <1>2 DEF CreateFills, Step, Ready, Goto, Drops, CanLock, DirTypeOK, CallAt, HasCur, HasTarget,
                      refs, walk
<1>4. HasCur(p) /\ ~HasCur(p)' /\ HasTarget(p) /\ HasTarget(p)' /\ ~Pending(p)' /\ ~Linking(p)'
    BY <1>3 DEF HasCur, HasTarget, Pending, Linking
<1>5. Ref(p, "cur") = c /\ Ref(p, "target") = t
    BY <1>2, <1>4, RefIs
<1>6. FillAt(p)
    BY <1>3 DEF DirInv, FillInv
<1>7. c # t /\ nlink[t] = 0 /\ entry[t] = NoEntries /\ type[t] # "free"
    BY <1>1, <1>2, <1>3, <1>5, <1>6, Alive, SwapsAre DEF FillAt
<1>8. /\ UNCHANGED <<type, iref>>
      /\ nlink' = [nlink EXCEPT ![t] = 1, ![c] = @ + DotdotLink(p)]
      /\ owner' = [owner EXCEPT ![c] = Nobody, ![t] = p]
    BY <1>2 DEF CreateFills, refs
<1>9. \A m \in Node, y \in Name :
          entry'[m][y] = IF m = c /\ y = x THEN t ELSE entry[m][y]
    BY <1>1, <1>2 DEF CreateFills, DirTypeOK
<1>10. \A m \in Node \ {c} : entry'[m] = entry[m]
    BY <1>1, <1>2 DEF CreateFills, DirTypeOK
<1>11. \A m \in Node \ {c, t} : nlink'[m] = nlink[m]
    BY <1>1, <1>8 DEF DirTypeOK
<1>12. /\ nlink'[t] = 1 /\ nlink[c] \in Nat /\ nlink'[c] \in Nat /\ nlink'[c] >= nlink[c]
       /\ nlink'[c] <= MaxNlink
       /\ type[t] = "T_DIR" => nlink'[c] = nlink[c] + 1
    <2>1. DotdotLink(p) \in {0, 1} /\ (type[t] = "T_DIR" => DotdotLink(p) = 1)
        BY <1>2, <1>6 DEF DotdotLink, FillAt
    <2>2. nlink'[t] = 1 /\ nlink'[c] = nlink[c] + DotdotLink(p) /\ nlink[c] \in 0..MaxNlink
        BY <1>1, <1>3, <1>7, <1>8 DEF DirTypeOK
    <2> QED
        BY <1>3, <2>1, <2>2, Basics
<1>13. Alone(p)
    BY <1>1 DEF Alone, CreateFills, Step, Goto, Drops, DirTypeOK, refs, walk
<1>14. DirTypeOK'
    <2>1. nlink' \in [Node -> 0..MaxNlink]
        <3>1. nlink' = [m \in Node |-> nlink'[m]]
            BY <1>1, <1>8 DEF DirTypeOK
        <3>2. \A m \in Node : nlink'[m] \in 0..MaxNlink
            <4>1. nlink'[t] \in 0..MaxNlink /\ nlink'[c] \in 0..MaxNlink
                BY <1>12, Basics
            <4>2. \A m \in Node \ {c, t} : nlink'[m] \in 0..MaxNlink
                BY <1>1, <1>11 DEF DirTypeOK
            <4> QED
                BY <4>1, <4>2
        <3> QED
            BY <3>1, <3>2
    <2>2. entry' \in [Node -> [Name -> Node \cup {NoNode}]]
        BY <1>1, <1>2, <1>3 DEF CreateFills, DirTypeOK
    <2>3. dotdot' \in [Node -> Node \cup {NoNode}]
        BY <1>1, <1>2, <1>3 DEF CreateFills, DirTypeOK
    <2>4. owner' \in [Node -> Proc \cup {Nobody}]
        BY <1>1, <1>8 DEF DirTypeOK
    <2>5. puts' \in [Proc -> Seq(Node)] /\ dpc' \in [Proc -> {"user", "walk", "parent", "found", "create",
                        "fill", "made", "old", "unlink", "unlinked", "undo", "return"}]
        BY <1>1, <1>2, <1>3 DEF CreateFills, Step, Goto, Drops, DirTypeOK
    <2> QED
        BY <1>1, <1>8, <2>1, <2>2, <2>3, <2>4, <2>5 DEF CreateFills, DirTypeOK, refs, walk
<1>15. Moves(p, Swap("put1", "cur"))
    BY <1>2, <1>3, <1>4, PutCur
<1>16. RefInv'
    BY <1>1, <1>8, <1>13, <1>15, RefsMoved, AloneKeeps, SwapsPermute, SwapsAre
<1>17. Claims(t) = {} /\ \A m \in Node, y \in Name : entry[m][y] # t
    <2>1. Claims(t) = {}
        BY <1>1, <1>3, <1>7, Unclaimed
    <2> QED
        BY <2>1, ClaimsAre
<1>18. /\ \A m \in Node, y \in Name : Child(m, y)' => Child(m, y) \/ (m = c /\ y = x /\ type[t] = "T_DIR")
       /\ \A y \in Name : ~Child(t, y)'
    BY <1>3, <1>7, <1>8, <1>9 DEF Child, NoEntries
<1>19. ClaimInv'
    <2>1. \A q \in Proc : Pending(q)' => Pending(q) /\ target'[q] = target[q]
        BY <1>4, <1>13, AloneKeeps DEF Alone
    <2>2. Cardinality(Claims(t)') <= nlink'[t]
        <3>1. PICK b : b = <<"entry", c, x>>
            OBVIOUS
        <3>2. ClaimsWithin(t, {b})
            BY <1>3, <1>9, <1>18, <2>1, <3>1 DEF ClaimsWithin
        <3>3. Cardinality(Claims(t)') <= nlink[t] + 1
            BY <1>1, <1>3, <3>2, ClaimsMore
        <3> QED
            BY <1>7, <1>12, <3>3
    <2>3. Cardinality(Claims(c)') <= nlink'[c]
        <3>1. CASE type[t] = "T_DIR"
            <4>1. PICK b : b = <<"dotdot", c, x>>
                OBVIOUS
            <4>2. ClaimsWithin(c, {b})
                BY <1>3, <1>7, <1>9, <1>18, <2>1, <4>1 DEF ClaimsWithin
            <4>3. Cardinality(Claims(c)') <= nlink[c] + 1
                BY <1>1, <1>3, <4>2, ClaimsMore
            <4> QED
                BY <1>12, <3>1, <4>3
        <3>2. CASE type[t] # "T_DIR"
            <4>1. ClaimsWithin(c, {})
                BY <1>3, <1>7, <1>9, <1>18, <2>1, <3>2 DEF ClaimsWithin
            <4>2. Cardinality(Claims(c)') <= nlink[c]
                BY <1>1, <1>3, <4>1, ClaimsSame
            <4>3. PICK k : k = Cardinality(Claims(c)')
                OBVIOUS
            <4>4. k \in Nat
                BY <4>3, ClaimsFinite
            <4> QED
                BY <1>12, <4>2, <4>3, <4>4
        <3> QED
            BY <3>1, <3>2
    <2>4. ASSUME NEW m \in Node \ {c, t} PROVE Cardinality(Claims(m)') <= nlink'[m]
        <3>1. ClaimsWithin(m, {})
            BY <1>3, <1>9, <1>18, <2>1 DEF ClaimsWithin
        <3> QED
            BY <1>1, <1>11, <3>1, ClaimsSame
    <2> QED
        BY <2>2, <2>3, <2>4 DEF ClaimInv
<1>20. FreeInv'
    <2> SUFFICES ASSUME NEW m \in Node, type[m] = "free"
                 PROVE  iref[m] = 0 /\ nlink'[m] = 0 /\ entry'[m] = NoEntries
        BY <1>8 DEF FreeInv, NoEntries
    <2> QED
        BY <1>1, <1>3, <1>7, <1>10, <1>11 DEF FreeInv
<1>21. TreeInv'
    <2>1. ASSUME NEW m \in Node, type'[m] # "T_DIR" PROVE entry'[m] = NoEntries
        BY <1>1, <1>3, <1>8, <1>10, <2>1 DEF TreeInv
    <2>2. ASSUME NEW m \in Node, NEW k \in Node, NEW y \in Name, NEW z \in Name,
                 Child(m, y)', entry'[m][y] = entry'[k][z]
          PROVE  m = k /\ y = z
        <3>1. CASE m = c /\ y = x
            BY <1>9, <1>17, <2>2, <3>1
        <3>2. CASE ~(m = c /\ y = x)
            <4>1. Child(m, y) /\ entry'[m][y] = entry[m][y]
                BY <1>9, <1>18, <2>2, <3>2
            <4>2. entry'[k][z] = entry[k][z]
                BY <1>9, <1>17, <2>2, <4>1
            <4>3. entry[m][y] = entry[k][z]
                BY <2>2, <4>1, <4>2
            <4> QED
                BY <1>1, <4>1, <4>3 DEF TreeInv
        <3> QED
            BY <3>1, <3>2
    <2> QED
        BY <2>1, <2>2 DEF TreeInv, NoEntries
<1>22. RankInv'
    <2>1. PICK rank \in [Node -> Nat] :
              \A m \in Node : \A y \in Name : Child(m, y) => rank[m] < rank[entry[m][y]]
        BY DEF DirInv, RankInv
    <2> DEFINE new == [rank EXCEPT ![t] = rank[c] + 1]
    <2>2. new \in [Node -> Nat] /\ new[t] = rank[c] + 1 /\ \A m \in Node \ {t} : new[m] = rank[m]
        BY <1>3, <2>1
    <2>3. ASSUME NEW m \in Node, NEW y \in Name, Child(m, y)' PROVE new[m] < new[entry'[m][y]]
        <3>1. m # t
            BY <1>18, <2>3
        <3>2. CASE m = c /\ y = x
            <4>1. entry'[m][y] = t /\ new[m] = rank[c] /\ rank[c] \in Nat
                BY <1>3, <1>9, <2>1, <2>2, <3>1, <3>2
            <4> QED
                BY <2>2, <4>1
        <3>3. CASE ~(m = c /\ y = x)
            <4>1. Child(m, y) /\ entry'[m][y] = entry[m][y] /\ entry[m][y] # t
                BY <1>9, <1>17, <1>18, <2>3, <3>3
            <4>2. entry[m][y] \in Node
                BY <1>1, <4>1 DEF Child, DirTypeOK
            <4> QED
                BY <2>1, <2>2, <3>1, <4>1, <4>2
        <3> QED
            BY <3>2, <3>3
    <2> QED
        BY <2>2, <2>3 DEF RankInv
<1>23. CallInv'
    <2>1. CallAt(p)'
        BY <1>1, <1>2, <1>3, <1>4, Basics, Lengths DEF CallAt
    <2> QED
        BY <1>8, <1>13, <2>1, OthersCalls
<1>24. FillInv'
    <2>1. AvoidsNew(p)
        BY <1>15, MovesAvoid, SwapsPermute, SwapsAre
    <2>2. ASSUME NEW q \in Proc \ {p}, dpc[q] = "fill"
          PROVE  /\ nlink'[target[q]] = nlink[target[q]] /\ entry'[target[q]] = entry[target[q]]
                 /\ type'[target[q]] = type[target[q]]
        <3>1. target[q] \in Node \ {c, t}
            BY <1>3, <1>5, <2>2, FillerTarget, SwapsAre DEF DirInv, FillInv, FillAt
        <3> QED
            BY <1>8, <1>10, <1>11, <3>1
    <2> QED
        BY <1>3, <1>13, <2>1, <2>2, OthersFill
<1>25. owner[c] = p
    BY <1>2, <1>3 DEF DirInv, OwnerInv, Holds
<1>26. UnlinkInv'
    <2>1. ASSUME NEW q \in Proc \ {p}, dpc[q] = "unlink" PROVE entry'[cur[q]] = entry[cur[q]]
        <3>1. cur[q] \in Node
            BY <1>1, <2>1 DEF DirInv, CallInv, CallAt, HasCur, DirTypeOK
        <3>2. owner[cur[q]] = q
            BY <2>1, <3>1 DEF DirInv, OwnerInv, Holds
        <3> QED
            BY <1>10, <1>25, <3>1, <3>2
    <2> QED
        BY <1>3, <1>13, <2>1, OthersUnlink
<1>27. OwnerInv'
    <2>1. \A m \in Node : owner'[m] = owner[m] \/ (owner[m] \in {p, Nobody} /\ owner'[m] \in {p, Nobody})
        BY <1>1, <1>3, <1>8, <1>25 DEF DirTypeOK
    <2>2. \A m \in Node : owner'[m] = p <=> m = t
        <3>1. \A m \in Node : owner[m] = p => m = c
            BY <1>2, <1>3 DEF DirInv, OwnerInv, Holds
        <3> QED
            BY <1>1, <1>3, <1>7, <1>8, <3>1, Basics DEF DirTypeOK
    <2>3. \A m \in Node : Holds(p, m)' <=> m = t
        BY <1>3 DEF Holds
    <2> QED
        BY <1>13, <1>14, <2>1, <2>2, <2>3, OthersOwn
<1> QED
    BY <1>14, <1>16, <1>19, <1>20, <1>21, <1>22, <1>23, <1>24, <1>26, <1>27 DEF DirInv

LEMMA CreateEndsStep ==
    ASSUME DirInv, NEW p \in Proc, CreateEnds(p)
    PROVE  DirInv'
<1>1. DirTypeOK /\ CallAt(p) /\ RefInv /\ FreeInv
    BY DEF DirInv, CallInv
<1>2. /\ dpc[p] = "made" /\ dpc'[p] = "return" /\ puts[p] = <<>> /\ target'[p] = target[p]
      /\ cwd'[p] = cwd[p] /\ target[p] \in Node /\ <<target[p]>> \in Seq(Node)
      /\ owner' = [owner EXCEPT ![target[p]] = Nobody]
    BY <1>1 DEF CreateEnds, Step, Ready, Goto, Unlocks, DirTypeOK, CallAt, HasTarget
<1>3. HasTarget(p)
    BY <1>2 DEF HasTarget
<1>4. /\ UNCHANGED <<type, nlink, entry>>
      /\ UNCHANGED <<dotdot, iref, cwd, call, request, path, cur, target>>
    BY DEF CreateEnds, inodes, walk
<1>5. owner[target[p]] = p /\ \A m \in Node \ {target[p]} : owner[m] # p
    BY <1>2 DEF DirInv, OwnerInv, Holds
<1>6. \A m \in Node : owner'[m] = owner[m] \/ (owner[m] \in {p, Nobody} /\ owner'[m] \in {p, Nobody})
    BY <1>1, <1>2, <1>5 DEF DirTypeOK
<1>7. \A m \in Node : owner'[m] = p <=> Holds(p, m)'
    <2>1. \A m \in Node : owner'[m] # p
        BY <1>1, <1>2, <1>5, Basics DEF DirTypeOK
    <2> QED
        BY <1>2, <2>1 DEF Holds
<1>8. \A m \in Node : type[m] = "free" => iref'[m] = 0
    BY <1>1, <1>4 DEF FreeInv
<1>9. CASE file[p] = NoNode /\ file' = [file EXCEPT ![p] = target[p]] /\ UNCHANGED puts
    <2>1. puts'[p] = <<>> /\ file'[p] = target[p]
        BY <1>1, <1>2, <1>9 DEF DirTypeOK
    <2>2. Alone(p)
        BY <1>1, <1>4, <1>9 DEF Alone, CreateEnds, Step, Goto, DirTypeOK
    <2>3. DirTypeOK'
        BY <1>1, <1>2, <1>4, <1>9 DEF CreateEnds, Step, Goto, DirTypeOK
    <2>4. CallAt(p)' /\ ~Pending(p)' /\ ~HasCur(p)' /\ ~HasTarget(p)'
        BY <1>2, <2>1, Returns, Lengths
    <2>5. Moves(p, Swap("file", "target"))
        BY <1>2, <1>3, <1>9, <2>1, <2>4, OpenTarget
    <2>6. RefInv' /\ AvoidsNew(p)
        BY <1>1, <1>4, <2>2, <2>5, RefsMoved, AloneKeeps, MovesAvoid, SwapsPermute, SwapsAre
    <2> QED
        BY <1>2, <1>4, <1>6, <1>7, <1>8, <2>2, <2>3, <2>4, <2>6, UnwrittenStep
<1>10. CASE Drops(p, <<target[p]>>) /\ UNCHANGED file
    <2>1. puts'[p] = <<target[p]>> /\ file'[p] = file[p]
        BY <1>1, <1>10 DEF DirTypeOK, Drops
    <2>2. Alone(p)
        BY <1>1, <1>4, <1>10 DEF Alone, CreateEnds, Step, Goto, Drops, DirTypeOK
    <2>3. DirTypeOK'
        BY <1>1, <1>2, <1>4, <1>10 DEF CreateEnds, Step, Goto, Drops, DirTypeOK
    <2>4. CallAt(p)' /\ ~Pending(p)' /\ ~HasCur(p)' /\ ~HasTarget(p)'
        BY <1>2, <2>1, Returns, Lengths
    <2>5. Moves(p, Swap("put1", "target"))
        BY <1>2, <1>3, <2>1, <2>4, PutTarget
    <2>6. RefInv' /\ AvoidsNew(p)
        BY <1>1, <1>4, <2>2, <2>5, RefsMoved, AloneKeeps, MovesAvoid, SwapsPermute, SwapsAre
    <2> QED
        BY <1>2, <1>4, <1>6, <1>7, <1>8, <2>2, <2>3, <2>4, <2>6, UnwrittenStep
<1> QED
    BY <1>9, <1>10 DEF CreateEnds

LEMMA UnlinkFindsStep ==
    ASSUME DirInv, NEW p \in Proc, UnlinkFinds(p)
    PROVE  DirInv'
<1>1. DirTypeOK /\ CallAt(p) /\ RefInv /\ FreeInv
    BY DEF DirInv, CallInv
<1>2. PICK x, c : x = FinalName(p) /\ c = cur[p]
    OBVIOUS
<1>3. PICK n : n = IF Protected(x) THEN NoNode ELSE Dirlookup(c, x)
    OBVIOUS
<1>4. /\ dpc[p] = "parent" /\ puts[p] = <<>> /\ call[p] = "unlink" /\ call'[p] = "unlink"
      /\ cwd'[p] = cwd[p] /\ file'[p] = file[p] /\ cur'[p] = c /\ path'[p] = path[p]
      /\ c \in Node /\ type[c] = "T_DIR" /\ <<c>> \in Seq(Node) /\ owner[c] = Nobody
      /\ WantsParent(p) /\ Len(path[p]) = 1
    BY <1>1, <1>2 DEF UnlinkFinds, Ready, CanLock, DirTypeOK, CallAt, HasCur, walk
<1>5. /\ UNCHANGED <<type, nlink, entry>>
      /\ UNCHANGED <<dotdot, cwd, file, call, request, path, cur>>
    BY DEF UnlinkFinds, inodes, walk
<1>6. HasCur(p) /\ ~HasTarget(p)
    BY <1>4 DEF HasCur, HasTarget, Linking
<1>7. CASE Goto(p, "return") /\ Drops(p, <<c>>) /\ UNCHANGED <<iref, owner, target>>
    <2>1. dpc'[p] = "return" /\ puts'[p] = <<c>> /\ target'[p] = target[p]
        BY <1>1, <1>4, <1>7 DEF DirTypeOK, Drops, Goto
    <2>2. Alone(p)
        BY <1>1, <1>5, <1>7 DEF Alone, Goto, Drops, DirTypeOK
    <2>3. DirTypeOK'
        BY <1>1, <1>4, <1>5, <1>7 DEF Goto, Drops, DirTypeOK
    <2>4. CallAt(p)' /\ ~Pending(p)' /\ ~HasCur(p)' /\ ~HasTarget(p)'
        BY <2>1, Returns, Lengths
    <2>5. Moves(p, Swap("put1", "cur"))
        BY <1>2, <1>4, <1>6, <2>1, <2>4, PutCur
    <2> QED
        BY <1>4, <1>5, <1>7, <2>1, <2>2, <2>3, <2>4, <2>5, QuietMoves, SwapsPermute, SwapsAre
<1>8. CASE /\ n # NoNode /\ Goto(p, "unlink") /\ Locks(p, c) /\ GetInode(n)
           /\ target' = [target EXCEPT ![p] = n] /\ UNCHANGED puts
    <2>1. /\ dpc'[p] = "unlink" /\ puts'[p] = <<>> /\ target'[p] = n
          /\ iref' = [iref EXCEPT ![n] = @ + 1] /\ owner' = [owner EXCEPT ![c] = p]
        BY <1>1, <1>4, <1>8 DEF DirTypeOK, Goto, GetInode, Locks
    <2>2. x \in Name /\ n = entry[c][x]
        <3>1. x \in Element
            <4>1. path[p] \in Seq(Element) /\ Len(path[p]) = 1
                BY <1>1, <1>4 DEF DirTypeOK
            <4> QED
                BY <1>2, <4>1 DEF FinalName
        <3>2. x \notin Dots
            BY <1>3, <1>8 DEF Protected
        <3> QED
            BY <1>3, <1>8, <3>1, <3>2 DEF Element, Dots, Protected, Dirlookup
    <2>3. NotFilled(p, n)
        BY <1>4, <1>8, <2>2, NamedNotFilled
    <2>4. n \in Node
        BY <2>3 DEF NotFilled
    <2>5. Alone(p)
        BY <1>1, <1>5, <1>8 DEF Alone, Goto, DirTypeOK
    <2>6. DirTypeOK'
        BY <1>1, <1>4, <1>5, <1>8, <2>1, <2>4 DEF Goto, DirTypeOK
    <2>7. HasCur(p)' /\ HasTarget(p)' /\ ~Pending(p)' /\ ~Linking(p)'
        BY <2>1 DEF HasCur, HasTarget, Pending, Linking
    <2>8. CallAt(p)'
        BY <1>1, <1>4, <1>5, <1>8, <2>1, <2>7, Basics DEF CallAt, WantsParent
    <2>9. Takes(p, AsIs, "target", n)
        <3>1. /\ Ref(p, "cwd")' = Ref(p, "cwd") /\ Ref(p, "file")' = Ref(p, "file")
              /\ Ref(p, "put1")' = NoNode /\ Ref(p, "put2")' = NoNode
            BY <1>4, <2>1, Puts, RefIsNext, RefIs
        <3>2. Ref(p, "cur")' = Ref(p, "cur")
            BY <1>2, <1>4, <1>6, <2>7, RefIsNext, RefIs
        <3>3. Ref(p, "target")' = n
            BY <2>1, <2>7, RefIsNext
        <3> QED
            BY <3>1, <3>2, <3>3, MovesIs, SwapsAre
    <2>10. Permutes(AsIs) /\ "target" \in Kind
        BY SwapsPermute, SwapsAre
    <2>11. RefInv'
        BY <1>1, <2>1, <2>4, <2>5, <2>9, <2>10, RefsTaken, AloneKeeps
    <2>12. AvoidsNew(p)
        BY <2>3, <2>9, <2>10, TakesAvoid
    <2>13. \A m \in Node : type[m] = "free" => iref'[m] = 0
        BY <1>1, <2>1, <2>3 DEF FreeInv, NotFilled, DirTypeOK
    <2>14. UnlinkAt(p)'
        BY <1>2, <1>4, <1>5, <2>1, <2>2 DEF UnlinkAt, FinalName
    <2>15. \A m \in Node : owner'[m] = owner[m] \/ (owner[m] \in {p, Nobody} /\ owner'[m] \in {p, Nobody})
        BY <1>1, <1>4, <2>1 DEF DirTypeOK
    <2>16. \A m \in Node : owner'[m] = p <=> Holds(p, m)'
        <3>1. \A m \in Node : owner[m] # p
            BY <1>4 DEF DirInv, OwnerInv, Holds
        <3>2. \A m \in Node : owner'[m] = p <=> m = c
            BY <1>1, <1>4, <2>1, <3>1 DEF DirTypeOK
        <3> QED
            BY <1>4, <2>1, <3>2 DEF Holds
    <2> QED
        BY <1>5, <2>1, <2>5, <2>6, <2>7, <2>8, <2>11, <2>12, <2>13, <2>14, <2>15, <2>16, UnwrittenStep
<1> QED
    BY <1>2, <1>3, <1>7, <1>8 DEF UnlinkFinds

LEMMA UnlinkRefuses ==
    ASSUME DirInv, NEW p \in Proc, Ready(p, "unlink"), Goto(p, "return"), Unlocks(cur[p]),
           Drops(p, <<target[p], cur[p]>>), UNCHANGED <<inodes, refs, call, walk, target>>
    PROVE  DirInv'
<1>1. DirTypeOK /\ CallAt(p) /\ RefInv /\ FreeInv
    BY DEF DirInv, CallInv
<1>2. PICK t, c : t = target[p] /\ c = cur[p]
    OBVIOUS
<1>3. /\ dpc[p] = "unlink" /\ dpc'[p] = "return" /\ puts[p] = <<>> /\ puts'[p] = <<t, c>>
      /\ cwd'[p] = cwd[p] /\ file'[p] = file[p]
      /\ c \in Node /\ t \in Node /\ <<t, c>> \in Seq(Node) /\ owner' = [owner EXCEPT ![c] = Nobody]
    BY <1>1, <1>2 DEF Ready, Goto, Drops, Unlocks, DirTypeOK, CallAt, HasCur, HasTarget, refs
<1>4. /\ UNCHANGED <<type, nlink, entry>>
      /\ UNCHANGED <<dotdot, iref, cwd, file, call, request, path, cur, target>>
    BY DEF inodes, refs, walk
<1>5. HasCur(p) /\ HasTarget(p)
    BY <1>3 DEF HasCur, HasTarget
<1>6. Alone(p)
    BY <1>1, <1>4 DEF Alone, Goto, Drops, DirTypeOK
<1>7. DirTypeOK'
    BY <1>1, <1>2, <1>3, <1>4 DEF Goto, Drops, DirTypeOK
<1>8. CallAt(p)' /\ ~Pending(p)' /\ ~HasCur(p)' /\ ~HasTarget(p)'
    BY <1>3, Returns, Lengths
<1>9. Moves(p, Swap2("put2", "target", "put1", "cur"))
    <2> Put1(<<t, c>>) = c /\ Put2(<<t, c>>) = t
        BY Puts
    <2>1. /\ Ref(p, "cwd")' = Ref(p, "cwd") /\ Ref(p, "file")' = Ref(p, "file")
          /\ Ref(p, "put1")' = Ref(p, "cur") /\ Ref(p, "put2")' = Ref(p, "target")
        BY <1>2, <1>3, <1>5, RefIsNext, RefIs
    <2>2. Ref(p, "cur")' = NoNode /\ Ref(p, "target")' = NoNode
        BY <1>8, RefIsNext
    <2>3. PICK f : f = Swap2("put2", "target", "put1", "cur")
        OBVIOUS
    <2>4. /\ f["cwd"] = "cwd" /\ f["file"] = "file" /\ f["cur"] = "put1"
          /\ f["target"] = "put2" /\ f["put1"] = "cur" /\ f["put2"] = "target"
        BY <2>3, SwapsAre
    <2> QED
        BY <2>1, <2>2, <2>3, <2>4, MovesIs
<1>10. RefInv' /\ AvoidsNew(p)
    BY <1>1, <1>4, <1>6, <1>9, RefsMoved, AloneKeeps, MovesAvoid, SwapsPermute
<1>11. owner[c] = p /\ \A m \in Node \ {c} : owner[m] # p
    BY <1>2, <1>3 DEF DirInv, OwnerInv, Holds
<1>12. \A m \in Node : owner'[m] = owner[m] \/ (owner[m] \in {p, Nobody} /\ owner'[m] \in {p, Nobody})
    BY <1>1, <1>3, <1>11 DEF DirTypeOK
<1>13. \A m \in Node : owner'[m] = p <=> Holds(p, m)'
    <2>1. \A m \in Node : owner'[m] # p
        BY <1>1, <1>3, <1>11, Basics DEF DirTypeOK
    <2> QED
        BY <1>3, <2>1 DEF Holds
<1>14. \A m \in Node : type[m] = "free" => iref'[m] = 0
    BY <1>1, <1>4 DEF FreeInv
<1> QED
    BY <1>3, <1>4, <1>6, <1>7, <1>8, <1>10, <1>12, <1>13, <1>14, UnwrittenStep

(* What others rely on, when p writes the entries of a directory that it   *)
(* has locked or could lock                                                *)
LEMMA OthersUnlinkElsewhere ==
    ASSUME DirInv, NEW p \in Proc, Alone(p), NEW c \in Node, owner[c] \in {p, Nobody},
           \A m \in Node \ {c} : entry'[m] = entry[m], dpc'[p] # "unlink"
    PROVE  UnlinkInv'
<1>1. ASSUME NEW q \in Proc \ {p}, dpc[q] = "unlink" PROVE entry'[cur[q]] = entry[cur[q]]
    <2>1. cur[q] \in Node
        BY <1>1 DEF DirInv, CallInv, CallAt, HasCur, DirTypeOK
    <2>2. owner[cur[q]] = q
        BY <1>1, <2>1 DEF DirInv, OwnerInv, Holds
    <2> QED
        BY <2>1, <2>2, Basics
<1> QED
    BY <1>1, OthersUnlink

(* and of inodes that it refers to                                         *)
LEMMA OthersFillElsewhere ==
    ASSUME DirInv, NEW p \in Proc, Alone(p), AvoidsNew(p), UNCHANGED type, dpc'[p] # "fill",
           NEW S, \A m \in S : \E k \in Kind : Ref(p, k) = m,
           \A m \in Node \ S : nlink'[m] = nlink[m] /\ entry'[m] = entry[m]
    PROVE  FillInv'
<1>1. ASSUME NEW q \in Proc \ {p}, dpc[q] = "fill"
      PROVE  /\ nlink'[target[q]] = nlink[target[q]] /\ entry'[target[q]] = entry[target[q]]
             /\ type'[target[q]] = type[target[q]]
    <2>1. target[q] \in Node \ S
        BY <1>1, FillerTarget DEF DirInv, FillInv, FillAt
    <2> QED
        BY <2>1
<1> QED
    BY <1>1, OthersFill

LEMMA UnlinkRemoves ==
    ASSUME DirInv, NEW p \in Proc, Ready(p, "unlink"), CanLock(target[p]), Goto(p, "unlinked"),
           entry' = [entry EXCEPT ![cur[p]][FinalName(p)] = NoNode],
           nlink' = [nlink EXCEPT ![cur[p]] = IF type[target[p]] = "T_DIR" THEN @ - 1 ELSE @],
           owner' = [owner EXCEPT ![cur[p]] = Nobody, ![target[p]] = p],
           Drops(p, <<cur[p]>>), UNCHANGED <<type, dotdot, refs, call, walk, target>>
    PROVE  DirInv'
<1>1. DirTypeOK /\ CallAt(p) /\ RefInv /\ ClaimInv /\ FreeInv /\ TreeInv
    BY DEF DirInv, CallInv
<1>2. PICK t, c, x : t = target[p] /\ c = cur[p] /\ x = FinalName(p)
    OBVIOUS
<1>3. /\ dpc[p] = "unlink" /\ dpc'[p] = "unlinked" /\ puts[p] = <<>> /\ puts'[p] = <<c>>
      /\ call[p] = "unlink" /\ call'[p] = call[p] /\ target'[p] = t
      /\ cwd'[p] = cwd[p] /\ file'[p] = file[p] /\ cur'[p] = c
      /\ c \in Node /\ t \in Node /\ type[c] = "T_DIR" /\ <<c>> \in Seq(Node)
      /\ owner[t] = Nobody
    BY <1>1, <1>2 DEF Ready, Goto, Drops, CanLock, DirTypeOK, CallAt, HasCur, HasTarget, refs, walk
<1>4. HasCur(p) /\ ~HasCur(p)' /\ HasTarget(p) /\ HasTarget(p)' /\ ~Linking(p)'
    BY <1>3 DEF HasCur, HasTarget, Linking
<1>5. Ref(p, "cur") = c /\ Ref(p, "target") = t
    BY <1>2, <1>4, RefIs
<1>6. x \in Name /\ entry[c][x] = t
    BY <1>2, <1>3 DEF DirInv, UnlinkInv, UnlinkAt
<1>7. owner[c] = p /\ c # t
    BY <1>2, <1>3, Basics DEF DirInv, OwnerInv, Holds
<1>8. UNCHANGED <<type, iref>> /\ owner' = [owner EXCEPT ![c] = Nobody, ![t] = p]
    BY <1>2 DEF refs
<1>9. \A m \in Node, y \in Name :
          entry'[m][y] = IF m = c /\ y = x THEN NoNode ELSE entry[m][y]
    BY <1>1, <1>2 DEF DirTypeOK
<1>10. \A m \in Node \ {c} : entry'[m] = entry[m] /\ nlink'[m] = nlink[m]
    BY <1>1, <1>2 DEF DirTypeOK
<1>11. nlink'[c] = (IF type[t] = "T_DIR" THEN nlink[c] - 1 ELSE nlink[c]) /\ nlink[c] \in 0..MaxNlink
    BY <1>1, <1>2, <1>3 DEF DirTypeOK
<1>12. Alone(p)
    BY <1>1 DEF Alone, Goto, Drops, DirTypeOK, refs, walk
<1>13. Moves(p, Swap("put1", "cur"))
    BY <1>2, <1>3, <1>4, PutCur
<1>14. RefInv'
    BY <1>1, <1>8, <1>12, <1>13, RefsMoved, AloneKeeps, SwapsPermute, SwapsAre
<1>15. \A m \in Node, y \in Name : Child(m, y)' =>
           Child(m, y) /\ entry'[m][y] = entry[m][y] /\ ~(m = c /\ y = x)
    BY <1>8, <1>9 DEF Child
<1>16. \A q \in Proc : Pending(q)' => q = p \/ (Pending(q) /\ target'[q] = target[q])
    BY <1>12, AloneKeeps DEF Alone
<1>17. ASSUME type[t] = "T_DIR" PROVE Cardinality(Claims(c)') <= nlink[c] - 1 /\ nlink[c] >= 1
    <2>1. PICK b : b = <<"dotdot", c, x>>
        OBVIOUS
    <2>2. b \in Claims(c)
        <3>1. Child(c, x)
            BY <1>3, <1>6, <1>17, Basics DEF Child
        <3> QED
            BY <1>3, <1>6, <2>1, <3>1, ClaimsAre
    <2>3. b \notin Claims(c)'
        <3>1. ~Child(c, x)'
            BY <1>3, <1>6, <1>15
        <3> QED
            BY <1>3, <1>6, <2>1, <3>1, ClaimsAreNext
    <2>4. ClaimsWithin(c, {})
        BY <1>3, <1>7, <1>9, <1>15, <1>16, Basics DEF ClaimsWithin
    <2> QED
        BY <1>1, <1>3, <2>2, <2>3, <2>4, ClaimsGone
<1>18. nlink'[c] \in 0..MaxNlink
    BY <1>11, <1>17, Basics
<1>19. DirTypeOK'
    <2>1. nlink' \in [Node -> 0..MaxNlink]
        <3>1. nlink' = [m \in Node |-> nlink'[m]]
            BY <1>1 DEF DirTypeOK
        <3>2. \A m \in Node : nlink'[m] \in 0..MaxNlink
            BY <1>1, <1>10, <1>18 DEF DirTypeOK
        <3> QED
            BY <3>1, <3>2
    <2>2. entry' \in [Node -> [Name -> Node \cup {NoNode}]]
        BY <1>1, <1>2, <1>3 DEF DirTypeOK
    <2>3. owner' \in [Node -> Proc \cup {Nobody}]
        BY <1>1, <1>8 DEF DirTypeOK
    <2>4. puts' \in [Proc -> Seq(Node)] /\ dpc' \in [Proc -> {"user", "walk", "parent", "found", "create",
                        "fill", "made", "old", "unlink", "unlinked", "undo", "return"}]
        BY <1>1, <1>2, <1>3 DEF Goto, Drops, DirTypeOK
    <2> QED
        BY <1>1, <1>8, <2>1, <2>2, <2>3, <2>4 DEF DirTypeOK, refs, walk
<1>20. ClaimInv'
    <2>1. Cardinality(Claims(t)') <= nlink'[t]
        <3>1. PICK a : a = <<"entry", c, x>>
            OBVIOUS
        <3>2. PICK b : b = <<"call", p, NoNode>>
            OBVIOUS
        <3>3. a \in Claims(t)
            BY <1>3, <1>6, <3>1, ClaimsAre
        <3>4. a \notin Claims(t)'
            BY <1>3, <1>6, <1>9, <3>1, Basics DEF Claims
        <3>5. ClaimsWithin(t, {b})
            BY <1>3, <1>9, <1>15, <1>16, <3>2, Basics DEF ClaimsWithin
        <3>6. Cardinality(Claims(t)') <= nlink[t]
            BY <1>1, <1>3, <3>3, <3>4, <3>5, ClaimsSwapped
        <3> QED
            BY <1>3, <1>7, <1>10, <3>6
    <2>2. ASSUME NEW m \in Node \ {t} PROVE ClaimsWithin(m, {})
        BY <1>3, <1>9, <1>15, <1>16, Basics DEF ClaimsWithin
    <2>3. Cardinality(Claims(c)') <= nlink'[c]
        <3>1. CASE type[t] = "T_DIR"
            BY <1>11, <1>17, <3>1
        <3>2. CASE type[t] # "T_DIR"
            BY <1>1, <1>3, <1>7, <1>11, <2>2, <3>2, ClaimsSame
        <3> QED
            BY <3>1, <3>2
    <2>4. ASSUME NEW m \in Node \ {c, t} PROVE Cardinality(Claims(m)') <= nlink'[m]
        BY <1>1, <1>10, <2>2, ClaimsSame
    <2> QED
        BY <2>1, <2>3, <2>4 DEF ClaimInv
<1>21. FreeInv'
    <2> SUFFICES ASSUME NEW m \in Node, type[m] = "free"
                 PROVE  iref[m] = 0 /\ nlink'[m] = 0 /\ entry'[m] = NoEntries
        BY <1>8 DEF FreeInv, NoEntries
    <2> QED
        BY <1>1, <1>3, <1>10 DEF FreeInv
<1>22. TreeInv'
    <2>1. ASSUME NEW m \in Node, type'[m] # "T_DIR" PROVE entry'[m] = NoEntries
        BY <1>1, <1>3, <1>8, <1>10, <2>1 DEF TreeInv
    <2>2. ASSUME NEW m \in Node, NEW k \in Node, NEW y \in Name, NEW z \in Name,
                 Child(m, y)', entry'[m][y] = entry'[k][z]
          PROVE  m = k /\ y = z
        <3>1. Child(m, y) /\ entry'[m][y] = entry[m][y] /\ entry[m][y] # NoNode
            BY <1>15, <2>2 DEF Child
        <3>2. entry'[k][z] = entry[k][z]
            BY <1>9, <2>2, <3>1
        <3>3. entry[m][y] = entry[k][z]
            BY <2>2, <3>1, <3>2
        <3> QED
            BY <1>1, <3>1, <3>3 DEF TreeInv
    <2> QED
        BY <2>1, <2>2 DEF TreeInv, NoEntries
<1>23. RankInv'
    <2>1. PICK rank \in [Node -> Nat] :
              \A m \in Node : \A y \in Name : Child(m, y) => rank[m] < rank[entry[m][y]]
        BY DEF DirInv, RankInv
    <2>2. \A m \in Node : \A y \in Name : Child(m, y)' => rank[m] < rank[entry'[m][y]]
        BY <1>15, <2>1
    <2> QED
        BY <2>2 DEF RankInv
<1>24. CallInv'
    <2>1. CallAt(p)'
        BY <1>1, <1>2, <1>3, <1>4, Basics, Lengths DEF CallAt
    <2> QED
        BY <1>8, <1>12, <2>1, OthersCalls
<1>25. FillInv'
    <2>1. AvoidsNew(p)
        BY <1>13, MovesAvoid, SwapsPermute, SwapsAre
    <2>2. PICK S : S = {c}
        OBVIOUS
    <2>3. \A m \in S : \E k \in Kind : Ref(p, k) = m
        BY <1>5, <2>2, SwapsAre
    <2>4. \A m \in Node \ S : nlink'[m] = nlink[m] /\ entry'[m] = entry[m]
        BY <1>10, <2>2
    <2>5. UNCHANGED type /\ dpc'[p] # "fill"
        BY <1>3, <1>8
    <2> QED
        BY <1>12, <2>1, <2>3, <2>4, <2>5, OthersFillElsewhere
<1>26. UnlinkInv'
    BY <1>3, <1>7, <1>10, <1>12, OthersUnlinkElsewhere
<1>27. OwnerInv'
    <2>1. \A m \in Node : owner'[m] = owner[m] \/ (owner[m] \in {p, Nobody} /\ owner'[m] \in {p, Nobody})
        BY <1>1, <1>3, <1>7, <1>8 DEF DirTypeOK
    <2>2. \A m \in Node : owner'[m] = p <=> m = t
        <3>1. \A m \in Node : owner[m] = p => m = c
            BY <1>2, <1>3 DEF DirInv, OwnerInv, Holds
        <3> QED
            <4>1. owner'[c] = Nobody /\ owner'[t] = p /\ \A m \in Node \ {c, t} : owner'[m] = owner[m]
                <5>1. owner = [m \in Node |-> owner[m]]
                    BY <1>1 DEF DirTypeOK
                <5>2. c \in Node /\ t \in Node /\ c # t
                    BY <1>3, <1>7
                <5> QED
                    BY <1>8, <5>1, <5>2
            <4> QED
                BY <3>1, <4>1, Basics
    <2>3. \A m \in Node : Holds(p, m)' <=> m = t
        BY <1>3 DEF Holds
    <2> QED
        BY <1>12, <1>19, <2>1, <2>2, <2>3, OthersOwn
<1> QED
    BY <1>14, <1>19, <1>20, <1>21, <1>22, <1>23, <1>24, <1>25, <1>26, <1>27 DEF DirInv

LEMMA UnlinkErasesStep ==
    ASSUME DirInv, NEW p \in Proc, UnlinkErases(p)
    PROVE  DirInv'
<1>1. CASE /\ Goto(p, "unlinked")
           /\ entry' = [entry EXCEPT ![cur[p]][FinalName(p)] = NoNode]
           /\ nlink' = [nlink EXCEPT ![cur[p]] = IF type[target[p]] = "T_DIR" THEN @ - 1 ELSE @]
           /\ owner' = [owner EXCEPT ![cur[p]] = Nobody, ![target[p]] = p]
           /\ Drops(p, <<cur[p]>>)
    BY <1>1, UnlinkRemoves DEF UnlinkErases
<1>2. CASE /\ Goto(p, "return") /\ Unlocks(cur[p]) /\ Drops(p, <<target[p], cur[p]>>)
           /\ UNCHANGED <<entry, nlink>>
    <2>1. UNCHANGED <<inodes, refs, call, walk, target>>
        BY <1>2 DEF UnlinkErases, inodes
    <2> QED
        BY <1>2, <2>1, UnlinkRefuses DEF UnlinkErases
<1> QED
    BY <1>1, <1>2 DEF UnlinkErases

(* The last of unlink(), and of a link() that fails                        *)
LEMMA UncountsLink ==
    ASSUME DirInv, NEW p \in Proc, puts[p] = <<>>, dpc[p] \in {"unlinked", "undo"}, Goto(p, "return"),
           nlink' = [nlink EXCEPT ![target[p]] = @ - 1],
           Drops(p, <<target[p]>>), UNCHANGED <<type, entry, dotdot, refs, call, walk, target>>,
           owner' \in [Node -> Proc \cup {Nobody}],
           owner' # owner => \A m \in Node :
              owner'[m] = owner[m] \/ (owner[m] \in {p, Nobody} /\ owner'[m] \in {p, Nobody}),
           \A m \in Node : owner'[m] # p
    PROVE  DirInv'
<1>1. DirTypeOK /\ CallAt(p) /\ RefInv /\ ClaimInv /\ FreeInv /\ TreeInv
    BY DEF DirInv, CallInv
<1>2. PICK t : t = target[p]
    OBVIOUS
<1>3. /\ dpc'[p] = "return" /\ puts'[p] = <<t>> /\ target'[p] = t
      /\ cwd'[p] = cwd[p] /\ file'[p] = file[p] /\ t \in Node /\ <<t>> \in Seq(Node)
    BY <1>1, <1>2 DEF Goto, Drops, DirTypeOK, CallAt, HasTarget, refs
<1>4. HasTarget(p) /\ Pending(p)
    BY DEF HasTarget, Pending
<1>5. CallAt(p)' /\ ~Pending(p)' /\ ~HasCur(p)' /\ ~HasTarget(p)'
    BY <1>3, Returns, Lengths
<1>6. UNCHANGED <<type, entry, iref>>
    BY DEF refs
<1>7. Alone(p)
    BY <1>1 DEF Alone, Goto, Drops, DirTypeOK, refs, walk
<1>8. Moves(p, Swap("put1", "target"))
    BY <1>2, <1>3, <1>4, <1>5, PutTarget
<1>9. RefInv' /\ AvoidsNew(p)
    BY <1>1, <1>6, <1>7, <1>8, RefsMoved, AloneKeeps, MovesAvoid, SwapsPermute, SwapsAre
<1>10. \A q \in Proc : Pending(q)' => Pending(q) /\ target'[q] = target[q]
    BY <1>5, <1>7, AloneKeeps DEF Alone
<1>11. \A m \in Node : ClaimsWithin(m, {})
    BY <1>6, <1>10 DEF ClaimsWithin, Child
<1>12. Cardinality(Claims(t)') <= nlink[t] - 1 /\ nlink[t] >= 1
    <2>1. PICK b : b = <<"call", p, NoNode>>
        OBVIOUS
    <2>2. b \in Claims(t) /\ b \notin Claims(t)'
        BY <1>2, <1>4, <1>5, <2>1, ClaimsAre, ClaimsAreNext
    <2> QED
        BY <1>1, <1>3, <1>11, <2>2, ClaimsGone
<1>13. nlink'[t] = nlink[t] - 1 /\ \A m \in Node \ {t} : nlink'[m] = nlink[m]
    BY <1>1, <1>2, <1>3 DEF DirTypeOK
<1>14. DirTypeOK'
    <2>1. nlink' \in [Node -> 0..MaxNlink]
        <3>1. nlink' = [m \in Node |-> nlink'[m]]
            BY <1>1 DEF DirTypeOK
        <3>2. nlink[t] \in 0..MaxNlink /\ nlink'[t] \in 0..MaxNlink
            BY <1>1, <1>3, <1>12, <1>13, Basics DEF DirTypeOK
        <3>3. \A m \in Node : nlink'[m] \in 0..MaxNlink
            BY <1>1, <1>13, <3>2 DEF DirTypeOK
        <3> QED
            BY <3>1, <3>3
    <2>2. puts' \in [Proc -> Seq(Node)] /\ dpc' \in [Proc -> {"user", "walk", "parent", "found", "create",
                        "fill", "made", "old", "unlink", "unlinked", "undo", "return"}]
        BY <1>1, <1>2, <1>3 DEF Goto, Drops, DirTypeOK
    <2> QED
        BY <1>1, <2>1, <2>2 DEF DirTypeOK, refs, walk
<1>15. ClaimInv'
    <2>1. ASSUME NEW m \in Node \ {t} PROVE Cardinality(Claims(m)') <= nlink'[m]
        BY <1>1, <1>11, <1>13, ClaimsSame
    <2> QED
        BY <1>12, <1>13, <2>1 DEF ClaimInv
<1>16. FreeInv'
    <2> SUFFICES ASSUME NEW m \in Node, type[m] = "free"
                 PROVE  iref[m] = 0 /\ nlink'[m] = 0 /\ entry[m] = NoEntries
        BY <1>6 DEF FreeInv, NoEntries
    <2>1. m # t
        BY <1>12 DEF DirInv, FreeInv
    <2> QED
        BY <1>1, <1>13, <2>1 DEF FreeInv
<1>17. TreeInv'
    BY <1>1, <1>6 DEF TreeInv, Child, NoEntries
<1>18. RankInv'
    <2>1. PICK rank \in [Node -> Nat] :
              \A m \in Node : \A y \in Name : Child(m, y) => rank[m] < rank[entry[m][y]]
        BY DEF DirInv, RankInv
    <2>2. \A m \in Node : \A y \in Name : Child(m, y)' => rank[m] < rank[entry'[m][y]]
        BY <1>6, <2>1 DEF Child
    <2> QED
        BY <2>2 DEF RankInv
<1>19. CallInv'
    BY <1>5, <1>6, <1>7, OthersCalls
<1>20. FillInv'
    <2>1. PICK S : S = {t}
        OBVIOUS
    <2>2. \A m \in S : \E k \in Kind : Ref(p, k) = m
        BY <1>2, <1>4, <2>1, RefIs, SwapsAre
    <2>3. \A m \in Node \ S : nlink'[m] = nlink[m] /\ entry'[m] = entry[m]
        BY <1>6, <1>13, <2>1
    <2>4. UNCHANGED type /\ dpc'[p] # "fill"
        BY <1>3, <1>6
    <2> QED
        BY <1>7, <1>9, <2>2, <2>3, <2>4, OthersFillElsewhere
<1>21. UnlinkInv'
    BY <1>3, <1>6, <1>7, OthersUnlink
<1>22. OwnerInv'
    <2>1. \A m \in Node : owner'[m] = p <=> Holds(p, m)'
        BY <1>3 DEF Holds
    <2> QED
        BY <1>7, <1>14, <2>1, OthersOwn
<1> QED
    BY <1>9, <1>14, <1>15, <1>16, <1>17, <1>18, <1>19, <1>20, <1>21, <1>22 DEF DirInv

LEMMA UnlinkEndsStep ==
    ASSUME DirInv, NEW p \in Proc, UnlinkEnds(p)
    PROVE  DirInv'
<1>1. DirTypeOK /\ CallAt(p)
    BY DEF DirInv, CallInv
<1>2. PICK t : t = target[p]
    OBVIOUS
<1>3. dpc[p] = "unlinked" /\ puts[p] = <<>> /\ owner' = [owner EXCEPT ![t] = Nobody] /\ t \in Node
    BY <1>1, <1>2 DEF UnlinkEnds, Step, Ready, Unlocks, CallAt, HasTarget, DirTypeOK
<1>4. owner[t] = p /\ \A m \in Node \ {t} : owner[m] # p
    BY <1>2, <1>3 DEF DirInv, OwnerInv, Holds
<1>5. \A m \in Node : owner'[m] = owner[m] \/ (owner[m] \in {p, Nobody} /\ owner'[m] \in {p, Nobody})
    BY <1>1, <1>3, <1>4 DEF DirTypeOK
<1>6. \A m \in Node : owner'[m] # p
    BY <1>1, <1>3, <1>4, Basics DEF DirTypeOK
<1>7. owner' \in [Node -> Proc \cup {Nobody}]
    BY <1>1, <1>3 DEF DirTypeOK
<1> QED
    BY <1>3, <1>5, <1>6, <1>7, UncountsLink DEF UnlinkEnds, Step

LEMMA LinkTakenBackStep ==
    ASSUME DirInv, NEW p \in Proc, LinkTakenBack(p)
    PROVE  DirInv'
<1>1. dpc[p] = "undo" /\ puts[p] = <<>> /\ owner' = owner
    BY DEF LinkTakenBack, Step, Ready
<1>2. \A m \in Node : owner'[m] # p
    BY <1>1 DEF DirInv, OwnerInv, Holds
<1>3. owner' \in [Node -> Proc \cup {Nobody}]
    BY <1>1 DEF DirInv, DirTypeOK
<1> QED
    BY <1>1, <1>2, <1>3, UncountsLink DEF LinkTakenBack, Step

(* link() counts the link before it makes the entry.                       *)
LEMMA LinkCounts ==
    ASSUME NoDotdot, DirInv, NEW p \in Proc, Ready(p, "found"), call[p] = "link", CanLock(cur[p]),
           type[cur[p]] # "T_DIR", nlink[cur[p]] < MaxNlink,
           nlink' = [nlink EXCEPT ![cur[p]] = @ + 1], target' = [target EXCEPT ![p] = cur[p]],
           GetInode(Start(p, request[p].root2)),
           cur' = [cur EXCEPT ![p] = Start(p, request[p].root2)],
           path' = [path EXCEPT ![p] = request[p].path2], call' = [call EXCEPT ![p] = "link2"],
           Goto(p, "walk"), UNCHANGED puts,
           UNCHANGED <<type, entry, dotdot, cwd, file, owner, request>>
    PROVE  DirInv'
<1>1. DirTypeOK /\ CallAt(p) /\ RefInv /\ ClaimInv /\ FreeInv /\ TreeInv
    BY DEF DirInv, CallInv
<1>2. PICK r : r = request[p]
    OBVIOUS
<1>3. PICK t, m : t = cur[p] /\ m = Start(p, r.root2)
    OBVIOUS
<1>4. r \in Request /\ r.path2 \in Seq(Element) /\ r.root2 \in BOOLEAN
    BY <1>1, <1>2, DirectoryAssumption DEF CallAt, Ready
<1>5. m \in Node /\ NotFilled(p, m)
    BY <1>3, <1>4, StartNotFilled DEF NotFilled
<1>6. /\ dpc[p] = "found" /\ dpc'[p] = "walk" /\ puts[p] = <<>> /\ puts'[p] = <<>>
      /\ call[p] = "link" /\ call'[p] = "link2" /\ target'[p] = t /\ cur'[p] = m
      /\ path'[p] = r.path2 /\ cwd'[p] = cwd[p] /\ file'[p] = file[p]
      /\ t \in Node /\ type[t] = "T_FILE" /\ nlink[t] < MaxNlink
      /\ iref' = [iref EXCEPT ![m] = @ + 1]
    BY <1>1, <1>2, <1>3 DEF Ready, Goto, CanLock, GetInode, DirTypeOK, CallAt, HasCur
<1>7. HasCur(p) /\ HasCur(p)' /\ ~HasTarget(p) /\ HasTarget(p)' /\ Linking(p)' /\ ~Pending(p)
    BY <1>6 DEF HasCur, HasTarget, Pending, Linking
<1>8. Alone(p)
    BY <1>1 DEF Alone, Goto, DirTypeOK
<1>9. CallAt(p)'
    <2>1. \A i \in 1..Len(r.path2) : r.path2[i] = ".." => i = Len(r.path2)
        BY <1>4 DEF NoDotdot
    <2>2. Len(<<>>) <= 2
        BY Lengths
    <2> QED
        BY <1>5, <1>6, <1>7, <2>1, <2>2, Basics DEF CallAt
<1>10. Takes(p, Swap("target", "cur"), "cur", m)
    <2>1. /\ Ref(p, "cwd")' = Ref(p, "cwd") /\ Ref(p, "file")' = Ref(p, "file")
          /\ Ref(p, "put1")' = NoNode /\ Ref(p, "put2")' = NoNode
        BY <1>6, Puts, RefIsNext, RefIs
    <2>2. Ref(p, "cur")' = m
        BY <1>6, <1>7, RefIsNext
    <2>3. Ref(p, "target")' = Ref(p, "cur")
        BY <1>3, <1>6, <1>7, RefIsNext, RefIs
    <2>4. PICK f : f = Swap("target", "cur")
        OBVIOUS
    <2>5. /\ f["cwd"] = "cwd" /\ f["file"] = "file" /\ f["target"] = "cur"
          /\ f["put1"] = "put1" /\ f["put2"] = "put2"
        BY <2>4, SwapsAre
    <2> QED
        BY <2>1, <2>2, <2>3, <2>4, <2>5, MovesIs
<1>11. Permutes(Swap("target", "cur")) /\ "cur" \in Kind
    BY SwapsPermute, SwapsAre
<1>12. RefInv'
    BY <1>1, <1>5, <1>6, <1>8, <1>10, <1>11, RefsTaken, AloneKeeps
<1>13. AvoidsNew(p)
    BY <1>5, <1>10, <1>11, TakesAvoid
<1>14. nlink'[t] = nlink[t] + 1 /\ nlink[t] \in 0..MaxNlink /\ \A n \in Node \ {t} : nlink'[n] = nlink[n]
    BY <1>1, <1>3, <1>6 DEF DirTypeOK
<1>15. DirTypeOK'
    <2>1. nlink' \in [Node -> 0..MaxNlink]
        <3>1. nlink' = [n \in Node |-> nlink'[n]]
            BY <1>1 DEF DirTypeOK
        <3>2. nlink'[t] \in 0..MaxNlink
            BY <1>6, <1>14, Basics
        <3>3. \A n \in Node : nlink'[n] \in 0..MaxNlink
            BY <1>1, <1>14, <3>2 DEF DirTypeOK
        <3> QED
            BY <3>1, <3>3
    <2>2. /\ dpc' \in [Proc -> {"user", "walk", "parent", "found", "create",
                        "fill", "made", "old", "unlink", "unlinked", "undo", "return"}]
          /\ call' \in [Proc -> {"open", "creat", "mkdir", "chdir", "unlink", "link", "link2"}]
          /\ path' \in [Proc -> Seq(Element)]
        BY <1>1, <1>2, <1>4 DEF Goto, DirTypeOK
    <2>3. /\ cur' \in [Proc -> Node \cup {NoNode}] /\ target' \in [Proc -> Node \cup {NoNode}]
          /\ iref' \in [Node -> Nat]
        BY <1>1, <1>2, <1>3, <1>5, <1>6 DEF DirTypeOK
    <2> QED
        BY <1>1, <2>1, <2>2, <2>3 DEF DirTypeOK
<1>16. ClaimInv'
    <2>1. \A q \in Proc \ {p} : Pending(q)' => Pending(q) /\ target'[q] = target[q]
        BY <1>8, AloneKeeps DEF Alone
    <2>2. PICK b : b = <<"call", p, NoNode>>
        OBVIOUS
    <2>3. ClaimsWithin(t, {b})
        BY <2>1, <2>2 DEF ClaimsWithin, Child
    <2>4. ASSUME NEW n \in Node \ {t} PROVE ClaimsWithin(n, {})
        BY <1>6, <2>1 DEF ClaimsWithin, Child
    <2>5. Cardinality(Claims(t)') <= nlink'[t]
        BY <1>1, <1>6, <1>14, <2>3, ClaimsMore
    <2>6. ASSUME NEW n \in Node \ {t} PROVE Cardinality(Claims(n)') <= nlink'[n]
        BY <1>1, <1>14, <2>4, ClaimsSame
    <2> QED
        BY <2>5, <2>6 DEF ClaimInv
<1>17. FreeInv'
    <2> SUFFICES ASSUME NEW n \in Node, type[n] = "free"
                 PROVE  iref'[n] = 0 /\ nlink'[n] = 0 /\ entry[n] = NoEntries
        BY DEF FreeInv, NoEntries
    <2>1. n # t /\ n # m
        BY <1>5, <1>6 DEF NotFilled
    <2>2. iref'[n] = iref[n]
        BY <1>1, <1>6, <2>1 DEF DirTypeOK
    <2> QED
        BY <1>1, <1>14, <2>1, <2>2 DEF FreeInv
<1>18. TreeInv'
    BY <1>1 DEF TreeInv, Child, NoEntries
<1>19. RankInv'
    <2>1. PICK rank \in [Node -> Nat] :
              \A n \in Node : \A y \in Name : Child(n, y) => rank[n] < rank[entry[n][y]]
        BY DEF DirInv, RankInv
    <2>2. \A n \in Node : \A y \in Name : Child(n, y)' => rank[n] < rank[entry'[n][y]]
        BY <2>1 DEF Child
    <2> QED
        BY <2>2 DEF RankInv
<1>20. CallInv'
    BY <1>8, <1>9, OthersCalls
<1>21. FillInv'
    <2>1. PICK S : S = {t}
        OBVIOUS
    <2>2. \A n \in S : \E k \in Kind : Ref(p, k) = n
        BY <1>3, <1>7, <2>1, RefIs, SwapsAre
    <2>3. \A n \in Node \ S : nlink'[n] = nlink[n] /\ entry'[n] = entry[n]
        BY <1>14, <2>1
    <2>4. dpc'[p] # "fill"
        BY <1>6
    <2> QED
        BY <1>8, <1>13, <2>2, <2>3, <2>4, OthersFillElsewhere
<1>22. UnlinkInv'
    BY <1>6, <1>8, OthersUnlink
<1>23. OwnerInv'
    <2>1. \A n \in Node : owner'[n] = p <=> Holds(p, n)'
        BY <1>6 DEF DirInv, OwnerInv, Holds
    <2> QED
        BY <1>8, <1>15, <2>1, OthersOwn
<1> QED
    BY <1>12, <1>15, <1>16, <1>17, <1>18, <1>19, <1>20, <1>21, <1>22, <1>23 DEF DirInv

LEMMA LinkFoundStep ==
    ASSUME NoDotdot, DirInv, NEW p \in Proc, LinkFound(p)
    PROVE  DirInv'
<1>1. CASE /\ Goto(p, "return") /\ Drops(p, <<cur[p]>>)
           /\ UNCHANGED <<nlink, iref, call, path, cur, target>>
    <2>1. DirTypeOK /\ CallAt(p)
        BY DEF DirInv, CallInv
    <2>2. /\ dpc[p] = "found" /\ dpc'[p] = "return" /\ puts[p] = <<>> /\ puts'[p] = <<cur[p]>>
          /\ target'[p] = target[p] /\ cwd'[p] = cwd[p] /\ file'[p] = file[p] /\ call[p] = "link"
          /\ cur[p] \in Node /\ <<cur[p]>> \in Seq(Node)
        BY <1>1, <2>1 DEF LinkFound, Ready, Goto, Drops, DirTypeOK, CallAt, HasCur
    <2>3. /\ UNCHANGED <<type, nlink, entry, owner, iref>>
          /\ UNCHANGED <<dotdot, cwd, file, call, request, path, cur, target>>
        BY <1>1 DEF LinkFound
    <2>4. Alone(p)
        BY <1>1, <2>1, <2>3 DEF Alone, Goto, Drops, DirTypeOK
    <2>5. DirTypeOK'
        BY <1>1, <2>1, <2>2, <2>3 DEF Goto, Drops, DirTypeOK
    <2>6. CallAt(p)' /\ ~Pending(p)' /\ ~HasCur(p)' /\ ~HasTarget(p)'
        BY <2>2, Returns, Lengths
    <2>7. Moves(p, Swap("put1", "cur"))
        <3> HasCur(p)
            BY <2>2 DEF HasCur
        <3> QED
            BY <2>2, <2>6, PutCur
    <2> QED
        BY <2>2, <2>3, <2>4, <2>5, <2>6, <2>7, QuietMoves, SwapsPermute, SwapsAre
<1>2. CASE /\ type[cur[p]] # "T_DIR" /\ nlink[cur[p]] < MaxNlink
           /\ nlink' = [nlink EXCEPT ![cur[p]] = @ + 1]
           /\ target' = [target EXCEPT ![p] = cur[p]]
           /\ GetInode(Start(p, request[p].root2))
           /\ cur' = [cur EXCEPT ![p] = Start(p, request[p].root2)]
           /\ path' = [path EXCEPT ![p] = request[p].path2]
           /\ call' = [call EXCEPT ![p] = "link2"]
           /\ Goto(p, "walk") /\ UNCHANGED puts
    BY <1>2, LinkCounts DEF LinkFound
<1> QED
    BY <1>1, <1>2 DEF LinkFound

(* The entry takes over the link that was counted.                         *)
LEMMA LinkEnters ==
    ASSUME DirInv, NEW p \in Proc, Ready(p, "parent"), call[p] = "link2", CanLock(cur[p]),
           Dirlookup(cur[p], FinalName(p)) = NoNode,
           entry' = [entry EXCEPT ![cur[p]][FinalName(p)] = target[p]],
           Goto(p, "return"), Drops(p, <<cur[p], target[p]>>),
           UNCHANGED <<type, nlink, dotdot, refs, owner, call, walk, target>>
    PROVE  DirInv'
<1>1. DirTypeOK /\ CallAt(p) /\ RefInv /\ ClaimInv /\ FreeInv /\ TreeInv
    BY DEF DirInv, CallInv
<1>2. PICK t, c, x : t = target[p] /\ c = cur[p] /\ x = FinalName(p)
    OBVIOUS
<1>3. HasCur(p) /\ HasTarget(p) /\ Linking(p) /\ Pending(p)
    BY DEF Ready, HasCur, HasTarget, Linking, Pending
<1>4. /\ dpc[p] = "parent" /\ dpc'[p] = "return" /\ puts[p] = <<>> /\ puts'[p] = <<c, t>>
      /\ target'[p] = t /\ cwd'[p] = cwd[p] /\ file'[p] = file[p]
      /\ c \in Node /\ t \in Node /\ <<c, t>> \in Seq(Node)
      /\ type[c] = "T_DIR" /\ type[t] = "T_FILE" /\ c # t /\ owner[c] = Nobody
    BY <1>1, <1>2, <1>3 DEF Ready, Goto, Drops, CanLock, DirTypeOK, CallAt, refs
<1>5. CallAt(p)' /\ ~Pending(p)' /\ ~HasCur(p)' /\ ~HasTarget(p)'
    BY <1>4, Returns, Lengths
<1>6. UNCHANGED iref
    BY DEF refs
<1>7. Alone(p)
    BY <1>1 DEF Alone, Goto, Drops, DirTypeOK, refs, walk
<1>8. \A m \in Node, y \in Name :
          entry'[m][y] = IF m = c /\ y = x THEN t ELSE entry[m][y]
    BY <1>1, <1>2 DEF DirTypeOK
<1>9. \A m \in Node \ {c} : entry'[m] = entry[m]
    BY <1>1, <1>2 DEF DirTypeOK
<1>10. x \in Name => entry[c][x] = NoNode
    BY <1>2, Basics DEF Dirlookup
<1>11. DirTypeOK'
    <2>1. entry' \in [Node -> [Name -> Node \cup {NoNode}]]
        BY <1>1, <1>2, <1>4 DEF DirTypeOK
    <2>2. puts' \in [Proc -> Seq(Node)] /\ dpc' \in [Proc -> {"user", "walk", "parent", "found", "create",
                        "fill", "made", "old", "unlink", "unlinked", "undo", "return"}]
        BY <1>1, <1>2, <1>4 DEF Goto, Drops, DirTypeOK
    <2> QED
        BY <1>1, <2>1, <2>2 DEF DirTypeOK, refs, walk
<1>12. Moves(p, Swap2("put2", "cur", "put1", "target"))
    <2> Put1(<<c, t>>) = t /\ Put2(<<c, t>>) = c
        BY Puts
    <2>1. /\ Ref(p, "cwd")' = Ref(p, "cwd") /\ Ref(p, "file")' = Ref(p, "file")
          /\ Ref(p, "put1")' = Ref(p, "target") /\ Ref(p, "put2")' = Ref(p, "cur")
        BY <1>2, <1>3, <1>4, RefIsNext, RefIs
    <2>2. Ref(p, "cur")' = NoNode /\ Ref(p, "target")' = NoNode
        BY <1>5, RefIsNext
    <2>3. PICK f : f = Swap2("put2", "cur", "put1", "target")
        OBVIOUS
    <2>4. /\ f["cwd"] = "cwd" /\ f["file"] = "file" /\ f["cur"] = "put2"
          /\ f["target"] = "put1" /\ f["put1"] = "target" /\ f["put2"] = "cur"
        BY <2>3, SwapsAre
    <2> QED
        BY <2>1, <2>2, <2>3, <2>4, MovesIs
<1>13. RefInv' /\ AvoidsNew(p)
    BY <1>1, <1>6, <1>7, <1>12, RefsMoved, AloneKeeps, MovesAvoid, SwapsPermute
<1>14. \A m \in Node, y \in Name : Child(m, y)' =>
           Child(m, y) /\ entry'[m][y] = entry[m][y] /\ entry'[m][y] # t
    BY <1>4, <1>8 DEF Child
<1>15. \A q \in Proc : Pending(q)' => Pending(q) /\ target'[q] = target[q]
    BY <1>5, <1>7, AloneKeeps DEF Alone
<1>16. ClaimInv'
    <2>1. Cardinality(Claims(t)') <= nlink[t]
        <3>1. PICK a, b : a = <<"entry", c, x>> /\ b = <<"call", p, NoNode>>
            OBVIOUS
        <3>2. b \in Claims(t) /\ b \notin Claims(t)'
            BY <1>2, <1>3, <1>5, <3>1, ClaimsAre, ClaimsAreNext
        <3>3. ClaimsWithin(t, {a})
            BY <1>4, <1>8, <1>14, <1>15, <3>1 DEF ClaimsWithin
        <3> QED
            BY <1>1, <1>4, <3>2, <3>3, ClaimsSwapped
    <2>2. ASSUME NEW m \in Node \ {t} PROVE Cardinality(Claims(m)') <= nlink[m]
        <3>1. ClaimsWithin(m, {})
            BY <1>4, <1>8, <1>14, <1>15 DEF ClaimsWithin
        <3> QED
            BY <1>1, <3>1, ClaimsSame
    <2> QED
        BY <2>1, <2>2 DEF ClaimInv
<1>17. FreeInv'
    BY <1>1, <1>4, <1>6, <1>9 DEF FreeInv, NoEntries
<1>18. TreeInv'
    <2>1. ASSUME NEW m \in Node, type'[m] # "T_DIR" PROVE entry'[m] = NoEntries
        BY <1>1, <1>4, <1>9, <2>1 DEF TreeInv
    <2>2. ASSUME NEW m \in Node, NEW k \in Node, NEW y \in Name, NEW z \in Name,
                 Child(m, y)', entry'[m][y] = entry'[k][z]
          PROVE  m = k /\ y = z
        <3>1. Child(m, y) /\ entry'[m][y] = entry[m][y] /\ entry'[m][y] # t
            BY <1>14, <2>2
        <3>2. entry'[k][z] = entry[k][z]
            BY <1>8, <2>2, <3>1
        <3>3. entry[m][y] = entry[k][z]
            BY <2>2, <3>1, <3>2
        <3> QED
            BY <1>1, <3>1, <3>3 DEF TreeInv
    <2> QED
        BY <2>1, <2>2 DEF TreeInv, NoEntries
<1>19. RankInv'
    <2>1. PICK rank \in [Node -> Nat] :
              \A m \in Node : \A y \in Name : Child(m, y) => rank[m] < rank[entry[m][y]]
        BY DEF DirInv, RankInv
    <2>2. \A m \in Node : \A y \in Name : Child(m, y)' => rank[m] < rank[entry'[m][y]]
        BY <1>14, <2>1
    <2> QED
        BY <2>2 DEF RankInv
<1>20. CallInv'
    BY <1>5, <1>7, OthersCalls
<1>21. FillInv'
    <2>1. PICK S : S = {c}
        OBVIOUS
    <2>2. \A m \in S : \E k \in Kind : Ref(p, k) = m
        BY <1>2, <1>3, <2>1, RefIs, SwapsAre
    <2>3. \A m \in Node \ S : nlink'[m] = nlink[m] /\ entry'[m] = entry[m]
        BY <1>9, <2>1
    <2>4. UNCHANGED type /\ dpc'[p] # "fill"
        BY <1>4
    <2> QED
        BY <1>7, <1>13, <2>2, <2>3, <2>4, OthersFillElsewhere
<1>22. UnlinkInv'
    BY <1>4, <1>7, <1>9, OthersUnlinkElsewhere
<1>23. OwnerInv'
    <2>1. \A m \in Node : owner'[m] = p <=> Holds(p, m)'
        BY <1>4 DEF DirInv, OwnerInv, Holds
    <2> QED
        BY <1>7, <1>11, <2>1, OthersOwn
<1> QED
    BY <1>11, <1>13, <1>16, <1>17, <1>18, <1>19, <1>20, <1>21, <1>22, <1>23 DEF DirInv

LEMMA LinkMakesStep ==
    ASSUME DirInv, NEW p \in Proc, LinkMakes(p)
    PROVE  DirInv'
<1>1. CASE /\ Dirlookup(cur[p], FinalName(p)) = NoNode
           /\ entry' = [entry EXCEPT ![cur[p]][FinalName(p)] = target[p]]
           /\ Goto(p, "return") /\ Drops(p, <<cur[p], target[p]>>)
    BY <1>1, LinkEnters DEF LinkMakes
<1>2. CASE Goto(p, "undo") /\ Drops(p, <<cur[p]>>) /\ UNCHANGED entry
    <2>1. DirTypeOK /\ CallAt(p)
        BY DEF DirInv, CallInv
    <2>2. /\ dpc[p] = "parent" /\ dpc'[p] = "undo" /\ puts[p] = <<>> /\ puts'[p] = <<cur[p]>>
          /\ target'[p] = target[p] /\ cwd'[p] = cwd[p] /\ file'[p] = file[p]
          /\ call[p] = "link2" /\ call'[p] = "link2"
        BY <1>2, <2>1 DEF LinkMakes, Ready, Goto, Drops, DirTypeOK, refs
    <2>3. HasCur(p) /\ HasTarget(p) /\ Linking(p) /\ Pending(p)
        BY <2>2 DEF HasCur, HasTarget, Linking, Pending
    <2>4. ~HasCur(p)' /\ HasTarget(p)' /\ ~Linking(p)'
        BY <2>2 DEF HasCur, HasTarget, Linking
    <2>5. cur[p] \in Node /\ <<cur[p]>> \in Seq(Node)
        BY <2>1, <2>3 DEF DirTypeOK, CallAt
    <2>6. /\ UNCHANGED <<type, nlink, entry, owner, iref>>
          /\ UNCHANGED <<dotdot, cwd, file, call, request, path, cur, target>>
        BY <1>2 DEF LinkMakes, refs, walk
    <2>7. Alone(p)
        BY <1>2, <2>1, <2>6 DEF Alone, Goto, Drops, DirTypeOK
    <2>8. DirTypeOK'
        BY <1>2, <2>1, <2>5, <2>6 DEF Goto, Drops, DirTypeOK
    <2>9. CallAt(p)'
        BY <2>1, <2>2, <2>3, <2>4, <2>6, Lengths DEF CallAt
    <2>10. Moves(p, Swap("put1", "cur"))
        BY <2>2, <2>3, <2>4, PutCur
    <2> QED
        BY <2>2, <2>3, <2>6, <2>7, <2>8, <2>9, <2>10, QuietMoves, SwapsPermute, SwapsAre
<1> QED
    BY <1>1, <1>2 DEF LinkMakes

-----------------------------------------------------------------------------
(* iput()                                                                  *)
LEMMA RefsDropped ==
    ASSUME DirTypeOK, RefInv, NEW p \in Proc, OthersKeep(p), Moves(p, AsIs),
           NEW j \in Kind, NEW n \in Node, Ref(p, j) = n, Ref(p, j)' = NoNode,
           iref' = [iref EXCEPT ![n] = @ - 1]
    PROVE  RefInv' /\ iref' \in [Node -> Int] /\ iref[n] >= 1
<1>1. ASSUME NEW m \in Node PROVE Refs(m)' \subseteq Refs(m)
    <2> SUFFICES ASSUME NEW w \in Refs(m)' PROVE w \in Refs(m)
        OBVIOUS
    <2>1. w = <<w[1], w[2]>> /\ w[1] \in Proc /\ w[2] \in Kind /\ Ref(w[1], w[2])' = m
        BY DEF Refs
    <2>2. CASE w[1] = p
        BY <2>1, <2>2, Basics, SwapsAre DEF Moves, Refs
    <2>3. CASE w[1] # p
        BY <2>1, <2>3 DEF OthersKeep, Refs
    <2> QED
        BY <2>2, <2>3
<1>2. PICK w : w = <<p, j>>
    OBVIOUS
<1>3. w \in Refs(n) /\ w \notin Refs(n)'
    BY <1>2, Basics DEF Refs
<1>4. iref[n] \in Nat /\ Cardinality(Refs(n)) <= iref[n] /\ Cardinality(Refs(n)) \in Nat
    BY RefsFinite DEF DirTypeOK, RefInv
<1>5. Cardinality(Refs(n)) # 0
    BY <1>3, RefsFinite, FS_EmptySet
<1>6. iref'[n] = iref[n] - 1 /\ \A m \in Node \ {n} : iref'[m] = iref[m]
    BY DEF DirTypeOK
<1>7. ASSUME NEW m \in Node PROVE Cardinality(Refs(m)') <= iref'[m]
    <2>1. PICK T : T = Refs(m)'
        OBVIOUS
    <2>2. IsFiniteSet(Refs(m)) /\ T \subseteq Refs(m) /\ Cardinality(Refs(m)) \in Nat
        BY <1>1, <2>1, RefsFinite
    <2>3. Cardinality(T) \in Nat
        BY <2>2, SizeLess
    <2>4. CASE m = n
        <3>1. T \subseteq Refs(n) \ {w}
            BY <1>3, <2>1, <2>2, <2>4
        <3>2. Cardinality(T) <= Cardinality(Refs(n)) - 1
            BY <1>3, <2>2, <2>4, <3>1, SizeWithout
        <3> QED
            BY <1>4, <1>6, <2>1, <2>3, <2>4, <3>2
    <2>5. CASE m # n
        <3>1. Cardinality(T) <= Cardinality(Refs(m)) /\ iref'[m] = iref[m]
            BY <1>6, <2>2, <2>5, SizeLess
        <3>2. Cardinality(Refs(m)) <= iref[m] /\ iref[m] \in Nat
            BY DEF RefInv, DirTypeOK
        <3> QED
            BY <2>1, <2>2, <2>3, <3>1, <3>2
    <2> QED
        BY <2>4, <2>5
<1>8. iref' \in [Node -> Int]
    BY DEF DirTypeOK
<1> QED
    BY <1>4, <1>5, <1>7, <1>8 DEF RefInv

(* The last reference is the only one.                                     *)
LEMMA LastRef ==
    ASSUME DirTypeOK, RefInv, NEW p \in Proc, NEW j \in Kind, NEW n \in Node, Ref(p, j) = n, iref[n] = 1
    PROVE  \A q \in Proc, k \in Kind : Ref(q, k) = n => q = p /\ k = j
<1> SUFFICES ASSUME NEW q \in Proc, NEW k \in Kind, Ref(q, k) = n, ~(q = p /\ k = j) PROVE FALSE
    OBVIOUS
<1>1. PICK v, w : v = <<p, j>> /\ w = <<q, k>>
    OBVIOUS
<1>2. v \in Refs(n) /\ w \in Refs(n) /\ v # w
    BY <1>1 DEF Refs
<1>3. IsFiniteSet(Refs(n)) /\ Cardinality(Refs(n)) <= 1 /\ Cardinality(Refs(n)) \in Nat
    BY RefsFinite DEF RefInv
<1>4. Cardinality({v}) <= Cardinality(Refs(n)) - 1
    BY <1>2, <1>3, SizeWithout
<1>5. Cardinality({v}) = 1
    BY FS_Singleton
<1> QED
    BY <1>3, <1>4, <1>5

LEMMA Lists ==
    ASSUME NEW S, NEW s \in Seq(S), s # <<>>, Len(s) <= 2
    PROVE  \/ \E a \in S : s = <<a>> /\ Head(s) = a /\ Tail(s) = <<>>
           \/ \E a, b \in S : s = <<a, b>> /\ Head(s) = a /\ Tail(s) = <<b>>
<1>1. Len(s) \in {1, 2} /\ s[1] \in S /\ Head(s) = s[1]
    <2>1. Len(s) \in Nat /\ Len(s) # 0
        BY EmptySeq
    <2>2. PICK l \in Nat : l = Len(s)
        BY <2>1
    <2>3. l \in {1, 2} /\ 1 \in 1..l
        BY <2>1, <2>2
    <2>4. s[1] \in S
        BY <2>2, <2>3, ElementOfSeq
    <2> QED
        BY <2>2, <2>3, <2>4
<1>2. CASE Len(s) = 1
    <2>1. <<s[1]>> \in Seq(S) /\ Len(<<s[1]>>) = 1 /\ <<s[1]>>[1] = s[1]
        BY <1>1
    <2>2. s = <<s[1]>>
        BY <1>2, <2>1, SeqEqual
    <2>3. Tail(s) = <<>>
        <3>1. Tail(s) \in Seq(S) /\ Len(Tail(s)) = 0
            BY <1>2, HeadTailProperties
        <3> QED
            BY <3>1, EmptySeq
    <2> QED
        BY <1>1, <2>2, <2>3
<1>3. CASE Len(s) = 2
    <2>1. s[2] \in S
        BY <1>3, ElementOfSeq
    <2>2. PICK t : t = <<s[1], s[2]>>
        OBVIOUS
    <2>3. t \in Seq(S) /\ Len(t) = 2 /\ t[1] = s[1] /\ t[2] = s[2]
        BY <1>1, <2>1, <2>2
    <2>4. s = t
        <3>1. \A i \in 1..Len(s) : s[i] = t[i]
            BY <1>3, <2>3
        <3> QED
            BY <1>3, <2>3, <3>1, SeqEqual
    <2>5. PICK u : u = <<s[2]>>
        OBVIOUS
    <2>6. u \in Seq(S) /\ Len(u) = 1 /\ u[1] = s[2]
        BY <2>1, <2>5
    <2>7. Tail(s) = u
        <3>1. Tail(s) \in Seq(S) /\ Len(Tail(s)) = 1 /\ Tail(s)[1] = s[2]
            BY <1>3, HeadTailProperties
        <3>2. PICK v : v = Tail(s)
            OBVIOUS
        <3>3. v \in Seq(S) /\ Len(v) = 1 /\ v[1] = u[1]
            BY <2>6, <3>1, <3>2
        <3>4. ASSUME NEW i \in 1..Len(u) PROVE u[i] = v[i]
            <4>1. i = 1
                BY <2>6
            <4> QED
                BY <3>3, <4>1
        <3> QED
            BY <2>6, <3>2, <3>3, <3>4, SeqEqual
    <2> QED
        BY <1>1, <2>1, <2>2, <2>4, <2>5, <2>7
<1> QED
    BY <1>1, <1>2, <1>3

(* A call drops the first of its references.                               *)
LEMMA PutDrops ==
    ASSUME DirInv, NEW p \in Proc, PutInode(p), NEW n, n = Head(puts[p])
    PROVE  /\ n \in Node /\ Alone(p) /\ Moves(p, AsIs)
           /\ \E j \in {"put1", "put2"} : Ref(p, j) = n /\ Ref(p, j)' = NoNode
           /\ puts'[p] \in Seq(Node) /\ Len(puts'[p]) <= 2
           /\ iref' = [iref EXCEPT ![n] = @ - 1] /\ UNCHANGED <<nlink, owner, cwd, file, dpc, call, walk, target>>
<1>1. DirTypeOK /\ CallAt(p)
    BY DEF DirInv, CallInv
<1>2. puts[p] \in Seq(Node) /\ puts[p] # <<>> /\ Len(puts[p]) <= 2 /\ puts'[p] = Tail(puts[p])
    BY <1>1 DEF PutInode, Drops, DirTypeOK, CallAt
<1>3. Alone(p)
    BY <1>1 DEF Alone, PutInode, Drops, DirTypeOK, walk
<1>4. /\ cwd'[p] = cwd[p] /\ file'[p] = file[p] /\ cur'[p] = cur[p] /\ target'[p] = target[p]
      /\ dpc'[p] = dpc[p] /\ call'[p] = call[p]
    BY DEF PutInode, walk
<1>5. (HasCur(p)' <=> HasCur(p)) /\ (HasTarget(p)' <=> HasTarget(p))
    BY <1>4 DEF HasCur, HasTarget, Linking
<1>6. /\ Ref(p, "cwd")' = Ref(p, "cwd") /\ Ref(p, "file")' = Ref(p, "file")
      /\ Ref(p, "cur")' = Ref(p, "cur") /\ Ref(p, "target")' = Ref(p, "target")
    BY <1>4, <1>5, RefIs, RefIsNext
<1>7. CASE \E a \in Node : puts[p] = <<a>> /\ Head(puts[p]) = a /\ Tail(puts[p]) = <<>>
    <2>1. puts[p] = <<n>> /\ puts'[p] = <<>> /\ n \in Node
        BY <1>2, <1>7
    <2>2. Put1(<<n>>) = n /\ Put2(<<n>>) = NoNode
        BY Puts
    <2>3. Ref(p, "put1") = n /\ Ref(p, "put1")' = NoNode /\ Ref(p, "put2")' = NoNode
        BY <2>1, <2>2, Puts, RefIs, RefIsNext
    <2>4. Moves(p, AsIs)
        BY <1>6, <2>3, MovesIs, SwapsAre
    <2> QED
        BY <1>2, <1>3, <2>1, <2>3, <2>4, Lengths DEF PutInode
<1>8. CASE \E a, b \in Node : puts[p] = <<a, b>> /\ Head(puts[p]) = a /\ Tail(puts[p]) = <<b>>
    <2>1. PICK a \in Node, b \in Node : puts[p] = <<a, b>> /\ Head(puts[p]) = a /\ Tail(puts[p]) = <<b>>
        BY <1>8
    <2>2. puts[p] = <<n, b>> /\ puts'[p] = <<b>> /\ n \in Node /\ b \in Node
        BY <1>2, <2>1
    <2>3. Put1(<<n, b>>) = b /\ Put2(<<n, b>>) = n /\ Put1(<<b>>) = b /\ Put2(<<b>>) = NoNode
        BY Puts
    <2>4. /\ Ref(p, "put1") = b /\ Ref(p, "put1")' = b
          /\ Ref(p, "put2") = n /\ Ref(p, "put2")' = NoNode
        BY <2>2, <2>3, RefIs, RefIsNext
    <2>5. Moves(p, AsIs)
        BY <1>6, <2>4, MovesIs, SwapsAre
    <2>6. puts'[p] \in Seq(Node) /\ Len(puts'[p]) <= 2
        BY <2>2, Lengths
    <2> QED
        BY <1>2, <1>3, <2>2, <2>4, <2>5, <2>6 DEF PutInode
<1> QED
    BY <1>2, <1>7, <1>8, Lists

LEMMA PutInodeStep ==
    ASSUME DirInv, NEW p \in Proc, PutInode(p)
    PROVE  DirInv'
<1>1. DirTypeOK /\ CallAt(p) /\ RefInv /\ ClaimInv /\ FreeInv /\ TreeInv
    BY DEF DirInv, CallInv
<1>2. PICK n : n = Head(puts[p])
    OBVIOUS
<1>3. /\ n \in Node /\ Alone(p) /\ Moves(p, AsIs) /\ puts'[p] \in Seq(Node) /\ Len(puts'[p]) <= 2
      /\ iref' = [iref EXCEPT ![n] = @ - 1]
      /\ UNCHANGED <<nlink, owner, cwd, file, dpc, call, request, path, cur, target>>
    BY <1>2, PutDrops DEF walk
<1>4. PICK j \in {"put1", "put2"} : Ref(p, j) = n /\ Ref(p, j)' = NoNode
    BY <1>2, PutDrops
<1>5. j \in Kind
    BY <1>4 DEF Kind
<1>6. RefInv' /\ iref' \in [Node -> Int] /\ iref[n] >= 1
    BY <1>1, <1>3, <1>4, <1>5, RefsDropped, AloneKeeps
<1>7. iref' \in [Node -> Nat] /\ type[n] # "free"
    <2>1. \A m \in Node : iref'[m] \in Nat
        BY <1>1, <1>3, <1>6 DEF DirTypeOK
    <2>2. iref' \in [Node -> Nat]
        BY <1>6, <2>1
    <2>3. type[n] # "free"
        BY <1>1, <1>3, <1>4, <1>5, Alive
    <2> QED
        BY <2>2, <2>3
<1>8. /\ \A m \in Node \ {n} : type'[m] = type[m] /\ entry'[m] = entry[m] /\ iref'[m] = iref[m]
      /\ ~Unused(n) => UNCHANGED <<type, entry>>
      /\ Unused(n) => type'[n] = "free" /\ entry'[n] = NoEntries /\ iref'[n] = 0
    BY <1>1, <1>2, <1>3 DEF PutInode, DirTypeOK, Unused
<1>9. DirTypeOK'
    <2>1. puts' \in [Proc -> Seq(Node)]
        BY <1>1, <1>3 DEF PutInode, Drops, DirTypeOK
    <2>2. /\ type' \in [Node -> {"free", "T_DIR", "T_FILE"}]
          /\ entry' \in [Node -> [Name -> Node \cup {NoNode}]]
          /\ dotdot' \in [Node -> Node \cup {NoNode}]
        <3>1. CASE Unused(n)
            <4>1. /\ type' = [type EXCEPT ![n] = "free"]
                  /\ entry' = [entry EXCEPT ![n] = NoEntries]
                  /\ dotdot' = [dotdot EXCEPT ![n] = NoNode]
                BY <1>2, <3>1 DEF PutInode
            <4>2. NoEntries \in [Name -> Node \cup {NoNode}]
                BY DEF NoEntries
            <4> QED
                BY <1>1, <4>1, <4>2 DEF DirTypeOK
        <3>2. CASE ~Unused(n)
            BY <1>1, <1>2, <3>2 DEF PutInode, DirTypeOK
        <3> QED
            BY <3>1, <3>2
    <2> QED
        BY <1>1, <1>3, <1>7, <2>1, <2>2 DEF DirTypeOK
<1>10. AvoidsNew(p)
    BY <1>3, MovesAvoid, SwapsPermute
<1>11. \A q \in Proc : /\ HasCur(q)' = HasCur(q) /\ HasTarget(q)' = HasTarget(q) /\ Linking(q)' = Linking(q)
                       /\ WantsParent(q)' = WantsParent(q) /\ Pending(q)' = Pending(q)
    BY <1>3 DEF HasCur, HasTarget, Linking, WantsParent, Pending
<1>12. /\ dpc[p] \in {"parent", "fill", "unlink"} => HasCur(p)
       /\ Linking(p) \/ dpc[p] = "undo" => HasTarget(p)
    BY DEF HasCur, HasTarget
<1>13. \A m \in Node : owner'[m] = p <=> Holds(p, m)'
    BY <1>3 DEF DirInv, OwnerInv, Holds
<1>14. CASE ~Unused(n)
    <2>1. CallAt(p)'
        BY <1>1, <1>3, <1>8, <1>11, <1>14 DEF CallAt
    <2>2. \A m \in Node : type[m] = "free" => iref'[m] = 0
        BY <1>1, <1>7, <1>8 DEF FreeInv
    <2>3. dpc'[p] = "fill" => FillAt(p)'
        <3> SUFFICES ASSUME dpc[p] = "fill" PROVE FillAt(p)'
            BY <1>3
        <3>1. FillAt(p) /\ target[p] \in Node
            BY FillerTarget DEF DirInv, FillInv
        <3>2. ASSUME NEW q \in Proc, NEW k \in Kind, Ref(q, k)' = target[p] PROVE q = p /\ k = "target"
            <4>1. Ref(q, k) = target[p]
                <5>1. CASE q = p
                    BY <1>3, <3>1, <3>2, <5>1, Basics, SwapsAre DEF Moves
                <5>2. CASE q # p
                    BY <1>3, <3>2, <5>2, AloneKeeps DEF OthersKeep
                <5> QED
                    BY <5>1, <5>2
            <4> QED
                BY <3>1, <4>1 DEF FillAt
        <3> QED
            BY <1>3, <1>8, <1>14, <3>1, <3>2 DEF FillAt, NoEntries
    <2>4. dpc'[p] = "unlink" => UnlinkAt(p)'
        BY <1>3, <1>8, <1>14 DEF DirInv, UnlinkInv, UnlinkAt, FinalName
    <2>5. Pending(p)' => Pending(p) /\ target'[p] = target[p]
        BY <1>3, <1>11
    <2> QED
        BY <1>3, <1>6, <1>8, <1>9, <1>10, <1>13, <1>14, <2>1, <2>2, <2>3, <2>4, <2>5, UnwrittenStep
<1>15. CASE Unused(n)
    <2>1. iref[n] = 1 /\ nlink[n] = 0
        BY <1>15 DEF Unused
    <2>2. \A q \in Proc, k \in Kind : Ref(q, k) = n => q = p /\ k = j
        BY <1>1, <1>3, <1>4, <1>5, <2>1, LastRef
    <2>3. \A q \in Proc : (HasCur(q) => cur[q] \in Node \ {n}) /\ (HasTarget(q) => target[q] \in Node \ {n})
        <3> SUFFICES ASSUME NEW q \in Proc
                     PROVE  (HasCur(q) => cur[q] \in Node \ {n}) /\ (HasTarget(q) => target[q] \in Node \ {n})
            OBVIOUS
        <3>1. HasCur(q) => cur[q] \in Node /\ Ref(q, "cur") = cur[q]
            BY <1>1, RefIs DEF DirInv, CallInv, CallAt, DirTypeOK
        <3>2. HasTarget(q) => target[q] \in Node /\ Ref(q, "target") = target[q]
            BY <1>1, RefIs DEF DirInv, CallInv, CallAt, DirTypeOK
        <3>3. j # "cur" /\ j # "target" /\ "cur" \in Kind /\ "target" \in Kind
            BY <1>4, SwapsAre
        <3> QED
            BY <2>2, <3>1, <3>2, <3>3
    <2>4. \A m \in Node, y \in Name : Child(m, y)' => Child(m, y) /\ m # n
        <3> SUFFICES ASSUME NEW m \in Node, NEW y \in Name, Child(m, y)' PROVE Child(m, y) /\ m # n
            OBVIOUS
        <3>1. m # n
            BY <1>8, <1>15 DEF Child, NoEntries
        <3>2. entry'[m][y] = entry[m][y] /\ entry[m][y] \in Node
            BY <1>1, <1>8, <3>1 DEF Child, DirTypeOK
        <3>3. entry[m][y] # n
            BY <1>8, <1>15, <3>2 DEF Child
        <3> QED
            BY <1>8, <3>1, <3>2, <3>3 DEF Child
    <2>5. \A m \in Node, y \in Name : entry'[m][y] # NoNode => m # n /\ entry'[m][y] = entry[m][y]
        BY <1>3, <1>8, <1>15 DEF NoEntries
    <2>6. ClaimInv'
        <3>1. \A m \in Node : ClaimsWithin(m, {})
            BY <1>3, <1>11, <2>4, <2>5, Basics DEF ClaimsWithin
        <3> QED
            BY <1>1, <1>3, <3>1, ClaimsKept
    <2>7. FreeInv'
        <3> SUFFICES ASSUME NEW m \in Node, type'[m] = "free"
                     PROVE  iref'[m] = 0 /\ nlink[m] = 0 /\ entry'[m] = NoEntries
            BY <1>3 DEF FreeInv, NoEntries
        <3>1. CASE m = n
            BY <1>8, <1>15, <2>1, <3>1
        <3>2. CASE m # n
            BY <1>1, <1>8, <3>2 DEF FreeInv
        <3> QED
            BY <3>1, <3>2
    <2>8. TreeInv'
        <3>1. ASSUME NEW m \in Node, type'[m] # "T_DIR" PROVE entry'[m] = NoEntries
            BY <1>1, <1>8, <1>15, <3>1 DEF TreeInv
        <3>2. ASSUME NEW m \in Node, NEW k \in Node, NEW y \in Name, NEW z \in Name,
                     Child(m, y)', entry'[m][y] = entry'[k][z]
              PROVE  m = k /\ y = z
            <4>1. Child(m, y) /\ entry'[m][y] # NoNode
                BY <2>4, <3>2 DEF Child
            <4>2. entry[m][y] = entry[k][z]
                BY <2>5, <3>2, <4>1
            <4> QED
                BY <1>1, <4>1, <4>2 DEF TreeInv
        <3> QED
            BY <3>1, <3>2 DEF TreeInv, NoEntries
    <2>9. RankInv'
        <3>1. PICK rank \in [Node -> Nat] :
                  \A m \in Node : \A y \in Name : Child(m, y) => rank[m] < rank[entry[m][y]]
            BY DEF DirInv, RankInv
        <3>2. \A m \in Node : \A y \in Name : Child(m, y)' => rank[m] < rank[entry'[m][y]]
            BY <1>8, <2>4, <3>1
        <3> QED
            BY <3>2 DEF RankInv
    <2>10. CallInv'
        <3>1. ASSUME NEW q \in Proc PROVE CallAt(q)'
            <4>1. CallAt(q) /\ puts'[q] \in Seq(Node) /\ Len(puts'[q]) <= 2
                <5>1. CallAt(q)
                    BY DEF DirInv, CallInv
                <5>2. CASE q # p
                    BY <1>1, <1>3, <5>1, <5>2 DEF Alone, CallAt, DirTypeOK
                <5> QED
                    BY <1>3, <5>1, <5>2
            <4>2. HasCur(q) => type'[cur[q]] = type[cur[q]]
                BY <1>8, <2>3
            <4>3. HasTarget(q) => type'[target[q]] = type[target[q]]
                BY <1>8, <2>3
            <4>4. /\ dpc[q] \in {"parent", "fill", "unlink"} => HasCur(q)
                  /\ Linking(q) \/ dpc[q] = "undo" => HasTarget(q)
                BY DEF HasCur, HasTarget
            <4> QED
                BY <1>3, <1>11, <4>1, <4>2, <4>3, <4>4 DEF CallAt
        <3> QED
            BY <3>1 DEF CallInv
    <2>11. FillInv'
        <3> SUFFICES ASSUME NEW q \in Proc, dpc[q] = "fill" PROVE FillAt(q)'
            BY <1>3 DEF FillInv
        <3>1. FillAt(q) /\ target[q] \in Node \ {n}
            BY <2>3 DEF DirInv, FillInv, HasTarget
        <3>2. ASSUME NEW r \in Proc, NEW k \in Kind, Ref(r, k)' = target[q] PROVE r = q /\ k = "target"
            <4>1. Ref(r, k) = target[q]
                <5>1. CASE r = p
                    BY <1>3, <3>1, <3>2, <5>1, Basics, SwapsAre DEF Moves
                <5>2. CASE r # p
                    BY <1>3, <3>2, <5>2, AloneKeeps DEF OthersKeep
                <5> QED
                    BY <5>1, <5>2
            <4> QED
                BY <3>1, <4>1 DEF FillAt
        <3> QED
            BY <1>3, <1>8, <3>1, <3>2 DEF FillAt, NoEntries
    <2>12. UnlinkInv'
        <3> SUFFICES ASSUME NEW q \in Proc, dpc[q] = "unlink" PROVE UnlinkAt(q)'
            BY <1>3 DEF UnlinkInv
        <3>1. UnlinkAt(q) /\ cur[q] \in Node \ {n}
            BY <2>3 DEF DirInv, UnlinkInv, HasCur
        <3> QED
            BY <1>3, <1>8, <3>1 DEF UnlinkAt, FinalName
    <2>13. OwnerInv'
        BY <1>3, <1>9, <1>13, OthersOwn
    <2> QED
        BY <1>6, <1>9, <2>6, <2>7, <2>8, <2>9, <2>10, <2>11, <2>12, <2>13 DEF DirInv
<1> QED
    BY <1>14, <1>15

-----------------------------------------------------------------------------
(* The invariant                                                           *)
LEMMA InitHolds == DirInit => DirInv
<1> SUFFICES ASSUME DirInit PROVE DirInv
    OBVIOUS
<1>1. /\ \A p \in Proc : dpc[p] = "user" /\ puts[p] = <<>> /\ cwd[p] = ROOTINO /\ file[p] = NoNode
      /\ \A p \in Proc : ~HasCur(p) /\ ~HasTarget(p) /\ ~Pending(p) /\ ~Linking(p)
      /\ \A n \in Node : owner[n] = Nobody /\ entry[n] = NoEntries
      /\ \A n \in Node : type[n] = IF n = ROOTINO THEN "T_DIR" ELSE "free"
      /\ \A n \in Node : nlink[n] = IF n = ROOTINO THEN 1 ELSE 0
      /\ \A n \in Node : iref[n] = IF n = ROOTINO THEN Cardinality(Proc) ELSE 0
    BY DEF DirInit, HasCur, HasTarget, Pending, Linking
<1>2. Cardinality(Proc) \in Nat /\ 1 \in 0..MaxNlink /\ 0 \in 0..MaxNlink
    BY Basics, FS_CardinalityType
<1>3. DirTypeOK
    <2>1. <<>> \in Seq(Element) /\ <<>> \in Seq(Node)
        OBVIOUS
    <2> QED
        BY <1>2, <2>1, Basics DEF DirInit, DirTypeOK, NoEntries
<1>4. \A m \in Node, x \in Name : entry[m][x] = NoNode /\ ~Child(m, x)
    BY <1>1 DEF NoEntries, Child
<1>5. \A p \in Proc, k \in Kind : Ref(p, k) \in Node => k = "cwd" /\ Ref(p, k) = ROOTINO
    <2> SUFFICES ASSUME NEW p \in Proc, NEW k \in Kind, Ref(p, k) \in Node
                 PROVE  k = "cwd" /\ Ref(p, k) = ROOTINO
        OBVIOUS
    <2>1. /\ Ref(p, "cwd") = ROOTINO /\ Ref(p, "file") = NoNode /\ Ref(p, "cur") = NoNode
          /\ Ref(p, "target") = NoNode /\ Ref(p, "put1") = NoNode /\ Ref(p, "put2") = NoNode
        BY <1>1, RefIs, Puts
    <2> QED
        BY <2>1, Basics DEF Kind
<1>6. RefInv
    <2> SUFFICES ASSUME NEW n \in Node PROVE Cardinality(Refs(n)) <= iref[n]
        BY DEF RefInv
    <2>1. \A w \in Refs(n) : w = <<w[1], "cwd">> /\ w[1] \in Proc /\ n = ROOTINO
        BY <1>5 DEF Refs
    <2>2. CASE n = ROOTINO
        <3> DEFINE g == [w \in Refs(n) |-> w[1]]
        <3>1. g \in Injection(Refs(n), Proc)
            BY <2>1 DEF Injection, IsInjective
        <3> QED
            BY <1>1, <2>2, <3>1, Basics, FS_Injection
    <2>3. CASE n # ROOTINO
        <3>1. Refs(n) = {}
            BY <2>1, <2>3
        <3> QED
            BY <1>1, <2>3, <3>1, FS_EmptySet
    <2> QED
        BY <2>2, <2>3
<1>7. ClaimInv
    <2> SUFFICES ASSUME NEW n \in Node PROVE Cardinality(Claims(n)) <= nlink[n]
        BY DEF ClaimInv
    <2>1. PICK b : b = <<"root", NoNode, NoNode>>
        OBVIOUS
    <2>2. \A c \in Claims(n) : c = b /\ n = ROOTINO
        <3> SUFFICES ASSUME NEW c \in Claims(n) PROVE c = b /\ n = ROOTINO
            OBVIOUS
        <3>1. c \in Claim
            BY DEF Claims
        <3>2. ASSUME NEW m \in Node, NEW x \in Name PROVE c # <<"entry", m, x>> /\ c # <<"dotdot", m, x>>
            <4>1. entry[m][x] # n /\ ~Child(m, x) /\ (m = n => ~Child(n, x))
                BY <1>4, Basics
            <4>2. PICK a, d : a = <<"entry", m, x>> /\ d = <<"dotdot", m, x>>
                OBVIOUS
            <4>3. a \notin Claims(n) /\ d \notin Claims(n)
                BY <4>1, <4>2, ClaimsAre
            <4> QED
                BY <4>2, <4>3
        <3>3. ASSUME NEW q \in Proc PROVE c # <<"call", q, NoNode>>
            BY <1>1, ClaimsAre
        <3> QED
            BY <2>1, <3>1, <3>2, <3>3, ClaimKinds, ClaimsAre
    <2>3. CASE n = ROOTINO
        <3>1. Claims(n) \subseteq {b}
            BY <2>2
        <3>2. IsFiniteSet({b}) /\ Cardinality({b}) = 1
            BY FS_Singleton
        <3> QED
            BY <1>1, <2>3, <3>1, <3>2, SizeLess
    <2>4. CASE n # ROOTINO
        <3>1. Claims(n) = {}
            BY <2>2, <2>4
        <3> QED
            BY <1>1, <2>4, <3>1, FS_EmptySet
    <2> QED
        BY <2>3, <2>4
<1>8. FreeInv /\ TreeInv
    BY <1>1, <1>4 DEF FreeInv, TreeInv
<1>9. RankInv
    <2> DEFINE rank == [n \in Node |-> 0]
    <2>1. rank \in [Node -> Nat]
        OBVIOUS
    <2> QED
        BY <1>4, <2>1 DEF RankInv
<1>10. CallInv
    BY <1>1, Lengths DEF CallInv, CallAt
<1>11. FillInv /\ UnlinkInv
    BY <1>1 DEF FillInv, UnlinkInv
<1>12. OwnerInv
    BY <1>1, Basics DEF OwnerInv, Holds
<1> QED
    BY <1>3, <1>6, <1>7, <1>8, <1>9, <1>10, <1>11, <1>12 DEF DirInv

LEMMA StutterKeeps ==
    ASSUME DirInv, UNCHANGED dirVars
    PROVE  DirInv'
<1>1. UNCHANGED <<type, nlink, entry, dotdot, iref, cwd, file, owner, dpc, call, request, path, cur,
                  target, puts>>
    BY DEF dirVars, inodes, refs, walk
<1>2. DirTypeOK' /\ FreeInv' /\ TreeInv'
    BY <1>1 DEF DirInv, DirTypeOK, FreeInv, TreeInv, Child, NoEntries
<1>3. /\ \A q : HasCur(q)' = HasCur(q) /\ HasTarget(q)' = HasTarget(q) /\ Linking(q)' = Linking(q)
      /\ \A q : WantsParent(q)' = WantsParent(q) /\ Pending(q)' = Pending(q) /\ FinalName(q)' = FinalName(q)
      /\ \A n, x : Child(n, x)' = Child(n, x)
    BY <1>1 DEF HasCur, HasTarget, Linking, WantsParent, Pending, Child, FinalName
<1>4. \A q, k : Ref(q, k)' = Ref(q, k)
    BY <1>1, <1>3 DEF Ref
<1>5. RefInv'
    <2>1. \A n : Refs(n)' = Refs(n)
        BY <1>4 DEF Refs
    <2> QED
        BY <1>1, <2>1 DEF DirInv, RefInv
<1>6. ClaimInv'
    <2>1. \A n \in Node : ClaimsWithin(n, {})
        BY <1>1, <1>3 DEF ClaimsWithin
    <2> QED
        BY <1>1, <2>1, ClaimsKept DEF DirInv
<1>7. RankInv'
    BY <1>1, <1>3 DEF DirInv, RankInv
<1>8. CallInv' /\ UnlinkInv'
    BY <1>1, <1>3 DEF DirInv, CallInv, CallAt, UnlinkInv, UnlinkAt
<1>9. FillInv'
    BY <1>1, <1>4 DEF DirInv, FillInv, FillAt, NoEntries
<1>10. OwnerInv'
    BY <1>1 DEF DirInv, OwnerInv, Holds
<1> QED
    BY <1>2, <1>5, <1>6, <1>7, <1>8, <1>9, <1>10 DEF DirInv

LEMMA NextKeeps ==
    ASSUME NoDotdot, DirInv, [DirNext]_dirVars
    PROVE  DirInv'
<1>1. CASE UNCHANGED dirVars
    BY <1>1, StutterKeeps
<1>2. CASE DirNext
    <2>1. PICK p \in Proc :
              \/ \E r \in Request : Enter(p, r)
              \/ PutInode(p) \/ Return(p) \/ NamexEnds(p) \/ NamexTurn(p)
              \/ OpenFound(p) \/ CloseFile(p) \/ ChdirFound(p)
              \/ CreateOld(p) \/ CreateOldOpens(p)
              \/ CreateNew(p) \/ CreateFills(p) \/ CreateEnds(p)
              \/ UnlinkFinds(p) \/ UnlinkErases(p) \/ UnlinkEnds(p)
              \/ LinkFound(p) \/ LinkMakes(p) \/ LinkTakenBack(p)
        BY <1>2 DEF DirNext
    <2>2. CASE \E r \in Request : Enter(p, r)
        BY <2>2, EnterStep
    <2>3. CASE PutInode(p)
        BY <2>3, PutInodeStep
    <2>4. CASE Return(p)
        BY <2>4, ReturnStep
    <2>5. CASE NamexEnds(p)
        BY <2>5, NamexEndsStep
    <2>6. CASE NamexTurn(p)
        BY <2>6, NamexTurnStep
    <2>7. CASE OpenFound(p)
        BY <2>7, OpenFoundStep
    <2>8. CASE CloseFile(p)
        BY <2>8, CloseFileStep
    <2>9. CASE ChdirFound(p)
        BY <2>9, ChdirFoundStep
    <2>10. CASE CreateOld(p)
        BY <2>10, CreateOldStep
    <2>11. CASE CreateOldOpens(p)
        BY <2>11, CreateOldOpensStep
    <2>12. CASE CreateNew(p)
        BY <2>12, CreateNewStep
    <2>13. CASE CreateFills(p)
        BY <2>13, CreateFillsStep
    <2>14. CASE CreateEnds(p)
        BY <2>14, CreateEndsStep
    <2>15. CASE UnlinkFinds(p)
        BY <2>15, UnlinkFindsStep
    <2>16. CASE UnlinkErases(p)
        BY <2>16, UnlinkErasesStep
    <2>17. CASE UnlinkEnds(p)
        BY <2>17, UnlinkEndsStep
    <2>18. CASE LinkFound(p)
        BY <2>18, LinkFoundStep
    <2>19. CASE LinkMakes(p)
        BY <2>19, LinkMakesStep
    <2>20. CASE LinkTakenBack(p)
        BY <2>20, LinkTakenBackStep
    <2> QED
        BY <2>1, <2>2, <2>3, <2>4, <2>5, <2>6, <2>7, <2>8, <2>9, <2>10, <2>11, <2>12, <2>13,
           <2>14, <2>15, <2>16, <2>17, <2>18, <2>19, <2>20
<1> QED
    BY <1>1, <1>2

(* DirInv: who refers to an inode is counted, what claims a link is        *)
(* counted too, and directories form a tree (iget() and iput(), fs.c:208). *)
THEOREM DirectoryInvariant == NoDotdot => (DirSpec => []DirInv)
<1> SUFFICES ASSUME NoDotdot PROVE DirSpec => []DirInv
    OBVIOUS
<1>1. DirInv /\ [DirNext]_dirVars => DirInv'
    BY NextKeeps
<1> QED
    BY <1>1, InitHolds, PTL DEF DirSpec

-----------------------------------------------------------------------------
LEMMA InvNamedLive ==
    ASSUME DirInv
    PROVE  NamedLive
<1> SUFFICES ASSUME NEW n \in Node, Entries(n) # {}
             PROVE  /\ type[n] # "free" /\ nlink[n] >= Cardinality(Entries(n))
                    /\ type[n] = "T_DIR" => Cardinality(Entries(n)) = 1
    BY DEF NamedLive
<1>1. DirTypeOK /\ ClaimInv /\ FreeInv /\ TreeInv
    BY DEF DirInv
<1>2. \A e \in Entries(n) : e = <<e[1], e[2]>> /\ e[1] \in Node /\ e[2] \in Name /\ entry[e[1]][e[2]] = n
    BY DEF Entries
<1>3. PICK e : e \in Entries(n)
    OBVIOUS
<1>4. type[n] # "free"
    BY <1>1, <1>2, <1>3, Basics, Named
<1>5. nlink[n] >= Cardinality(Entries(n))
    <2> DEFINE g == [d \in Entries(n) |-> <<"entry", d[1], d[2]>>]
    <2>1. ASSUME NEW d \in Entries(n) PROVE g[d] \in Claims(n) /\ d = <<g[d][2], g[d][3]>>
        <3>1. PICK a : a = <<"entry", d[1], d[2]>>
            OBVIOUS
        <3>2. a \in Claims(n)
            <4>1. PICK m \in Node, x \in Name : m = d[1] /\ x = d[2] /\ entry[m][x] = n
                BY <1>2
            <4>2. entry[m][x] = n
                BY <4>1
            <4>3. <<"entry", m, x>> \in Claims(entry[m][x])
                BY ClaimsAre
            <4> QED
                BY <3>1, <4>1, <4>2, <4>3
        <3>3. g[d] = a /\ a[2] = d[1] /\ a[3] = d[2]
            BY <3>1
        <3>4. d = <<d[1], d[2]>>
            BY <1>2
        <3> QED
            BY <3>2, <3>3, <3>4
    <2>2. g \in Injection(Entries(n), Claims(n))
        BY <2>1 DEF Injection, IsInjective
    <2>3. Cardinality(Entries(n)) <= Cardinality(Claims(n)) /\ IsFiniteSet(Entries(n))
        BY <2>2, ClaimsFinite, FS_Injection
    <2>4. Cardinality(Entries(n)) \in Nat
        BY <2>3, FS_CardinalityType
    <2>5. nlink[n] \in Nat /\ Cardinality(Claims(n)) <= nlink[n]
        BY <1>1, Basics DEF ClaimInv, DirTypeOK
    <2> QED
        BY <2>3, <2>4, <2>5, ClaimsFinite
<1>6. ASSUME type[n] = "T_DIR" PROVE Cardinality(Entries(n)) = 1
    <2>1. \A d \in Entries(n) : Child(d[1], d[2])
        BY <1>2, <1>6, Basics DEF Child
    <2>2. \A d \in Entries(n) : d = e
        BY <1>1, <1>2, <1>3, <2>1 DEF TreeInv
    <2>3. Entries(n) = {e}
        BY <1>3, <2>2
    <2> QED
        BY <2>3, FS_Singleton
<1> QED
    BY <1>4, <1>5, <1>6

(* A directory of a tree never names what is not there: an inode is not    *)
(* freed while an entry is left (iput(), fs.c:297, and sys_unlink(),       *)
(* sysfile.c:186).                                                         *)
THEOREM NamesAreLive == NoDotdot => (DirSpec => []NamedLive)
<1>1. DirInv => NamedLive
    BY InvNamedLive
<1> QED
    BY <1>1, DirectoryInvariant, PTL

-----------------------------------------------------------------------------
LEMMA Smallest ==
    ASSUME NEW T, T \subseteq Nat, T # {}
    PROVE  \E x \in T : \A y \in T : x <= y
<1>1. PICK R : R = {ss \in Nat \X Nat : ss[1] < ss[2]}
    OBVIOUS
<1>2. IsWellFoundedOn(R, Nat)
    BY <1>1, NatLessThanWellFounded DEF OpToRel
<1>3. PICK x \in T : \A y \in T : ~ (<<y, x>> \in R)
    BY <1>2, WFMin
<1>4. \A y \in T : ~ (y < x)
    BY <1>1, <1>3
<1> QED
    BY <1>3, <1>4

(* Who has the lock a call waits for, and waits too, is an unlink() that   *)
(* has found the entry in the inode that is waited for.                    *)
LEMMA WaitsForUnlink ==
    ASSUME DirInv, NEW p \in Proc, Wants(p) # NoNode, NEW q \in Proc, owner[Wants(p)] = q, Wants(q) # NoNode
    PROVE  dpc[q] \in {"fill", "unlink"} /\ cur[q] = Wants(p) /\ Wants(q) = target[q]
<1>1. Wants(p) \in Node
    BY DEF DirInv, DirTypeOK, Wants
<1>2. Holds(q, Wants(p))
    BY <1>1 DEF DirInv, OwnerInv
<1>3. dpc[q] \notin {"made", "unlinked"}
    BY DEF Wants
<1>4. dpc[q] \in {"fill", "unlink"} /\ cur[q] = Wants(p)
    BY <1>2, <1>3 DEF Holds
<1>5. Wants(q) = target[q]
    BY <1>4 DEF Wants
<1> QED
    BY <1>4, <1>5

LEMMA InvNoLockCycle ==
    ASSUME DirInv
    PROVE  NoLockCycle
<1> SUFFICES ASSUME NEW S \in SUBSET Proc, S # {},
                    \A p \in S : Wants(p) # NoNode /\ owner[Wants(p)] \in S
             PROVE  FALSE
    BY DEF NoLockCycle
<1>1. DirTypeOK /\ \A p \in Proc : CallAt(p)
    BY DEF DirInv, CallInv
<1> DEFINE Holder(p) == owner[Wants(p)]
<1>2. \A p \in S : /\ Holder(p) \in S /\ dpc[Holder(p)] \in {"fill", "unlink"}
                   /\ cur[Holder(p)] = Wants(p) /\ Wants(Holder(p)) = target[Holder(p)]
    BY WaitsForUnlink
<1>3. \A p \in S : dpc[p] # "fill"
    <2> SUFFICES ASSUME NEW p \in S, dpc[p] = "fill" PROVE FALSE
        OBVIOUS
    <2>1. PICK q : q = Holder(p)
        OBVIOUS
    <2>2. q \in S /\ HasCur(q) /\ cur[q] = target[p]
        BY <1>2, <2>1 DEF HasCur, Wants
    <2>3. Ref(q, "cur") = target[p]
        BY <2>2, RefIs
    <2> QED
        BY <2>2, <2>3, SwapsAre DEF DirInv, FillInv, FillAt
<1>4. PICK rank \in [Node -> Nat] :
          \A n \in Node : \A x \in Name : Child(n, x) => rank[n] < rank[entry[n][x]]
    BY DEF DirInv, RankInv
<1> DEFINE U == {q \in S : dpc[q] = "unlink"}
           Above(q) == {n \in Node : rank[n] > rank[cur[q]]}
<1>5. U # {}
    BY <1>2, <1>3
<1>6. ASSUME NEW q \in U
      PROVE  /\ Cardinality(Above(q)) \in Nat
             /\ Holder(q) \in U /\ Cardinality(Above(Holder(q))) < Cardinality(Above(q))
    <2>1. PICK r : r = Holder(q)
        OBVIOUS
    <2>2. r \in U /\ q \in Proc /\ r \in Proc /\ cur[r] = target[q]
        <3>1. r \in S /\ dpc[r] = "unlink" /\ cur[r] = Wants(q)
            BY <1>2, <1>3, <2>1
        <3>2. Wants(q) = target[q]
            BY DEF Wants
        <3> QED
            BY <3>1, <3>2
    <2>3. cur[q] \in Node /\ cur[r] \in Node /\ type[cur[r]] = "T_DIR"
        BY <1>1, <2>2 DEF CallAt, HasCur, DirTypeOK
    <2>4. FinalName(q) \in Name /\ entry[cur[q]][FinalName(q)] = cur[r]
        BY <2>2 DEF DirInv, UnlinkInv, UnlinkAt
    <2>5. rank[cur[q]] < rank[cur[r]]
        BY <1>4, <2>3, <2>4, Basics DEF Child
    <2>6. Above(r) \subseteq Above(q) \ {cur[r]} /\ cur[r] \in Above(q)
        BY <1>4, <2>3, <2>5
    <2>7. IsFiniteSet(Above(q)) /\ IsFiniteSet(Above(r))
        BY Basics, FS_Subset
    <2>8. Cardinality(Above(r)) <= Cardinality(Above(q)) - 1
        BY <2>6, <2>7, SizeWithout
    <2>9. Cardinality(Above(r)) \in Nat /\ Cardinality(Above(q)) \in Nat
        BY <2>7, FS_CardinalityType
    <2> HIDE DEF Above
    <2> QED
        BY <2>1, <2>2, <2>8, <2>9
<1> HIDE DEF Above, Holder
<1> DEFINE T == {Cardinality(Above(q)) : q \in U}
<1>7. T \subseteq Nat /\ T # {}
    BY <1>5, <1>6
<1>8. PICK x \in T : \A y \in T : x <= y
    BY <1>7, Smallest
<1>9. PICK q \in U : x = Cardinality(Above(q))
    OBVIOUS
<1>10. Cardinality(Above(Holder(q))) \in T
    BY <1>6
<1> QED
    BY <1>6, <1>7, <1>8, <1>9, <1>10

(* In a tree calls that lock two inodes lock the directory before what it  *)
(* names, so no set of calls waits for each other (create(), sysfile.c:239,*)
(* and sys_unlink(), sysfile.c:186).                                       *)
THEOREM NoDeadlock == NoDotdot => (DirSpec => []NoLockCycle)
<1>1. DirInv => NoLockCycle
    BY InvNoLockCycle
<1> QED
    BY <1>1, DirectoryInvariant, PTL

(* Whoever waits for the lock of an inode has a reference to it.           *)
LEMMA InvIlockFindsType ==
    ASSUME DirInv
    PROVE  IlockFindsType
<1> SUFFICES ASSUME NEW p \in Proc, Wants(p) # NoNode
             PROVE  type[Wants(p)] # "free"
    BY DEF IlockFindsType
<1>1. PICK n : n = Wants(p)
    OBVIOUS
<1>2. CASE HasCur(p) /\ cur[p] = n
    <2>1. Ref(p, "cur") = n /\ n \in Node
        BY <1>1, <1>2, RefIs DEF DirInv, DirTypeOK
    <2> QED
        BY <1>1, <2>1, Alive DEF DirInv, Kind
<1>3. CASE HasTarget(p) /\ target[p] = n
    <2>1. Ref(p, "target") = n /\ n \in Node
        BY <1>1, <1>3, RefIs DEF DirInv, DirTypeOK
    <2> QED
        BY <1>1, <2>1, Alive DEF DirInv, Kind
<1> QED
    BY <1>1, <1>2, <1>3 DEF Wants, HasCur, HasTarget

(* The panic of ilock(), that the inode it reads is not allocated, takes a *)
(* ".." (fs.c:274): without one every inode that a call comes to lock is   *)
(* there, however often others were removed and made meanwhile.            *)
THEOREM InodesAreThere == NoDotdot => (DirSpec => []IlockFindsType)
<1>1. DirInv => IlockFindsType
    BY InvIlockFindsType
<1> QED
    BY <1>1, DirectoryInvariant, PTL
=============================================================================
