----------------------------- MODULE Directory -----------------------------
(***************************************************************************)
(* Directories and path names: namex() and dirlookup() of kernel/fs.c and  *)
(* the calls of kernel/sysfile.c that make, link, remove and enter them.   *)
(* A step is what a call does while it holds an inode's lock, up to the    *)
(* next lock or the next iput(); the layer of inodes below is as           *)
(* InodeCache shows it to be.  A process that panics takes no more steps.  *)
(***************************************************************************)
EXTENDS Callers, Integers, FiniteSets, FiniteSetsExt, SequencesExt

CONSTANTS
    Name,       \* the names of entries, except "." and ".."
    NINODES,    \* inodes on the disk
    Request,    \* the calls that are made, with their path names
    MaxNlink     \* bound on the links of an inode

Node == 1..NINODES     \* inode numbers
NoNode == 0
ROOTINO == 1
Dots == {".", ".."}
Element == Name \cup Dots
NoRequest == [call |-> "none"]

ASSUME DirectoryAssumption ==
    /\ IsFiniteSet(Proc) /\ IsFiniteSet(Name) /\ Name \cap Dots = {}
    /\ NINODES \in Nat \ {0} /\ MaxNlink \in Nat \ {0}
    /\ \A r \in Request :
          /\ r.call \in {"open", "creat", "mkdir", "chdir", "unlink", "link"}
          /\ r.path \in Seq(Element) /\ r.path2 \in Seq(Element)
          /\ r.root \in BOOLEAN /\ r.root2 \in BOOLEAN     \* begins with "/"

VARIABLES
    type, nlink,
    entry,      \* of a directory: an inode number for each name
    dotdot,     \* and for ".."
    iref,       \* references in memory
    owner,      \* who has the inode locked
    cwd,        \* current directories
    file,       \* an open file of each process
    (* the call of each process *)
    dpc, call,
    request,
    path,       \* what is left of the path name it walks
    cur, target,    \* the inode the walk is at, the one the call is about
    puts        \* references to drop before it goes on

inodes == <<type, nlink, entry, dotdot>>
refs == <<iref, cwd, file>>
walk == <<request, path, cur>>
dirVars == <<inodes, refs, owner, dpc, call, walk, target, puts>>

DirTypeOK ==
    /\ type \in [Node -> {"free", "T_DIR", "T_FILE"}]
    /\ nlink \in [Node -> 0..MaxNlink]
    /\ entry \in [Node -> [Name -> Node \cup {NoNode}]]
    /\ dotdot \in [Node -> Node \cup {NoNode}]
    /\ iref \in [Node -> Nat]
    /\ owner \in [Node -> Proc \cup {Nobody}]
    /\ cwd \in [Proc -> Node]
    /\ file \in [Proc -> Node \cup {NoNode}]
    /\ dpc \in [Proc -> {"user", "walk", "parent", "found", "create", "fill", "made", "old",
                         "unlink", "unlinked", "undo", "return"}]
    /\ call \in [Proc -> {"open", "creat", "mkdir", "chdir", "unlink", "link", "link2"}]
    /\ request \in [Proc -> Request \cup {NoRequest}]
    /\ path \in [Proc -> Seq(Element)]
    /\ cur \in [Proc -> Node \cup {NoNode}] /\ target \in [Proc -> Node \cup {NoNode}]
    /\ puts \in [Proc -> Seq(Node)]

NoEntries == [x \in Name |-> NoNode]

(* An empty root directory, in which every process runs *)
DirInit ==
    /\ type = [n \in Node |-> IF n = ROOTINO THEN "T_DIR" ELSE "free"]
    /\ nlink = [n \in Node |-> IF n = ROOTINO THEN 1 ELSE 0]
    /\ entry = [n \in Node |-> NoEntries]
    /\ dotdot = [n \in Node |-> IF n = ROOTINO THEN n ELSE NoNode]
    /\ iref = [n \in Node |-> IF n = ROOTINO THEN Cardinality(Proc) ELSE 0]
    /\ owner = [n \in Node |-> Nobody]
    /\ cwd = [p \in Proc |-> ROOTINO]
    /\ file = [p \in Proc |-> NoNode]
    /\ dpc = [p \in Proc |-> "user"]
    /\ call = [p \in Proc |-> "open"]
    /\ request = [p \in Proc |-> NoRequest]
    /\ path = [p \in Proc |-> <<>>]
    /\ cur = [p \in Proc |-> NoNode] /\ target = [p \in Proc |-> NoNode]
    /\ puts = [p \in Proc |-> <<>>]

Ready(p, pc) == dpc[p] = pc /\ puts[p] = <<>>
Goto(p, pc) == dpc' = [dpc EXCEPT ![p] = pc]
Step(p, from, to) == Ready(p, from) /\ Goto(p, to)
Drops(p, s) == puts' = [puts EXCEPT ![p] = s]

GetInode(n) == iref' = [iref EXCEPT ![n] = @ + 1]

(* ilock(): it waits for the owner, and panics at a free inode. *)
CanLock(n) == owner[n] = Nobody /\ type[n] # "free"

Locks(p, n) == owner' = [owner EXCEPT ![n] = p]
Unlocks(n) == owner' = [owner EXCEPT ![n] = Nobody]

(* iput() *)
Unused_linked(n) == iref[n] = 1
Unused(n) == iref[n] = 1 /\ nlink[n] = 0

PutInode(p) ==
    /\ puts[p] # <<>>
    /\ LET n == Head(puts[p]) IN
          /\ iref' = [iref EXCEPT ![n] = @ - 1]
          /\ IF Unused(n)
             THEN /\ type' = [type EXCEPT ![n] = "free"]
                  /\ entry' = [entry EXCEPT ![n] = NoEntries]
                  /\ dotdot' = [dotdot EXCEPT ![n] = NoNode]
             ELSE UNCHANGED <<type, entry, dotdot>>
    /\ Drops(p, Tail(puts[p]))
    /\ UNCHANGED <<nlink, owner, cwd, file, dpc, call, walk, target>>

-----------------------------------------------------------------------------
Start(p, root) == IF root THEN ROOTINO ELSE cwd[p]

(* A system call gets as far as namex(). *)
Enter(p, r) ==
    /\ Step(p, "user", "walk")
    /\ call' = [call EXCEPT ![p] = r.call]
    /\ request' = [request EXCEPT ![p] = r]
    /\ path' = [path EXCEPT ![p] = r.path]
    /\ cur' = [cur EXCEPT ![p] = Start(p, r.root)]
    /\ GetInode(Start(p, r.root))
    /\ UNCHANGED <<inodes, owner, cwd, file, target, puts>>

(* nameiparent() instead of namei() *)
WantsParent(p) == call[p] \in {"creat", "mkdir", "unlink", "link2"}

Fails(p) == Goto(p, IF call[p] = "link2" THEN "undo" ELSE "return")

(* dirlookup(): "." and ".." are written together. *)
Dirlookup(n, x) ==
    CASE x = "." -> IF dotdot[n] = NoNode THEN NoNode ELSE n
      [] x = ".." -> dotdot[n]
      [] OTHER -> entry[n][x]

(* The end of the path: the inode, or no parent *)
NamexEnds(p) ==
    /\ Ready(p, "walk") /\ path[p] = <<>>
    /\ \/ ~WantsParent(p) /\ Goto(p, "found") /\ UNCHANGED puts
       \/ WantsParent(p) /\ Fails(p) /\ Drops(p, <<cur[p]>>)
    /\ UNCHANGED <<inodes, refs, owner, call, walk, target>>

(* One turn of namex(): under the directory's lock, the next inode *)
NamexTurn(p) ==
    /\ Ready(p, "walk") /\ path[p] # <<>>
    /\ CanLock(cur[p])
    /\ LET dir == cur[p]
           next == Dirlookup(dir, Head(path[p]))
       IN  \/ /\ type[dir] # "T_DIR"
              /\ Fails(p) /\ Drops(p, <<dir>>)
              /\ UNCHANGED <<iref, path, cur>>
           \/ /\ type[dir] = "T_DIR" /\ WantsParent(p) /\ Len(path[p]) = 1
              /\ Goto(p, "parent")
              /\ UNCHANGED <<iref, path, cur, puts>>
           \/ /\ type[dir] = "T_DIR" /\ ~(WantsParent(p) /\ Len(path[p]) = 1)
              /\ Drops(p, <<dir>>)
              /\ IF next = NoNode THEN Fails(p) /\ UNCHANGED <<iref, path, cur>>
                 ELSE /\ GetInode(next)
                      /\ cur' = [cur EXCEPT ![p] = next]
                      /\ path' = [path EXCEPT ![p] = Tail(@)]
                      /\ UNCHANGED dpc
    /\ UNCHANGED <<inodes, cwd, file, owner, call, request, target>>

-----------------------------------------------------------------------------
(* sys_open() of what is there; the file takes over the reference. *)
OpenFound(p) ==
    /\ Step(p, "found", "return") /\ call[p] = "open"
    /\ CanLock(cur[p])
    /\ \/ /\ file[p] = NoNode
          /\ file' = [file EXCEPT ![p] = cur[p]]
          /\ UNCHANGED puts
       \/ Drops(p, <<cur[p]>>) /\ UNCHANGED file
    /\ UNCHANGED <<inodes, iref, cwd, owner, call, walk, target>>

(* sys_close() *)
CloseFile(p) ==
    /\ Ready(p, "user") /\ file[p] # NoNode
    /\ file' = [file EXCEPT ![p] = NoNode]
    /\ Drops(p, <<file[p]>>)
    /\ UNCHANGED <<inodes, iref, cwd, owner, dpc, call, walk, target>>

(* sys_chdir() *)
ChdirFound(p) ==
    /\ Step(p, "found", "return") /\ call[p] = "chdir"
    /\ CanLock(cur[p])
    /\ \/ /\ type[cur[p]] = "T_DIR"
          /\ Drops(p, <<cwd[p]>>)
          /\ cwd' = [cwd EXCEPT ![p] = cur[p]]
       \/ /\ type[cur[p]] # "T_DIR"
          /\ Drops(p, <<cur[p]>>)
          /\ UNCHANGED cwd
    /\ UNCHANGED <<inodes, iref, file, owner, call, walk, target>>

-----------------------------------------------------------------------------
FinalName(p) == path[p][1]

Creating(p) == call[p] \in {"creat", "mkdir"}

(* create(): the directory is locked and the name is there ... *)
CreateOld(p) ==
    /\ Step(p, "parent", "old") /\ Creating(p)
    /\ CanLock(cur[p])
    /\ LET old == Dirlookup(cur[p], FinalName(p)) IN
          /\ old # NoNode
          /\ GetInode(old)
          /\ target' = [target EXCEPT ![p] = old]
    /\ Drops(p, <<cur[p]>>)
    /\ UNCHANGED <<inodes, cwd, file, owner, call, walk>>

CreateOldOpens(p) ==
    /\ Step(p, "old", "return")
    /\ CanLock(target[p])
    /\ \/ /\ call[p] = "creat" /\ type[target[p]] = "T_FILE" /\ file[p] = NoNode
          /\ file' = [file EXCEPT ![p] = target[p]]
          /\ UNCHANGED puts
       \/ Drops(p, <<target[p]>>) /\ UNCHANGED file
    /\ UNCHANGED <<inodes, iref, cwd, owner, call, walk, target>>

(* ... or it is not: ialloc(), ... *)
CreateNew(p) ==
    /\ Step(p, "parent", "fill") /\ Creating(p)
    /\ CanLock(cur[p])
    /\ Dirlookup(cur[p], FinalName(p)) = NoNode
    /\ \E n \in Node :
          /\ type[n] = "free"
          /\ \A k \in Node : type[k] = "free" => n <= k
          /\ type' = [type EXCEPT ![n] = IF call[p] = "mkdir" THEN "T_DIR" ELSE "T_FILE"]
          /\ nlink' = [nlink EXCEPT ![n] = 0]
          /\ entry' = [entry EXCEPT ![n] = NoEntries]
          /\ target' = [target EXCEPT ![p] = n]
          /\ GetInode(n)
    /\ Locks(p, cur[p])
    /\ UNCHANGED <<dotdot, cwd, file, call, walk, puts>>

(* ... the link of ".." for a new directory, ... *)
DotdotLink(p) == IF call[p] = "mkdir" THEN 1 ELSE 0

(* ... and, with both inodes locked, the entries. *)
CreateFills(p) ==
    /\ Step(p, "fill", "made")
    /\ CanLock(target[p])
    /\ nlink[cur[p]] < MaxNlink
    /\ nlink' = [nlink EXCEPT ![target[p]] = 1, ![cur[p]] = @ + DotdotLink(p)]
    /\ dotdot' = IF call[p] = "mkdir" THEN [dotdot EXCEPT ![target[p]] = cur[p]] ELSE dotdot
    /\ entry' = [entry EXCEPT ![cur[p]][FinalName(p)] = target[p]]
    /\ owner' = [owner EXCEPT ![cur[p]] = Nobody, ![target[p]] = p]
    /\ Drops(p, <<cur[p]>>)
    /\ UNCHANGED <<type, refs, call, walk, target>>

(* The new inode is unlocked, and opened or put. *)
CreateEnds(p) ==
    /\ Step(p, "made", "return")
    /\ Unlocks(target[p])
    /\ \/ /\ call[p] = "creat" /\ file[p] = NoNode
          /\ file' = [file EXCEPT ![p] = target[p]]
          /\ UNCHANGED puts
       \/ Drops(p, <<target[p]>>) /\ UNCHANGED file
    /\ UNCHANGED <<inodes, iref, cwd, call, walk, target>>

-----------------------------------------------------------------------------
(* "Cannot unlink "." or ".."." *)
Protected_none(x) == FALSE
Protected(x) == x \in Dots

(* sys_unlink(): the directory is locked ... *)
UnlinkFinds(p) ==
    /\ Ready(p, "parent") /\ call[p] = "unlink"
    /\ CanLock(cur[p])
    /\ LET n == IF Protected(FinalName(p)) THEN NoNode ELSE Dirlookup(cur[p], FinalName(p)) IN
          \/ /\ n = NoNode
             /\ Goto(p, "return") /\ Drops(p, <<cur[p]>>)
             /\ UNCHANGED <<iref, owner, target>>
          \/ /\ n # NoNode
             /\ Goto(p, "unlink") /\ Locks(p, cur[p])
             /\ GetInode(n)
             /\ target' = [target EXCEPT ![p] = n]
             /\ UNCHANGED puts
    /\ UNCHANGED <<inodes, cwd, file, call, walk>>

Removable(n) == type[n] = "T_DIR" => entry[n] = NoEntries

(* ... then the inode too: the entry goes, and the directory is unlocked, *)
UnlinkErases(p) ==
    /\ Ready(p, "unlink")
    /\ CanLock(target[p]) /\ nlink[target[p]] >= 1
    /\ \/ /\ Removable(target[p])
          /\ Goto(p, "unlinked")
          /\ entry' = [entry EXCEPT ![cur[p]][FinalName(p)] = NoNode]
          /\ nlink' = [nlink EXCEPT ![cur[p]] = IF type[target[p]] = "T_DIR" THEN @ - 1 ELSE @]
          /\ owner' = [owner EXCEPT ![cur[p]] = Nobody, ![target[p]] = p]
          /\ Drops(p, <<cur[p]>>)
       \/ /\ ~Removable(target[p])
          /\ Goto(p, "return")
          /\ Unlocks(cur[p])
          /\ Drops(p, <<target[p], cur[p]>>)
          /\ UNCHANGED <<entry, nlink>>
    /\ UNCHANGED <<type, dotdot, refs, call, walk, target>>

(* and the inode loses its link. *)
UnlinkEnds(p) ==
    /\ Step(p, "unlinked", "return")
    /\ nlink' = [nlink EXCEPT ![target[p]] = @ - 1]
    /\ Unlocks(target[p])
    /\ Drops(p, <<target[p]>>)
    /\ UNCHANGED <<type, entry, dotdot, refs, call, walk, target>>

-----------------------------------------------------------------------------
(* sys_link(): the link is counted first, ... *)
LinkFound(p) ==
    /\ Ready(p, "found") /\ call[p] = "link"
    /\ CanLock(cur[p])
    /\ \/ /\ type[cur[p]] = "T_DIR"
          /\ Goto(p, "return") /\ Drops(p, <<cur[p]>>)
          /\ UNCHANGED <<nlink, iref, call, path, cur, target>>
       \/ /\ type[cur[p]] # "T_DIR" /\ nlink[cur[p]] < MaxNlink
          /\ nlink' = [nlink EXCEPT ![cur[p]] = @ + 1]
          /\ target' = [target EXCEPT ![p] = cur[p]]
          /\ GetInode(Start(p, request[p].root2))
          /\ cur' = [cur EXCEPT ![p] = Start(p, request[p].root2)]
          /\ path' = [path EXCEPT ![p] = request[p].path2]
          /\ call' = [call EXCEPT ![p] = "link2"]
          /\ Goto(p, "walk") /\ UNCHANGED puts
    /\ UNCHANGED <<type, entry, dotdot, cwd, file, owner, request>>

(* ... the entry made next, unless there is one of the name, ... *)
LinkMakes(p) ==
    /\ Ready(p, "parent") /\ call[p] = "link2"
    /\ CanLock(cur[p])
    /\ \/ /\ Dirlookup(cur[p], FinalName(p)) = NoNode
          /\ entry' = [entry EXCEPT ![cur[p]][FinalName(p)] = target[p]]
          /\ Goto(p, "return") /\ Drops(p, <<cur[p], target[p]>>)
       \/ /\ Dirlookup(cur[p], FinalName(p)) # NoNode
          /\ Goto(p, "undo") /\ Drops(p, <<cur[p]>>)
          /\ UNCHANGED entry
    /\ UNCHANGED <<type, nlink, dotdot, refs, owner, call, walk, target>>

(* ... and the link taken back when that fails. *)
LinkTakenBack(p) ==
    /\ Step(p, "undo", "return")
    /\ CanLock(target[p])
    /\ nlink' = [nlink EXCEPT ![target[p]] = @ - 1]
    /\ Drops(p, <<target[p]>>)
    /\ UNCHANGED <<type, entry, dotdot, refs, owner, call, walk, target>>

Return(p) ==
    /\ Step(p, "return", "user")
    /\ call' = [call EXCEPT ![p] = "open"]
    /\ request' = [request EXCEPT ![p] = NoRequest]
    /\ path' = [path EXCEPT ![p] = <<>>]
    /\ cur' = [cur EXCEPT ![p] = NoNode] /\ target' = [target EXCEPT ![p] = NoNode]
    /\ UNCHANGED <<inodes, refs, owner, puts>>

DirNext ==
    \E p \in Proc :
        \/ \E r \in Request : Enter(p, r)
        \/ PutInode(p) \/ Return(p) \/ NamexEnds(p) \/ NamexTurn(p)
        \/ OpenFound(p) \/ CloseFile(p) \/ ChdirFound(p)
        \/ CreateOld(p) \/ CreateOldOpens(p)
        \/ CreateNew(p) \/ CreateFills(p) \/ CreateEnds(p)
        \/ UnlinkFinds(p) \/ UnlinkErases(p) \/ UnlinkEnds(p)
        \/ LinkFound(p) \/ LinkMakes(p) \/ LinkTakenBack(p)

DirSpec == DirInit /\ [][DirNext]_dirVars

-----------------------------------------------------------------------------
(* The inode whose lock a call waits for: NoNode if none *)
Wants(p) ==
    IF puts[p] # <<>> THEN NoNode
    ELSE CASE dpc[p] \in {"parent", "found"} -> cur[p]
           [] dpc[p] = "walk" /\ path[p] # <<>> -> cur[p]
           [] dpc[p] \in {"fill", "old", "unlink", "undo"} -> target[p]
           [] OTHER -> NoNode

(* No deadlock: calls that hold the lock of one inode while they wait for  *)
(* another (create() and unlink(), sysfile.c:186, 239) never wait for each *)
(* other, nor for themselves.                                              *)
NoLockCycle ==
    \A S \in (SUBSET Proc) \ {{}} :
        \E p \in S : Wants(p) = NoNode \/ owner[Wants(p)] \notin S

Entries(n) ==
    {e \in Node \X Name : type[e[1]] # "free" /\ entry[e[1]][e[2]] = n}

(* What a directory names is there: an inode is not freed, nor allocated   *)
(* again, while an entry is left, and it has a link for each one; a        *)
(* directory has only one.                                                 *)
NamedLive ==
    \A n \in Node : Entries(n) # {} =>
        /\ type[n] # "free" /\ nlink[n] >= Cardinality(Entries(n))
        /\ type[n] = "T_DIR" => Cardinality(Entries(n)) = 1

(* The assertion of ilock() (fs.c:274): the inode it reads is allocated.   *)
IlockFindsType ==
    \A p \in Proc :
        Wants(p) # NoNode /\ owner[Wants(p)] = Nobody => type[Wants(p)] # "free"
=============================================================================
