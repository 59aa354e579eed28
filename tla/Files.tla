------------------------------- MODULE Files -------------------------------
(***************************************************************************)
(* What the inode layer of kernel/fs.c promises (fs.c:87-147): an inode is *)
(* allocated for as long as a directory names it or a process refers to    *)
(* it, and one process at a time examines and changes it.                  *)
(***************************************************************************)
EXTENDS Naturals

CONSTANTS Proc, Inum, MaxLink, Nobody

VARIABLES
    alloc,     \* the inodes that are not free
    names,     \* the directory entries of each inode
    users,     \* the processes that refer to it
    owner      \* the process that has it locked

filesVars == <<alloc, names, users, owner>>

FilesInit ==
    /\ alloc = {}
    /\ names = [n \in Inum |-> 0]
    /\ users = [n \in Inum |-> {}]
    /\ owner = [n \in Inum |-> Nobody]

Refer(p, n) == users' = [users EXCEPT ![n] = @ \cup {p}]

(* A path name leads to a named inode, fork() and dup() to one in use. *)
Open(p, n) ==
    /\ names[n] > 0 \/ users[n] # {}
    /\ Refer(p, n)
    /\ UNCHANGED <<alloc, names, owner>>

Create(p, n) ==
    /\ n \notin alloc
    /\ alloc' = alloc \cup {n}
    /\ Refer(p, n)
    /\ UNCHANGED <<names, owner>>

Lock(p, n) ==
    /\ p \in users[n] /\ owner[n] = Nobody
    /\ owner' = [owner EXCEPT ![n] = p]
    /\ UNCHANGED <<alloc, names, users>>

Unlock(p, n) ==
    /\ owner[n] = p
    /\ owner' = [owner EXCEPT ![n] = Nobody]
    /\ UNCHANGED <<alloc, names, users>>

Link(p, n) ==
    /\ p \in users[n]
    /\ names[n] < MaxLink
    /\ names' = [names EXCEPT ![n] = @ + 1]
    /\ UNCHANGED <<alloc, users, owner>>

Unlink(p, n) ==
    /\ owner[n] = p /\ names[n] > 0
    /\ names' = [names EXCEPT ![n] = @ - 1]
    /\ UNCHANGED <<alloc, users, owner>>

(* The last reference takes an inode without names along. *)
Forget(p, n) ==
    /\ p \in users[n] /\ owner[n] # p
    /\ users' = [users EXCEPT ![n] = @ \ {p}]
    /\ alloc' = IF names[n] = 0 /\ users'[n] = {} THEN alloc \ {n} ELSE alloc
    /\ UNCHANGED <<names, owner>>

FilesNext ==
    \E p \in Proc, n \in Inum :
        \/ Open(p, n) \/ Create(p, n) \/ Forget(p, n)
        \/ Lock(p, n) \/ Unlock(p, n)
        \/ Link(p, n) \/ Unlink(p, n)

FilesSpec == FilesInit /\ [][FilesNext]_filesVars
=============================================================================
