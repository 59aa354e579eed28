------------------------------ MODULE ProcTree ------------------------------
(***************************************************************************)
(* What fork(), exit() and wait() of kernel/proc.c promise to programs,    *)
(* without process table, locks, CPUs or scheduler: every pid is handed    *)
(* out once, by one process to one child; a process exits once; it is then *)
(* reaped once, while its parent, or init if that exited, is alive.        *)
(***************************************************************************)
EXTENDS Integers

CONSTANT MaxPid      \* bound: pids handed out in a behaviour

Pid == 1..MaxPid
NoPid == 0
InitPid == 1

VARIABLES
    status,   \* of each pid: none, being forked, alive, exited, reaped or never started
    parentOf  \* the process that may wait for it, NoPid once it is gone

treeVars == <<status, parentOf>>

Status == {"none", "new", "alive", "zombie", "gone"}

TreeTypeOK ==
    /\ status \in [Pid -> Status]
    /\ parentOf \in [Pid -> {NoPid} \cup Pid]

TreeInit ==
    /\ status = [p \in Pid |-> "none"]
    /\ parentOf = [p \in Pid |-> NoPid]

(* userinit() *)
Boot ==
    /\ \A p \in Pid : status[p] = "none"
    /\ status' = [status EXCEPT ![InitPid] = "alive"]
    /\ UNCHANGED parentOf

(* q asks for a child and is given the least pid never used. *)
Begin(q, p) ==
    /\ status[q] = "alive" /\ status[p] = "none"
    /\ \A r \in 1..p - 1 : status[r] # "none"
    /\ status' = [status EXCEPT ![p] = "new"]
    /\ parentOf' = [parentOf EXCEPT ![p] = q]

(* Out of memory: the pid is spent. *)
Abort(p) ==
    /\ status[p] = "new"
    /\ status' = [status EXCEPT ![p] = "gone"]
    /\ parentOf' = [parentOf EXCEPT ![p] = NoPid]

Start(p) ==
    /\ status[p] = "new"
    /\ status' = [status EXCEPT ![p] = "alive"]
    /\ UNCHANGED parentOf

(* p exits, which it cannot do in the middle of a fork(). *)
Leave(p) ==
    /\ p # InitPid /\ status[p] = "alive"
    /\ \A r \in Pid : parentOf[r] = p => status[r] # "new"
    /\ status' = [status EXCEPT ![p] = "zombie"]
    /\ parentOf' = [r \in Pid |-> IF parentOf[r] = p THEN InitPid ELSE parentOf[r]]

Collect(q, p) ==
    /\ status[q] = "alive" /\ status[p] = "zombie" /\ parentOf[p] = q
    /\ status' = [status EXCEPT ![p] = "gone"]
    /\ parentOf' = [parentOf EXCEPT ![p] = NoPid]

TreeNext ==
    \/ Boot
    \/ \E p \in Pid : Abort(p) \/ Start(p) \/ Leave(p)
    \/ \E p, q \in Pid : Begin(q, p) \/ Collect(q, p)

TreeSpec == TreeInit /\ [][TreeNext]_treeVars
=============================================================================
