------------------------------ MODULE LogStore ------------------------------
(***************************************************************************)
(* What kernel/log.c promises to the file system: the writes of a system   *)
(* call, between begin_op() and end_op(), reach the disk all together or   *)
(* not at all, in a group with the calls that overlap it.                  *)
(***************************************************************************)
CONSTANTS Proc, Block, Val

VARIABLES
    fs,       \* the blocks as the file system reads them
    stable,   \* the blocks a crash leaves
    open      \* the processes inside a system call

storeVars == <<fs, stable, open>>

StoreInit ==
    /\ fs \in [Block -> Val] /\ stable = fs
    /\ open = {}

Enter(p) ==
    /\ p \notin open
    /\ open' = open \cup {p}
    /\ UNCHANGED <<fs, stable>>

Write(p) ==
    /\ p \in open
    /\ \E b \in Block, v \in Val : fs' = [fs EXCEPT ![b] = v]
    /\ UNCHANGED <<stable, open>>

Return(p) ==
    /\ p \in open
    /\ open' = open \ {p}
    /\ UNCHANGED <<fs, stable>>

(* Never while a system call is half done. *)
Save ==
    /\ open = {}
    /\ stable' = fs
    /\ UNCHANGED <<fs, open>>

Lose ==
    /\ fs' = stable /\ open' = {}
    /\ UNCHANGED stable

StoreNext == Save \/ Lose \/ \E p \in Proc : Enter(p) \/ Write(p) \/ Return(p)

StoreSpec == StoreInit /\ [][StoreNext]_storeVars
=============================================================================
