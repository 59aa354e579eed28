------------------------------- MODULE Blocks -------------------------------
(***************************************************************************)
(* What kernel/bio.c promises its callers (bio.c:3-16): bread() returns    *)
(* the newest contents of a block to one process at a time.                *)
(***************************************************************************)
CONSTANTS Proc, Block, Val, Nobody

VARIABLES
    content,   \* of each block, as its last user left it
    user       \* the process between bread() and brelse() of the block

blocksVars == <<content, user>>

BlocksInit ==
    /\ content \in [Block -> Val]
    /\ user = [b \in Block |-> Nobody]

Get(p, b) ==
    /\ user[b] = Nobody
    /\ user' = [user EXCEPT ![b] = p]
    /\ UNCHANGED content

Change(p, b) ==
    /\ user[b] = p
    /\ \E v \in Val : content' = [content EXCEPT ![b] = v]
    /\ UNCHANGED user

Put(p, b) ==
    /\ user[b] = p
    /\ user' = [user EXCEPT ![b] = Nobody]
    /\ UNCHANGED content

BlocksNext == \E p \in Proc, b \in Block : Get(p, b) \/ Change(p, b) \/ Put(p, b)

BlocksSpec == BlocksInit /\ [][BlocksNext]_blocksVars
=============================================================================
