---------------------------- MODULE StoreLayers ----------------------------
(***************************************************************************)
(* The buffer cache under the inode cache, and what both promise together. *)
(***************************************************************************)
EXTENDS Cache, InodeCache

VARIABLE layer     \* the part of the system that a behaviour is about

(* Who sleeps for a buffer, for the disk or for an inode (bio.c:74,        *)
(* ide.c:150, fs.c:259) has somebody to wait for, who wakes him.           *)
SleepersWoken == SleepersServed /\ LockHeld

(* ImplementsBlocks of Cache: one process at a time uses a block, and      *)
(* finds what the last one left there.                                     *)
BlocksAreKept == Bl!BlocksInit /\ [][layer = "cache" => Bl!BlocksNext]_(Bl!blocksVars)

(* ImplementsFiles of InodeCache: one process at a time has an inode       *)
(* locked, and an inode is freed when nobody names or uses it any more.    *)
InodesAreFiles == Fi!FilesInit /\ [][layer = "inodes" => Fi!FilesNext]_(Fi!filesVars)
=============================================================================
