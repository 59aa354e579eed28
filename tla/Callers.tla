------------------------------ MODULE Callers ------------------------------
(***************************************************************************)
(* The processes whose system calls use the file system.                   *)
(***************************************************************************)
CONSTANTS
    Proc,
    Nobody     \* not a process

ASSUME NobodyAssumption == Nobody \notin Proc
=============================================================================
