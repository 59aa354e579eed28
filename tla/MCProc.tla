------------------------------- MODULE MCProc -------------------------------
EXTENDS ProcInvariants

(* fork() gives every process init's tickets: one value is enough.  Two    *)
(* tickets make the counter pass a winner it does not meet exactly; one    *)
(* leaves out the winners that differ only in how they are counted.        *)
MCTickets == {2}
MCOneTicket == {1}

(* 2 is init's first shell; 0 is the pid of a slot never used or reaped.   *)
MCShell == {2}
MCZeroPid == {0}
MCNoPids == {}
=============================================================================
