----------------------------- MODULE MCServices -----------------------------
(***************************************************************************)
(* Pipes, console input and the shell on small instances.  A behaviour is  *)
(* one of one part; the others stay in one of their initial states.        *)
(***************************************************************************)
EXTENDS Pipe, Console, Shell

CONSTANT Parts

VARIABLE part

vars == <<part, pipeVars, consVars, shVars>>

One(S) == CHOOSE x \in S : TRUE

Init ==
    /\ part \in Parts
    /\ PipeInit /\ ConsInit /\ ShInit
    /\ part # "pipe" => got = One(Byte)
    /\ part # "shell" => cmd[Sh] = One(Lines).cmd /\ jpc[2] = "unused" /\ jpc[3] = "taken"

Next ==
    \/ part = "pipe" /\ PipeNext /\ UNCHANGED <<part, consVars, shVars>>
    \/ part = "console" /\ ConsNext /\ UNCHANGED <<part, pipeVars, shVars>>
    \/ part = "shell" /\ ShNext /\ UNCHANGED <<part, pipeVars, consVars>>

Spec == Init /\ [][Next]_vars

(* The fairness of each part, when it is the one that runs                 *)
FairSpec ==
    /\ Spec
    /\ \A p \in Proc :
          /\ WF_pipeVars(part = "pipe" /\ InKernel(p))
          /\ SF_pipeVars(part = "pipe" /\ Proceeds(p))
          /\ WF_consVars(part = "console" /\ Reads(p))
          /\ SF_consVars(part = "console" /\ KeepsReading(p))
    /\ WF_shVars(part = "shell" /\ ShGoesOn)

TypeOK == PipeTypeOK /\ ConsTypeOK /\ ShTypeOK

-----------------------------------------------------------------------------
(* What sh runs: a line as parsecmd() returns it, and the processes left   *)
Exec1(prog) == [type |-> "EXEC", prog |-> prog]
PipeOf(c, d) == [type |-> "PIPE", left |-> c, right |-> d]
ListOf(c, d) == [type |-> "LIST", left |-> c, right |-> d]
Back(c) == [type |-> "BACK", cmd |-> c]
Redir(fd, c) == [type |-> "REDIR", fd |-> fd, cmd |-> c]

MCLines ==
    [free : {2, 5}, cmd : {PipeOf(Exec1("echo"), PipeOf(Exec1("cat"), Exec1("true")))}]
        \cup [free : {1, 4}, cmd : {ListOf(Redir(1, PipeOf(Exec1("echo"), Exec1("cat"))),
                                       Back(Exec1("none")))}]
=============================================================================
