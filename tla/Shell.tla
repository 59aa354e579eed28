------------------------------- MODULE Shell -------------------------------
(***************************************************************************)
(* How user/sh.c runs a parsed command: main() and runcmd(), with the      *)
(* pipes, descriptors, fork()s and wait()s they use.  A step is one system *)
(* call, or the few a child makes on its own descriptors before it goes    *)
(* on.  FileTable and Pipe model what is behind the descriptors: here a    *)
(* pipe end is open while a descriptor is left, and a pipe has so many     *)
(* bytes.                                                                  *)
(***************************************************************************)
EXTENDS Integers, FiniteSets, FiniteSetsExt

CONSTANTS
    NJOB,          \* processes
    Lines,         \* [cmd |-> what parsecmd() returns, free |-> processes left to the shell];
                   \* bound: the user types one line again and again
    NPIPES,
    PipeRoom,          \* bytes in a pipe
    Output         \* bytes that a program like echo writes

Job == 1..NJOB
Sh == 1            \* the shell
InitProc == 0         \* init, parent of orphans: it reaps them
Desc == 0..4
(* What a descriptor can refer to, other than an end of a pipe *)
NotOpen == <<0, "closed">>
Cons == <<0, "console">>
File == <<0, "file">>
PipeNo == 1..NPIPES

ASSUME ShellAssumption ==
    /\ NJOB \in Nat \ {0} /\ NPIPES \in Nat /\ PipeRoom \in Nat \ {0} /\ Output \in Nat

VARIABLES
    jpc,       \* where each process is
    cmd,       \* what it runs; of the shell, the line that the user types
    fds,
    jparent,
    bytes,     \* in each pipe
    todo       \* bytes that a program has still to write

shVars == <<jpc, cmd, fds, jparent, bytes, todo>>

NoCmd == [type |-> "NONE"]

ShTypeOK ==
    /\ jpc \in [Job -> {"unused", "taken", "prompt", "wait", "dead", "run", "left", "right", "plumb0",
                       "plumb1", "piped", "ends", "wait1", "wait2", "list", "listed",
                       "program", "exit", "zombie"}]
    /\ jparent \in [Job -> Job \cup {InitProc}]
    /\ bytes \in [PipeNo -> 0..PipeRoom]
    /\ todo \in [Job -> 0..Output + 1]
    /\ \A j \in Job : DOMAIN fds[j] = Desc

Std == [fd \in Desc |-> IF fd <= 2 THEN Cons ELSE NotOpen]
AllClosed == [fd \in Desc |-> NotOpen]

ShInit ==
    /\ \E line \in Lines :
          /\ jpc = [j \in Job |-> IF j = Sh THEN "prompt" ELSE
                                 IF j <= line.free + 1 THEN "unused" ELSE "taken"]
          /\ cmd = [j \in Job |-> IF j = Sh THEN line.cmd ELSE NoCmd]
    /\ fds = [j \in Job |-> IF j = Sh THEN Std ELSE AllClosed]
    /\ jparent = [j \in Job |-> InitProc]
    /\ bytes = [k \in PipeNo |-> 0]
    /\ todo = [j \in Job |-> 0]

-----------------------------------------------------------------------------
Holders(end) == {j \in Job : \E fd \in Desc : fds[j][fd] = end}

To(j, from, l) == jpc[j] = from /\ jpc' = [jpc EXCEPT ![j] = l]

(* fork1(): the child goes to l with command c; or, when no process is     *)
(* left, the caller panics.                                                *)
Fork1(j, from, next, l, c) ==
    /\ jpc[j] = from
    /\ \/ \E k \in Job :
             /\ jpc[k] = "unused"
             /\ \A i \in Job : jpc[i] = "unused" => k <= i
             /\ jpc' = [jpc EXCEPT ![j] = next, ![k] = l]
             /\ cmd' = [cmd EXCEPT ![k] = c]
             /\ fds' = [fds EXCEPT ![k] = fds[j]]
             /\ jparent' = [jparent EXCEPT ![k] = j]
       \/ /\ \A k \in Job : jpc[k] # "unused"
          /\ jpc' = [jpc EXCEPT ![j] = "exit"]
          /\ UNCHANGED <<cmd, fds, jparent>>
    /\ UNCHANGED <<bytes, todo>>

Children(j) == {k \in Job : jpc[k] \notin {"unused", "taken"} /\ jparent[k] = j}

(* wait(): a zombie, or no child at all *)
WaitFor(j, from, next) ==
    /\ jpc[j] = from
    /\ \/ \E k \in Children(j) :
             /\ jpc[k] = "zombie"
             /\ jpc' = [jpc EXCEPT ![j] = next, ![k] = "unused"]
       \/ Children(j) = {} /\ jpc' = [jpc EXCEPT ![j] = next]
    /\ UNCHANGED <<cmd, fds, jparent, bytes, todo>>

(* exit(): the descriptors are closed, the children go to init. *)
Exits(j) ==
    /\ To(j, "exit", IF j = Sh THEN "dead" ELSE "zombie")
    /\ cmd' = [cmd EXCEPT ![j] = NoCmd]
    /\ fds' = [fds EXCEPT ![j] = AllClosed]
    /\ jparent' = [k \in Job |-> IF k \in Children(j) THEN InitProc ELSE jparent[k]]
    /\ todo' = [todo EXCEPT ![j] = 0]
    /\ UNCHANGED bytes

InitReaps(j) ==
    /\ jparent[j] = InitProc
    /\ To(j, "zombie", "unused")
    /\ UNCHANGED <<cmd, fds, jparent, bytes, todo>>

-----------------------------------------------------------------------------
(* main(): a line is read, and a child runs it. *)
Prompt == Fork1(Sh, "prompt", "wait", "run", cmd[Sh])

PromptAgain == WaitFor(Sh, "wait", "prompt")

(* runcmd() of a program: exec() of it, or nothing when that fails *)
RunExec(j) ==
    /\ jpc[j] = "run" /\ cmd[j].type = "EXEC"
    /\ \/ /\ cmd[j].prog # "none"
          /\ To(j, "run", "program")
          /\ todo' = [todo EXCEPT ![j] = IF cmd[j].prog = "echo" THEN Output ELSE 0]
       \/ To(j, "run", "exit") /\ UNCHANGED todo
    /\ UNCHANGED <<cmd, fds, jparent, bytes>>

(* A redirection: close(), and open() that takes the lowest descriptor *)
RunRedir(j) ==
    /\ jpc[j] = "run" /\ cmd[j].type = "REDIR"
    /\ LET closed == [fds[j] EXCEPT ![cmd[j].fd] = NotOpen]
           fd == Min({i \in Desc : closed[i] = NotOpen})
       IN  \/ /\ fds' = [fds EXCEPT ![j] = [closed EXCEPT ![fd] = File]]
              /\ cmd' = [cmd EXCEPT ![j] = @.cmd]
              /\ UNCHANGED jpc
           \/ /\ fds' = [fds EXCEPT ![j] = closed]
              /\ To(j, "run", "exit")
              /\ UNCHANGED cmd
    /\ UNCHANGED <<jparent, bytes, todo>>

RunList(j) == jpc[j] = "run" /\ cmd[j].type = "LIST" /\ Fork1(j, "run", "list", "run", cmd[j].left)

ListWaits(j) == WaitFor(j, "list", "listed")

ListGoesOn(j) ==
    /\ To(j, "listed", "run")
    /\ cmd' = [cmd EXCEPT ![j] = @.right]
    /\ UNCHANGED <<fds, jparent, bytes, todo>>

RunBack(j) == jpc[j] = "run" /\ cmd[j].type = "BACK" /\ Fork1(j, "run", "exit", "run", cmd[j].cmd)

(* A pipe: pipe(), or panic *)
RunPipe(j) ==
    /\ jpc[j] = "run" /\ cmd[j].type = "PIPE"
    /\ \/ \E k \in PipeNo :
             /\ Holders(<<k, "r">>) = {} /\ Holders(<<k, "w">>) = {}
             /\ \A i \in 1..k - 1 : Holders(<<i, "r">>) # {} \/ Holders(<<i, "w">>) # {}
             /\ fds' = [fds EXCEPT ![j][3] = <<k, "r">>, ![j][4] = <<k, "w">>]
             /\ bytes' = [bytes EXCEPT ![k] = 0]
             /\ To(j, "run", "left")
       \/ To(j, "run", "exit") /\ UNCHANGED <<fds, bytes>>
    /\ UNCHANGED <<cmd, jparent, todo>>

PipeForksLeft(j) == jpc[j] = "left" /\ Fork1(j, "left", "right", "plumb1", cmd[j].left)

PipeForksRight(j) == jpc[j] = "right" /\ Fork1(j, "right", "ends", "plumb0", cmd[j].right)

(* close(fd), dup() of a pipe end to it, and both ends closed *)
Plumb(j, from, fd, end) ==
    /\ To(j, from, "run")
    /\ fds' = [fds EXCEPT ![j] = [@ EXCEPT ![fd] = fds[j][end], ![3] = NotOpen, ![4] = NotOpen]]
    /\ UNCHANGED <<cmd, jparent, bytes, todo>>

PlumbLeft(j) == Plumb(j, "plumb1", 1, 4)
PlumbRight(j) == Plumb(j, "plumb0", 0, 3)

(* What is left of the parent's descriptors *)
Unpiped_read(f) == [f EXCEPT ![3] = NotOpen]
Unpiped(f) == [f EXCEPT ![3] = NotOpen, ![4] = NotOpen]

PipeCloses(j) ==
    /\ To(j, "ends", "wait1")
    /\ fds' = [fds EXCEPT ![j] = Unpiped(@)]
    /\ UNCHANGED <<cmd, jparent, bytes, todo>>

PipeWaits(j) == WaitFor(j, "wait1", "wait2") \/ WaitFor(j, "wait2", "exit")

-----------------------------------------------------------------------------
(* Programs: echo writes, cat copies its input to its output, true ends.   *)
(* pipewrite() of a byte fails if the pipe is full and nobody can read it; *)
(* piperead() returns 0 at the end; the console's user types ^D.           *)

CanWrite(j) ==
    LET out == fds[j][1] IN
        out \in PipeNo \X {"w"} =>
            bytes[out[1]] < PipeRoom \/ Holders(<<out[1], "r">>) = {}

Writes(j) ==
    /\ jpc[j] = "program" /\ todo[j] > 0 /\ CanWrite(j)
    /\ todo' = [todo EXCEPT ![j] = @ - 1]
    /\ LET out == fds[j][1] IN
          IF out \in PipeNo \X {"w"} /\ bytes[out[1]] < PipeRoom
          THEN bytes' = [bytes EXCEPT ![out[1]] = @ + 1]
          ELSE UNCHANGED bytes
    /\ UNCHANGED <<jpc, cmd, fds, jparent>>

Copies(j) ==
    /\ jpc[j] = "program" /\ todo[j] = 0 /\ cmd[j].prog = "cat"
    /\ LET in == fds[j][0] IN
          /\ in \in PipeNo \X {"r"} /\ bytes[in[1]] > 0
          /\ bytes' = [bytes EXCEPT ![in[1]] = @ - 1]
          /\ todo' = [todo EXCEPT ![j] = 1]
    /\ UNCHANGED <<jpc, cmd, fds, jparent>>

AtEnd(j) ==
    cmd[j].prog = "cat" =>
        LET in == fds[j][0] IN
            in \in PipeNo \X {"r"} => bytes[in[1]] = 0 /\ Holders(<<in[1], "w">>) = {}

ProgramEnds(j) ==
    /\ To(j, "program", "exit")
    /\ todo[j] = 0 /\ AtEnd(j)
    /\ UNCHANGED <<cmd, fds, jparent, bytes, todo>>

JobStep(j) ==
    \/ Exits(j) \/ InitReaps(j)
    \/ RunExec(j) \/ RunRedir(j) \/ RunList(j) \/ RunBack(j) \/ RunPipe(j)
    \/ ListWaits(j) \/ ListGoesOn(j)
    \/ PipeForksLeft(j) \/ PipeForksRight(j) \/ PlumbLeft(j) \/ PlumbRight(j)
    \/ PipeCloses(j) \/ PipeWaits(j)
    \/ Writes(j) \/ Copies(j) \/ ProgramEnds(j)

ShGoesOn == PromptAgain \/ \E j \in Job : JobStep(j)

ShNext == Prompt \/ ShGoesOn

ShSpec == ShInit /\ [][ShNext]_shVars

(* Fairness: as long as some process can go on, some process does.         *)
ShFairSpec == ShSpec /\ WF_shVars(ShGoesOn)

-----------------------------------------------------------------------------
(* Every command ends, and the shell takes the next line: a pipeline has   *)
(* no descriptor too many that keeps a stage reading or writing, no wait() *)
(* takes the wrong child, whichever fork(), open() or exec() fails.        *)
CommandEnds == jpc[Sh] = "wait" ~> jpc[Sh] # "wait"
=============================================================================
