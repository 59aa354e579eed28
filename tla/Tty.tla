-------------------------------- MODULE Tty --------------------------------
(***************************************************************************)
(* What the console promises: keys make a line that can be edited until it *)
(* is ended; ended lines are read in order, each key once, no read() going *)
(* past the end of a line; ^D ends the file for one read().                *)
(***************************************************************************)
EXTENDS Naturals, Sequences

CONSTANTS Proc, Key, Newline, Eof, Size

VARIABLES
    line,     \* the keys that can still be edited
    q,        \* the ended lines
    reading   \* of each process: "out", or has its read() bytes already?

ttyVars == <<line, q, reading>>

TtyInit == line = <<>> /\ q = <<>> /\ reading = [p \in Proc |-> "out"]

Ends(k, n) == k \in {Newline, Eof} \/ n = Size

Type(k) ==
    /\ Len(q) + Len(line) < Size
    /\ IF Ends(k, Len(q) + Len(line) + 1)
       THEN q' = q \o Append(line, k) /\ line' = <<>>
       ELSE line' = Append(line, k) /\ UNCHANGED q
    /\ UNCHANGED reading

Erase ==
    /\ line # <<>>
    /\ \E n \in {0, Len(line) - 1} : line' = SubSeq(line, 1, n)
    /\ UNCHANGED <<q, reading>>

Becomes(p, r) == reading' = [reading EXCEPT ![p] = r]

Begin(p) == reading[p] = "out" /\ Becomes(p, "none") /\ UNCHANGED <<line, q>>

Take(p) ==
    /\ reading[p] # "out" /\ q # <<>> /\ Head(q) # Eof
    /\ q' = Tail(q)
    /\ Becomes(p, IF Head(q) = Newline THEN "out" ELSE "some")
    /\ UNCHANGED line

(* ^D: the end of what was typed before it, or of the file. *)
TakeEof(p) ==
    /\ reading[p] # "out" /\ q # <<>> /\ Head(q) = Eof
    /\ q' = IF reading[p] = "none" THEN Tail(q) ELSE q
    /\ Becomes(p, "out")
    /\ UNCHANGED line

End(p) == reading[p] # "out" /\ Becomes(p, "out") /\ UNCHANGED <<line, q>>

TtyNext ==
    \/ Erase
    \/ \E k \in Key : Type(k)
    \/ \E p \in Proc : Begin(p) \/ Take(p) \/ TakeEof(p) \/ End(p)

TtySpec == TtyInit /\ [][TtyNext]_ttyVars
=============================================================================
