------------------------------- MODULE Bytes -------------------------------
(***************************************************************************)
(* What readi(), writei() and itrunc() of kernel/fs.c promise: a file is a *)
(* sequence of bytes of its own.  A call may take several steps, and other *)
(* files are used meanwhile.                                               *)
(***************************************************************************)
EXTENDS Integers, Sequences, SequencesExt

CONSTANTS File, Byte, Limit, NoCall

VARIABLES
    content,   \* the bytes of each file
    call,      \* what is still to be read from it, or written to it
    out        \* what the last call read

bytesVars == <<content, call, out>>

BytesInit ==
    /\ content = [f \in File |-> << >>]
    /\ call = [f \in File |-> NoCall]
    /\ out = << >>

Starts(f) ==
    /\ call[f] = NoCall
    /\ \E c \in [kind : {"read", "write"}, off : 0..Len(content[f]), left : 0..Limit,
                 byte : Byte, got : {<< >>}] :
          /\ c.off + c.left <= IF c.kind = "read" THEN Len(content[f]) ELSE Limit
          /\ call' = [call EXCEPT ![f] = c]
    /\ UNCHANGED <<content, out>>

(* Some of the bytes are written in their place ...                        *)
Overlaid(s, off, n, b) ==
    [i \in 1..(IF off + n > Len(s) THEN off + n ELSE Len(s)) |->
        IF i \in off + 1..off + n THEN b ELSE s[i]]

Puts(f) ==
    /\ call[f] # NoCall /\ call[f].kind = "write"
    /\ \E n \in 1..call[f].left :
          /\ content' = [content EXCEPT ![f] = Overlaid(@, call[f].off, n, call[f].byte)]
          /\ call' = [call EXCEPT ![f].off = @ + n, ![f].left = @ - n]
    /\ UNCHANGED out

(* ... or read from it, in order.                                          *)
Gets(f) ==
    /\ call[f] # NoCall /\ call[f].kind = "read"
    /\ \E n \in 1..call[f].left :
          call' = [call EXCEPT
              ![f].off = @ + n, ![f].left = @ - n,
              ![f].got = @ \o SubSeq(content[f], call[f].off + 1, call[f].off + n)]
    /\ UNCHANGED <<content, out>>

Returns(f) ==
    /\ call[f] # NoCall /\ call[f].left = 0
    /\ call' = [call EXCEPT ![f] = NoCall]
    /\ out' = call[f].got
    /\ UNCHANGED content

Empties(f) ==
    /\ call[f] = NoCall
    /\ content' = [content EXCEPT ![f] = << >>]
    /\ call' = [call EXCEPT ![f] = [NoCall EXCEPT !.kind = "trunc"]]
    /\ UNCHANGED out

BytesNext == \E f \in File : Starts(f) \/ Puts(f) \/ Gets(f) \/ Returns(f) \/ Empties(f)

BytesSpec == BytesInit /\ [][BytesNext]_bytesVars
=============================================================================
