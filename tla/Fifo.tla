-------------------------------- MODULE Fifo --------------------------------
(* What a pipe promises: bytes come out in the order they went in, each    *)
(* once, at most Size of them on the way.                                  *)
EXTENDS Naturals, Sequences

CONSTANTS Byte, Size

VARIABLES
    q,      \* the bytes written and not yet read
    got     \* the byte read last

FifoInit == q = <<>> /\ got \in Byte

Put ==
    /\ Len(q) < Size
    /\ \E b \in Byte : q' = Append(q, b)
    /\ UNCHANGED got

Get ==
    /\ q # <<>>
    /\ got' = Head(q) /\ q' = Tail(q)

FifoSpec == FifoInit /\ [][Put \/ Get]_<<q, got>>
=============================================================================
