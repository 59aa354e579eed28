----------------------------- MODULE RunLength -----------------------------
(***************************************************************************)
(* The run-length encoders of homework 4.  rle.c encodes a line at once;   *)
(* prle.c cuts the input into chunks that threads encode, and go() joins   *)
(* the threads in order and merges what they made.  The arrays of entries  *)
(* are taken to be large enough (prle.c:33 makes them too small for short  *)
(* chunks), and the memory behind the last entry to hold any letter.       *)
(***************************************************************************)
EXTENDS Integers, Sequences, FiniteSetsExt, SequencesExt

CONSTANTS
    Letter,
    Garbage,       \* not a letter: what lies behind the entries of a result
    NTHREADS,
    INPUT_THRESHOLD,
    MaxInput       \* bound on the length of an input

ASSUME RunLengthAssumption ==
    /\ Garbage \notin Letter
    /\ NTHREADS \in Nat \ {0} /\ INPUT_THRESHOLD \in Nat /\ NTHREADS <= INPUT_THRESHOLD + 1

VARIABLES
    text,
    pos,        \* how far each thread is; of those that are created
    result,     \* of each thread: struct RunEntry, [c |-> letter, n |-> length]
    merge,      \* what go() keeps between two joins
    rlpc,       \* threads joined; then NTHREADS + 1
    out         \* entries printed; one of length 1 without its length

rlVars == <<text, pos, result, merge, rlpc, out>>

Run == [c : Letter \cup {Garbage}, n : Nat]
Threads == IF Len(text) > INPUT_THRESHOLD THEN NTHREADS ELSE 1

RlTypeOK ==
    /\ text \in BoundedSeq(Letter, MaxInput)
    /\ Len(pos) <= Threads /\ \A t \in DOMAIN pos : pos[t] \in 0..Len(text)
    /\ Len(result) = Len(pos)
    /\ \A t \in DOMAIN result : \A j \in DOMAIN result[t] : result[t][j] \in Run
    /\ merge \in [c : Letter \cup {Garbage}, n : Nat, new : Nat]
    /\ rlpc \in 0..Threads + 1
    /\ \A j \in DOMAIN out : out[j] \in Run

RlStart(s) ==
    /\ text = s
    /\ pos = <<>> /\ result = <<>>
    /\ merge = [c |-> Garbage, n |-> 0, new |-> 0]
    /\ rlpc = 0 /\ out = <<>>

RlInit == \E s \in BoundedSeq(Letter, MaxInput) : RlStart(s)

-----------------------------------------------------------------------------
(* What rle.c's compress() prints *)
RunEnds(s) == {i \in DOMAIN s : i = Len(s) \/ s[i] # s[i + 1]}

Runs(s) ==
    LET e == SelectSeq([i \in DOMAIN s |-> i], LAMBDA i : i \in RunEnds(s))
    IN  [k \in DOMAIN e |-> [c |-> s[e[k]], n |-> e[k] - IF k = 1 THEN 0 ELSE e[k - 1]]]

(* Chunks of prle.c: the last thread takes what division leaves. *)
From(t) == (t - 1) * (Len(text) \div Threads)
UpTo_short(t) == t * (Len(text) \div Threads)
UpTo(t) == IF t = Threads THEN Len(text) ELSE t * (Len(text) \div Threads)

(* go() creates the threads ... *)
CreateThread ==
    /\ Len(pos) < Threads
    /\ pos' = Append(pos, From(Len(pos) + 1))
    /\ result' = Append(result, <<>>)
    /\ UNCHANGED <<text, merge, rlpc, out>>

(* ... which encode their chunks, a run at a time, ...                     *)
Prle(t) ==
    /\ t \in DOMAIN pos /\ pos[t] < UpTo(t)
    /\ pos' = [pos EXCEPT ![t] =
                  Min({i \in @ + 1..UpTo(t) : i = UpTo(t) \/ text[i] # text[i + 1]})]
    /\ result' = [result EXCEPT ![t] =
                     Append(@, [c |-> text[pos'[t]], n |-> pos'[t] - pos[t]])]
    /\ UNCHANGED <<text, merge, rlpc, out>>

(* ... and joins them.                                                     *)
Joins(t) ==
    /\ Len(pos) = Threads /\ rlpc = t - 1
    /\ t <= Threads /\ pos[t] = UpTo(t)
    /\ rlpc' = t

Previous(e, new) == merge' = [c |-> e.c, n |-> e.n, new |-> new]

JoinFirst ==
    /\ Joins(1)
    /\ IF result[1] = <<>> THEN UNCHANGED merge ELSE Previous(Last(result[1]), merge.new)
    /\ UNCHANGED <<text, pos, result, out>>

(* The chunk goes on with the letter of the last one, ... *)
JoinMatch(t) ==
    /\ Joins(t) /\ t \in 2..Threads - 1
    /\ merge.c = Head(result[t]).c
    /\ LET sum == Head(result[t]).n + merge.n IN
          /\ result' = [result EXCEPT ![t][1].n = sum]
          /\ IF Len(result[t]) = 1
             THEN Previous(result'[t][1], sum) /\ UNCHANGED out
             ELSE /\ out' = Append(out, [c |-> merge.c, n |-> sum])
                  /\ Previous(Last(result[t]), Last(result[t]).n)
    /\ UNCHANGED <<text, pos>>

(* ... or not: its lengths are printed with the letters of the last one.   *)
LetterOf(r, j) == IF j \in DOMAIN r THEN r[j].c ELSE Garbage

JoinOther(t) ==
    /\ Joins(t) /\ t \in 2..Threads
    /\ t = Threads \/ merge.c # Head(result[t]).c
    /\ out' = IF merge.new # 0 THEN out
              ELSE out \o [j \in DOMAIN result[t] |->
                              [c |-> LetterOf(result[t - 1], j), n |-> result[t][j].n]]
    /\ Previous(Last(result[t]), merge.new)
    /\ UNCHANGED <<text, pos, result>>

(* The last chunk, whose first run is added to a length that is left *)
PrintLast ==
    /\ rlpc = Threads
    /\ rlpc' = Threads + 1
    /\ LET r == result[Threads]
       IN  out' = out \o [j \in DOMAIN r |->
                             IF j = 1 THEN [r[1] EXCEPT !.n = @ + merge.new] ELSE r[j]]
    /\ UNCHANGED <<text, pos, result, merge>>

RlNext ==
    \/ CreateThread \/ JoinFirst \/ PrintLast
    \/ \E t \in 1..NTHREADS : Prle(t) \/ JoinMatch(t) \/ JoinOther(t)

RlSpec == RlInit /\ [][RlNext]_rlVars

-----------------------------------------------------------------------------
Expand(runs) == FlattenSeq([j \in DOMAIN runs |-> [i \in 1..runs[j].n |-> runs[j].c]])

Chunk(t) == SubSeq(text, From(t) + 1, UpTo(t))

(* Inputs that go() can merge: each boundary of two chunks is inside a run,*)
(* the first chunk is of one run, and those between it and the last of two *)
(* at most.                                                                *)
Mergeable ==
    Threads > 1 =>
        /\ \A t \in 1..Threads - 1 : text[UpTo(t)] = text[UpTo(t) + 1]
        /\ Len(Runs(Chunk(1))) = 1
        /\ \A t \in 2..Threads - 1 : Len(Runs(Chunk(t))) <= 2

(* rle can be undone, and so can each thread of prle on its chunk, in      *)
(* whatever order they run.  go() merges runs that cross one boundary or   *)
(* many: on every input that it can merge it prints what rle does, and     *)
(* after each join it has printed, or keeps, all of the chunks so far.     *)
(* Where a boundary is between two runs, or a chunk has more of them, it   *)
(* drops runs, prints letters of the wrong chunk, or prints one twice; of  *)
(* the last chunk it prints all runs but the first right on any input.     *)
RunLengthRight ==
    /\ Expand(Runs(text)) = text
    /\ rlpc = 0 => \A t \in DOMAIN pos :
          Expand(result[t]) = SubSeq(text, From(t) + 1, pos[t])
    /\ rlpc \in 1..Threads - 1 /\ Mergeable =>
          Expand(Append(out, [c |-> merge.c, n |-> merge.n])) = SubSeq(text, 1, UpTo(rlpc))
    /\ rlpc = Threads + 1 =>
          /\ Mergeable => out = Runs(text)
          /\ IsSuffix(IF text = <<>> THEN <<>> ELSE Tail(Runs(Chunk(Threads))), out)
=============================================================================
