------------------------------ MODULE Strings ------------------------------
(***************************************************************************)
(* The helpers under everything: kernel/string.c, user/ulib.c, printint()  *)
(* of cprintf() and printf(), and the counting of user/wc.c, each against  *)
(* what it is for, on the inputs of one sample, where nothing steps; and   *)
(* user/grep.c, which reads in pieces.                                     *)
(***************************************************************************)
EXTENDS Integers, Sequences, FiniteSets, SequencesExt, FiniteSetsExt

CONSTANTS
    CELLS,        \* bound: bytes of memory that memmove() works on
    DIRSIZ,
    Letters,      \* bound: what names are made of
    WordBits,     \* bits of an int
    MaxWc         \* bound: characters that wc counts

ASSUME StringsAssumption == {CELLS, DIRSIZ, WordBits, MaxWc} \subseteq Nat \ {0}

VARIABLE sample

stringsVars == sample

Cells == 0..CELLS - 1
NULCHAR == "0"
WcChar == {"blank", "newline", "letter"}

MoveSamples ==
    {s \in [op : {"move"}, dst : Cells, src : Cells, n : 0..CELLS] :
        s.dst + s.n <= CELLS /\ s.src + s.n <= CELLS}
NameSamples == [op : {"name"}, s : SeqOf(Letters, DIRSIZ + 1), t : SeqOf(Letters, DIRSIZ + 1)]
IntSamples == [op : {"int"}, xx : -(2^(WordBits - 1))..2^(WordBits - 1) - 1, base : {10, 16}]
WcSamples == [op : {"wc"}, text : SeqOf(WcChar, MaxWc)]

StringsStart(s) == sample = s
StringsInit ==
    \/ sample \in MoveSamples
    \/ sample \in NameSamples
    \/ sample \in IntSamples
    \/ sample \in WcSamples

-----------------------------------------------------------------------------
(* memmove(): the kernel's copies down where the end of the source would   *)
(* be overwritten, the user library's always up.                           *)
CopyUp(mem, dst, src, n) ==
    FoldLeft(LAMBDA m, i : [m EXCEPT ![dst + i - 1] = m[src + i - 1]], mem, [i \in 1..n |-> i])
CopyDown(mem, dst, src, n) ==
    FoldLeft(LAMBDA m, i : [m EXCEPT ![dst + n - i] = m[src + n - i]], mem, [i \in 1..n |-> i])

Memmove(mem, dst, src, n) ==
    IF src < dst /\ src + n > dst THEN CopyDown(mem, dst, src, n) ELSE CopyUp(mem, dst, src, n)
UserMemmove(mem, dst, src, n) == CopyUp(mem, dst, src, n)

(* strncpy() fills up with NULs, and leaves a name that fits exactly       *)
(* without one; safestrcpy() always ends in one.                           *)
CharAt(s, i) == IF i \in DOMAIN s THEN s[i] ELSE NULCHAR
Strncpy(t, n) == [i \in 1..n |-> CharAt(t, i)]
Safestrcpy(t, n) == [i \in 1..n |-> IF i = n THEN NULCHAR ELSE CharAt(t, i)]

(* strncmp() stops at a difference, a NUL or the n-th character.           *)
StopsAt(p, q, n) ==
    Min({n + 1} \cup {i \in 1..n : CharAt(p, i) = NULCHAR \/ CharAt(p, i) # CharAt(q, i)})
Strncmp(p, q, n) ==
    LET i == StopsAt(p, q, n) IN i = n + 1 \/ CharAt(p, i) = CharAt(q, i)

(* printint(): x = -xx wraps for the least int; the digits come last first *)
Uint(x) == x % 2^WordBits
DigitsUp[x \in Nat, base \in {10, 16}] ==
    IF x < base THEN <<x>> ELSE <<x % base>> \o DigitsUp[x \div base, base]

Printint(xx, base, sgn) ==
    [neg |-> sgn /\ xx < 0,
     digits |-> Reverse(DigitsUp[IF sgn /\ xx < 0 THEN Uint(-xx) ELSE Uint(xx), base])]

(* The loop of wc(), character by character over all its reads             *)
WcCount(counts, ch) ==
    [l |-> counts.l + (IF ch = "newline" THEN 1 ELSE 0),
     w |-> counts.w + (IF ch = "letter" /\ ~counts.inword THEN 1 ELSE 0),
     c |-> counts.c + 1,
     inword |-> ch = "letter"]
Wc(text) == FoldLeft(WcCount, [l |-> 0, w |-> 0, c |-> 0, inword |-> FALSE], text)

-----------------------------------------------------------------------------
(* memmove() moves the bytes that were there, whatever overlaps; that of   *)
(* the user library only where the destination is not inside the source.   *)
MoveRight == sample.op = "move" =>
    LET mem == [i \in Cells |-> i]
        dst == sample.dst  src == sample.src  n == sample.n
        moved == [i \in Cells |-> IF i >= dst /\ i < dst + n THEN src + i - dst ELSE i]
    IN  /\ Memmove(mem, dst, src, n) = moved
        /\ UserMemmove(mem, dst, src, n) = moved <=> n = 0 \/ dst <= src \/ dst >= src + n

(* A name is found in a directory by the DIRSIZ characters stored of it;   *)
(* a process's name is what fits with its NUL.                             *)
NamesRight == sample.op = "name" =>
    LET s == sample.s  t == sample.t IN
    /\ Strncmp(s, Strncpy(t, DIRSIZ), DIRSIZ)
          <=> SubSeq(s, 1, Min({Len(s), DIRSIZ})) = SubSeq(t, 1, Min({Len(t), DIRSIZ}))
    /\ \E k \in 1..DIRSIZ : Safestrcpy(t, DIRSIZ)[k] = NULCHAR
    /\ Len(t) < DIRSIZ => Safestrcpy(t, DIRSIZ) = Strncpy(t, DIRSIZ)

(* A number is printed as it is, the least one too; %x prints its bits.    *)
NumbersRight == sample.op = "int" =>
    LET Of(p) == FoldLeft(LAMBDA v, d : v * sample.base + d, 0, p.digits) * (IF p.neg THEN -1 ELSE 1)
    IN  /\ Of(Printint(sample.xx, sample.base, TRUE)) = sample.xx
        /\ Of(Printint(sample.xx, sample.base, FALSE)) = Uint(sample.xx)

(* wc counts newlines, and words where a letter follows none.              *)
WcRight == sample.op = "wc" =>
    LET text == sample.text  n == Wc(text) IN
    /\ n.c = Len(text)
    /\ n.l = Cardinality({i \in DOMAIN text : text[i] = "newline"})
    /\ n.w = Cardinality({i \in DOMAIN text :
                            text[i] = "letter" /\ (i > 1 => text[i - 1] # "letter")})

StringsRight == MoveRight /\ NamesRight /\ NumbersRight /\ WcRight

-----------------------------------------------------------------------------
(* user/grep.c: the matcher, and the loop that takes the lines out of what *)
(* read() returns.  A file gives as much as there is room for; a pipe may  *)
(* give less.                                                              *)
CONSTANTS
    ROOM,         \* sizeof(buf) - 1
    Patterns,     \* bound: sequences of characters
    Texts         \* bound: what is searched

ASSUME GrepAssumption == ROOM \in Nat \ {0}

VARIABLES
    pattern,
    searched,     \* the whole text
    unread,       \* what read() has still to return
    whole,        \* does it come from a file?
    linebuf,      \* buf, up to m
    found,      \* lines
    begun,        \* has the start of a line been thrown away, with more to read?
    grepped

grepVars == <<pattern, searched, unread, whole, linebuf, found, begun, grepped>>

NewLine == "nl"

-----------------------------------------------------------------------------
(* The matcher: text and pattern are strings, which end with a NUL.        *)
CharOf(s, i) == IF i \in DOMAIN s THEN s[i] ELSE "NUL"
Rest(s, n) == SubSeq(s, n + 1, Len(s))

RECURSIVE MatchHere(_, _), MatchStar(_, _, _)

MatchHere(re, text) ==
    CASE CharOf(re, 1) = "NUL" -> TRUE
      [] CharOf(re, 1) # "NUL" /\ CharOf(re, 2) = "*" -> MatchStar(re[1], Rest(re, 2), text)
      [] re = <<"$">> -> text = <<>>
      [] OTHER -> /\ text # <<>> /\ re[1] \in {".", text[1]}
                  /\ MatchHere(Rest(re, 1), Rest(text, 1))

MatchStar(c, re, text) ==
    \/ MatchHere(re, text)
    \/ text # <<>> /\ c \in {".", text[1]} /\ MatchStar(c, re, Rest(text, 1))

Match(re, text) ==
    IF CharOf(re, 1) = "^" THEN MatchHere(Rest(re, 1), text)
    ELSE \E i \in 0..Len(text) : MatchHere(re, Rest(text, i))

-----------------------------------------------------------------------------
GrepStart(re, text, file) ==
    /\ pattern = re /\ searched = text /\ unread = text /\ whole = file
    /\ linebuf = <<>> /\ found = <<>> /\ begun = FALSE /\ grepped = FALSE

GrepInit == \E re \in Patterns, text \in Texts, file \in BOOLEAN : GrepStart(re, text, file)

NewLines(s) == {i \in DOMAIN s : s[i] = NewLine}

(* The lines that end in s, without their ends                             *)
Lines(s) ==
    LET ends == <<0>> \o SetToSortSeq(NewLines(s), <)
    IN  [i \in 1..Len(ends) - 1 |-> SubSeq(s, ends[i] + 1, ends[i + 1] - 1)]

(* One round: m = 0 where there is no line in the buffer                   *)
GrepReads ==
    /\ ~grepped /\ unread # <<>>
    /\ LET most == IF Len(unread) < ROOM - Len(linebuf) THEN Len(unread) ELSE ROOM - Len(linebuf)
       IN  \E n \in IF whole THEN {most} ELSE 1..most :
             LET b == linebuf \o SubSeq(unread, 1, n)
                 last == CHOOSE i \in NewLines(b) \cup {0} : \A j \in NewLines(b) : j <= i
             IN  /\ unread' = Rest(unread, n)
                 /\ found' = found \o SelectSeq(Lines(b), LAMBDA l : Match(pattern, l))
                 /\ linebuf' = IF last = 0 THEN <<>> ELSE Rest(b, last)
                 /\ begun' = (begun \/ (last = 0 /\ n < Len(unread)))
    /\ UNCHANGED <<pattern, searched, whole, grepped>>

(* read() returns 0: nothing is left, or there is no room.                 *)
GrepEnds ==
    /\ ~grepped /\ (unread = <<>> \/ Len(linebuf) = ROOM)
    /\ grepped' = TRUE
    /\ UNCHANGED <<pattern, searched, unread, whole, linebuf, found, begun>>

GrepNext == GrepReads \/ GrepEnds

GrepSpec == GrepInit /\ [][GrepNext]_grepVars

-----------------------------------------------------------------------------
(* What a pattern means: where in a text its items take one that starts at *)
(* any of a set of places.                                                 *)
Takes(c, text, i) == i < Len(text) /\ c \in {".", text[i + 1]}

RECURSIVE Reached(_, _, _)
Reached(re, text, places) ==
    CASE re = <<>> -> places
      [] re # <<>> /\ CharOf(re, 2) = "*" ->
            Reached(Rest(re, 2), text,
                    {j \in 0..Len(text) :
                        \E i \in places : i <= j /\ \A k \in i..j - 1 : Takes(re[1], text, k)})
      [] re = <<"$">> -> places \cap {Len(text)}
      [] OTHER -> Reached(Rest(re, 1), text, {i + 1 : i \in {k \in places : Takes(re[1], text, k)}})

Means(re, text) ==
    IF CharOf(re, 1) = "^" THEN Reached(Rest(re, 1), text, {0}) # {}
    ELSE Reached(re, text, 0..Len(text)) # {}

(* grep reads to the end and prints the lines that match and end.  Where   *)
(* it throws the start of a line away, it may print the rest instead or    *)
(* miss the line, but prints nothing of a line that does not match, unless *)
(* the pattern asks for the start of a line; and of a file it throws one   *)
(* away only where a line does not fit.                                    *)
GrepRight == grepped =>
    LET right == SelectSeq(Lines(searched), LAMBDA l : Means(pattern, l))
    IN  /\ unread = <<>>
        /\ ~begun => found = right
        /\ CharOf(pattern, 1) # "^" =>
              /\ Len(found) <= Len(right)
              /\ \A i \in DOMAIN found : \E l \in ToSet(right) : IsSuffix(found[i], l)
        /\ begun /\ whole => \E i \in 0..Len(searched) - ROOM :
                              \A k \in 1..ROOM : searched[i + k] # NewLine
=============================================================================
