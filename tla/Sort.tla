-------------------------------- MODULE Sort --------------------------------
(***************************************************************************)
(* The sort program of homework 1, user/sort.c: sort() reads the file a    *)
(* buffer at a time, picks the numbers out of each, and insertionSort()    *)
(* orders them.  A pipe or the console returns less than a read() asks.    *)
(***************************************************************************)
EXTENDS Integers, Sequences, FiniteSetsExt, SequencesExt

CONSTANTS
    Char,
    BUFSIZE,       \* of buf, in bytes, and of arr, in numbers
    MaxText        \* bound on the length of a file

(* Characters that are not digits: white space, and what buf is made of at first *)
Blank == 10
NUL == 11

ASSUME SortAssumption == Char \subseteq 0..9 \cup {Blank} /\ BUFSIZE \in Nat \ {0}

VARIABLES
    stext,         \* the file
    srest,         \* what has not been read
    sbuf, snum, arr,
    rflag,
    spc, printed,
    ends           \* where the read()s ended (for the property)

sortVars == <<stext, srest, sbuf, snum, arr, rflag, spc, printed, ends>>

SortTypeOK ==
    /\ stext \in BoundedSeq(Char, MaxText) /\ srest \in BoundedSeq(Char, MaxText)
    /\ sbuf \in [1..BUFSIZE -> Char \cup {NUL}] /\ snum \in BOOLEAN /\ ends \subseteq 1..MaxText
    /\ arr \in Seq(Nat) /\ Len(arr) <= BUFSIZE
    /\ rflag \in BOOLEAN
    /\ spc \in {"read", "printed", "overflow"}
    /\ printed \in Seq(Nat)

SortStart(text, r) ==
    /\ stext = text /\ srest = text
    /\ sbuf = [i \in 1..BUFSIZE |-> NUL] /\ snum = FALSE /\ ends = {} /\ arr = <<>>
    /\ rflag = r
    /\ spc = "read" /\ printed = <<>>

SortInit == \E text \in BoundedSeq(Char, MaxText), r \in BOOLEAN : SortStart(text, r)

-----------------------------------------------------------------------------
(* Where a number begins: num tells if the byte before was part of one. *)
Begins(b, n, num) ==
    {i \in 1..n : b[i] # Blank /\ IF i = 1 THEN ~num ELSE b[i - 1] = Blank}

(* atoi(&b[i]), which stops at the end of the buffer, for a zero follows   *)
Atoi(b, i) ==
    LET j == Min({k \in i..Len(b) : b[k] \notin 0..9} \cup {Len(b) + 1})
    IN  FoldLeft(LAMBDA n, d : 10 * n + d, 0, SubSeq(b, i, j - 1))

Numbers(b, n, num) ==
    LET at == SelectSeq([i \in 1..n |-> i], LAMBDA i : i \in Begins(b, n, num))
    IN  [k \in DOMAIN at |-> Atoi(b, at[k])]

(* A turn of the loop: read() into buf, over the bytes of the last one *)
SortReads(n) ==
    /\ spc = "read" /\ n \in 1..Min({BUFSIZE, Len(srest)})
    /\ sbuf' = [i \in 1..BUFSIZE |-> IF i <= n THEN srest[i] ELSE sbuf[i]]
    /\ LET new == arr \o Numbers(sbuf', n, snum)
       IN  IF Len(new) <= BUFSIZE
           THEN arr' = new /\ UNCHANGED spc
           ELSE spc' = "overflow" /\ UNCHANGED arr
    /\ snum' = (srest[n] # Blank) /\ ends' = ends \cup {Len(stext) - Len(srest) + n}
    /\ srest' = SubSeq(srest, n + 1, Len(srest))
    /\ UNCHANGED <<stext, rflag, printed>>

(* insertionSort(): x goes after what is not greater *)
Insert(s, x) == InsertAt(s, Cardinality({i \in DOMAIN s : s[i] <= x}) + 1, x)

InsertionSort(s) == FoldLeft(Insert, <<>>, s)

SortPrints ==
    /\ spc = "read" /\ srest = <<>>
    /\ arr' = InsertionSort(arr)
    /\ printed' = IF rflag THEN Reverse(arr') ELSE arr'
    /\ spc' = "printed"
    /\ UNCHANGED <<stext, srest, sbuf, snum, rflag, ends>>

SortNext == SortPrints \/ \E n \in 1..BUFSIZE : SortReads(n)

SortSpec == SortInit /\ [][SortNext]_sortVars

-----------------------------------------------------------------------------
Times(s, x) == Cardinality({i \in DOMAIN s : s[i] = x})

(* The read() that had the byte i, and the part of the number at i in it   *)
EndOf(i) == Min({e \in ends : e >= i})
SizeOf(e) == e - Max({0} \cup {d \in ends : d < e})
Digits(i) == Atoi(SubSeq(stext, 1, EndOf(i)), i)

(* Do bytes of a longer read() before follow in buf?  A number that the    *)
(* read() ends in, or with, takes the digits among them too.               *)
Stale(i) ==
    /\ \A k \in i..EndOf(i) : stext[k] # Blank
    /\ \E e \in ends : e < i /\ SizeOf(e) > SizeOf(EndOf(i))

(* However read() cuts the file: each number of it is there once, as far   *)
(* as the read() goes that it begins in (and no digits follow but stale    *)
(* ones of a longer read() before); in the end they are printed in order,  *)
(* or -r backwards.  Only more numbers than arr has room for stop it.      *)
SortRight ==
    LET had == Len(stext) - Len(srest)
        at == SetToSortSeq(Begins(stext, had, FALSE), <)
        s == IF rflag THEN Reverse(printed) ELSE printed
    IN  /\ spc = "overflow" <=> Len(at) > BUFSIZE
        /\ spc = "read" => /\ Len(arr) = Len(at)
                          /\ \A k \in DOMAIN at :
                                \E n \in IF Stale(at[k]) THEN 0..BUFSIZE ELSE {0} :
                                    arr[k] \div 10^n = Digits(at[k])
        /\ spc = "printed" =>
              /\ srest = <<>> /\ Len(s) = Len(at)
              /\ \A i, j \in DOMAIN s : i <= j => s[i] <= s[j]
              /\ LET sure == SelectSeq(at, LAMBDA i : ~Stale(i))
                     numbers == [k \in DOMAIN sure |-> Digits(sure[k])]
                 IN  \A x \in ToSet(numbers) : Times(s, x) >= Times(numbers, x)
=============================================================================
