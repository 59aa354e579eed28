------------------------------ MODULE Console ------------------------------
(***************************************************************************)
(* Console input, kernel/console.c: the keyboard interrupt (consoleintr()) *)
(* edits and ends lines in a ring that consoleread() takes them from, with *)
(* kill() at any moment.  cons.lock is held over the steps of a read(),    *)
(* and over a whole interrupt, which nobody can then see half done.        *)
(***************************************************************************)
EXTENDS Callers, Integers, Sequences

CONSTANTS
    Key,             \* what can be typed, with
    Newline, Eof,    \* '\n' and C('D')
    INPUT_BUF,
    Wrap,            \* the indices count modulo this: 2^32 in the code
    MaxRead          \* bound: the most bytes one read() asks for

ASSUME ConsoleAssumption ==
    /\ Newline \in Key /\ Eof \in Key /\ Newline # Eof
    /\ INPUT_BUF \in Nat \ {0} /\ MaxRead \in Nat
    /\ Wrap \in Nat /\ Wrap > INPUT_BUF /\ Wrap % INPUT_BUF = 0

VARIABLES
    (* input *)
    buf, r, w, e,
    conslock,
    (* processes *)
    cpc, ckilled,
    want,     \* n, the bytes a read() has still to get
    some      \* n < target

input == <<buf, r, w, e>>
consVars == <<input, conslock, cpc, ckilled, want, some>>

ConsTypeOK ==
    /\ buf \in [0..INPUT_BUF - 1 -> Key]
    /\ r \in 0..Wrap - 1 /\ w \in 0..Wrap - 1 /\ e \in 0..Wrap - 1
    /\ conslock \in Proc \cup {Nobody}
    /\ cpc \in [Proc -> {"out", "read", "sleep", "asleep", "woken", "done"}]
    /\ ckilled \subseteq Proc
    /\ want \in [Proc -> 0..MaxRead] /\ some \in [Proc -> BOOLEAN]

ConsInit ==
    /\ buf = [i \in 0..INPUT_BUF - 1 |-> Newline]
    /\ r = 0 /\ w = 0 /\ e = 0
    /\ conslock = Nobody
    /\ cpc = [p \in Proc |-> "out"] /\ ckilled = {}
    /\ want = [p \in Proc |-> 0] /\ some = [p \in Proc |-> FALSE]

-----------------------------------------------------------------------------
(* Unsigned differences and sums *)
Minus(i, j) == (i - j) % Wrap
Plus(i, j) == (i + j) % Wrap

KeyAt(i) == buf[i % INPUT_BUF]

(* wakeup(&input.r) *)
WakeUp_none == UNCHANGED cpc
WakeUp == cpc' = [p \in Proc |-> IF cpc[p] = "asleep" THEN "woken" ELSE cpc[p]]

Room_late == Minus(e, r) <= INPUT_BUF
Room == Minus(e, r) < INPUT_BUF

EndsLine(k, last) == k = Newline \/ k = Eof \/ last = Plus(r, INPUT_BUF)

(* consoleintr(): a key ... *)
Typed(k) ==
    /\ conslock = Nobody /\ Room
    /\ buf' = [buf EXCEPT ![e % INPUT_BUF] = k]
    /\ e' = Plus(e, 1)
    /\ IF EndsLine(k, e') THEN w' = e' /\ WakeUp ELSE UNCHANGED <<w, cpc>>
    /\ UNCHANGED <<r, conslock, ckilled, want, some>>

(* ... backspace, ... *)
Backspace ==
    /\ conslock = Nobody /\ e # w
    /\ e' = Minus(e, 1)
    /\ UNCHANGED <<buf, r, w, conslock, cpc, ckilled, want, some>>

(* ... or ^U, which goes back to the last newline or to w. *)
KillLine ==
    /\ conslock = Nobody /\ e # w
    /\ KeyAt(Minus(e, 1)) # Newline
    /\ LET Stop(n) == n = Minus(e, w) \/ KeyAt(Minus(e, n + 1)) = Newline
       IN  \E n \in 1..Minus(e, w) :
              /\ Stop(n) /\ \A m \in 1..n - 1 : ~Stop(m)
              /\ e' = Minus(e, n)
    /\ UNCHANGED <<buf, r, w, conslock, cpc, ckilled, want, some>>

-----------------------------------------------------------------------------
At(p, l) == cpc' = [cpc EXCEPT ![p] = l]

(* consoleread(n), up to the lock *)
ConsRead(p) ==
    /\ cpc[p] = "out" /\ p \notin ckilled
    /\ conslock = Nobody /\ conslock' = p
    /\ At(p, "read")
    /\ \E n \in 0..MaxRead : want' = [want EXCEPT ![p] = n]
    /\ some' = [some EXCEPT ![p] = FALSE]
    /\ UNCHANGED <<input, ckilled>>

ConsWaits(p) ==
    /\ cpc[p] = "read" /\ want[p] > 0 /\ r = w
    /\ At(p, IF p \in ckilled THEN "done" ELSE "sleep")
    /\ UNCHANGED <<input, conslock, ckilled, want, some>>

(* A ^D that ends what this read() has got is left for the next one. *)
SaveEof(p) == ~some[p]

ConsTakes(p) ==
    /\ cpc[p] = "read" /\ want[p] > 0 /\ r # w
    /\ LET k == KeyAt(r) IN
          \/ /\ k = Eof
             /\ r' = IF SaveEof(p) THEN Plus(r, 1) ELSE r
             /\ At(p, "done")
             /\ UNCHANGED <<want, some>>
          \/ /\ k # Eof
             /\ r' = Plus(r, 1)
             /\ want' = [want EXCEPT ![p] = @ - 1]
             /\ some' = [some EXCEPT ![p] = TRUE]
             /\ IF k = Newline THEN At(p, "done") ELSE UNCHANGED cpc
    /\ UNCHANGED <<buf, w, e, conslock, ckilled>>

ConsReturns(p) ==
    /\ cpc[p] = "done" \/ (cpc[p] = "read" /\ want[p] = 0)
    /\ At(p, "out")
    /\ conslock' = Nobody
    /\ want' = [want EXCEPT ![p] = 0] /\ some' = [some EXCEPT ![p] = FALSE]
    /\ UNCHANGED <<input, ckilled>>

(* sleep(&input.r, &cons.lock), and its return *)
ConsSleeps(p) ==
    /\ cpc[p] = "sleep"
    /\ At(p, "asleep")
    /\ conslock' = Nobody
    /\ UNCHANGED <<input, ckilled, want, some>>

ConsWakes(p) ==
    /\ cpc[p] = "woken"
    /\ At(p, "read")
    /\ conslock = Nobody /\ conslock' = p
    /\ UNCHANGED <<input, ckilled, want, some>>

(* kill(), under ptable.lock only *)
ConsKill(p) ==
    /\ p \notin ckilled
    /\ ckilled' = ckilled \cup {p}
    /\ At(p, IF cpc[p] = "asleep" THEN "woken" ELSE cpc[p])
    /\ UNCHANGED <<input, conslock, want, some>>

Reads(p) == ConsWaits(p) \/ ConsTakes(p) \/ ConsReturns(p) \/ ConsSleeps(p)

ConsNext ==
    \/ Backspace \/ KillLine
    \/ \E k \in Key : Typed(k)
    \/ \E p \in Proc : ConsRead(p) \/ Reads(p) \/ ConsWakes(p) \/ ConsKill(p)

ConsSpec == ConsInit /\ [][ConsNext]_consVars

(* Fairness: a process in the kernel goes on and gets the lock; who reads  *)
(* the console reads on, as sh.c's getcmd() does.                          *)
KeepsReading(p) == ConsWakes(p) \/ (ConsRead(p) /\ want'[p] > 0)

ConsFairSpec ==
    ConsSpec /\ \A p \in Proc : WF_consVars(Reads(p)) /\ SF_consVars(KeepsReading(p))

-----------------------------------------------------------------------------
Keys(from, to) == [i \in 1..Minus(to, from) |-> KeyAt(Plus(from, i - 1))]

Term == INSTANCE Tty WITH
    Size <- INPUT_BUF,
    line <- Keys(w, e),
    q <- Keys(r, w),
    reading <- [p \in Proc |->
        IF cpc[p] \in {"out", "done"} THEN "out"
        ELSE IF some[p] THEN "some" ELSE "none"]

(* The ring keeps the console's promise while interrupts edit it, readers  *)
(* share it, the indices wrap around and it fills up: no edit reaches an   *)
(* ended line, a full ring ends the line, and the ^D that ended one read() *)
(* is there for the next.                                                  *)
ImplementsTty == Term!TtySpec

(* No lost wakeup: while there are ended lines they are being read, if any *)
(* process that reads is left, whoever sleeps in read(), is killed there   *)
(* or edits a line.                                                        *)
LinesRead == <>[](r # w) => []<><<TRUE>>_r \/ <>(ckilled = Proc)
=============================================================================
