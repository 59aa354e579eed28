------------------------------- MODULE Draws -------------------------------
(***************************************************************************)
(* get_random() of homework 3's kernel/proc.c: the first number of the     *)
(* table random_int[] is drawn, and goes to its end while the others move  *)
(* up.  scheduler() calls it without a lock on every CPU, allocproc() with *)
(* ptable.lock: nothing keeps two calls apart.                             *)
(***************************************************************************)
EXTENDS Integers, Sequences, FiniteSets, SequencesExt

CONSTANTS
    Drawer,       \* the CPUs
    TABLE,        \* random_int[] as it is compiled: all different here
    MaxDraws      \* bound: calls

ASSUME DrawsAssumption ==
    /\ TABLE \in Seq(Nat) /\ IsInjective(TABLE) /\ Len(TABLE) > 1
    /\ MaxDraws \in Nat

VARIABLES
    randomInt,
    rand,         \* by CPU: rand,
    drawAt,       \* i, from 1; 0 outside of a call,
    loaded,       \* and the number on its way from i + 1 to i
    draws,        \* calls that have begun
    overlapped    \* have two been in progress together?

drawVars == <<randomInt, rand, drawAt, loaded, draws, overlapped>>

NoNumber == -1
SIZE == Len(TABLE)

DrawTypeOK ==
    /\ randomInt \in Seq(Range(TABLE)) /\ Len(randomInt) = SIZE
    /\ rand \in [Drawer -> Range(TABLE) \cup {NoNumber}]
    /\ drawAt \in [Drawer -> 0..SIZE]
    /\ draws \in 0..MaxDraws /\ overlapped \in BOOLEAN

DrawInit ==
    /\ randomInt = TABLE
    /\ rand = [c \in Drawer |-> NoNumber]
    /\ drawAt = [c \in Drawer |-> 0]
    /\ loaded = [c \in Drawer |-> NoNumber]
    /\ draws = 0 /\ overlapped = FALSE

DrawBegins(c) ==
    /\ drawAt[c] = 0 /\ draws < MaxDraws
    /\ rand' = [rand EXCEPT ![c] = randomInt[1]]
    /\ drawAt' = [drawAt EXCEPT ![c] = 1]
    /\ draws' = draws + 1
    /\ overlapped' = (overlapped \/ \E d \in Drawer : drawAt[d] # 0)
    /\ UNCHANGED <<randomInt, loaded>>

(* One turn of the loop: a load and a store                                *)
Loads(c) ==
    /\ drawAt[c] \in 1..SIZE - 1 /\ loaded[c] = NoNumber
    /\ loaded' = [loaded EXCEPT ![c] = randomInt[drawAt[c] + 1]]
    /\ UNCHANGED <<randomInt, rand, drawAt, draws, overlapped>>

Stores(c) ==
    /\ loaded[c] # NoNumber
    /\ randomInt' = [randomInt EXCEPT ![drawAt[c]] = loaded[c]]
    /\ loaded' = [loaded EXCEPT ![c] = NoNumber]
    /\ drawAt' = [drawAt EXCEPT ![c] = @ + 1]
    /\ UNCHANGED <<rand, draws, overlapped>>

DrawEnds(c) ==
    /\ drawAt[c] = SIZE
    /\ randomInt' = [randomInt EXCEPT ![SIZE] = rand[c]]
    /\ drawAt' = [drawAt EXCEPT ![c] = 0]
    /\ UNCHANGED <<rand, loaded, draws, overlapped>>

DrawNext == \E c \in Drawer : DrawBegins(c) \/ Loads(c) \/ Stores(c) \/ DrawEnds(c)

DrawSpec == DrawInit /\ [][DrawNext]_drawVars

-----------------------------------------------------------------------------
Turned(k) == [i \in 1..SIZE |-> TABLE[((i - 1 + k) % SIZE) + 1]]

(* Draws that do not overlap go round the table.  Whatever overlaps, only  *)
(* numbers of the table are drawn; but some may be lost from it for ever.  *)
DrawsRight ==
    /\ Range(randomInt) \cup {rand[c] : c \in Drawer} \subseteq Range(TABLE) \cup {NoNumber}
    /\ ~overlapped /\ (\A c \in Drawer : drawAt[c] = 0) =>
          /\ randomInt = Turned(draws)
          /\ draws > 0 => \E c \in Drawer : rand[c] = Turned(draws - 1)[1]
=============================================================================
