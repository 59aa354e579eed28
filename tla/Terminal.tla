------------------------------ MODULE Terminal ------------------------------
(***************************************************************************)
(* The keyboard and the screen of the console: kbdgetc() of kernel/kbd.c,  *)
(* which makes characters of the scan codes that the controller sends, and *)
(* cgaputc() of kernel/console.c, which puts characters into the memory of *)
(* the screen.  Of the key maps there are a letter, a key of the key pad   *)
(* and an arrow key; the serial port is left out.                          *)
(***************************************************************************)
EXTENDS Integers, Sequences, FiniteSets, SequencesExt, FiniteSetsExt

CONSTANTS
    MaxHeld,      \* bound: keys that are down at once
    MaxWire,      \* bound: bytes that wait in the controller
    COLS, ROWS,   \* the screen scrolls before its last row, ROWS
    Glyph         \* what is printed, other than newlines

ASSUME TerminalAssumption ==
    /\ {MaxHeld, MaxWire, COLS} \subseteq Nat \ {0}
    /\ ROWS \in Nat \ {0, 1}

VARIABLES
    keysDown,         \* the keys that are down
    wire,         \* the bytes that the controller has for kbdgetc()
    shift,        \* the bits of kbdgetc()'s shift
    typed,        \* the last character that it has returned
    (* The user's side: what the last key meant when it was pressed, with  *)
    (* caps lock on or off, and have two keys of one kind been down        *)
    (* together, with one of them down still?                              *)
    meant, caps, doubled,
    (* The screen                                                          *)
    crt, cursor,
    onScreen         \* what has been printed of the rows that are still there

keyVars == <<keysDown, wire, shift, typed, meant, caps, doubled>>
screenVars == <<crt, cursor, onScreen>>
terminalVars == <<keyVars, screenVars>>

Codes ==
    [lshift |-> <<42>>, rshift |-> <<54>>, lctl |-> <<29>>, rctl |-> <<224, 29>>,
     ralt |-> <<224, 56>>, caps |-> <<58>>, letter |-> <<30>>, pad8 |-> <<72>>, up |-> <<224, 72>>]
Key == DOMAIN Codes
Shifts == {"lshift", "rshift"}
Ctls == {"lctl", "rctl"}
Modifiers == Shifts \cup Ctls \cup {"ralt"}

NO == "NO"
KeyChar == {NO, "a", "A", "ctlA", "8", "KEY_UP"}
Cell == Glyph \cup {"blank"}
Places == 0..ROWS * COLS - 1

TerminalTypeOK ==
    /\ keysDown \subseteq Key
    /\ wire \in Seq(0..255)
    /\ shift \subseteq {"SHIFT", "CTL", "ALT", "CAPSLOCK", "E0ESC"}
    /\ typed \in KeyChar /\ meant \in KeyChar \cup {"unsure"}
    /\ caps \in BOOLEAN /\ doubled \subseteq {"SHIFT", "CTL"}
    /\ crt \in [Places -> Cell]
    /\ cursor \in Places
    /\ onScreen \in Seq(Cell)

KeysStart ==
    /\ keysDown = {} /\ wire = <<>> /\ shift = {} /\ typed = NO
    /\ meant = NO /\ caps = FALSE /\ doubled = {}

(* Wherever the BIOS has left the cursor, above the last row.              *)
ScreenStart(p) ==
    /\ cursor = p
    /\ onScreen = [i \in 1..p |-> "blank"]
    /\ crt = [i \in Places |-> "blank"]

TerminalInit == KeysStart /\ \E p \in 0..(ROWS - 1) * COLS - 1 : ScreenStart(p)

-----------------------------------------------------------------------------
(* shiftcode, togglecode and charcode of kbd.h                             *)
Shiftcode(data) ==
    CASE data \in {29, 157} -> {"CTL"}
      [] data \in {42, 54} -> {"SHIFT"}
      [] data \in {56, 184} -> {"ALT"}
      [] OTHER -> {}
Togglecode(data) == IF data = 58 THEN {"CAPSLOCK"} ELSE {}

Charcode(flags, data) ==
    CASE data = 30 /\ "CTL" \in flags -> "ctlA"
      [] data = 30 /\ "CTL" \notin flags -> IF "SHIFT" \in flags THEN "A" ELSE "a"
      [] data = 72 -> IF "CTL" \in flags THEN NO ELSE "8"
      [] data = 200 -> "KEY_UP"
      [] OTHER -> NO

Swapped(c) == CASE c = "a" -> "A" [] c = "A" -> "a" [] OTHER -> c

(* kbdgetc(), for one byte                                                 *)
Escaped(flags) == flags \ {"E0ESC"}

Kbdgetc ==
    /\ wire # <<>>
    /\ wire' = Tail(wire)
    /\ LET byte == Head(wire) IN
         IF byte = 224 THEN shift' = shift \cup {"E0ESC"} /\ UNCHANGED typed
         ELSE IF byte >= 128
         THEN /\ shift' = Escaped(shift \ Shiftcode(IF "E0ESC" \in shift THEN byte ELSE byte - 128))
              /\ UNCHANGED typed
         ELSE LET data == IF "E0ESC" \in shift THEN byte + 128 ELSE byte
                  set == Escaped(shift) \cup Shiftcode(data)
                  flags == SymDiff(set, Togglecode(data))
                  c == Charcode(flags, data)
              IN  /\ shift' = flags
                  /\ typed' = IF "CAPSLOCK" \in flags THEN Swapped(c) ELSE c
    /\ UNCHANGED <<keysDown, meant, caps, doubled, screenVars>>

-----------------------------------------------------------------------------
(* The user and the controller                                             *)
LetterMeant(down, on) ==
    IF down \cap Ctls # {} THEN "ctlA" ELSE IF (down \cap Shifts # {}) # on THEN "A" ELSE "a"

Meaning(k, down, on) ==
    CASE k = "letter" -> LetterMeant(down, on)
      [] k = "pad8" -> IF down \cap Ctls # {} THEN NO ELSE "8"
      [] k = "up" -> "KEY_UP"
      [] OTHER -> NO

Both(down) == {f \in {"SHIFT", "CTL"} : (IF f = "SHIFT" THEN Shifts ELSE Ctls) \subseteq down}
StillDown(down) ==
    {f \in {"SHIFT", "CTL"} : (IF f = "SHIFT" THEN Shifts ELSE Ctls) \cap down # {}}

PressKey(k) ==
    /\ k \notin keysDown /\ Cardinality(keysDown) < MaxHeld /\ Len(wire) + Len(Codes[k]) <= MaxWire
    /\ keysDown' = keysDown \cup {k}
    /\ wire' = wire \o Codes[k]
    /\ caps' = (caps # (k = "caps"))
    /\ doubled' = doubled \cup Both(keysDown')
    /\ meant' = IF doubled' = {} THEN Meaning(k, keysDown', caps') ELSE "unsure"
    /\ UNCHANGED <<shift, typed, screenVars>>

ReleaseKey(k) ==
    /\ k \in keysDown /\ Len(wire) + Len(Codes[k]) <= MaxWire
    /\ keysDown' = keysDown \ {k}
    /\ wire' = wire \o [Codes[k] EXCEPT ![Len(Codes[k])] = @ + 128]
    /\ doubled' = doubled \cap StillDown(keysDown')
    /\ UNCHANGED <<shift, typed, meant, caps, screenVars>>

-----------------------------------------------------------------------------
(* cgaputc(): the cursor moves, the screen scrolls when it has left the    *)
(* rows above the last, and the cell under the cursor becomes blank.       *)
LastRow == (ROWS - 1) * COLS

Moved(c) ==
    CASE c = "newline" -> cursor + COLS - (cursor % COLS)
      [] c = "backspace" -> IF cursor > 0 THEN cursor - 1 ELSE 0
      [] OTHER -> cursor + 1

BlankFrom(cells, at) == [i \in Places |-> IF i >= at /\ i < LastRow THEN "blank" ELSE cells[i]]

Full_late(at) == at > LastRow + COLS
Full(at) == at >= LastRow

Scrolled(cells, at) ==
    BlankFrom([i \in Places |-> IF i < (ROWS - 2) * COLS THEN cells[i + COLS] ELSE cells[i]], at)

(* The rows above the last, as a page on which the text goes on            *)
Printed(c) ==
    CASE c = "newline" -> onScreen \o [i \in 1..COLS - (Len(onScreen) % COLS) |-> "blank"]
      [] c = "backspace" -> IF onScreen = <<>> THEN onScreen ELSE Front(onScreen)
      [] OTHER -> Append(onScreen, c)

Cgaputc(c) ==
    /\ LET put == IF c \in Glyph THEN [crt EXCEPT ![cursor] = c] ELSE crt
           full == Full(Moved(c))
       IN  /\ cursor' = IF full THEN Moved(c) - COLS ELSE Moved(c)
           /\ crt' = [(IF full THEN Scrolled(put, cursor') ELSE put) EXCEPT ![cursor'] = "blank"]
    /\ onScreen' = IF Len(Printed(c)) < LastRow THEN Printed(c) ELSE SubSeq(Printed(c), COLS + 1, Len(Printed(c)))
    /\ UNCHANGED keyVars

KeyNext == Kbdgetc \/ \E k \in Key : PressKey(k) \/ ReleaseKey(k)
ScreenNext == \E c \in Glyph \cup {"newline", "backspace"} : Cgaputc(c)

TerminalSpec == TerminalInit /\ [][KeyNext \/ ScreenNext]_terminalVars

-----------------------------------------------------------------------------
(* When all bytes have been read, the flags are those of the keys that are *)
(* down, and the last key has become what it meant, as long as no two keys *)
(* have shared a flag: the first of them that is released clears it.       *)
KeyboardRight == wire = <<>> =>
    /\ meant \in {typed, "unsure"}
    /\ "E0ESC" \notin shift
    /\ "CAPSLOCK" \in shift <=> caps
    /\ "SHIFT" \in doubled \/ ("SHIFT" \in shift <=> keysDown \cap Shifts # {})
    /\ "CTL" \in doubled \/ ("CTL" \in shift <=> keysDown \cap Ctls # {})

(* The screen is the end of the text: what has been printed stands before  *)
(* the cursor, and nothing after it.                                       *)
ScreenRight ==
    /\ cursor = Len(onScreen)
    /\ \A i \in Places : crt[i] = IF i < cursor THEN onScreen[i + 1] ELSE "blank"
=============================================================================
