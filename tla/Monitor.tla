------------------------------- MODULE Monitor -------------------------------
(***************************************************************************)
(* monitor.c: the text screen.  Every writer ends in monitor_put; the one  *)
(* exception is monitor_clear.  Characters are glyphs, the four controls   *)
(* that the code knows, and "other", which stands for everything below the *)
(* space, the characters that are negative as a signed char included.      *)
(* The cursor that the hardware blinks is in Terminal.                     *)
(***************************************************************************)
EXTENDS Integers, FiniteSets, SequencesExt

CONSTANTS
    Width, Height,   \* 80 and 25
    Glyphs,          \* characters from the space on
    Blank,           \* the space
    MaxScrolls,      \* bound: rows that scroll away before the next clear
    MaxText          \* bound: cells of the screen that are not blank

Controls == {"backspace", "tab", "return", "newline", "other"}

ASSUME MonitorAssumption ==
    /\ Width \in Nat \ {0} /\ Width % 8 = 0 /\ Width < 256
    /\ Height \in 1..255
    /\ Blank \in Glyphs /\ Glyphs \cap Controls = {}

VARIABLES
    video_memory,         \* the words of the screen, row by row
    cursor_x, cursor_y,   \* bytes
    above                 \* history: the rows that have scrolled away

vars == <<video_memory, cursor_x, cursor_y, above>>

Cells == 0..(Width * Height - 1)
Row(y) == [x \in 0..(Width - 1) |-> video_memory[y * Width + x]]
BlankScreen == [i \in Cells |-> Blank]

(* monitor_clear is the first thing main calls; before, nothing is put.    *)
Init ==
    /\ video_memory = BlankScreen
    /\ cursor_x = 0 /\ cursor_y = 0 /\ above = << >>

Inc(byte) == (byte + 1) % 256

TabStop(x) == (((x + 8) \div 8) * 8) % 256

(* Where the character takes the cursor, before the end of the row is seen.*)
Moved(c) ==
    CASE c = "backspace" /\ cursor_x # 0 -> <<cursor_x - 1, cursor_y>>
      [] c = "tab"     -> <<TabStop(cursor_x), cursor_y>>
      [] c = "return"  -> <<0, cursor_y>>
      [] c = "newline" -> <<0, Inc(cursor_y)>>
      [] c \in Glyphs  -> <<Inc(cursor_x), cursor_y>>
      [] OTHER -> <<cursor_x, cursor_y>>

WrappedLate(p) ==   \* a variant: cursor_x > 80
    IF p[1] > Width THEN <<0, Inc(p[2])>> ELSE p
Wrapped(p) == IF p[1] >= Width THEN <<0, Inc(p[2])>> ELSE p

(* scroll: the loops copy every row but the first one row up, then blank   *)
(* the last.                                                               *)
ScrolledUncleared(v) ==   \* a variant: the last row keeps its text
    [i \in Cells |-> IF i + Width \in Cells THEN v[i + Width] ELSE v[i]]
Scrolled(v) == [i \in Cells |-> IF i + Width \in Cells THEN v[i + Width] ELSE Blank]

Written == {i \in Cells : video_memory[i] # Blank}
Put(c) ==
    /\ c \in Glyphs \ {Blank} => Cardinality(Written) < MaxText
    /\ LET v == IF c \in Glyphs
                THEN [video_memory EXCEPT ![cursor_y * Width + cursor_x] = c]
                ELSE video_memory
           p == Wrapped(Moved(c))
       IN  /\ cursor_x' = p[1]
           /\ \/ /\ p[2] < Height
                 /\ video_memory' = v
                 /\ cursor_y' = p[2]
                 /\ UNCHANGED above
              \/ /\ p[2] >= Height /\ Len(above) < MaxScrolls
                 /\ video_memory' = Scrolled(v)
                 /\ cursor_y' = Height - 1
                 /\ above' = Append(above, [x \in 0..(Width - 1) |-> v[x]])

Clear ==
    /\ video_memory' = BlankScreen
    /\ cursor_x' = 0 /\ cursor_y' = 0
    /\ above' = << >>

Next == Clear \/ \E c \in Glyphs \cup Controls : Put(c)

Spec == Init /\ [][Next]_vars
-----------------------------------------------------------------------------
(* The cursor never leaves the screen, so that what is put next is written *)
(* to a cell of it and not to the memory behind: the bytes do not wrap and *)
(* the end of a row is seen in time.                                       *)
CursorOnScreen ==
    /\ cursor_x \in 0..(Width - 1) /\ cursor_y \in 0..(Height - 1)
    /\ cursor_y * Width + cursor_x \in Cells
    /\ video_memory \in [Cells -> Glyphs]

Rows == [y \in 1..Height |-> Row(y - 1)]
Endless == INSTANCE Paper WITH
    paper <- above \o Rows, row <- Len(above) + cursor_y + 1, column <- cursor_x

(* The screen is the end of an endless paper: scrolling moves every row up *)
(* unchanged, and what follows is put where the paper has it.              *)
ImplementsPaper == Endless!Spec
=============================================================================
