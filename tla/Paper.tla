-------------------------------- MODULE Paper --------------------------------
(***************************************************************************)
(* What a screen promises to those who write on it: an endless paper, of   *)
(* which the last Height rows can be written on, and a pen.  What has left *)
(* those rows is never touched again, until the paper is thrown away.      *)
(***************************************************************************)
EXTENDS Integers, SequencesExt

CONSTANTS Width, Height, Glyphs, Blank

VARIABLES
    paper,     \* its rows
    row,       \* of the pen, counted from 1
    column     \* of the pen, counted from 0

vars == <<paper, row, column>>

BlankRow == [x \in 0..(Width - 1) |-> Blank]
New == /\ paper = [i \in 1..Height |-> BlankRow]
       /\ row = 1 /\ column = 0

(* The paper as p, and the pen at the start of the row below.              *)
NextRow(p) ==
    /\ paper' = IF row = Len(p) THEN Append(p, BlankRow) ELSE p
    /\ row' = row + 1 /\ column' = 0
InRow(p, x) == paper' = p /\ row' = row /\ column' = x

Type(c) ==
    LET p == [paper EXCEPT ![row][column] = c]
    IN  IF column + 1 = Width THEN NextRow(p) ELSE InRow(p, column + 1)
Tab ==
    \/ \E x \in (column + 1)..(Width - 1) :
          /\ x % 8 = 0
          /\ \A y \in (column + 1)..(x - 1) : y % 8 # 0
          /\ InRow(paper, x)
    \/ /\ \A x \in (column + 1)..(Width - 1) : x % 8 # 0
       /\ NextRow(paper)
Left == column > 0 /\ InRow(paper, column - 1)
Return == InRow(paper, 0)
NewLine == NextRow(paper)
ThrowAway == /\ paper' = [i \in 1..Height |-> BlankRow]
             /\ row' = 1 /\ column' = 0

Next == \/ \E c \in Glyphs : Type(c)
        \/ Tab \/ Left \/ Return \/ NewLine \/ ThrowAway

Spec == New /\ [][Next]_vars
=============================================================================
