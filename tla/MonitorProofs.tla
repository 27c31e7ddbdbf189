---------------------------- MODULE MonitorProofs ----------------------------
(* Theorems about Monitor and Terminal, for screens of any size that bytes *)
(* can address, any keys and any texts.                                    *)
EXTENDS Terminal, SequenceTheorems, TLAPS

(* A cell of a row that is on the screen is a cell of the screen.          *)
LEMMA CellOfRow ==
    ASSUME NEW x \in 0..(Width - 1), NEW y \in 0..(Height - 1)
    PROVE  y * Width + x \in Cells
<1> DEFINE Left == Height - 1 - y
<1>1. Width \in Nat /\ Height \in Nat /\ Left \in Nat
    BY MonitorAssumption
<1>2. Left * Width \in Nat
    BY <1>1, SMTT(30)
<1>3. Width * Height = (y + Left + 1) * Width
    BY <1>1, SMTT(30)
<1>4. (y + Left + 1) * Width = y * Width + Left * Width + Width
    BY <1>1, SMTT(30)
<1>5. y * Width \in Nat
    BY <1>1, SMTT(30)
<1> QED
    BY <1>1, <1>2, <1>3, <1>4, <1>5, SMTT(30) DEF Cells

(* A tab never goes further than the end of the row, because the width is  *)
(* a multiple of the distance of the tab stops and a byte can hold it.     *)
LEMMA TabStaysInRow ==
    ASSUME NEW x \in 0..(Width - 1)
    PROVE  TabStop(x) \in 0..Width
<1> DEFINE stops == Width \div 8
           passed == x \div 8
<1>1. Width = 8 * stops /\ stops \in Nat
    BY MonitorAssumption
<1>2. passed \in Nat /\ passed + 1 <= stops
    BY <1>1
<1>3. (x + 8) \div 8 = passed + 1
    BY MonitorAssumption
<1>4. ((x + 8) \div 8) * 8 \in 0..Width
    BY <1>1, <1>2, <1>3
<1> QED
    BY <1>4, MonitorAssumption DEF TabStop

(* No character takes the cursor further than one cell beyond its row, or  *)
(* further than one row down.                                              *)
LEMMA MovedNearby ==
    ASSUME CursorOnScreen, NEW c \in Glyphs \cup Controls
    PROVE  /\ Moved(c)[1] \in 0..Width
           /\ Moved(c)[2] \in 0..Height
           /\ Moved(c)[1] = Width => Moved(c)[2] = cursor_y
<1>1. /\ cursor_x \in 0..(Width - 1) /\ cursor_y \in 0..(Height - 1)
      /\ Width \in 1..255 /\ Height \in 1..255
    BY MonitorAssumption DEF CursorOnScreen
<1>2. Inc(cursor_x) = cursor_x + 1 /\ Inc(cursor_y) = cursor_y + 1
    BY <1>1 DEF Inc
<1>3. TabStop(cursor_x) \in 0..Width
    BY <1>1, TabStaysInRow
<1> QED
    BY <1>1, <1>2, <1>3 DEF Moved

LEMMA PutStaysOnScreen ==
    ASSUME CursorOnScreen, NEW c \in Glyphs \cup Controls, Put(c)
    PROVE  CursorOnScreen'
<1> DEFINE p == Wrapped(Moved(c))
           v == IF c \in Glyphs
                THEN [video_memory EXCEPT ![cursor_y * Width + cursor_x] = c]
                ELSE video_memory
<1>1. p[1] \in 0..(Width - 1) /\ p[2] \in 0..Height
  <2>1. cursor_y \in 0..(Height - 1) /\ Width \in 1..255 /\ Height \in 1..255
      BY MonitorAssumption DEF CursorOnScreen
  <2>2. Inc(cursor_y) = cursor_y + 1
      BY <2>1 DEF Inc
  <2> QED
      BY <2>1, <2>2, MovedNearby DEF Wrapped
<1>2. v \in [Cells -> Glyphs]
    BY DEF CursorOnScreen
<1>3. cursor_x' = p[1]
    BY DEF Put
<1>4. cursor_y' \in 0..(Height - 1)
    BY <1>1, MonitorAssumption DEF Put
<1>5. video_memory' \in [Cells -> Glyphs]
  <2>1. CASE video_memory' = v
      BY <1>2, <2>1
  <2>2. CASE video_memory' = Scrolled(v)
      BY <1>2, <2>2, MonitorAssumption DEF Scrolled
  <2> QED
      BY <2>1, <2>2 DEF Put
<1>6. cursor_y' * Width + cursor_x' \in Cells
    BY <1>1, <1>3, <1>4, CellOfRow
<1> QED
    BY <1>1, <1>3, <1>4, <1>5, <1>6 DEF CursorOnScreen

LEMMA InitOnScreen == Init => CursorOnScreen
<1> SUFFICES ASSUME Init PROVE CursorOnScreen
  OBVIOUS
<1>1. 0 \in 0..(Width - 1) /\ 0 \in 0..(Height - 1)
  BY MonitorAssumption
<1>2. 0 * Width + 0 \in Cells
  BY <1>1, CellOfRow
<1> QED BY <1>1, <1>2, MonitorAssumption DEF Init, CursorOnScreen, BlankScreen

LEMMA StepOnScreen == ASSUME CursorOnScreen, [Next]_vars PROVE CursorOnScreen'
<1>1. CASE Clear
  <2>1. 0 \in 0..(Width - 1) /\ 0 \in 0..(Height - 1)
    BY MonitorAssumption
  <2>2. 0 * Width + 0 \in Cells
    BY <2>1, CellOfRow
  <2> QED BY <1>1, <2>1, <2>2, MonitorAssumption DEF Clear, CursorOnScreen, BlankScreen
<1>2. ASSUME NEW c \in Glyphs \cup Controls, Put(c) PROVE CursorOnScreen'
  BY <1>2, PutStaysOnScreen
<1>3. CASE UNCHANGED vars
  BY <1>3 DEF vars, CursorOnScreen
<1> QED BY <1>1, <1>2, <1>3 DEF Next

(* Whatever is put on the screen, tabs, backspaces and characters of any   *)
(* kind included, monitor_put writes to a cell of the screen and leaves    *)
(* the cursor on one.                                                      *)
THEOREM SpecOnScreen == Spec => []CursorOnScreen
  BY InitOnScreen, StepOnScreen, PTL DEF Spec
-----------------------------------------------------------------------------
(* The paper of which the screen shows the end: rows that have scrolled    *)
(* away, a, and those of the screen, v.                                    *)
RowSet == [0..(Width - 1) -> Glyphs]
RowOf(v, y) == [x \in 0..(Width - 1) |-> v[y * Width + x]]
Sheet(a, v) == a \o [y \in 1..Height |-> RowOf(v, y - 1)]
EndlessRow == [x \in 0..(Width - 1) |-> Blank]

LEMMA RowTyped ==
  ASSUME NEW v \in [Cells -> Glyphs], NEW y \in 0..(Height - 1)
  PROVE  RowOf(v, y) \in RowSet
<1>1. \A x \in 0..(Width - 1) : v[y * Width + x] \in Glyphs
  BY CellOfRow
<1> QED BY <1>1 DEF RowOf, RowSet

LEMMA SheetIs ==
  ASSUME NEW a \in Seq(RowSet), NEW v \in [Cells -> Glyphs]
  PROVE  /\ Sheet(a, v) \in Seq(RowSet) /\ Len(Sheet(a, v)) = Len(a) + Height
         /\ \A i \in 1..Len(a) : Sheet(a, v)[i] = a[i]
         /\ \A y \in 0..(Height - 1) : Sheet(a, v)[Len(a) + y + 1] = RowOf(v, y)
<1> DEFINE r == [y \in 1..Height |-> RowOf(v, y - 1)]
<1>1. Height \in Nat /\ Len(a) \in Nat
  BY MonitorAssumption
<1>2. \A y \in 1..Height : RowOf(v, y - 1) \in RowSet
  BY <1>1, RowTyped
<1>3. r \in Seq(RowSet) /\ Len(r) = Height
  BY <1>1, <1>2
<1>4. \A y \in 0..(Height - 1) : r[y + 1] = RowOf(v, y)
  <2> TAKE y \in 0..(Height - 1)
  <2>1. y + 1 \in 1..Height /\ (y + 1) - 1 = y
    BY <1>1
  <2> QED BY <2>1
<1> HIDE DEF r
<1>5. /\ a \o r \in Seq(RowSet) /\ Len(a \o r) = Len(a) + Len(r)
      /\ \A i \in 1..(Len(a) + Len(r)) :
           (a \o r)[i] = IF i <= Len(a) THEN a[i] ELSE r[i - Len(a)]
  BY <1>3, ConcatProperties
<1>6. \A y \in 0..(Height - 1) : (a \o r)[Len(a) + y + 1] = RowOf(v, y)
  <2> TAKE y \in 0..(Height - 1)
  <2>1. /\ Len(a) + y + 1 \in 1..(Len(a) + Len(r)) /\ ~(Len(a) + y + 1 <= Len(a))
        /\ Len(a) + y + 1 - Len(a) = y + 1
    BY <1>1, <1>3
  <2> QED BY <1>4, <1>5, <2>1
<1>7. Sheet(a, v) = a \o r
  BY DEF Sheet, r
<1> QED BY <1>1, <1>3, <1>5, <1>6, <1>7

(* Two sheets are equal when their rows are.                               *)
LEMMA SameSheet ==
  ASSUME NEW a \in Seq(RowSet), NEW v \in [Cells -> Glyphs], NEW s \in Seq(RowSet),
         Len(s) = Len(a) + Height,
         \A i \in 1..Len(a) : s[i] = a[i],
         \A y \in 0..(Height - 1) : s[Len(a) + y + 1] = RowOf(v, y)
  PROVE  Sheet(a, v) = s
<1> DEFINE t == Sheet(a, v)
<1>1. /\ t \in Seq(RowSet) /\ Len(t) = Len(a) + Height
      /\ \A i \in 1..Len(a) : t[i] = a[i]
      /\ \A y \in 0..(Height - 1) : t[Len(a) + y + 1] = RowOf(v, y)
  BY SheetIs
<1>2. Height \in Nat /\ Len(a) \in Nat
  BY MonitorAssumption
<1> HIDE DEF t
<1>3. \A i \in 1..Len(t) : t[i] = s[i]
  <2> TAKE i \in 1..Len(t)
  <2>1. CASE i <= Len(a)
    BY <1>1, <1>2, <2>1
  <2>2. CASE ~(i <= Len(a))
    <3>1. i - Len(a) - 1 \in 0..(Height - 1) /\ Len(a) + (i - Len(a) - 1) + 1 = i
      BY <1>1, <1>2, <2>2
    <3> QED BY <1>1, <3>1
  <2> QED BY <2>1, <2>2
<1>4. t = s
  BY <1>1, <1>3, SeqEqual
<1> QED BY <1>4 DEF t

(* No cell belongs to two rows or to two columns.                          *)
LEMMA LaterRow ==
  ASSUME NEW x \in 0..(Width - 1), NEW y \in Nat, NEW z \in Nat, y < z
  PROVE  y * Width + x < z * Width
<1>1. Width \in Nat
  BY MonitorAssumption
<1> DEFINE d == z - y - 1
<1>2. d \in Nat /\ z = y + 1 + d
  OBVIOUS
<1> HIDE DEF d
<1>3. (y + 1 + d) * Width = y * Width + Width + d * Width
  BY <1>1, <1>2, SMTT(30)
<1>4. d * Width \in Nat /\ y * Width \in Nat
  BY <1>1, <1>2, SMTT(30)
<1>5. z * Width = y * Width + Width + d * Width
  BY <1>2, <1>3
<1> HIDE DEF d
<1> QED BY <1>1, <1>4, <1>5

LEMMA OneCell ==
  ASSUME NEW x \in 0..(Width - 1), NEW y \in Nat, NEW i \in 0..(Width - 1), NEW j \in Nat,
         y * Width + x = j * Width + i
  PROVE  x = i /\ y = j
<1>1. Width \in Nat /\ x \in Nat /\ i \in Nat
  BY MonitorAssumption
<1>2. y * Width \in Nat /\ j * Width \in Nat
  BY <1>1, SMTT(30)
<1>3. ~(y < j)
  BY <1>1, <1>2, LaterRow
<1>4. ~(j < y)
  BY <1>1, <1>2, LaterRow
<1>5. y = j
  BY <1>3, <1>4
<1> QED BY <1>1, <1>2, <1>5

(* A character on the screen is a character on the paper.                  *)
InCell(v, i, c) == [v EXCEPT ![i] = c]
OnSheet(s, row, x, c) == [s EXCEPT ![row][x] = c]
LEMMA Printed ==
  ASSUME NEW a \in Seq(RowSet), NEW v \in [Cells -> Glyphs], NEW c \in Glyphs,
         NEW x \in 0..(Width - 1), NEW y \in 0..(Height - 1)
  PROVE  Sheet(a, InCell(v, y * Width + x, c)) = OnSheet(Sheet(a, v), Len(a) + y + 1, x, c)
<1> DEFINE w == [v EXCEPT ![y * Width + x] = c]
           t == Sheet(a, v)
           s == [t EXCEPT ![Len(a) + y + 1][x] = c]
<1>1. w \in [Cells -> Glyphs]
  OBVIOUS
<1>2. Height \in Nat /\ Len(a) \in Nat /\ y \in Nat
  BY MonitorAssumption
<1>3. /\ t \in Seq(RowSet) /\ Len(t) = Len(a) + Height
      /\ \A i \in 1..Len(a) : t[i] = a[i]
      /\ \A j \in 0..(Height - 1) : t[Len(a) + j + 1] = RowOf(v, j)
  BY SheetIs
<1> HIDE DEF t
<1>4. Len(a) + y + 1 \in 1..Len(t)
  BY <1>2, <1>3
<1>5. t[Len(a) + y + 1] \in RowSet
  BY <1>3, <1>4
<1>6. [t[Len(a) + y + 1] EXCEPT ![x] = c] \in RowSet
  BY <1>5 DEF RowSet
<1>7. s = [t EXCEPT ![Len(a) + y + 1] = [t[Len(a) + y + 1] EXCEPT ![x] = c]]
  BY DEF s
<1>8. s \in Seq(RowSet) /\ Len(s) = Len(a) + Height
  BY <1>3, <1>4, <1>6, <1>7
<1>9. \A i \in 1..Len(a) : s[i] = a[i]
  BY <1>2, <1>3, <1>7
<1>10. \A j \in 0..(Height - 1) : s[Len(a) + j + 1] = RowOf(w, j)
  <2> TAKE j \in 0..(Height - 1)
  <2>1. Len(a) + j + 1 \in 1..Len(t) /\ j \in Nat
    BY <1>2, <1>3
  <2>2. CASE j = y
    <3>1. \A i \in 0..(Width - 1) : w[y * Width + i] = IF i = x THEN c ELSE v[y * Width + i]
      <4> TAKE i \in 0..(Width - 1)
      <4>1. y * Width + i \in Cells /\ y * Width + x \in Cells
        BY CellOfRow
      <4>2. y * Width + i = y * Width + x => i = x
        BY <1>2, OneCell
      <4> QED BY <4>1, <4>2
    <3>2. RowOf(w, y) = [RowOf(v, y) EXCEPT ![x] = c]
      <4> HIDE DEF w
      <4> QED BY <3>1 DEF RowOf
    <3>3. s[Len(a) + y + 1] = [RowOf(v, y) EXCEPT ![x] = c]
      BY <1>3, <1>4, <1>7
    <3> QED BY <2>2, <3>2, <3>3
  <2>3. CASE j # y
    <3>1. \A i \in 0..(Width - 1) : w[j * Width + i] = v[j * Width + i]
      <4> TAKE i \in 0..(Width - 1)
      <4>1. j * Width + i \in Cells /\ y * Width + x \in Cells
        BY CellOfRow
      <4>2. j * Width + i # y * Width + x
        BY <1>2, <2>1, <2>3, OneCell
      <4> QED BY <4>1, <4>2
    <3>2. RowOf(w, j) = RowOf(v, j)
      <4> HIDE DEF w
      <4> QED BY <3>1 DEF RowOf
    <3>3. s[Len(a) + j + 1] = t[Len(a) + j + 1]
      BY <1>2, <1>3, <1>7, <2>1, <2>3
    <3> QED BY <1>3, <3>2, <3>3
  <2> QED BY <2>2, <2>3
<1> HIDE DEF s, w
<1>11. Sheet(a, w) = s
  BY <1>1, <1>8, <1>9, <1>10, SameSheet
<1> QED BY <1>11 DEF s, t, w, InCell, OnSheet
(* Scrolling takes the first row from the screen and gives the paper one   *)
(* more.                                                                   *)
LEMMA ScrolledSheet ==
  ASSUME NEW a \in Seq(RowSet), NEW v \in [Cells -> Glyphs]
  PROVE  /\ Scrolled(v) \in [Cells -> Glyphs]
         /\ Append(a, RowOf(v, 0)) \in Seq(RowSet)
         /\ Len(Append(a, RowOf(v, 0))) = Len(a) + 1
         /\ Sheet(Append(a, RowOf(v, 0)), Scrolled(v)) = Append(Sheet(a, v), EndlessRow)
<1> DEFINE b == Append(a, RowOf(v, 0))
           w == Scrolled(v)
           t == Sheet(a, v)
           s == Append(t, EndlessRow)
<1>1. w \in [Cells -> Glyphs]
  BY MonitorAssumption DEF Scrolled
<1>2. Height \in Nat /\ Width \in Nat /\ Len(a) \in Nat /\ 0 \in 0..(Height - 1)
  BY MonitorAssumption
<1>3. /\ b \in Seq(RowSet) /\ Len(b) = Len(a) + 1 /\ b[Len(a) + 1] = RowOf(v, 0)
      /\ \A i \in 1..Len(a) : b[i] = a[i]
  BY <1>2, RowTyped, AppendProperties
<1>4. /\ t \in Seq(RowSet) /\ Len(t) = Len(a) + Height
      /\ \A i \in 1..Len(a) : t[i] = a[i]
      /\ \A j \in 0..(Height - 1) : t[Len(a) + j + 1] = RowOf(v, j)
  BY SheetIs
<1> HIDE DEF t, b
<1>5. EndlessRow \in RowSet
  BY MonitorAssumption DEF EndlessRow, RowSet
<1>6. /\ s \in Seq(RowSet) /\ Len(s) = Len(a) + Height + 1
      /\ \A i \in 1..(Len(a) + Height) : s[i] = t[i]
      /\ s[Len(a) + Height + 1] = EndlessRow
  BY <1>4, <1>5, AppendProperties
<1> HIDE DEF s
<1>7. \A i \in 1..Len(b) : s[i] = b[i]
  <2> TAKE i \in 1..Len(b)
  <2>1. CASE i \in 1..Len(a)
    BY <1>2, <1>3, <1>4, <1>6, <2>1
  <2>2. CASE i = Len(a) + 1
    <3>1. t[Len(a) + 0 + 1] = RowOf(v, 0) /\ i \in 1..(Len(a) + Height)
      BY <1>2, <1>4, <2>2
    <3> QED BY <1>2, <1>3, <1>6, <2>2, <3>1
  <2> QED BY <1>2, <1>3, <2>1, <2>2
<1>8. \A y \in 0..(Height - 1) : s[Len(b) + y + 1] = RowOf(w, y)
  <2> TAKE y \in 0..(Height - 1)
  <2>1. y \in Nat /\ Len(b) + y + 1 = Len(a) + (y + 1) + 1
    BY <1>2, <1>3
  <2>2. (y + 1) * Width = y * Width + Width
    BY <1>2, <2>1, SMTT(30)
  <2>3. CASE y + 1 \in 0..(Height - 1)
    <3>1. \A x \in 0..(Width - 1) : w[y * Width + x] = v[(y + 1) * Width + x]
      <4> TAKE x \in 0..(Width - 1)
      <4>1. y * Width + x \in Cells /\ (y + 1) * Width + x \in Cells
        BY <2>3, CellOfRow
      <4>2. y * Width \in Nat
        BY <1>2, <2>1, SMTT(30)
      <4>3. y * Width + x + Width = (y + 1) * Width + x
        BY <1>2, <2>2, <4>2
      <4> QED BY <4>1, <4>3 DEF Scrolled
    <3> HIDE DEF w
    <3>2. RowOf(w, y) = RowOf(v, y + 1)
      BY <3>1 DEF RowOf
    <3>3. s[Len(a) + (y + 1) + 1] = t[Len(a) + (y + 1) + 1]
      BY <1>2, <1>6, <2>3
    <3> QED BY <1>4, <2>1, <2>3, <3>2, <3>3
  <2>4. CASE y + 1 \notin 0..(Height - 1)
    <3>1. y + 1 = Height
      BY <1>2, <2>4
    <3>2. \A x \in 0..(Width - 1) : w[y * Width + x] = Blank
      <4> TAKE x \in 0..(Width - 1)
      <4>1. y * Width + x \in Cells
        BY CellOfRow
      <4>2. y * Width \in Nat
        BY <1>2, <2>1, SMTT(30)
      <4>3. Height * Width = Width * Height /\ Width * Height \in Nat
        BY <1>2, SMTT(30)
      <4>4. y * Width + x + Width = Width * Height + x
        BY <1>2, <2>2, <3>1, <4>2, <4>3
      <4>5. y * Width + x + Width \notin Cells
        BY <4>3, <4>4 DEF Cells
      <4> QED BY <4>1, <4>5 DEF Scrolled
    <3> HIDE DEF w
    <3>3. RowOf(w, y) = EndlessRow
      BY <3>2 DEF RowOf, EndlessRow
    <3>4. Len(b) + y + 1 = Len(a) + Height + 1
      BY <1>2, <1>3, <2>1, <3>1
    <3>5. s[Len(b) + y + 1] = EndlessRow
      BY <1>6, <3>4
    <3> QED BY <3>3, <3>5
  <2> QED BY <2>3, <2>4
<1>9. Sheet(b, w) = s
  <2>1. Len(s) = Len(b) + Height
    BY <1>2, <1>3, <1>6
  <2> HIDE DEF w
  <2> QED BY <1>1, <1>3, <1>6, <1>7, <1>8, <2>1, SameSheet
<1> QED BY <1>1, <1>3, <1>9 DEF b, w, s, t
-----------------------------------------------------------------------------
(* What the abstract variables are.                                        *)
RowsGone == above \in Seq(RowSet)
Pen == Len(above) + cursor_y + 1

LEMMA PaperIs == above \o Rows = Sheet(above, video_memory)
  BY DEF Rows, Row, Sheet, RowOf

LEMMA PaperIsNext == above' \o Rows' = Sheet(above', video_memory')
  BY DEF Rows, Row, Sheet, RowOf

LEMMA RowsTyped ==
  ASSUME CursorOnScreen, RowsGone
  PROVE  /\ Len(above) \in Nat /\ Pen \in Nat
         /\ Len(Sheet(above, video_memory)) = Len(above) + Height
         /\ Pen = Len(above) + Height <=> cursor_y = Height - 1
<1>1. Height \in Nat /\ Width \in Nat
  BY MonitorAssumption
<1>2. video_memory \in [Cells -> Glyphs] /\ cursor_y \in 0..(Height - 1)
  BY DEF CursorOnScreen
<1>3. Len(above) \in Nat /\ Len(Sheet(above, video_memory)) = Len(above) + Height
  BY <1>2, SheetIs DEF RowsGone
<1> QED BY <1>1, <1>2, <1>3 DEF Pen

(* A step that puts v on the screen and takes the cursor to p: the paper   *)
(* then shows v too, and its pen stands at p, or in a new row.             *)
LEMMA Placed ==
  ASSUME CursorOnScreen, RowsGone, NEW v \in [Cells -> Glyphs], NEW x \in 0..(Width - 1),
         NEW y \in 0..Height, cursor_x' = x,
         \/ /\ y < Height /\ video_memory' = v /\ cursor_y' = y /\ UNCHANGED above
         \/ /\ y >= Height /\ video_memory' = Scrolled(v) /\ cursor_y' = Height - 1
            /\ above' = Append(above, RowOf(v, 0))
  PROVE  /\ RowsGone'
         /\ Pen' = Len(above) + y + 1
         /\ Sheet(above', video_memory') =
              IF y < Height THEN Sheet(above, v) ELSE Append(Sheet(above, v), EndlessRow)
<1>1. Height \in Nat /\ Len(above) \in Nat
  BY MonitorAssumption, RowsTyped
<1>2. CASE y < Height
  BY <1>1, <1>2 DEF RowsGone, Pen
<1>3. CASE ~(y < Height)
  <2>1. y = Height
    BY <1>1, <1>3
  <2>2. /\ above' = Append(above, RowOf(v, 0)) /\ video_memory' = Scrolled(v)
        /\ cursor_y' = Height - 1
    BY <1>1, <1>3
  <2>3. above' \in Seq(RowSet) /\ Len(above') = Len(above) + 1
        /\ Sheet(above', video_memory') = Append(Sheet(above, v), EndlessRow)
    BY <2>2, ScrolledSheet DEF RowsGone
  <2> QED BY <1>1, <1>3, <2>1, <2>2, <2>3 DEF RowsGone, Pen
<1> QED BY <1>2, <1>3
(* The same in the words of the paper: below the last row it gets a new    *)
(* one.                                                                    *)
LEMMA PlacedOnPaper ==
  ASSUME CursorOnScreen, RowsGone, NEW v \in [Cells -> Glyphs], NEW x \in 0..(Width - 1),
         NEW y \in 0..Height, cursor_x' = x,
         \/ /\ y < Height /\ video_memory' = v /\ cursor_y' = y /\ UNCHANGED above
         \/ /\ y >= Height /\ video_memory' = Scrolled(v) /\ cursor_y' = Height - 1
            /\ above' = Append(above, RowOf(v, 0))
  PROVE  /\ RowsGone'
         /\ y = cursor_y => Endless!InRow(Sheet(above, v), x)
         /\ y = cursor_y + 1 /\ x = 0 => Endless!NextRow(Sheet(above, v))
<1> DEFINE s == Sheet(above, v)
           s2 == Sheet(above', video_memory')
<1>1. /\ RowsGone' /\ Pen' = Len(above) + y + 1
      /\ s2 = IF y < Height THEN s ELSE Append(s, EndlessRow)
  BY Placed
<1>2. Height \in Nat /\ Len(above) \in Nat /\ cursor_y \in 0..(Height - 1)
  BY MonitorAssumption, RowsTyped DEF CursorOnScreen
<1>3. Len(s) = Len(above) + Height
  BY SheetIs DEF RowsGone
<1>4. above' \o Rows' = s2
  BY PaperIsNext
<1> HIDE DEF s, s2
<1>5. ASSUME y = cursor_y PROVE Endless!InRow(s, x)
  <2>1. y < Height /\ Pen' = Pen
    BY <1>1, <1>2, <1>5 DEF Pen
  <2> QED BY <1>1, <1>4, <2>1 DEF Endless!InRow, Pen
<1>6. ASSUME y = cursor_y + 1, x = 0 PROVE Endless!NextRow(s)
  <2>1. Pen' = Pen + 1 /\ (y < Height <=> Pen # Len(s))
    <3>1. Pen = Len(above) + cursor_y + 1
      BY DEF Pen
    <3>2. Pen' = Pen + 1
      BY <1>1, <1>2, <1>6, <3>1
    <3>3. Pen = Len(s) <=> cursor_y + 1 = Height
      BY <1>2, <1>3, <3>1
    <3> QED BY <1>2, <1>6, <3>2, <3>3
  <2> QED BY <1>1, <1>4, <1>6, <2>1 DEF Endless!NextRow, Endless!BlankRow, EndlessRow, Pen
<1> QED BY <1>1, <1>5, <1>6 DEF s

(* The tab stop of the code is the first multiple of 8 behind the cursor.  *)
LEMMA FirstStop ==
  ASSUME NEW x \in 0..(Width - 1)
  PROVE  /\ TabStop(x) \in (x + 1)..Width /\ TabStop(x) % 8 = 0
         /\ \A y \in (x + 1)..(TabStop(x) - 1) : y % 8 # 0
<1> DEFINE q == x \div 8
<1>1. Width \in 1..255 /\ x \in Nat
  BY MonitorAssumption
<1>2. q \in Nat /\ 8 * q <= x /\ x < 8 * q + 8 /\ (x + 8) \div 8 = q + 1
  BY <1>1
<1>3. Width = 8 * (Width \div 8)
  BY <1>1, MonitorAssumption
<1> HIDE DEF q
<1>4. 8 * q + 8 <= Width
  BY <1>1, <1>2, <1>3
<1>5. TabStop(x) = 8 * q + 8
  BY <1>1, <1>2, <1>4 DEF TabStop
<1>6. \A y \in (x + 1)..(8 * q + 7) : y % 8 # 0
  BY <1>1, <1>2
<1>7. (8 * q + 8) % 8 = 0
  BY <1>2
<1> QED BY <1>1, <1>2, <1>4, <1>5, <1>6, <1>7

(* Every character does on the paper what it does on the screen.           *)
LEMMA PutOnPaper ==
  ASSUME CursorOnScreen, RowsGone, NEW c \in Glyphs \cup Controls, Put(c)
  PROVE  /\ RowsGone' /\ [Endless!Next]_(Endless!vars)
         /\ c \in Glyphs => Endless!Type(c)
         /\ c = "other" => Endless!InRow(above \o Rows, cursor_x)
<1> DEFINE p == Wrapped(Moved(c))
           v == IF c \in Glyphs
                THEN [video_memory EXCEPT ![cursor_y * Width + cursor_x] = c]
                ELSE video_memory
           s == Sheet(above, video_memory)
<1>1. /\ cursor_x \in 0..(Width - 1) /\ cursor_y \in 0..(Height - 1)
      /\ video_memory \in [Cells -> Glyphs] /\ Width \in 1..255 /\ Height \in 1..255
  BY MonitorAssumption DEF CursorOnScreen
<1>2. v \in [Cells -> Glyphs]
  BY <1>1
<1>3. RowOf(v, 0) = [x \in 0..(Width - 1) |-> v[x]]
  <2>1. \A x \in 0..(Width - 1) : 0 * Width + x = x
    BY <1>1
  <2> HIDE DEF v
  <2> QED BY <2>1 DEF RowOf
<1>4. /\ Inc(cursor_x) = cursor_x + 1 /\ Inc(cursor_y) = cursor_y + 1
  BY <1>1 DEF Inc
<1>5. p[1] \in 0..(Width - 1) /\ p[2] \in 0..Height
  BY <1>1, <1>4, MovedNearby DEF Wrapped
<1>6. /\ cursor_x' = p[1]
      /\ \/ /\ p[2] < Height /\ video_memory' = v /\ cursor_y' = p[2] /\ UNCHANGED above
         \/ /\ p[2] >= Height /\ video_memory' = Scrolled(v) /\ cursor_y' = Height - 1
            /\ above' = Append(above, RowOf(v, 0))
  <2> HIDE DEF p
  <2> QED BY <1>3 DEF Put, p
<1>7. /\ RowsGone'
      /\ p[2] = cursor_y => Endless!InRow(Sheet(above, v), p[1])
      /\ p[2] = cursor_y + 1 /\ p[1] = 0 => Endless!NextRow(Sheet(above, v))
  <2> HIDE DEF p, v
  <2> QED BY <1>2, <1>5, <1>6, PlacedOnPaper
<1>8. above \o Rows = s
  BY PaperIs
<1>9. Len(above) \in Nat
  BY RowsTyped
<1> HIDE DEF s
<1>10. CASE c \in Glyphs
  <2>1. Sheet(above, v) = [s EXCEPT ![Len(above) + cursor_y + 1][cursor_x] = c]
    <3>1. v = InCell(video_memory, cursor_y * Width + cursor_x, c)
      BY <1>10 DEF InCell
    <3> HIDE DEF v
    <3>2. Sheet(above, v) = OnSheet(Sheet(above, video_memory), Len(above) + cursor_y + 1,
                                    cursor_x, c)
      BY <1>1, <1>10, <3>1, Printed DEF RowsGone
    <3> QED BY <3>2 DEF s, OnSheet
  <2>2. c \notin Controls
    BY <1>10, MonitorAssumption
  <2>3. Moved(c) = <<cursor_x + 1, cursor_y>>
    BY <1>4, <1>10, <2>2 DEF Moved, Controls
  <2>4. p = IF cursor_x + 1 = Width THEN <<0, cursor_y + 1>> ELSE <<cursor_x + 1, cursor_y>>
    BY <1>1, <1>4, <2>3 DEF Wrapped
  <2> HIDE DEF p, v
  <2>5. Endless!Type(c)
    BY <1>7, <1>8, <2>1, <2>4 DEF Endless!Type
  <2> QED BY <1>7, <1>10, <2>2, <2>5 DEF Endless!Next, Controls
<1>11. CASE c \notin Glyphs
  <2>1. v = video_memory /\ c \in Controls
    BY <1>11
  <2>2. Sheet(above, v) = above \o Rows
    BY <1>8, <2>1 DEF s
  <2>3. CASE c = "backspace" /\ cursor_x # 0
    <3>1. Moved(c) = <<cursor_x - 1, cursor_y>>
      BY <1>11, <2>3 DEF Moved
    <3>2. p = <<cursor_x - 1, cursor_y>> /\ cursor_x > 0
      BY <1>1, <2>3, <3>1 DEF Wrapped
    <3> HIDE DEF p, v
    <3>3. Endless!Left
      BY <1>7, <2>2, <3>2 DEF Endless!Left
    <3> QED BY <1>7, <1>11, <2>3, <3>3 DEF Endless!Next
  <2>4. CASE c = "tab"
    <3>1. Moved(c) = <<TabStop(cursor_x), cursor_y>>
      BY <1>11, <2>4 DEF Moved
    <3>2. /\ TabStop(cursor_x) \in (cursor_x + 1)..Width /\ TabStop(cursor_x) % 8 = 0
          /\ \A y \in (cursor_x + 1)..(TabStop(cursor_x) - 1) : y % 8 # 0
      BY <1>1, FirstStop
    <3>3. p = IF TabStop(cursor_x) = Width THEN <<0, cursor_y + 1>>
                                          ELSE <<TabStop(cursor_x), cursor_y>>
      BY <1>1, <1>4, <3>1, <3>2 DEF Wrapped
    <3> HIDE DEF p, v
    <3>4. Endless!Tab
      <4>1. CASE TabStop(cursor_x) = Width
        BY <1>7, <2>2, <3>2, <3>3, <4>1 DEF Endless!Tab
      <4>2. CASE TabStop(cursor_x) # Width
        <5>1. TabStop(cursor_x) \in (cursor_x + 1)..(Width - 1)
          BY <1>1, <3>2, <4>2
        <5> QED BY <1>7, <2>2, <3>2, <3>3, <4>2, <5>1 DEF Endless!Tab
      <4> QED BY <4>1, <4>2
    <3> QED BY <1>7, <1>11, <2>4, <3>4 DEF Endless!Next
  <2>5. CASE c = "return"
    <3>1. p = <<0, cursor_y>>
      BY <1>1, <1>11, <2>5 DEF Moved, Wrapped
    <3> HIDE DEF p, v
    <3>2. Endless!Return
      BY <1>7, <2>2, <3>1 DEF Endless!Return
    <3> QED BY <1>7, <1>11, <2>5, <3>2 DEF Endless!Next
  <2>6. CASE c = "newline"
    <3>1. p = <<0, cursor_y + 1>>
      BY <1>1, <1>4, <1>11, <2>6 DEF Moved, Wrapped
    <3> HIDE DEF p, v
    <3>2. Endless!NewLine
      BY <1>7, <2>2, <3>1 DEF Endless!NewLine
    <3> QED BY <1>7, <1>11, <2>6, <3>2 DEF Endless!Next
  <2>7. CASE c = "other" \/ (c = "backspace" /\ cursor_x = 0)
    <3>1. Moved(c) = <<cursor_x, cursor_y>>
      BY <1>11, <2>7 DEF Moved
    <3>2. p = <<cursor_x, cursor_y>>
      BY <1>1, <3>1 DEF Wrapped
    <3> HIDE DEF p, v
    <3>3. Endless!InRow(above \o Rows, cursor_x)
      BY <1>7, <2>2, <3>2
    <3> QED BY <1>7, <1>11, <3>3 DEF Endless!InRow, Endless!vars
  <2> QED BY <2>1, <2>3, <2>4, <2>5, <2>6, <2>7 DEF Controls
<1> QED BY <1>10, <1>11

LEMMA NewPaper ==
  ASSUME NEW a, NEW v, a = << >>, v = BlankScreen
  PROVE  /\ a \in Seq(RowSet)
         /\ Sheet(a, v) = [i \in 1..Height |-> EndlessRow]
<1>1. a \in Seq(RowSet) /\ Len(a) = 0
  OBVIOUS
<1>2. Height \in Nat /\ v \in [Cells -> Glyphs]
  BY MonitorAssumption DEF BlankScreen
<1>3. \A y \in 0..(Height - 1) : RowOf(v, y) = EndlessRow
  <2> TAKE y \in 0..(Height - 1)
  <2>1. \A x \in 0..(Width - 1) : v[y * Width + x] = Blank
    BY CellOfRow DEF BlankScreen
  <2> QED BY <2>1 DEF RowOf, EndlessRow
<1> DEFINE s == [i \in 1..Height |-> EndlessRow]
<1>4. EndlessRow \in RowSet
  BY MonitorAssumption DEF EndlessRow, RowSet
<1>5. s \in Seq(RowSet) /\ Len(s) = Height /\ \A i \in 1..Height : s[i] = EndlessRow
  BY <1>2, <1>4
<1> HIDE DEF s
<1>6. \A y \in 0..(Height - 1) : s[Len(a) + y + 1] = RowOf(v, y)
  BY <1>1, <1>2, <1>3, <1>5
<1>7. Len(s) = Len(a) + Height /\ \A i \in 1..Len(a) : s[i] = a[i]
  BY <1>1, <1>2, <1>5
<1>8. Sheet(a, v) = s
  BY <1>1, <1>2, <1>5, <1>6, <1>7, SameSheet
<1> QED BY <1>1, <1>8 DEF s

LEMMA InitOnPaper == Init => RowsGone /\ Endless!New
<1> SUFFICES ASSUME Init PROVE RowsGone /\ Endless!New
  OBVIOUS
<1>1. above \in Seq(RowSet) /\ Sheet(above, video_memory) = [i \in 1..Height |-> EndlessRow]
  BY NewPaper DEF Init
<1>2. Len(above) + cursor_y + 1 = 1 /\ cursor_x = 0
  BY DEF Init
<1> QED BY <1>1, <1>2, PaperIs DEF RowsGone, Endless!New, Endless!BlankRow, EndlessRow

LEMMA StepOnPaper ==
  ASSUME CursorOnScreen, RowsGone, [Next]_vars
  PROVE  RowsGone' /\ [Endless!Next]_(Endless!vars)
<1>1. CASE Clear
  <2>1. /\ above' \in Seq(RowSet)
        /\ Sheet(above', video_memory') = [i \in 1..Height |-> EndlessRow]
    BY <1>1, NewPaper DEF Clear
  <2>2. Len(above') + cursor_y' + 1 = 1 /\ cursor_x' = 0
    BY <1>1 DEF Clear
  <2>3. Endless!ThrowAway
    BY <2>1, <2>2, PaperIsNext DEF Endless!ThrowAway, Endless!BlankRow, EndlessRow
  <2> QED BY <2>1, <2>3 DEF RowsGone, Endless!Next
<1>2. ASSUME NEW c \in Glyphs \cup Controls, Put(c)
      PROVE  RowsGone' /\ [Endless!Next]_(Endless!vars)
  BY <1>2, PutOnPaper
<1>3. CASE UNCHANGED vars
  BY <1>3 DEF vars, RowsGone, Endless!vars, Rows, Row
<1> QED BY <1>1, <1>2, <1>3 DEF Next

(* The screen implements the endless paper: what has scrolled away was     *)
(* complete, what scrolls moves up unchanged, and every character lands    *)
(* where the paper has it, for any size of the screen.                     *)
THEOREM SpecImplementsPaper == Spec => ImplementsPaper
<1>1. Init => RowsGone /\ Endless!New
  BY InitOnPaper
<1>2. CursorOnScreen /\ RowsGone /\ [Next]_vars => RowsGone' /\ [Endless!Next]_(Endless!vars)
  BY StepOnPaper
<1> QED BY <1>1, <1>2, SpecOnScreen, PTL DEF Spec, ImplementsPaper, Endless!Spec
-----------------------------------------------------------------------------
(* The terminal.  Cells of the paper are counted from its beginning.       *)
At(s, n) == s[n \div Width + 1][n % Width]

LEMMA Quotient ==
  ASSUME NEW r \in Nat, NEW x \in 0..(Width - 1)
  PROVE  /\ r * Width + x \in Nat
         /\ (r * Width + x) \div Width = r /\ (r * Width + x) % Width = x
<1>1. Width \in Nat \ {0}
  BY MonitorAssumption
<1>2. r * Width \in Nat
  BY <1>1, SMTT(30)
<1> DEFINE n == r * Width + x
           q == n \div Width
           m == n % Width
<1>3. n \in Nat
  BY <1>1, <1>2
<1>4. q \in Nat /\ m \in 0..(Width - 1) /\ q * Width + m = n
  <2> HIDE DEF n
  <2> QED BY <1>1, <1>3, SMTT(30)
<1> HIDE DEF q, m
<1>5. m = x /\ q = r
  BY <1>4, OneCell DEF n
<1> QED BY <1>3, <1>5 DEF q, m

LEMMA Division ==
  ASSUME NEW n \in Nat
  PROVE  /\ n \div Width \in Nat /\ n % Width \in 0..(Width - 1)
         /\ (n \div Width) * Width + (n % Width) = n
<1>1. Width \in Nat \ {0}
  BY MonitorAssumption
<1> QED BY <1>1, SMTT(30)

(* What a glyph changes: the cell at the pen, and nothing in front of it.  *)
LEMMA GlyphOnPaper ==
  ASSUME CursorOnScreen, RowsGone, RowsGone', CursorOnScreen', NEW c \in Glyphs, Endless!Type(c)
  PROVE  /\ Place \in Nat /\ Place' = Place + 1
         /\ At((above \o Rows)', Place) = c
         /\ \A n \in 0..(Place - 1) : At((above \o Rows)', n) = At(above \o Rows, n)
<1> DEFINE s == above \o Rows
           t == (above \o Rows)'
           r == Len(above) + cursor_y
           p == [s EXCEPT ![r + 1][cursor_x] = c]
<1>1. /\ Width \in Nat \ {0} /\ Height \in Nat /\ Len(above) \in Nat /\ Len(above') \in Nat
      /\ cursor_x \in 0..(Width - 1) /\ cursor_y \in 0..(Height - 1)
      /\ cursor_x' \in 0..(Width - 1) /\ cursor_y' \in 0..(Height - 1)
  BY MonitorAssumption DEF CursorOnScreen, RowsGone
<1>2. s \in Seq(RowSet) /\ Len(s) = Len(above) + Height
  BY PaperIs, SheetIs DEF RowsGone, CursorOnScreen
<1>3. r \in Nat /\ r + 1 \in 1..Len(s)
  BY <1>1, <1>2
<1>4. /\ t = p \/ t = Append(p, EndlessRow)
      /\ \/ cursor_x + 1 = Width /\ Len(above') + cursor_y' = r + 1 /\ cursor_x' = 0
         \/ cursor_x + 1 # Width /\ Len(above') + cursor_y' = r /\ cursor_x' = cursor_x + 1
  <2>1. \/ cursor_x + 1 = Width /\ Endless!NextRow(p)
        \/ cursor_x + 1 # Width /\ Endless!InRow(p, cursor_x + 1)
    BY DEF Endless!Type
  <2> HIDE DEF p
  <2>2. Len(above') + cursor_y' + 1 \in Nat /\ Len(above') + cursor_y' \in Nat
    BY <1>1
  <2>3. CASE cursor_x + 1 = Width /\ Endless!NextRow(p)
    <3>1. /\ t = p \/ t = Append(p, EndlessRow)
          /\ Len(above') + cursor_y' + 1 = r + 1 + 1 /\ cursor_x' = 0
      BY <2>3 DEF Endless!NextRow, Endless!BlankRow, EndlessRow
    <3>2. Len(above') + cursor_y' = r + 1
      BY <1>3, <2>2, <3>1
    <3> QED BY <2>3, <3>1, <3>2
  <2>4. CASE cursor_x + 1 # Width /\ Endless!InRow(p, cursor_x + 1)
    <3>1. t = p /\ Len(above') + cursor_y' + 1 = r + 1 /\ cursor_x' = cursor_x + 1
      BY <2>4 DEF Endless!InRow
    <3> QED BY <1>3, <2>2, <2>4, <3>1
  <2> QED BY <2>1, <2>3, <2>4
<1>5. Place \in Nat /\ Place = r * Width + cursor_x
  BY <1>1, <1>3, Quotient DEF Place
<1>6. Place' = Place + 1
  <2>1. Place' = (Len(above') + cursor_y') * Width + cursor_x'
    BY DEF Place
  <2>2. r * Width \in Nat /\ (r + 1) * Width = r * Width + Width
    BY <1>1, <1>3, SMTT(30)
  <2> HIDE DEF r
  <2>3. CASE cursor_x + 1 = Width
    <3>1. Place' = (r + 1) * Width + 0
      BY <1>4, <2>1, <2>3
    <3> QED BY <1>1, <1>5, <2>2, <2>3, <3>1
  <2>4. CASE cursor_x + 1 # Width
    <3>1. Place' = r * Width + (cursor_x + 1)
      BY <1>4, <2>1, <2>4
    <3> QED BY <1>1, <1>5, <2>2, <3>1
  <2> QED BY <2>3, <2>4
<1> HIDE DEF s, t, r
<1>7. EndlessRow \in RowSet
  BY MonitorAssumption DEF EndlessRow, RowSet
<1>8. s[r + 1] \in RowSet /\ [s[r + 1] EXCEPT ![cursor_x] = c] \in RowSet
  <2>1. s[r + 1] \in RowSet
    BY <1>2, <1>3
  <2> QED BY <1>1, <2>1 DEF RowSet
<1>9. /\ p \in Seq(RowSet) /\ Len(p) = Len(s)
      /\ \A i \in 1..Len(s) : i # r + 1 => p[i] = s[i]
      /\ p[r + 1] = [s[r + 1] EXCEPT ![cursor_x] = c]
  <2>1. p = [s EXCEPT ![r + 1] = [s[r + 1] EXCEPT ![cursor_x] = c]]
    OBVIOUS
  <2> QED BY <1>2, <1>3, <1>8, <2>1
<1> HIDE DEF p
<1>10. \A i \in 1..Len(s) : t[i] = p[i]
  BY <1>4, <1>7, <1>9, AppendProperties
<1>11. t[r + 1][cursor_x] = c
  BY <1>1, <1>3, <1>8, <1>9, <1>10 DEF RowSet
<1>12. ASSUME NEW n \in 0..(Place - 1)
       PROVE  At(t, n) = At(s, n)
  <2> DEFINE q == n \div Width
             m == n % Width
  <2>1. n \in Nat /\ n < Place
    BY <1>5
  <2>2. q \in Nat /\ m \in 0..(Width - 1) /\ q * Width + m = n
    BY <2>1, Division, Zenon
  <2> HIDE DEF q, m
  <2>3. ~(r < q)
    <3>1. r < q => r * Width + cursor_x < q * Width
      BY <1>1, <1>3, <2>2, LaterRow
    <3>2. q * Width \in Nat
      BY <1>1, <2>2, SMTT(30)
    <3> QED BY <1>5, <2>1, <2>2, <3>1, <3>2
  <2>4. q + 1 \in 1..Len(s)
    BY <1>3, <2>2, <2>3
  <2>5. q = r => m # cursor_x
    BY <1>5, <2>1, <2>2
  <2>6. t[q + 1][m] = s[q + 1][m]
    <3>1. CASE q = r
      BY <1>8, <1>9, <1>10, <2>2, <2>4, <2>5, <3>1 DEF RowSet
    <3>2. CASE q # r
      BY <1>3, <1>9, <1>10, <2>2, <2>4, <3>2
    <3> QED BY <3>1, <3>2
  <2> QED BY <2>6 DEF At, q, m
<1>13. At(t, Place) = c
  BY <1>1, <1>3, <1>5, <1>11, Quotient DEF At
<1> QED BY <1>5, <1>6, <1>12, <1>13 DEF s, t
(* The line, cell by cell: what of the paper shows what of the buffer.     *)
Text(s, f, p) == [i \in 1..(p - f) |-> At(s, f + i - 1)]
TypedIn(b, k, n) == [i \in 1..(n - k) |-> b[k + i - 1]]
Ends(b, n, m) == (m = n \/ b[m] = "nul") /\ \A i \in 0..(m - 1) : b[i] # "nul"
BeginsTo(s, f, p, b, n, m) ==
    /\ Ends(b, n, m) /\ m <= p - f /\ (m = n => n = p - f)
    /\ \A i \in 1..m : b[i - 1] = At(s, f + i - 1)
BeginsWith(s, f, p, b, n) == \E m \in 0..n : BeginsTo(s, f, p, b, n, m)
Reads(s, f, p, b, k, n) ==
    /\ f \in 0..p /\ Shows(Text(s, f, p), TypedIn(b, k, n))
    /\ k = 0 => BeginsWith(s, f, p, b, n)

LEMMA NothingTyped ==
  ASSUME NEW s, NEW p \in Nat, NEW b, NEW n \in Nat
  PROVE  Reads(s, p, p, b, n, n)
<1>1. Text(s, p, p) = << >> /\ TypedIn(b, n, n) = << >>
  BY DEF Text, TypedIn
<1>2. Shows(<< >>, << >>)
  <2>1. << >> \in [DOMAIN << >> -> DOMAIN << >>]
    OBVIOUS
  <2>2. DOMAIN << >> = {}
    OBVIOUS
  <2> QED BY <2>1, <2>2 DEF Shows
<1>3. n = 0 => BeginsWith(s, p, p, b, n)
  BY DEF BeginsWith, BeginsTo, Ends
<1> QED BY <1>1, <1>2, <1>3 DEF Reads

(* A glyph: one more cell of the paper, one more of the buffer.            *)
LEMMA GlyphRead ==
  ASSUME NEW s, NEW t, NEW f, NEW p \in Nat, NEW b, NEW k \in Nat, NEW n \in Nat, k <= n,
         NEW c, NEW b2, c # "nul",
         b2[n] = c, \A i \in 0..(n - 1) : b2[i] = b[i],
         At(t, p) = c, \A i \in 0..(p - 1) : At(t, i) = At(s, i),
         Reads(s, f, p, b, k, n)
  PROVE  Reads(t, f, p + 1, b2, k, n + 1)
<1> DEFINE x == Text(s, f, p)
           y == Text(t, f, p + 1)
           l == TypedIn(b, k, n)
           l2 == TypedIn(b2, k, n + 1)
<1>1. f \in Nat /\ f <= p
  BY DEF Reads
<1>2. /\ DOMAIN x = 1..(p - f) /\ DOMAIN y = 1..(p - f + 1)
      /\ \A i \in 1..(p - f) : y[i] = x[i]
      /\ y[p - f + 1] = c
  BY <1>1 DEF Text
<1>3. /\ DOMAIN l = 1..(n - k) /\ DOMAIN l2 = 1..(n - k + 1)
      /\ \A i \in 1..(n - k) : l2[i] = l[i]
      /\ l2[n - k + 1] = c
  BY DEF TypedIn
<1>4. Shows(y, l2)
  <2>1. PICK key \in [DOMAIN x -> DOMAIN l] :
          /\ \A i, j \in DOMAIN x : i < j => key[i] < key[j]
          /\ \A i \in DOMAIN x : x[i] = l[key[i]]
          /\ \A j \in DOMAIN l : l[j] = "nul" <=> \A i \in DOMAIN x : key[i] # j
    BY DEF Reads, Shows
  <2> HIDE DEF x, y, l, l2
  <2> DEFINE key2 == [i \in 1..(p - f + 1) |-> IF i <= p - f THEN key[i] ELSE n - k + 1]
  <2>2. \A i \in 1..(p - f) : key2[i] = key[i] /\ key[i] \in 1..(n - k)
    BY <1>1, <1>2, <1>3
  <2>3. key2[p - f + 1] = n - k + 1
    BY <1>1
  <2>4. key2 \in [DOMAIN y -> DOMAIN l2]
    BY <1>1, <1>2, <1>3
  <2> HIDE DEF key2
  <2>5. \A i, j \in DOMAIN y : i < j => key2[i] < key2[j]
    <3> SUFFICES ASSUME NEW i \in DOMAIN y, NEW j \in DOMAIN y, i < j PROVE key2[i] < key2[j]
      OBVIOUS
    <3>1. i \in 1..(p - f) /\ j \in 1..(p - f + 1)
      BY <1>1, <1>2
    <3>2. CASE j \in 1..(p - f)
      BY <1>2, <2>1, <2>2, <3>1, <3>2
    <3>3. CASE j = p - f + 1
      BY <2>2, <2>3, <3>1, <3>3
    <3> QED BY <1>1, <3>1, <3>2, <3>3
  <2>6. \A i \in DOMAIN y : y[i] = l2[key2[i]]
    <3> TAKE i \in DOMAIN y
    <3>1. CASE i \in 1..(p - f)
      BY <1>2, <1>3, <2>1, <2>2, <3>1
    <3>2. CASE i = p - f + 1
      BY <1>2, <1>3, <2>3, <3>2
    <3> QED BY <1>1, <1>2, <3>1, <3>2
  <2>7. \A j \in DOMAIN l2 : l2[j] = "nul" <=> \A i \in DOMAIN y : key2[i] # j
    <3> TAKE j \in DOMAIN l2
    <3>1. CASE j \in 1..(n - k)
      <4>1. key2[p - f + 1] # j
        BY <2>3, <3>1
      <4>2. (\A i \in DOMAIN y : key2[i] # j) <=> (\A i \in DOMAIN x : key[i] # j)
        <5>1. \A i \in DOMAIN x : i \in DOMAIN y /\ key2[i] = key[i]
          BY <1>1, <1>2, <2>2
        <5>2. \A i \in DOMAIN y : i \in DOMAIN x \/ i = p - f + 1
          BY <1>1, <1>2
        <5> QED BY <4>1, <5>1, <5>2
      <4> QED BY <1>3, <2>1, <3>1, <4>2
    <3>2. CASE j = n - k + 1
      <4>1. p - f + 1 \in DOMAIN y
        BY <1>1, <1>2
      <4> QED BY <1>3, <2>3, <3>2, <4>1
    <3> QED BY <1>3, <3>1, <3>2
  <2> QED BY <2>4, <2>5, <2>6, <2>7 DEF Shows
<1>5. ASSUME k = 0 PROVE BeginsWith(t, f, p + 1, b2, n + 1)
  <2>1. PICK m \in 0..n : /\ Ends(b, n, m) /\ m <= p - f /\ (m = n => n = p - f)
                          /\ \A i \in 1..m : b[i - 1] = At(s, f + i - 1)
    BY <1>5 DEF Reads, BeginsWith, BeginsTo
  <2>2. \A i \in 1..m : b2[i - 1] = At(t, f + i - 1)
    <3> TAKE i \in 1..m
    <3>1. i - 1 \in 0..(n - 1) /\ f + i - 1 \in 0..(p - 1)
      BY <1>1, <2>1
    <3> QED BY <2>1, <3>1
  <2>3. \A i \in 0..(m - 1) : b2[i] # "nul"
    BY <2>1 DEF Ends
  <2>4. CASE m < n
    <3>1. b2[m] = "nul"
      BY <2>1, <2>4 DEF Ends
    <3>2. m \in 0..(n + 1) /\ m <= (p + 1) - f /\ m # n + 1
      BY <1>1, <2>1, <2>4
    <3>3. Ends(b2, n + 1, m)
      BY <2>3, <3>1 DEF Ends
    <3>4. BeginsTo(t, f, p + 1, b2, n + 1, m)
      BY <2>2, <3>2, <3>3 DEF BeginsTo
    <3> QED BY <3>2, <3>4 DEF BeginsWith
  <2>5. CASE m = n
    <3>1. \A i \in 0..n : b2[i] # "nul"
      BY <2>3, <2>5
    <3>2. n = p - f
      BY <2>1, <2>5
    <3>3. \A i \in 1..(n + 1) : b2[i - 1] = At(t, f + i - 1)
      <4> TAKE i \in 1..(n + 1)
      <4>1. CASE i \in 1..m
        BY <2>2, <4>1
      <4>2. CASE i = n + 1
        <5>1. i - 1 = n /\ f + i - 1 = p
          BY <1>1, <3>2, <4>2
        <5> QED BY <5>1
      <4> QED BY <2>5, <4>1, <4>2
    <3>4. n + 1 \in 0..(n + 1) /\ n + 1 = (p + 1) - f /\ (n + 1) - 1 = n
      BY <1>1, <3>2
    <3>5. Ends(b2, n + 1, n + 1)
      BY <3>1, <3>4 DEF Ends
    <3>6. n + 1 <= (p + 1) - f
      BY <1>1, <3>4
    <3>7. BeginsTo(t, f, p + 1, b2, n + 1, n + 1)
      BY <3>3, <3>4, <3>5, <3>6 DEF BeginsTo
    <3> QED BY <3>4, <3>7 DEF BeginsWith
  <2> QED BY <2>1, <2>4, <2>5
<1>6. f \in 0..(p + 1)
  BY <1>1
<1> QED BY <1>4, <1>5, <1>6 DEF Reads

(* A key without a character: nothing on the paper, a 0 in the buffer.     *)
LEMMA NulRead ==
  ASSUME NEW s, NEW f, NEW p \in Nat, NEW b, NEW k \in Nat, NEW n \in Nat, k <= n,
         NEW b2, b2[n] = "nul", \A i \in 0..(n - 1) : b2[i] = b[i],
         Reads(s, f, p, b, k, n)
  PROVE  Reads(s, f, p, b2, k, n + 1)
<1> DEFINE x == Text(s, f, p)
           l == TypedIn(b, k, n)
           l2 == TypedIn(b2, k, n + 1)
<1>1. f \in Nat /\ f <= p
  BY DEF Reads
<1>2. DOMAIN x = 1..(p - f)
  BY <1>1 DEF Text
<1>3. /\ DOMAIN l = 1..(n - k) /\ DOMAIN l2 = 1..(n - k + 1)
      /\ \A i \in 1..(n - k) : l2[i] = l[i]
      /\ l2[n - k + 1] = "nul"
  BY DEF TypedIn
<1>4. Shows(x, l2)
  <2>1. PICK key \in [DOMAIN x -> DOMAIN l] :
          /\ \A i, j \in DOMAIN x : i < j => key[i] < key[j]
          /\ \A i \in DOMAIN x : x[i] = l[key[i]]
          /\ \A j \in DOMAIN l : l[j] = "nul" <=> \A i \in DOMAIN x : key[i] # j
    BY DEF Reads, Shows
  <2> HIDE DEF x, l, l2
  <2>2. key \in [DOMAIN x -> DOMAIN l2] /\ \A i \in DOMAIN x : key[i] \in 1..(n - k)
    BY <1>3
  <2>3. \A i \in DOMAIN x : x[i] = l2[key[i]]
    BY <1>3, <2>1, <2>2
  <2>4. \A j \in DOMAIN l2 : l2[j] = "nul" <=> \A i \in DOMAIN x : key[i] # j
    <3> TAKE j \in DOMAIN l2
    <3>1. CASE j \in 1..(n - k)
      BY <1>3, <2>1, <3>1
    <3>2. CASE j = n - k + 1
      BY <1>3, <2>2, <3>2
    <3> QED BY <1>3, <3>1, <3>2
  <2> QED BY <2>1, <2>2, <2>3, <2>4 DEF Shows
<1>5. ASSUME k = 0 PROVE BeginsWith(s, f, p, b2, n + 1)
  <2>1. PICK m \in 0..n : /\ Ends(b, n, m) /\ m <= p - f /\ (m = n => n = p - f)
                          /\ \A i \in 1..m : b[i - 1] = At(s, f + i - 1)
    BY <1>5 DEF Reads, BeginsWith, BeginsTo
  <2>2. \A i \in 1..m : b2[i - 1] = At(s, f + i - 1)
    <3> TAKE i \in 1..m
    <3>1. i - 1 \in 0..(n - 1)
      BY <2>1
    <3> QED BY <2>1, <3>1
  <2>3. b2[m] = "nul" /\ \A i \in 0..(m - 1) : b2[i] # "nul"
    BY <2>1 DEF Ends
  <2>4. m \in 0..(n + 1) /\ m # n + 1
    OBVIOUS
  <2>5. BeginsTo(s, f, p, b2, n + 1, m)
    BY <2>1, <2>2, <2>3, <2>4 DEF BeginsTo, Ends
  <2> QED BY <2>4, <2>5 DEF BeginsWith
<1> QED BY <1>1, <1>4, <1>5 DEF Reads
-----------------------------------------------------------------------------
(* What the terminal keeps.                                                *)
Printable == Glyphs \cup Controls \cup {"clear"}
Chars == Glyphs \cup Controls \cup {"nul", "0"}
Registers == [index : Nat, high : Nat, low : Nat]
LineTyped ==
    /\ char_ptr \in 0..(BufSize - 1) /\ base \in 0..char_ptr
    /\ buf \in [0..(BufSize - 1) -> Chars]
Blinking == crtc \in Registers /\ crtc.high * Byte + crtc.low = cursor_y * Width + cursor_x

TerminalInv ==
    /\ CursorOnScreen /\ RowsGone
    /\ out \in Seq(Printable) /\ LineTyped /\ Blinking
    /\ out # << >> => base = char_ptr
    /\ out = << >> /\ Echoed(Typed) => Reads(above \o Rows, from, Place, buf, base, char_ptr)

LEMMA PlaceNat == ASSUME CursorOnScreen, RowsGone PROVE Place \in Nat
<1>1. Len(above) + cursor_y \in Nat /\ cursor_x \in 0..(Width - 1)
  BY MonitorAssumption DEF CursorOnScreen, RowsGone
<1> QED BY <1>1, Quotient DEF Place

(* move_cursor tells the controller the cursor's cell in two bytes.        *)
LEMMA CursorBlinks ==
  ASSUME CursorOnScreen', crtc \in Registers, Blinks
  PROVE  Blinking'
<1> DEFINE location == cursor_y' * Width + cursor_x'
           h == location \div Byte
           l == location % Byte
           c1 == CrtcWrite(crtc, <<"index", 14>>)
           c2 == CrtcWrite(c1, <<"data", h>>)
           c3 == CrtcWrite(c2, <<"index", 15>>)
           c4 == CrtcWrite(c3, <<"data", l>>)
<1>1. location \in Nat
  <2>1. cursor_y' \in Nat /\ cursor_x' \in 0..(Width - 1)
    BY MonitorAssumption DEF CursorOnScreen
  <2> QED BY <2>1, Quotient
<1>2. h \in Nat /\ l \in Nat /\ h * Byte + l = location
  <2>1. Byte \in Nat \ {0}
    BY TerminalAssumption
  <2> HIDE DEF location
  <2> QED BY <1>1, <2>1, SMTT(30)
<1>3. crtc' = c4
  BY DEF Blinks, MoveCursor
<1> HIDE DEF h, l
<1>4. c1 = [crtc EXCEPT !.index = 14]
  BY DEF CrtcWrite
<1>5. c1 \in Registers /\ c1.index = 14
  BY <1>4 DEF Registers
<1> HIDE DEF c1
<1>6. c2 = [c1 EXCEPT !.high = h]
  BY <1>5 DEF CrtcWrite
<1>7. c2 \in Registers /\ c2.high = h
  BY <1>2, <1>5, <1>6 DEF Registers
<1> HIDE DEF c2
<1>8. c3 = [c2 EXCEPT !.index = 15]
  BY DEF CrtcWrite
<1>9. c3 \in Registers /\ c3.high = h /\ c3.index = 15
  BY <1>7, <1>8 DEF Registers
<1> HIDE DEF c3
<1>10. c4 = [c3 EXCEPT !.low = l]
  BY <1>9 DEF CrtcWrite
<1>11. c4 \in Registers /\ c4.high = h /\ c4.low = l
  BY <1>2, <1>9, <1>10 DEF Registers
<1> HIDE DEF c4
<1> QED BY <1>2, <1>3, <1>11 DEF Blinking

(* A character of any kind goes to monitor_put.                            *)
LEMMA Puts ==
  ASSUME TerminalInv, NEW c \in Printable \cup {"nul"}, c # "clear", MonitorPut(c)
  PROVE  /\ Next /\ CursorOnScreen' /\ RowsGone' /\ Blinking'
         /\ c \in Glyphs => Endless!Type(c)
         /\ c = "nul" => Endless!InRow(above \o Rows, cursor_x)
<1> DEFINE d == IF c = "nul" THEN "other" ELSE c
<1>1. d \in Glyphs \cup Controls /\ (c \in Glyphs => d = c) /\ (c = "nul" => d = "other")
  BY TerminalAssumption DEF Printable, Controls
<1>2. Put(d) /\ Blinks
  BY DEF MonitorPut
<1> HIDE DEF d
<1>3. Next
  BY <1>1, <1>2 DEF Next
<1>4. /\ CursorOnScreen' /\ RowsGone'
      /\ d \in Glyphs => Endless!Type(d)
      /\ d = "other" => Endless!InRow(above \o Rows, cursor_x)
  BY <1>1, <1>2, PutStaysOnScreen, PutOnPaper DEF TerminalInv
<1>5. Blinking'
  BY <1>2, <1>4, CursorBlinks DEF TerminalInv, Blinking
<1> QED BY <1>1, <1>3, <1>4, <1>5

LEMMA WriteKeeps == ASSUME TerminalInv, MonitorWrite PROVE Next /\ TerminalInv'
<1>1. out \in Seq(Printable) /\ out # << >> /\ base = char_ptr
  BY DEF TerminalInv, MonitorWrite
<1>2. Head(out) \in Printable /\ Tail(out) \in Seq(Printable)
  BY <1>1, HeadTailProperties
<1>3. Next /\ CursorOnScreen' /\ RowsGone' /\ Blinking'
  <2>1. CASE Head(out) = "clear"
    <3>1. Clear /\ Blinks
      BY <2>1 DEF MonitorWrite, MonitorClear
    <3>2. Next
      BY <3>1 DEF Next
    <3>3. CursorOnScreen' /\ RowsGone'
      BY <3>2, StepOnScreen, StepOnPaper DEF TerminalInv
    <3>4. Blinking'
      BY <3>1, <3>3, CursorBlinks DEF TerminalInv, Blinking
    <3> QED BY <3>2, <3>3, <3>4
  <2>2. CASE Head(out) # "clear"
    <3>1. MonitorPut(Head(out))
      BY <2>2 DEF MonitorWrite
    <3> QED BY <1>2, <2>2, <3>1, Puts
  <2> QED BY <2>1, <2>2
<1>4. /\ out' = Tail(out) /\ from' = Place'
      /\ UNCHANGED <<buf, char_ptr, base>>
  BY DEF MonitorWrite
<1>5. LineTyped'
  BY <1>4 DEF TerminalInv, LineTyped
<1>6. Reads((above \o Rows)', from', Place', buf', base', char_ptr')
  <2>1. Place' \in Nat
    <3>1. Len(above') + cursor_y' \in Nat /\ cursor_x' \in 0..(Width - 1)
      BY <1>3, MonitorAssumption DEF CursorOnScreen, RowsGone
    <3>2. Place' = (Len(above') + cursor_y') * Width + cursor_x'
      BY DEF Place
    <3> QED BY <3>1, <3>2, Quotient
  <2>2. char_ptr' \in Nat /\ base' = char_ptr'
    BY <1>1, <1>4, <1>5 DEF LineTyped
  <2> QED BY <1>4, <2>1, <2>2, NothingTyped
<1> QED BY <1>1, <1>2, <1>3, <1>4, <1>5, <1>6 DEF TerminalInv

LEMMA Keys == \A code \in Codes : kbarray(code) \in {"nul", "other", "backspace", "tab", "newline",
                                                   Blank, Letter}
  BY DEF kbarray

LEMMA CharacterKeeps ==
  ASSUME TerminalInv, out = << >>,
         NEW c \in {"nul", "other", "backspace", "tab", "newline", Blank, Letter}, Character(c)
  PROVE  Next /\ TerminalInv'
<1> DEFINE s == above \o Rows
           n == char_ptr
           l == TypedIn(buf, base, n)
           l2 == TypedIn(buf', base, n + 1)
<1>1. /\ c # "newline" /\ n < BufSize - 1 /\ MonitorPut(c)
      /\ buf' = [buf EXCEPT ![n] = c] /\ char_ptr' = n + 1
      /\ UNCHANGED <<out, base, from>>
  BY DEF Character, Stores
<1>2. c \in Printable \cup {"nul"} /\ c # "clear" /\ c \in Chars
  BY MonitorAssumption, TerminalAssumption DEF Printable, Chars, Controls
<1>3. /\ Next /\ CursorOnScreen' /\ RowsGone' /\ Blinking'
      /\ c \in Glyphs => Endless!Type(c)
      /\ c = "nul" => Endless!InRow(s, cursor_x)
  BY <1>1, <1>2, Puts
<1>4. /\ n \in Nat /\ n + 1 \in 0..(BufSize - 1) /\ base \in 0..n /\ BufSize \in Nat
      /\ buf \in [0..(BufSize - 1) -> Chars]
  BY <1>1, TerminalAssumption DEF TerminalInv, LineTyped
<1>5. LineTyped'
  BY <1>1, <1>2, <1>4 DEF LineTyped
<1>6. buf'[n] = c /\ \A i \in 0..(n - 1) : buf'[i] = buf[i]
  BY <1>1, <1>4
<1>7. l = Typed /\ l2 = Typed'
  BY <1>1 DEF TypedIn, Typed
<1>8. /\ DOMAIN l = 1..(n - base) /\ DOMAIN l2 = 1..(n - base + 1)
      /\ \A i \in 1..(n - base) : l2[i] = l[i]
      /\ l2[n - base + 1] = c
  BY <1>4, <1>6 DEF TypedIn
<1> HIDE DEF l, l2
<1>9. Echoed(l2) => Echoed(l) /\ c \notin Controls
  BY <1>4, <1>8 DEF Echoed
<1>10. Place \in Nat
  BY PlaceNat DEF TerminalInv
<1>11. ASSUME Echoed(l2)
       PROVE  Reads((above \o Rows)', from, Place', buf', base, n + 1)
  <2>1. Reads(s, from, Place, buf, base, n)
    BY <1>7, <1>9, <1>11 DEF TerminalInv
  <2>2. CASE c \in Glyphs
    <3>1. /\ Place' = Place + 1 /\ At((above \o Rows)', Place) = c
          /\ \A i \in 0..(Place - 1) : At((above \o Rows)', i) = At(s, i)
      BY <1>3, <2>2, GlyphOnPaper DEF TerminalInv
    <3>2. c # "nul"
      BY <2>2, TerminalAssumption
    <3> HIDE DEF s
    <3> QED BY <1>4, <1>6, <1>10, <2>1, <3>1, <3>2, GlyphRead
  <2>3. CASE c = "nul"
    <3>1. Endless!InRow(s, cursor_x)
      BY <1>3, <2>3
    <3>2. /\ (above \o Rows)' = s /\ cursor_x' = cursor_x
          /\ Len(above') + cursor_y' + 1 = Len(above) + cursor_y + 1
      BY <3>1 DEF Endless!InRow
    <3>3. Len(above') + cursor_y' = Len(above) + cursor_y
      <4>1. Len(above') + cursor_y' \in Int /\ Len(above) + cursor_y \in Int
        BY <1>3, MonitorAssumption DEF TerminalInv, RowsGone, CursorOnScreen
      <4> QED BY <3>2, <4>1
    <3>4. Place' = Place
      BY <3>2, <3>3 DEF Place
    <3> HIDE DEF s
    <3> QED BY <1>4, <1>6, <1>10, <2>1, <2>3, <3>2, <3>4, NulRead
  <2> QED BY <1>1, <1>9, <1>11, <2>2, <2>3, MonitorAssumption, TerminalAssumption DEF Controls
<1> QED BY <1>1, <1>3, <1>5, <1>7, <1>11 DEF TerminalInv

(* Prompts and what commands print are printable, and there is a prompt.   *)
LEMMA Prompts ==
  ASSUME NEW text \in Texts
  PROVE  text \o PromptText \in Seq(Printable) /\ text \o PromptText # << >>
<1>1. text \in Seq(Printable)
  BY TerminalAssumption DEF Printable
<1>2. PromptText \in Seq(Printable) /\ Len(PromptText) \in Nat \ {0}
  <2>1. Letter \in Printable /\ Blank \in Printable
    BY MonitorAssumption, TerminalAssumption DEF Printable
  <2>2. CASE build = "Dec 3"
    <3>1. PromptText = <<Letter>>
      BY <2>2 DEF PromptText
    <3>2. <<Letter>> \in Seq(Printable) /\ Len(<<Letter>>) = 1
      BY <2>1
    <3> QED BY <3>1, <3>2
  <2>3. CASE build # "Dec 3"
    <3>1. PromptText = <<Letter, Blank>>
      BY <2>3 DEF PromptText
    <3>2. <<Letter, Blank>> \in Seq(Printable) /\ Len(<<Letter, Blank>>) = 2
      BY <2>1
    <3> QED BY <3>1, <3>2
  <2> QED BY <2>2, <2>3
<1>3. /\ text \o PromptText \in Seq(Printable)
      /\ Len(text \o PromptText) = Len(text) + Len(PromptText) /\ Len(text) \in Nat
  BY <1>1, <1>2, ConcatProperties
<1>4. Len(text \o PromptText) # 0
  BY <1>2, <1>3
<1> QED BY <1>3, <1>4

LEMMA EnterKeeps == ASSUME TerminalInv, Enter PROVE Next /\ TerminalInv'
<1>1. Next /\ CursorOnScreen' /\ RowsGone' /\ Blinking'
  <2>1. MonitorPut("newline") /\ "newline" \in Printable
    BY DEF Enter, Printable, Controls
  <2> QED BY <2>1, Puts
<1>2. out' \in Seq(Printable) /\ out' # << >>
  BY Prompts DEF Enter
<1>3. /\ buf' = [i \in 0..(BufSize - 1) |-> "0"]
      /\ char_ptr' = 0 /\ base' = 0
  BY DEF Enter, InitBuf
<1>4. LineTyped'
  BY <1>3, TerminalAssumption DEF LineTyped, Chars
<1> QED BY <1>1, <1>2, <1>3, <1>4 DEF TerminalInv

LEMMA TickKeeps == ASSUME TerminalInv, Tick PROVE UNCHANGED vars /\ TerminalInv'
<1>1. UNCHANGED <<vars, buf, char_ptr, crtc>> /\ out' = <<Letter, "newline">> /\ base' = char_ptr
  BY DEF Tick
<1>2. CursorOnScreen' /\ RowsGone' /\ Blinking'
  BY <1>1 DEF TerminalInv, vars, CursorOnScreen, RowsGone, Blinking
<1>3. LineTyped'
  BY <1>1 DEF TerminalInv, LineTyped
<1>4. out' \in Seq(Printable) /\ out' # << >>
  BY <1>1, TerminalAssumption DEF Printable, Controls
<1> QED BY <1>1, <1>2, <1>3, <1>4 DEF TerminalInv

LEMMA StutterKeeps == ASSUME TerminalInv, UNCHANGED <<vars, tvars>> PROVE UNCHANGED vars /\ TerminalInv'
<1>1. UNCHANGED <<vars, buf, char_ptr, crtc, out, base, from>>
  BY DEF tvars
<1>2. CursorOnScreen' /\ RowsGone' /\ Blinking' /\ LineTyped'
  BY <1>1 DEF TerminalInv, vars, CursorOnScreen, RowsGone, Blinking, LineTyped
<1>3. Typed' = Typed /\ Place' = Place /\ (above \o Rows)' = above \o Rows
  BY <1>1 DEF vars, Typed, Place, Rows, Row
<1> QED BY <1>1, <1>2, <1>3 DEF TerminalInv

LEMMA InitTyped == InitTerminal => Init /\ TerminalInv
<1> SUFFICES ASSUME InitTerminal PROVE Init /\ TerminalInv
  OBVIOUS
<1>1. Init /\ CursorOnScreen /\ RowsGone
  BY InitOnScreen, InitOnPaper DEF InitTerminal
<1>2. out \in Seq(Printable) /\ out # << >>
  BY Prompts DEF InitTerminal
<1>3. LineTyped /\ base = char_ptr
  BY TerminalAssumption DEF InitTerminal, LineTyped, Chars
<1>4. Blinking
  <2>1. crtc \in Registers /\ crtc.high = 0 /\ crtc.low = 0
    BY DEF InitTerminal, Registers
  <2>2. cursor_x = 0 /\ cursor_y = 0 /\ Width \in Nat /\ Byte \in Nat
    BY <1>1, MonitorAssumption, TerminalAssumption DEF Init
  <2>3. 0 * Byte + 0 = 0 /\ 0 * Width + 0 = 0
    BY <2>2
  <2> QED BY <2>1, <2>2, <2>3 DEF Blinking
<1> QED BY <1>1, <1>2, <1>3, <1>4 DEF TerminalInv

LEMMA StepTyped ==
  ASSUME TerminalInv, [NextTerminal]_<<vars, tvars>>
  PROVE  [Next]_vars /\ TerminalInv'
<1>1. CASE MonitorWrite
  BY <1>1, WriteKeeps
<1>2. CASE Tick
  BY <1>2, TickKeeps
<1>3. ASSUME NEW code \in Codes, Typing(code)
      PROVE  Next /\ TerminalInv'
  <2>1. CASE Character(kbarray(code))
    BY <1>3, <2>1, Keys, CharacterKeeps DEF Typing
  <2>2. CASE Enter
    BY <2>2, EnterKeeps
  <2> QED BY <1>3, <2>1, <2>2 DEF Typing
<1>4. CASE UNCHANGED <<vars, tvars>>
  BY <1>4, StutterKeeps
<1> QED BY <1>1, <1>2, <1>3, <1>4 DEF NextTerminal

(* What a line is read as is what Interpreted computes, and TextTo is what *)
(* the paper holds from where the text begins.                             *)
LEMMA TypedAsShown == TerminalInv => LineAsShown
<1> SUFFICES ASSUME TerminalInv, out = << >>, Echoed(Typed)
             PROVE  /\ Shows(TextTo(Place), Typed)
                    /\ base = 0 => IsPrefix(Interpreted, TextTo(Place))
                    /\ base = 0 /\ "nul" \notin ToSet(Typed) => Interpreted = TextTo(Place)
  BY DEF LineAsShown, TerminalInv, Blinking
<1> DEFINE s == above \o Rows
           n == char_ptr
           text == Text(s, from, Place)
<1>1. Reads(s, from, Place, buf, base, n)
  BY DEF TerminalInv
<1>2. text = TextTo(Place) /\ TypedIn(buf, base, n) = Typed
  BY DEF Text, TextTo, At, Rows, TypedIn, Typed
<1>3. Shows(TextTo(Place), Typed)
  BY <1>1, <1>2 DEF Reads
<1>4. /\ Place \in Nat /\ from \in 0..Place /\ n \in 0..(BufSize - 1) /\ BufSize \in Nat
      /\ buf \in [0..(BufSize - 1) -> Chars]
  BY <1>1, PlaceNat, TerminalAssumption DEF Reads, TerminalInv, LineTyped
<1>5. ASSUME base = 0
      PROVE  /\ IsPrefix(Interpreted, text)
             /\ "nul" \notin ToSet(Typed) => Interpreted = text
  <2>1. PICK m \in 0..n : /\ Ends(buf, n, m) /\ m <= Place - from
                          /\ m = n => n = Place - from
                          /\ \A i \in 1..m : buf[i - 1] = At(s, from + i - 1)
    BY <1>1, <1>5 DEF Reads, BeginsWith, BeginsTo
  <2>2. Interpreted = [i \in 1..m |-> buf[i - 1]]
    <3> DEFINE ends == {i \in 0..(BufSize - 1) : Stores("nul")[i] = "nul"}
    <3>1. m \in ends
      BY <1>4, <2>1 DEF Ends, Stores
    <3>2. \A i \in ends : m <= i
      <4> SUFFICES ASSUME NEW i \in ends, i < m PROVE FALSE
        BY <1>4, <2>1
      <4>1. i \in 0..(m - 1) /\ i # n /\ i \in 0..(BufSize - 1)
        BY <1>4, <2>1
      <4>2. Stores("nul")[i] = buf[i]
        BY <1>4, <4>1 DEF Stores
      <4> QED BY <2>1, <4>1, <4>2 DEF Ends
    <3>3. Min(ends) = m
      <4>1. \A x \in ends : x \in Nat
        BY <1>4
      <4> HIDE DEF ends
      <4>2. \A x \in ends : (\A y \in ends : x <= y) => x = m
        BY <2>1, <3>1, <3>2, <4>1
      <4> QED BY <3>1, <3>2, <4>2 DEF Min
    <3> QED BY <3>3 DEF Interpreted
  <2>3. DOMAIN text = 1..(Place - from) /\ \A i \in 1..m : text[i] = buf[i - 1]
    BY <1>4, <2>1 DEF Text
  <2>4. IsPrefix(Interpreted, text)
    <3> DEFINE S == {buf[i - 1] : i \in 1..m} \cup {At(s, from + i - 1) : i \in 1..(Place - from)}
               w == [i \in 1..m |-> buf[i - 1]]
    <3>1. w \in Seq(S) /\ Len(w) = m
      <4>1. m \in Nat /\ \A i \in 1..m : buf[i - 1] \in S
        BY <2>1
      <4> HIDE DEF S
      <4>2. w \in [1..m -> S]
        BY <4>1
      <4> QED BY <4>1, <4>2, LenProperties
    <3>2. text \in Seq(S) /\ Len(text) = Place - from
      <4>1. Place - from \in Nat
        BY <1>4
      <4> QED BY <4>1 DEF Text
    <3>3. \A i \in 1..m : w[i] \in S /\ text[i] \in S /\ w[i] = text[i]
      BY <2>3
    <3> HIDE DEF S, w, text
    <3>4. /\ SubSeq(w, 1, m) \in Seq(S) /\ SubSeq(text, 1, m) \in Seq(S)
          /\ Len(SubSeq(w, 1, m)) = m /\ Len(SubSeq(text, 1, m)) = m
          /\ \A i \in 1..m : SubSeq(w, 1, m)[i] = w[i] /\ SubSeq(text, 1, m)[i] = text[i]
      BY <2>1, <3>3, SubSeqProperties
    <3>5. SubSeq(w, 1, m) = SubSeq(text, 1, m)
      BY <3>3, <3>4, SeqEqual
    <3>6. Interpreted = w
      BY <2>2 DEF w
    <3> QED BY <2>1, <3>1, <3>2, <3>5, <3>6 DEF IsPrefix
  <2>5. ASSUME "nul" \notin ToSet(Typed)
        PROVE  Interpreted = text
    <3>1. m = n
      <4> SUFFICES ASSUME m # n PROVE FALSE
        OBVIOUS
      <4>1. buf[m] = "nul"
        BY <2>1 DEF Ends
      <4>2. m + 1 \in 1..(n - base) /\ Typed[m + 1] = buf[m]
        BY <1>4, <1>5, <2>1 DEF Typed
      <4>3. DOMAIN Typed = 1..(n - base)
        BY DEF Typed
      <4> QED BY <2>5, <4>1, <4>2, <4>3 DEF ToSet
    <3>2. m = Place - from
      BY <2>1, <3>1
    <3> QED BY <2>1, <2>2, <3>2 DEF Text
  <2> QED BY <2>4, <2>5
<1> QED BY <1>2, <1>3, <1>5

(* Whatever is typed, and whatever commands and the timer of Dec 3 print   *)
(* between the keys, the screen stays one on which monitor_put writes to   *)
(* cells of its own, and it shows the end of the endless paper.            *)
THEOREM TerminalOnScreen == SpecTerminal => ([]CursorOnScreen) /\ ImplementsPaper
<1>1. InitTerminal => Init /\ TerminalInv
  BY InitTyped
<1>2. TerminalInv /\ [NextTerminal]_<<vars, tvars>> => [Next]_vars /\ TerminalInv'
  BY StepTyped
<1>3. SpecTerminal => Spec
  BY <1>1, <1>2, PTL DEF SpecTerminal, Spec
<1> QED BY <1>3, SpecOnScreen, SpecImplementsPaper, PTL

(* The line that is interpreted is the line that the screen shows, and the *)
(* cursor blinks behind it: for any screen, any keys and any texts, over   *)
(* the ends of rows, while rows scroll away, and while a timer prints.     *)
THEOREM SpecLineAsShown == SpecTerminal => []LineAsShown
<1>1. InitTerminal => TerminalInv
  BY InitTyped
<1>2. TerminalInv /\ [NextTerminal]_<<vars, tvars>> => TerminalInv'
  BY StepTyped
<1>3. TerminalInv => LineAsShown
  BY TypedAsShown
<1> QED BY <1>1, <1>2, <1>3, PTL DEF SpecTerminal
=============================================================================
