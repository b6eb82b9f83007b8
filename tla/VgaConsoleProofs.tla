-------------------------- MODULE VgaConsoleProofs --------------------------
(* Proofs about VgaConsole, for screens and ports of every size, all       *)
(* letters and all strings, and that it implements Terminal.               *)
EXTENDS VgaConsole, SequenceTheorems, WellFoundedInduction, TLAPS

-----------------------------------------------------------------------------
(* Numbers *)

(* The least-number principle, for sets. *)
LEMMA LeastNumber ==
    ASSUME NEW S \in SUBSET Nat, S # {}
    PROVE  \E m \in S : \A k \in S : m <= k
<1>1. PICK m \in S : \A k \in S : ~ (<<k, m>> \in OpToRel(<, Nat))
  BY NatLessThanWellFounded, WFMin
<1>2. \A k \in S : ~ (k < m)
  BY <1>1 DEF OpToRel
<1>3. QED BY <1>2

(* The dimensions. *)
LEMMA Dims ==
    /\ ScreenWidth \in Nat /\ 0 < ScreenWidth
    /\ ScreenHeight \in Nat /\ 0 < ScreenHeight
    /\ ScreenHeight - 1 \in Nat /\ ScreenHeight - 1 < ScreenHeight
    /\ PortRange \in Nat /\ 0 < PortRange
BY ScreenAssumption

(* A position on the screen is a cell of the frame buffer. *)
LEMMA OffsetOK ==
    ASSUME NEW X \in Nat, NEW Y \in Nat, X < ScreenWidth, Y < ScreenHeight
    PROVE  Offset(X, Y) \in Cells
<1>1. ScreenWidth \in Nat /\ ScreenHeight \in Nat
  BY ScreenAssumption
<1>2. PICK d \in Nat : ScreenHeight = Y + 1 + d
  <2>1. ScreenHeight - (Y + 1) \in Nat /\ ScreenHeight = Y + 1 + (ScreenHeight - (Y + 1))
    BY <1>1
  <2>2. QED BY <2>1
<1>3. /\ ScreenWidth * ScreenHeight = ScreenWidth * Y + ScreenWidth + ScreenWidth * d
      /\ ScreenWidth * d \in Nat /\ Y * ScreenWidth \in Nat
      /\ Y * ScreenWidth = ScreenWidth * Y
  BY <1>1, <1>2
<1>4. /\ X + Y * ScreenWidth >= 0
      /\ X + Y * ScreenWidth <= ScreenWidth * ScreenHeight - 1
      /\ X + Y * ScreenWidth \in Int
  BY <1>1, <1>3
<1>5. QED BY <1>1, <1>4 DEF Offset, Cells

(* A position behind the last row is not. *)
LEMMA OffsetBehind ==
    ASSUME NEW X \in Nat
    PROVE  Offset(X, ScreenHeight) \notin Cells
<1>1. ScreenWidth * ScreenHeight \in Nat /\ ScreenHeight * ScreenWidth = ScreenWidth * ScreenHeight
  BY Dims
<1>2. QED BY <1>1 DEF Offset, Cells

(* A lower row begins behind every position of a higher one. *)
LEMMA RowsApart ==
    ASSUME NEW X \in Nat, NEW Y \in Nat, NEW U \in Nat, NEW V \in Nat,
           X < ScreenWidth, Y < V
    PROVE  Offset(X, Y) < Offset(U, V)
<1>1. ScreenWidth \in Nat
  BY Dims
<1>2. PICK d \in Nat : V = Y + 1 + d
  <2>1. V - (Y + 1) \in Nat /\ V = Y + 1 + (V - (Y + 1))
    OBVIOUS
  <2>2. QED BY <2>1
<1>3. V * ScreenWidth = Y * ScreenWidth + ScreenWidth + d * ScreenWidth
      /\ d * ScreenWidth \in Nat /\ Y * ScreenWidth \in Nat
  BY <1>1, <1>2
<1>4. QED BY <1>1, <1>3 DEF Offset

(* Two positions on the screen are different cells. *)
LEMMA OffsetInjective ==
    ASSUME NEW X \in Nat, NEW Y \in Nat, NEW U \in Nat, NEW V \in Nat,
           X < ScreenWidth, U < ScreenWidth, Offset(X, Y) = Offset(U, V)
    PROVE  X = U /\ Y = V
<1>1. \A A, B \in Nat : Offset(A, B) \in Int
  <2>1. TAKE A, B \in Nat
  <2>2. B * ScreenWidth \in Int
    BY Dims
  <2>3. QED BY <2>2 DEF Offset
<1>2. ~ (Y < V) /\ ~ (V < Y)
  BY <1>1, RowsApart
<1>3. Y = V
  BY <1>2
<1>4. X + Y * ScreenWidth = U + Y * ScreenWidth /\ Y * ScreenWidth \in Int
  BY <1>3, Dims DEF Offset
<1>5. QED BY <1>3, <1>4

(* What the ports hold. *)
LEMMA PortValues ==
    ASSUME NEW pos \in Nat
    PROVE  LowByte(pos) \in 0 .. PortRange - 1 /\ HighByte(pos) \in 0 .. PortRange - 1
<1>1. PortRange \in Nat \ {0}
  BY ScreenAssumption
<1>2. \A n \in Nat : n % PortRange \in 0 .. PortRange - 1
  BY <1>1
<1>3. pos \div PortRange \in Nat
  BY <1>1
<1>4. QED BY <1>2, <1>3 DEF LowByte, HighByte

-----------------------------------------------------------------------------
(* Rows of the frame buffer and their texts *)

Marks == Letters \cup {"NUL", "SP", "firmware"}
Screens == [Cells -> Marks]
Columns == 1 .. ScreenWidth

(* The cells up to the n-th hold something, and the others nothing. *)
Filled(cells, n) == \A i \in Columns : cells[i] = "NUL" <=> i > n

(* The position (col, row) is behind the text of its row, and the rows     *)
(* below it are empty.                                                     *)
Shape(fb, col, row) ==
    /\ fb \in Screens /\ row \in 0 .. ScreenHeight - 1 /\ col \in 0 .. ScreenWidth
    /\ Filled(RowCells(fb, row), col)
    /\ \A r \in row + 1 .. ScreenHeight - 1 : Filled(RowCells(fb, r), 0)

(* What a terminal shows for it. *)
Shown(fb, row) ==
    [rows |-> [r \in 1 .. ScreenHeight |-> Trimmed(RowCells(fb, r - 1))], cur |-> row + 1]

(* The two changes of the frame buffer. *)
Put(fb, X, Y, L) == [fb EXCEPT ![Offset(X, Y)] = L]
Scrolled(fb) == [n \in Cells |-> IF n + ScreenWidth \in Cells
                                 THEN fb[n + ScreenWidth] ELSE "NUL"]

(* The cells of a row. *)
LEMMA RowType ==
    ASSUME NEW fb \in Screens, NEW r \in 0 .. ScreenHeight - 1
    PROVE  RowCells(fb, r) \in [Columns -> Marks]
<1>1. ASSUME NEW i \in Columns PROVE fb[Offset(i - 1, r)] \in Marks
  <2>1. i - 1 \in Nat /\ i - 1 < ScreenWidth /\ r \in Nat /\ r < ScreenHeight
    BY Dims DEF Columns
  <2>2. QED BY <2>1, OffsetOK DEF Screens
<1>2. QED BY <1>1 DEF RowCells, Columns

(* Storing one cell changes one row, in one column. *)
LEMMA RowPut ==
    ASSUME NEW fb \in Screens, NEW X \in 0 .. ScreenWidth - 1, NEW Y \in 0 .. ScreenHeight - 1,
           NEW L, NEW q \in 0 .. ScreenHeight - 1
    PROVE  RowCells(Put(fb, X, Y, L), q) =
                            IF q = Y THEN [RowCells(fb, Y) EXCEPT ![X + 1] = L]
                                     ELSE RowCells(fb, q)
<1> DEFINE d == Put(fb, X, Y, L)
<1>1. ASSUME NEW i \in Columns
      PROVE  d[Offset(i - 1, q)] = IF q = Y /\ i = X + 1 THEN L ELSE fb[Offset(i - 1, q)]
  <2>1. /\ i - 1 \in Nat /\ i - 1 < ScreenWidth /\ q \in Nat /\ q < ScreenHeight
        /\ X \in Nat /\ X < ScreenWidth /\ Y \in Nat
    BY Dims DEF Columns
  <2>2. Offset(i - 1, q) \in Cells
    BY <2>1, OffsetOK
  <2>3. d[Offset(i - 1, q)] = IF Offset(i - 1, q) = Offset(X, Y) THEN L ELSE fb[Offset(i - 1, q)]
    BY <2>2 DEF Screens, Put
  <2>4. Offset(i - 1, q) = Offset(X, Y) <=> q = Y /\ i - 1 = X
    BY <2>1, OffsetInjective
  <2>5. i - 1 = X <=> i = X + 1
    BY <2>1 DEF Columns
  <2>6. QED BY <2>3, <2>4, <2>5
<1>2. CASE q = Y
  <2>1. \A i \in Columns : RowCells(d, q)[i] = [RowCells(fb, Y) EXCEPT ![X + 1] = L][i]
    BY <1>1, <1>2 DEF RowCells, Columns
  <2>2. QED BY <1>2, <2>1 DEF RowCells, Columns
<1>3. CASE q # Y
  BY <1>1, <1>3 DEF RowCells, Columns
<1>4. QED BY <1>2, <1>3

(* Scrolling moves rows up. *)
LEMMA RowScroll ==
    ASSUME NEW fb \in Screens, NEW q \in 0 .. ScreenHeight - 1
    PROVE  RowCells(Scrolled(fb), q) =
               IF q + 1 < ScreenHeight THEN RowCells(fb, q + 1) ELSE [i \in Columns |-> "NUL"]
<1> DEFINE d == Scrolled(fb)
<1>1. ASSUME NEW i \in Columns
      PROVE  d[Offset(i - 1, q)] = IF q + 1 < ScreenHeight THEN fb[Offset(i - 1, q + 1)]
                                                           ELSE "NUL"
  <2>1. /\ i - 1 \in Nat /\ i - 1 < ScreenWidth /\ q \in Nat /\ q < ScreenHeight
        /\ q + 1 \in Nat
    BY Dims DEF Columns
  <2>2. Offset(i - 1, q) \in Cells
    BY <2>1, OffsetOK
  <2>3. Offset(i - 1, q) + ScreenWidth = Offset(i - 1, q + 1)
    <3>1. (q + 1) * ScreenWidth = q * ScreenWidth + ScreenWidth /\ q * ScreenWidth \in Int
      BY <2>1, Dims
    <3>2. QED BY <2>1, <3>1, Dims DEF Offset
  <2>4. d[Offset(i - 1, q)] = IF Offset(i - 1, q + 1) \in Cells
                              THEN fb[Offset(i - 1, q + 1)] ELSE "NUL"
    BY <2>2, <2>3 DEF Scrolled
  <2>5. CASE q + 1 < ScreenHeight
    BY <2>1, <2>4, <2>5, OffsetOK
  <2>6. CASE ~ (q + 1 < ScreenHeight)
    <3>1. q + 1 = ScreenHeight
      BY <2>1, <2>6, Dims
    <3>2. QED BY <2>1, <2>4, <2>6, <3>1, OffsetBehind
  <2>7. QED BY <2>5, <2>6
<1>2. QED BY <1>1 DEF RowCells, Columns

(* The text of a row filled up to n. *)
LEMMA TrimFilled ==
    ASSUME NEW cells \in [Columns -> Marks], NEW n \in 0 .. ScreenWidth, Filled(cells, n)
    PROVE  Trimmed(cells) = [i \in 1 .. n |-> cells[i]]
<1> DEFINE P(m) == /\ m > 0 => cells[m] # "NUL"
                   /\ \A j \in m + 1 .. ScreenWidth : cells[j] = "NUL"
           last == CHOOSE m \in 0 .. ScreenWidth : P(m)
<1>1. ScreenWidth \in Nat
  BY Dims
<1>2. P(n)
  BY <1>1 DEF Filled, Columns
<1>3. ASSUME NEW m \in 0 .. ScreenWidth, P(m) PROVE m = n
  <2>1. ~ (m < n)
    <3>1. m < n => n \in m + 1 .. ScreenWidth /\ n > 0
      BY <1>1
    <3>2. QED BY <1>2, <1>3, <3>1
  <2>2. ~ (n < m)
    <3>1. n < m => m \in n + 1 .. ScreenWidth /\ m > 0
      BY <1>1
    <3>2. QED BY <1>2, <1>3, <3>1
  <2>3. QED BY <1>1, <2>1, <2>2
<1>4. last \in 0 .. ScreenWidth /\ P(last)
  BY <1>2
<1>5. last = n
  <2> HIDE DEF last, P
  <2>1. QED BY <1>3, <1>4
<1>6. Trimmed(cells) = SubSeq(cells, 1, n)
  BY <1>5 DEF Trimmed
<1>7. SubSeq(cells, 1, n) = [i \in 1 .. n |-> cells[i]]
  <2>1. cells \in Seq(Marks) /\ Len(cells) = ScreenWidth
    BY <1>1 DEF Columns
  <2>2. QED BY <1>1, <2>1
<1>8. QED BY <1>6, <1>7

-----------------------------------------------------------------------------
(* What a change of the frame buffer does to the text *)

(* The text of the current row is as long as the column. *)
LEMMA ShapeRow ==
    ASSUME NEW fb, NEW col, NEW row, Shape(fb, col, row)
    PROVE  /\ row + 1 \in 1 .. ScreenHeight /\ (row + 1) - 1 = row
           /\ Shown(fb, row).rows[row + 1] = [i \in 1 .. col |-> RowCells(fb, row)[i]]
           /\ Len(Shown(fb, row).rows[row + 1]) = col
<1>1. row \in Nat /\ row < ScreenHeight /\ col \in Nat
  BY Dims DEF Shape
<1>2. row + 1 \in 1 .. ScreenHeight /\ (row + 1) - 1 = row
  BY <1>1, Dims
<1>3. RowCells(fb, row) \in [Columns -> Marks]
  BY RowType DEF Shape
<1>4. Trimmed(RowCells(fb, row)) = [i \in 1 .. col |-> RowCells(fb, row)[i]]
  BY <1>3, TrimFilled DEF Shape
<1>5. Shown(fb, row).rows[row + 1] = Trimmed(RowCells(fb, row))
  BY <1>2 DEF Shown
<1>6. Len([i \in 1 .. col |-> RowCells(fb, row)[i]]) = col
  BY <1>1
<1>7. QED BY <1>2, <1>4, <1>5, <1>6

(* The row is full when the column is behind the last. *)
LEMMA ShapeFull ==
    ASSUME NEW fb, NEW col, NEW row, Shape(fb, col, row)
    PROVE  TM!RowFull(Shown(fb, row)) <=> col = ScreenWidth
<1>1. Shown(fb, row).cur = row + 1
  BY DEF Shown
<1>2. Len(Shown(fb, row).rows[Shown(fb, row).cur]) = col
  <2>1. Len(Shown(fb, row).rows[row + 1]) = col
    BY ShapeRow
  <2>2. QED BY <1>1, <2>1
<1> HIDE DEF Shown
<1>3. QED BY <1>2, Zenon DEF TM!RowFull

(* The next row, while there is one. *)
LEMMA ShapeDown ==
    ASSUME NEW fb, NEW col, NEW row, Shape(fb, col, row), row + 1 < ScreenHeight
    PROVE  Shape(fb, 0, row + 1) /\ Shown(fb, row + 1) = TM!NewRow(Shown(fb, row))
<1>1. row \in Nat /\ row < ScreenHeight
  BY Dims DEF Shape
<1>2. Shape(fb, 0, row + 1)
  <2>1. row + 1 \in 0 .. ScreenHeight - 1 /\ row + 1 \in row + 1 .. ScreenHeight - 1
        /\ 0 \in 0 .. ScreenWidth
    BY <1>1, Dims
  <2>2. \A r \in (row + 1) + 1 .. ScreenHeight - 1 : r \in row + 1 .. ScreenHeight - 1
    BY <1>1, Dims
  <2>3. QED BY <2>1, <2>2 DEF Shape
<1>3. Shown(fb, row + 1) = TM!NewRow(Shown(fb, row))
  BY <1>1 DEF Shown, TM!NewRow
<1>4. QED BY <1>2, <1>3

(* The next row, when the screen scrolls. *)
LEMMA ShapeScroll ==
    ASSUME NEW fb, NEW col, Shape(fb, col, ScreenHeight - 1)
    PROVE  /\ Shape(Scrolled(fb), 0, ScreenHeight - 1)
           /\ Shown(Scrolled(fb), ScreenHeight - 1) = TM!NewRow(Shown(fb, ScreenHeight - 1))
<1> DEFINE none == [i \in Columns |-> "NUL"]
           d == Scrolled(fb)
<1>1. d \in Screens
  BY DEF Shape, Screens, Marks, Scrolled
<1>2. \A q \in 0 .. ScreenHeight - 1 :
        RowCells(d, q) = IF q + 1 < ScreenHeight THEN RowCells(fb, q + 1) ELSE none
  BY RowScroll DEF Shape
<1>3. Filled(none, 0) /\ none \in [Columns -> Marks]
  BY Dims DEF Filled, Columns, Marks
<1> HIDE DEF none, d
<1>4. Shape(d, 0, ScreenHeight - 1)
  <2>1. /\ ScreenHeight - 1 \in 0 .. ScreenHeight - 1 /\ 0 \in 0 .. ScreenWidth
        /\ ~ ((ScreenHeight - 1) + 1 < ScreenHeight)
        /\ (ScreenHeight - 1) + 1 .. ScreenHeight - 1 = {}
    BY Dims
  <2>2. QED BY <1>1, <1>2, <1>3, <2>1 DEF Shape
<1>5. Trimmed(none) = <<>>
  <2>1. 0 \in 0 .. ScreenWidth /\ 1 .. 0 = {}
    BY Dims
  <2>2. Trimmed(none) = [i \in 1 .. 0 |-> none[i]]
    BY <1>3, <2>1, TrimFilled
  <2>3. QED BY <2>1, <2>2
<1>6. ASSUME NEW r \in 1 .. ScreenHeight
      PROVE  Trimmed(RowCells(d, r - 1)) =
               IF r < ScreenHeight THEN Trimmed(RowCells(fb, (r + 1) - 1)) ELSE <<>>
  <2>1. r - 1 \in 0 .. ScreenHeight - 1 /\ (r - 1) + 1 = r /\ (r + 1) - 1 = r
    BY Dims
  <2>2. QED BY <1>2, <1>5, <2>1
<1>7. Shown(d, ScreenHeight - 1) = TM!NewRow(Shown(fb, ScreenHeight - 1))
  <2> DEFINE t == Shown(fb, ScreenHeight - 1)
             down == [r \in 1 .. ScreenHeight |-> IF r < ScreenHeight THEN t.rows[r + 1] ELSE <<>>]
  <2>1. t.cur = ScreenHeight /\ ~ (t.cur < ScreenHeight)
    BY Dims DEF Shown
  <2>2. TM!NewRow(t) = [t EXCEPT !.rows = down]
    BY <2>1 DEF TM!NewRow
  <2>3. \A r \in 1 .. ScreenHeight : r < ScreenHeight => t.rows[r + 1] = Trimmed(RowCells(fb, (r + 1) - 1))
    BY Dims DEF Shown
  <2>4. [r \in 1 .. ScreenHeight |-> Trimmed(RowCells(d, r - 1))] = down
    BY <1>6, <2>3
  <2>5. QED BY <2>2, <2>4 DEF Shown
<1>8. QED BY <1>4, <1>7 DEF d

(* A cell without a letter may be cleared again. *)
LEMMA ShapeNul ==
    ASSUME NEW fb, NEW col, NEW row, Shape(fb, col, row),
           NEW X \in 0 .. ScreenWidth - 1, NEW Y \in row .. ScreenHeight - 1,
           Y = row => X >= col
    PROVE  Put(fb, X, Y, "NUL") = fb
<1>1. /\ X \in Nat /\ X < ScreenWidth /\ Y \in Nat /\ Y < ScreenHeight /\ X + 1 \in Columns
      /\ (X + 1) - 1 = X /\ col \in Nat /\ row \in Nat /\ Y \in 0 .. ScreenHeight - 1
  BY Dims DEF Shape, Columns
<1>2. RowCells(fb, Y)[X + 1] = fb[Offset(X, Y)]
  BY <1>1 DEF RowCells, Columns
<1>3. RowCells(fb, Y)[X + 1] = "NUL"
  <2>1. CASE Y = row
    <3>1. X + 1 > col
      BY <1>1, <2>1
    <3>2. QED BY <1>1, <2>1, <3>1 DEF Shape, Filled
  <2>2. CASE Y # row
    <3>1. Y \in row + 1 .. ScreenHeight - 1 /\ X + 1 > 0
      BY <1>1, <2>2
    <3>2. QED BY <1>1, <3>1 DEF Shape, Filled
  <2>3. QED BY <2>1, <2>2
<1>4. Offset(X, Y) \in Cells
  BY <1>1, OffsetOK
<1>5. QED BY <1>2, <1>3, <1>4 DEF Shape, Screens, Put

(* Only the text of the current row depends on its cells. *)
LEMMA OtherRows ==
    ASSUME NEW fb \in Screens, NEW X \in 0 .. ScreenWidth - 1, NEW row \in 0 .. ScreenHeight - 1,
           NEW L, NEW d, d = Put(fb, X, row, L)
    PROVE  /\ RowCells(d, row) = [RowCells(fb, row) EXCEPT ![X + 1] = L]
           /\ \A q \in 0 .. ScreenHeight - 1 : q # row => RowCells(d, q) = RowCells(fb, q)
           /\ Shown(d, row) = [Shown(fb, row) EXCEPT
                                 !.rows[Shown(fb, row).cur] = Trimmed(RowCells(d, row))]
<1>1. /\ RowCells(d, row) = [RowCells(fb, row) EXCEPT ![X + 1] = L]
      /\ \A q \in 0 .. ScreenHeight - 1 : q # row => RowCells(d, q) = RowCells(fb, q)
  BY RowPut
<1>2. row \in Nat /\ row < ScreenHeight /\ (row + 1) - 1 = row
  BY Dims
<1>3. ASSUME NEW r \in 1 .. ScreenHeight
      PROVE  Trimmed(RowCells(d, r - 1)) =
               IF r = row + 1 THEN Trimmed(RowCells(d, row)) ELSE Trimmed(RowCells(fb, r - 1))
  <2>1. CASE r = row + 1
    BY <1>2, <2>1
  <2>2. CASE r # row + 1
    <3>1. r - 1 \in 0 .. ScreenHeight - 1 /\ r - 1 # row
      BY <1>2, <2>2, Dims
    <3>2. QED BY <1>1, <2>2, <3>1
  <2>3. QED BY <2>1, <2>2
<1>4. Shown(d, row) = [Shown(fb, row) EXCEPT
                         !.rows[Shown(fb, row).cur] = Trimmed(RowCells(d, row))]
  <2> DEFINE R == [r \in 1 .. ScreenHeight |-> Trimmed(RowCells(fb, r - 1))]
             v == Trimmed(RowCells(d, row))
  <2>1. Shown(fb, row) = [rows |-> R, cur |-> row + 1]
    BY DEF Shown
  <2>2. [Shown(fb, row) EXCEPT !.rows[Shown(fb, row).cur] = v] =
          [rows |-> [R EXCEPT ![row + 1] = v], cur |-> row + 1]
    <3> HIDE DEF R, v
    <3>1. QED BY <2>1
  <2>3. [r \in 1 .. ScreenHeight |-> Trimmed(RowCells(d, r - 1))] = [R EXCEPT ![row + 1] = v]
    BY <1>3
  <2>4. QED BY <2>2, <2>3 DEF Shown
<1>5. QED BY <1>1, <1>4

(* A letter behind the text. *)
LEMMA ShapePut ==
    ASSUME NEW fb, NEW col, NEW row, Shape(fb, col, row), col < ScreenWidth,
           NEW L \in Marks \ {"NUL"}, NEW d, d = Put(fb, col, row, L)
    PROVE  Shape(d, col + 1, row) /\ Shown(d, row) = TM!AddLetter(Shown(fb, row), L)
<1>1. /\ col \in Nat /\ row \in Nat /\ fb \in Screens
      /\ row \in 0 .. ScreenHeight - 1 /\ col \in 0 .. ScreenWidth - 1
      /\ col + 1 \in Columns /\ col + 1 \in 0 .. ScreenWidth
  BY Dims DEF Shape, Columns
<1> DEFINE old == RowCells(fb, row)
           new == RowCells(d, row)
<1>2. /\ new = [old EXCEPT ![col + 1] = L]
      /\ \A q \in 0 .. ScreenHeight - 1 : q # row => RowCells(d, q) = RowCells(fb, q)
      /\ Shown(d, row) = [Shown(fb, row) EXCEPT !.rows[Shown(fb, row).cur] = Trimmed(new)]
  BY <1>1, OtherRows
<1>3. old \in [Columns -> Marks] /\ Filled(old, col)
  BY <1>1, RowType DEF Shape
<1>4. d \in Screens
  BY <1>1 DEF Screens, Put
<1>5. new \in [Columns -> Marks]
  BY <1>1, <1>4, RowType
<1> HIDE DEF old, new
<1>6. Filled(new, col + 1)
  <2>1. ASSUME NEW i \in Columns PROVE new[i] = "NUL" <=> i > col + 1
    <3>1. i \in Nat
      BY Dims DEF Columns
    <3>2. CASE i = col + 1
      BY <1>1, <1>2, <1>3, <3>2
    <3>3. CASE i # col + 1
      <4>1. new[i] = old[i]
        BY <1>2, <1>3, <3>3
      <4>2. i > col <=> i > col + 1
        BY <1>1, <3>1, <3>3
      <4>3. QED BY <1>3, <4>1, <4>2 DEF Filled
    <3>4. QED BY <3>2, <3>3
  <2>2. QED BY <2>1 DEF Filled
<1>7. Shape(d, col + 1, row)
  <2>1. \A r \in row + 1 .. ScreenHeight - 1 : r \in 0 .. ScreenHeight - 1 /\ r # row
    BY <1>1, Dims
  <2>2. QED BY <1>1, <1>2, <1>4, <1>6, <2>1 DEF Shape, new
<1>8. Trimmed(new) = Append(Trimmed(old), L)
  <2>1. /\ Trimmed(old) = [i \in 1 .. col |-> old[i]]
        /\ Trimmed(new) = [i \in 1 .. col + 1 |-> new[i]]
    BY <1>1, <1>3, <1>5, <1>6, TrimFilled, Dims
  <2>2. \A i \in 1 .. col + 1 : new[i] = IF i = col + 1 THEN L ELSE old[i]
    <3>1. 1 .. col + 1 \subseteq Columns
      BY <1>1, Dims DEF Columns
    <3>2. QED BY <1>2, <1>3, <3>1
  <2> DEFINE s == [i \in 1 .. col |-> old[i]]
  <2>3. s \in Seq(Marks) /\ Len(s) = col
    <3>1. \A i \in 1 .. col : old[i] \in Marks
      BY <1>1, <1>3, Dims DEF Columns
    <3>2. QED BY <1>1, <3>1
  <2>4. /\ Append(s, L) \in Seq(Marks) /\ Len(Append(s, L)) = col + 1
        /\ \A i \in 1 .. col + 1 : Append(s, L)[i] = IF i = col + 1 THEN L ELSE s[i]
    <3> HIDE DEF s
    <3>1. /\ Append(s, L) \in Seq(Marks) /\ Len(Append(s, L)) = col + 1
          /\ \A i \in 1 .. col : Append(s, L)[i] = s[i]
          /\ Append(s, L)[col + 1] = L
      BY <2>3, AppendProperties
    <3>2. \A i \in 1 .. col + 1 : i # col + 1 => i \in 1 .. col
      BY <1>1
    <3>3. QED BY <3>1, <3>2
  <2>5. \A i \in 1 .. col + 1 : i # col + 1 => s[i] = old[i]
    BY <1>1
  <2>6. Append(s, L) = [i \in 1 .. col + 1 |-> Append(s, L)[i]]
    BY <2>4, LenProperties
  <2>7. \A i \in 1 .. col + 1 : Append(s, L)[i] = new[i]
    BY <2>2, <2>4, <2>5
  <2>8. Append(s, L) = [i \in 1 .. col + 1 |-> new[i]]
    BY <2>6, <2>7
  <2>9. QED BY <2>1, <2>8
<1>9. Shown(fb, row).rows[Shown(fb, row).cur] = Trimmed(old)
  <2>1. row + 1 \in 1 .. ScreenHeight /\ (row + 1) - 1 = row
    BY ShapeRow
  <2>2. QED BY <2>1 DEF Shown, old
<1>10. QED BY <1>2, <1>7, <1>8, <1>9 DEF TM!AddLetter

(* The last letter erased. *)
LEMMA ShapeErase ==
    ASSUME NEW fb, NEW col, NEW row, Shape(fb, col, row), col > 0,
           NEW d, d = Put(fb, col - 1, row, "NUL")
    PROVE  /\ Shape(d, col - 1, row)
           /\ Shown(fb, row).rows[Shown(fb, row).cur] # <<>>
           /\ Shown(d, row) = [Shown(fb, row) EXCEPT !.rows[Shown(fb, row).cur] =
                                   Front(Shown(fb, row).rows[Shown(fb, row).cur])]
<1>1. /\ col \in Nat /\ row \in Nat /\ fb \in Screens
      /\ row \in 0 .. ScreenHeight - 1 /\ col - 1 \in 0 .. ScreenWidth - 1
      /\ col \in Columns /\ col - 1 \in 0 .. ScreenWidth /\ (col - 1) + 1 = col
  BY Dims DEF Shape, Columns
<1> DEFINE old == RowCells(fb, row)
           new == RowCells(d, row)
<1>2. /\ new = [old EXCEPT ![col] = "NUL"]
      /\ \A q \in 0 .. ScreenHeight - 1 : q # row => RowCells(d, q) = RowCells(fb, q)
      /\ Shown(d, row) = [Shown(fb, row) EXCEPT !.rows[Shown(fb, row).cur] = Trimmed(new)]
  BY <1>1, OtherRows
<1>3. old \in [Columns -> Marks] /\ Filled(old, col)
  BY <1>1, RowType DEF Shape
<1>4. d \in Screens
  BY <1>1 DEF Screens, Marks, Put
<1>5. new \in [Columns -> Marks]
  BY <1>1, <1>4, RowType
<1> HIDE DEF old, new
<1>6. Filled(new, col - 1)
  <2>1. ASSUME NEW i \in Columns PROVE new[i] = "NUL" <=> i > col - 1
    <3>1. i \in Nat
      BY Dims DEF Columns
    <3>2. CASE i = col
      BY <1>1, <1>2, <1>3, <3>2
    <3>3. CASE i # col
      <4>1. new[i] = old[i]
        BY <1>2, <1>3, <3>3
      <4>2. i > col - 1 <=> i > col
        BY <1>1, <3>1, <3>3
      <4>3. QED BY <1>3, <4>1, <4>2 DEF Filled
    <3>4. QED BY <3>2, <3>3
  <2>2. QED BY <2>1 DEF Filled
<1>7. Shape(d, col - 1, row)
  <2>1. \A r \in row + 1 .. ScreenHeight - 1 : r \in 0 .. ScreenHeight - 1 /\ r # row
    BY <1>1, Dims
  <2>2. QED BY <1>1, <1>2, <1>4, <1>6, <2>1 DEF Shape, new
<1> DEFINE s == [i \in 1 .. col |-> old[i]]
<1>8. s \in Seq(Marks) /\ Len(s) = col
  <2>1. \A i \in 1 .. col : old[i] \in Marks
    BY <1>1, <1>3, Dims DEF Columns
  <2>2. QED BY <1>1, <2>1
<1>9. Trimmed(old) = s /\ Trimmed(new) = [i \in 1 .. col - 1 |-> new[i]]
  <2>1. col \in 0 .. ScreenWidth
    BY DEF Shape
  <2>2. QED BY <1>1, <1>3, <1>5, <1>6, <2>1, TrimFilled
<1>10. Trimmed(new) = Front(s)
  <2>1. \A i \in 1 .. col - 1 : new[i] = s[i]
    <3>1. \A i \in 1 .. col - 1 : i \in Columns /\ i # col /\ i \in 1 .. col
      BY <1>1, Dims DEF Columns
    <3>2. QED BY <1>2, <1>3, <3>1
  <2> HIDE DEF s
  <2>2. SubSeq(s, 1, Len(s) - 1) = [i \in 1 .. col - 1 |-> s[i]]
    BY <1>1, <1>8
  <2>3. QED BY <1>9, <2>1, <2>2 DEF Front
<1>11. s # <<>>
  <2> HIDE DEF s
  <2>1. QED BY <1>1, <1>8
<1>12. Shown(fb, row).rows[Shown(fb, row).cur] = s
  <2> HIDE DEF s
  <2>1. row + 1 \in 1 .. ScreenHeight /\ (row + 1) - 1 = row
    BY ShapeRow
  <2>2. QED BY <1>9, <2>1 DEF Shown, old
<1>13. QED BY <1>2, <1>7, <1>10, <1>11, <1>12

-----------------------------------------------------------------------------
(* The driver's functions on a context *)

(* Any position, and one that is behind the text of its row. *)
Contexts ==
    [fb : Screens, CurrentRow : Nat, CurrentCol : Nat,
     FollowingInput : BOOLEAN, CursorEnabled : BOOLEAN,
     index : {"low", "high", "end"}, low : 0 .. PortRange - 1, high : 0 .. PortRange - 1,
     stray : {FALSE}]
Good(c) == c \in Contexts /\ Shape(c.fb, c.CurrentCol, c.CurrentRow)
TextOf(c) == Shown(c.fb, c.CurrentRow)
SameFlags(c, d) == d.CursorEnabled = c.CursorEnabled /\ d.FollowingInput = c.FollowingInput

(* Numbers of a good position. *)
LEMMA GoodPosition ==
    ASSUME NEW c, Good(c)
    PROVE  /\ c.fb \in Screens /\ c.CurrentCol \in Nat /\ c.CurrentRow \in Nat
           /\ c.CurrentCol <= ScreenWidth /\ c.CurrentRow < ScreenHeight
           /\ c.CurrentRow \in 0 .. ScreenHeight - 1
BY Dims DEF Good, Shape

(* Storing keeps a frame buffer. *)
LEMMA PutType ==
    ASSUME NEW fb \in Screens, NEW X, NEW Y, NEW L \in Marks
    PROVE  Put(fb, X, Y, L) \in Screens
BY DEF Put, Screens

(* VgaEntry on the screen stores a cell and sets the column to its own. *)
LEMMA EntryIs ==
    ASSUME NEW c \in Contexts, NEW L \in Marks, NEW X \in 0 .. ScreenWidth - 1,
           NEW Y \in 0 .. ScreenHeight - 1, NEW d, d = VgaEntry(c, L, X, Y)
    PROVE  /\ d \in Contexts /\ SameFlags(c, d) /\ d.fb = Put(c.fb, X, Y, L)
           /\ d.CurrentCol = X /\ d.CurrentRow = c.CurrentRow
           /\ d.low = c.low /\ d.high = c.high
<1>1. X \in Nat /\ X < ScreenWidth /\ Y \in Nat /\ Y < ScreenHeight /\ ~ (Y >= ScreenHeight)
  BY Dims
<1>2. Offset(X, Y) \in Cells
  BY <1>1, OffsetOK
<1>3. d = PutEntry(c, L, X, Y)
  BY <1>1 DEF VgaEntry
<1>4. StoreCell(c, L, X, Y) = [c EXCEPT !.fb = Put(c.fb, X, Y, L)]
  BY <1>2 DEF StoreCell, Put
<1>5. d = [c EXCEPT !.fb = Put(c.fb, X, Y, L), !.CurrentCol = X]
  BY <1>3, <1>4 DEF PutEntry
<1>6. Put(c.fb, X, Y, L) \in Screens
  BY PutType DEF Contexts
<1>7. QED BY <1>1, <1>5, <1>6 DEF Contexts, SameFlags

(* The cursor's ports. *)
LEMMA PortsAre ==
    ASSUME NEW c \in Contexts, NEW pos \in Nat, NEW d, d = WriteCursorPorts(c, pos)
    PROVE  /\ d \in Contexts /\ SameFlags(c, d) /\ d.fb = c.fb
           /\ d.CurrentRow = c.CurrentRow /\ d.CurrentCol = c.CurrentCol
           /\ d.low = LowByte(pos) /\ d.high = HighByte(pos)
<1>1. d = [c EXCEPT !.index = "high", !.low = LowByte(pos), !.high = HighByte(pos)]
  BY DEF WriteCursorPorts
<1>2. LowByte(pos) \in 0 .. PortRange - 1 /\ HighByte(pos) \in 0 .. PortRange - 1
  BY PortValues
<1>3. QED BY <1>1, <1>2 DEF Contexts, SameFlags

(* VgaMoveCursor, where it does something. *)
LEMMA MoveIs ==
    ASSUME NEW c \in Contexts, c.CursorEnabled, NEW X \in 0 .. ScreenWidth - 1,
           NEW Y \in 0 .. ScreenHeight - 1, NEW d, d = VgaMoveCursor(c, X, Y)
    PROVE  /\ d \in Contexts /\ SameFlags(c, d) /\ d.fb = Put(c.fb, X, Y, "NUL")
           /\ d.CurrentRow = c.CurrentRow /\ d.CurrentCol = X /\ CursorAt(d, X, Y)
<1>1. Offset(X, Y) \in Nat
  <2>1. Y * ScreenWidth \in Nat
    BY Dims
  <2>2. QED BY <2>1 DEF Offset
<1>2. PICK p : p = WriteCursorPorts(c, Offset(X, Y))
  OBVIOUS
<1>3. /\ p \in Contexts /\ SameFlags(c, p) /\ p.fb = c.fb
      /\ p.CurrentRow = c.CurrentRow
      /\ p.low = LowByte(Offset(X, Y)) /\ p.high = HighByte(Offset(X, Y))
  BY <1>1, <1>2, PortsAre
<1>4. d = VgaEntry(p, "NUL", X, Y)
  BY <1>2 DEF VgaMoveCursor
<1>5. "NUL" \in Marks
  BY DEF Marks
<1>6. /\ d \in Contexts /\ SameFlags(p, d) /\ d.fb = Put(p.fb, X, Y, "NUL")
      /\ d.CurrentCol = X /\ d.CurrentRow = p.CurrentRow
      /\ d.low = p.low /\ d.high = p.high
  BY <1>3, <1>4, <1>5, EntryIs
<1>7. QED BY <1>3, <1>6 DEF SameFlags, CursorAt

(* VgaMoveCursor to the position behind the text changes no cell. *)
LEMMA MoveHere ==
    ASSUME NEW c, Good(c), c.CurrentCol < ScreenWidth,
           NEW d, d = VgaMoveCursor(c, c.CurrentCol, c.CurrentRow)
    PROVE  /\ Good(d) /\ TextOf(d) = TextOf(c) /\ SameFlags(c, d)
           /\ d.CurrentCol = c.CurrentCol /\ d.CurrentRow = c.CurrentRow
           /\ c.CursorEnabled => CursorAt(d, d.CurrentCol, d.CurrentRow)
<1>1. c \in Contexts /\ Shape(c.fb, c.CurrentCol, c.CurrentRow)
  BY DEF Good
<1>2. /\ c.CurrentCol \in 0 .. ScreenWidth - 1 /\ c.CurrentRow \in 0 .. ScreenHeight - 1
      /\ c.CurrentRow \in c.CurrentRow .. ScreenHeight - 1 /\ c.CurrentCol >= c.CurrentCol
  BY GoodPosition, Dims
<1>3. CASE c.CursorEnabled
  <2>1. /\ d \in Contexts /\ SameFlags(c, d)
        /\ d.fb = Put(c.fb, c.CurrentCol, c.CurrentRow, "NUL")
        /\ d.CurrentRow = c.CurrentRow /\ d.CurrentCol = c.CurrentCol
        /\ CursorAt(d, c.CurrentCol, c.CurrentRow)
    BY <1>1, <1>2, <1>3, MoveIs
  <2>2. d.fb = c.fb
    BY <1>1, <1>2, <2>1, ShapeNul
  <2>3. QED BY <1>1, <2>1, <2>2 DEF Good, TextOf
<1>4. CASE ~ c.CursorEnabled
  <2>1. d = c
    BY <1>4 DEF VgaMoveCursor
  <2>2. QED BY <1>4, <2>1 DEF SameFlags
<1>5. QED BY <1>3, <1>4

(* internalVgaPushUp, from the last row. *)
LEMMA PushUpIs ==
    ASSUME NEW c \in Contexts, NEW k, Shape(c.fb, k, ScreenHeight - 1),
           NEW d, d = internalVgaPushUp(c)
    PROVE  /\ d \in Contexts /\ SameFlags(c, d) /\ d.fb = Scrolled(c.fb)
           /\ d.CurrentRow = c.CurrentRow
           /\ d.CurrentCol = IF c.CursorEnabled THEN 0 ELSE c.CurrentCol
<1>1. Shape(Scrolled(c.fb), 0, ScreenHeight - 1)
  BY ShapeScroll
<1>2. PICK s : s = Scroll(c)
  OBVIOUS
<1>3. s = [c EXCEPT !.fb = Scrolled(c.fb)]
  BY <1>2 DEF Scroll, Scrolled
<1>4. /\ s \in Contexts /\ SameFlags(c, s) /\ s.fb = Scrolled(c.fb)
      /\ s.CurrentRow = c.CurrentRow /\ s.CurrentCol = c.CurrentCol
  <2>1. Scrolled(c.fb) \in Screens
    BY <1>1 DEF Shape
  <2>2. QED BY <1>3, <2>1 DEF Contexts, SameFlags
<1>5. CASE c.CursorEnabled
  <2>1. /\ 0 \in 0 .. ScreenWidth - 1 /\ ScreenHeight - 1 \in 0 .. ScreenHeight - 1
        /\ ScreenHeight - 1 \in ScreenHeight - 1 .. ScreenHeight - 1 /\ 0 >= 0
    BY Dims
  <2>2. d = VgaMoveCursor(s, 0, ScreenHeight - 1)
    <3>1. ~ (ScreenHeight - 1 >= ScreenHeight)
      BY Dims
    <3>2. s.CursorEnabled
      BY <1>4, <1>5 DEF SameFlags
    <3>3. d = PutEntry(WriteCursorPorts(s, Offset(0, ScreenHeight - 1)), "NUL", 0, ScreenHeight - 1)
      BY <1>2, <1>5 DEF internalVgaPushUp
    <3>4. QED BY <3>1, <3>2, <3>3 DEF VgaMoveCursor, VgaEntry
  <2>3. /\ d \in Contexts /\ SameFlags(s, d)
        /\ d.fb = Put(s.fb, 0, ScreenHeight - 1, "NUL")
        /\ d.CurrentRow = s.CurrentRow /\ d.CurrentCol = 0
    <3>1. s.CursorEnabled
      BY <1>4, <1>5 DEF SameFlags
    <3>2. QED BY <1>4, <2>1, <2>2, <3>1, MoveIs
  <2>4. Put(s.fb, 0, ScreenHeight - 1, "NUL") = s.fb
    BY <1>1, <1>4, <2>1, ShapeNul
  <2>5. QED BY <1>4, <1>5, <2>3, <2>4 DEF SameFlags
<1>6. CASE ~ c.CursorEnabled
  BY <1>2, <1>4, <1>6 DEF internalVgaPushUp
<1>7. QED BY <1>5, <1>6

(* The check of the row, when the last letter left a row r full or a line  *)
(* ended in it: the text goes on in an empty row.                          *)
LEMMA NextRowIs ==
    ASSUME NEW c \in Contexts, NEW k, NEW r, Shape(c.fb, k, r), c.CurrentCol = 0,
           c.CurrentRow = r + 1 \/ (r = ScreenHeight - 1 /\ c.CurrentRow = ScreenHeight + 1),
           NEW d, d = ClampRow(c)
    PROVE  /\ Good(d) /\ d.CurrentCol = 0 /\ SameFlags(c, d)
           /\ TextOf(d) = TM!NewRow(Shown(c.fb, r))
<1>1. r \in Nat /\ r < ScreenHeight /\ c.CurrentRow \in Nat
  BY Dims DEF Shape, Contexts
<1>2. CASE r + 1 < ScreenHeight
  <2>1. c.CurrentRow = r + 1 /\ ~ (c.CurrentRow >= ScreenHeight)
    BY <1>1, <1>2, Dims
  <2>2. d = c
    BY <2>1 DEF ClampRow
  <2>3. Shape(c.fb, 0, r + 1) /\ Shown(c.fb, r + 1) = TM!NewRow(Shown(c.fb, r))
    BY <1>2, ShapeDown
  <2>4. QED BY <2>1, <2>2, <2>3 DEF Good, TextOf, SameFlags
<1>3. CASE ~ (r + 1 < ScreenHeight)
  <2>1. r = ScreenHeight - 1 /\ c.CurrentRow >= ScreenHeight
    BY <1>1, <1>3, Dims
  <2>2. PICK e : e = [c EXCEPT !.CurrentRow = ScreenHeight - 1]
    OBVIOUS
  <2>3. /\ e \in Contexts /\ SameFlags(c, e) /\ e.fb = c.fb
        /\ e.CurrentRow = ScreenHeight - 1 /\ e.CurrentCol = 0
    BY <2>2, Dims DEF Contexts, SameFlags
  <2>4. d = internalVgaPushUp(e)
    BY <2>1, <2>2 DEF ClampRow
  <2>5. /\ d \in Contexts /\ SameFlags(e, d) /\ d.fb = Scrolled(e.fb)
        /\ d.CurrentRow = e.CurrentRow /\ d.CurrentCol = IF e.CursorEnabled THEN 0 ELSE e.CurrentCol
    <3>1. Shape(e.fb, k, ScreenHeight - 1)
      BY <2>1, <2>3
    <3>2. QED BY <2>3, <2>4, <3>1, PushUpIs
  <2>6. /\ Shape(Scrolled(c.fb), 0, ScreenHeight - 1)
        /\ Shown(Scrolled(c.fb), ScreenHeight - 1) = TM!NewRow(Shown(c.fb, ScreenHeight - 1))
    BY <2>1, ShapeScroll
  <2>7. QED BY <2>1, <2>3, <2>5, <2>6 DEF Good, TextOf, SameFlags
<1>4. QED BY <1>2, <1>3

(* The checks before a letter: a full row is left for the next. *)
LEMMA ReadyIs ==
    ASSUME NEW c, Good(c), NEW d, d = ClampRow(WrapCol(c))
    PROVE  /\ Good(d) /\ d.CurrentCol < ScreenWidth /\ SameFlags(c, d)
           /\ TextOf(d) = IF TM!RowFull(TextOf(c)) THEN TM!NewRow(TextOf(c)) ELSE TextOf(c)
           /\ c.CurrentCol < ScreenWidth => d = c
<1>1. /\ c \in Contexts /\ Shape(c.fb, c.CurrentCol, c.CurrentRow)
      /\ c.CurrentCol \in Nat /\ c.CurrentRow \in Nat
      /\ c.CurrentCol <= ScreenWidth /\ c.CurrentRow < ScreenHeight
  BY GoodPosition DEF Good
<1>2. TM!RowFull(TextOf(c)) <=> c.CurrentCol = ScreenWidth
  BY <1>1, ShapeFull DEF TextOf
<1>3. CASE c.CurrentCol = ScreenWidth
  <2>1. PICK e : e = [c EXCEPT !.CurrentCol = 0, !.CurrentRow = c.CurrentRow + 1]
    OBVIOUS
  <2>2. WrapCol(c) = e
    BY <1>1, <1>3, <2>1, Dims DEF WrapCol
  <2>3. /\ e \in Contexts /\ SameFlags(c, e) /\ e.fb = c.fb
        /\ e.CurrentCol = 0 /\ e.CurrentRow = c.CurrentRow + 1
    <3>1. c.CurrentRow + 1 \in Nat /\ 0 \in Nat
      BY <1>1
    <3>2. QED BY <1>1, <2>1, <3>1 DEF Contexts, SameFlags
  <2>4. d = ClampRow(e) /\ Shape(e.fb, c.CurrentCol, c.CurrentRow)
    BY <1>1, <2>2, <2>3
  <2>5. /\ Good(d) /\ d.CurrentCol = 0 /\ SameFlags(e, d)
        /\ TextOf(d) = TM!NewRow(Shown(e.fb, c.CurrentRow))
    BY <2>3, <2>4, NextRowIs
  <2>6. 0 < ScreenWidth /\ ~ (c.CurrentCol < ScreenWidth)
    BY <1>1, <1>3, Dims
  <2>7. QED BY <1>2, <1>3, <2>3, <2>5, <2>6 DEF SameFlags, TextOf
<1>4. CASE c.CurrentCol # ScreenWidth
  <2>1. c.CurrentCol < ScreenWidth /\ ~ (c.CurrentCol >= ScreenWidth)
        /\ ~ (c.CurrentRow >= ScreenHeight)
    BY <1>1, <1>4, Dims
  <2>2. d = c
    BY <2>1 DEF WrapCol, ClampRow
  <2>3. QED BY <1>2, <1>4, <2>1, <2>2 DEF SameFlags
<1>5. QED BY <1>3, <1>4

(* VgaAutoEntry writes a letter. *)
LEMMA AutoEntryIs ==
    ASSUME NEW c, Good(c), NEW L \in Marks \ {"NUL"}, NEW d, d = VgaAutoEntry(c, L)
    PROVE  /\ Good(d) /\ SameFlags(c, d) /\ TextOf(d) = TM!WriteLetter(TextOf(c), L)
           /\ c.CurrentCol < ScreenWidth =>
                /\ d.fb = Put(c.fb, c.CurrentCol, c.CurrentRow, L)
                /\ d.CurrentCol = c.CurrentCol + 1 /\ d.CurrentRow = c.CurrentRow
<1>1. PICK ready : ready = ClampRow(WrapCol(c))
  OBVIOUS
<1>2. /\ Good(ready) /\ ready.CurrentCol < ScreenWidth /\ SameFlags(c, ready)
      /\ TextOf(ready) = IF TM!RowFull(TextOf(c)) THEN TM!NewRow(TextOf(c)) ELSE TextOf(c)
      /\ c.CurrentCol < ScreenWidth => ready = c
  BY <1>1, ReadyIs
<1>3. PICK col, row : col = ready.CurrentCol /\ row = ready.CurrentRow
  OBVIOUS
<1>4. /\ ready \in Contexts /\ Shape(ready.fb, col, row) /\ col < ScreenWidth
      /\ col \in 0 .. ScreenWidth - 1 /\ row \in 0 .. ScreenHeight - 1 /\ col \in Nat
  BY <1>2, <1>3, GoodPosition, Dims DEF Good
<1>5. PICK put : put = VgaEntry(ready, L, col, row)
  OBVIOUS
<1>6. /\ put \in Contexts /\ SameFlags(ready, put) /\ put.fb = Put(ready.fb, col, row, L)
      /\ put.CurrentCol = col /\ put.CurrentRow = row
  BY <1>3, <1>4, <1>5, EntryIs
<1>7. d = [put EXCEPT !.CurrentCol = col + 1]
  <2>1. d = [put EXCEPT !.CurrentCol = put.CurrentCol + 1]
    BY <1>1, <1>3, <1>5 DEF VgaAutoEntry
  <2>2. QED BY <1>6, <2>1
<1>8. /\ d \in Contexts /\ SameFlags(ready, d) /\ d.fb = Put(ready.fb, col, row, L)
      /\ d.CurrentCol = col + 1 /\ d.CurrentRow = row
  <2>1. col + 1 \in Nat
    BY <1>4
  <2>2. QED BY <1>6, <1>7, <2>1 DEF Contexts, SameFlags
<1>9. Shape(d.fb, col + 1, row) /\ Shown(d.fb, row) = TM!AddLetter(Shown(ready.fb, row), L)
  BY <1>4, <1>8, ShapePut
<1>10. Good(d) /\ TextOf(d) = TM!AddLetter(TextOf(ready), L)
  BY <1>3, <1>8, <1>9 DEF Good, TextOf
<1>11. TextOf(d) = TM!WriteLetter(TextOf(c), L)
  BY <1>2, <1>10 DEF TM!WriteLetter
<1>12. QED BY <1>2, <1>3, <1>8, <1>10, <1>11 DEF SameFlags

(* VgaPutChar with the cursor on types a letter. *)
LEMMA PutCharIs ==
    ASSUME NEW c, Good(c), c.CursorEnabled, c.FollowingInput,
           NEW L \in Marks \ {"NUL"}, NEW d, d = VgaPutChar(c, L)
    PROVE  /\ Good(d) /\ SameFlags(c, d) /\ d.CurrentCol < ScreenWidth
           /\ TextOf(d) = TM!TypeLetter(TextOf(c), L)
           /\ CursorAt(d, d.CurrentCol, d.CurrentRow)
           /\ c.CurrentCol + 1 < ScreenWidth =>
                /\ d.fb = Put(c.fb, c.CurrentCol, c.CurrentRow, L)
                /\ d.CurrentCol = c.CurrentCol + 1 /\ d.CurrentRow = c.CurrentRow
<1>1. PICK put : put = VgaAutoEntry(c, L)
  OBVIOUS
<1>2. /\ Good(put) /\ SameFlags(c, put) /\ TextOf(put) = TM!WriteLetter(TextOf(c), L)
      /\ c.CurrentCol < ScreenWidth =>
           /\ put.fb = Put(c.fb, c.CurrentCol, c.CurrentRow, L)
           /\ put.CurrentCol = c.CurrentCol + 1 /\ put.CurrentRow = c.CurrentRow
  BY <1>1, AutoEntryIs
<1>3. PICK ready : ready = ClampRow(WrapCol(put))
  OBVIOUS
<1>4. /\ Good(ready) /\ ready.CurrentCol < ScreenWidth /\ SameFlags(put, ready)
      /\ TextOf(ready) = IF TM!RowFull(TextOf(put)) THEN TM!NewRow(TextOf(put)) ELSE TextOf(put)
      /\ put.CurrentCol < ScreenWidth => ready = put
  BY <1>2, <1>3, ReadyIs
<1>5. d = VgaMoveCursor(ready, ready.CurrentCol, ready.CurrentRow)
  BY <1>1, <1>2, <1>3 DEF VgaPutChar, SameFlags
<1>6. /\ Good(d) /\ TextOf(d) = TextOf(ready) /\ SameFlags(ready, d)
      /\ d.CurrentCol = ready.CurrentCol /\ d.CurrentRow = ready.CurrentRow
      /\ ready.CursorEnabled => CursorAt(d, d.CurrentCol, d.CurrentRow)
  BY <1>4, <1>5, MoveHere
<1>7. TextOf(d) = TM!TypeLetter(TextOf(c), L)
  BY <1>2, <1>4, <1>6 DEF TM!TypeLetter
<1>8. ASSUME c.CurrentCol + 1 < ScreenWidth
      PROVE  /\ d.fb = Put(c.fb, c.CurrentCol, c.CurrentRow, L)
             /\ d.CurrentCol = c.CurrentCol + 1 /\ d.CurrentRow = c.CurrentRow
  <2>1. c.CurrentCol < ScreenWidth /\ c.CurrentCol + 1 \in 0 .. ScreenWidth - 1
    BY <1>8, GoodPosition, Dims
  <2>2. /\ ready = put /\ ready.fb = Put(c.fb, c.CurrentCol, c.CurrentRow, L)
        /\ ready.CurrentCol = c.CurrentCol + 1 /\ ready.CurrentRow = c.CurrentRow
    BY <1>2, <1>4, <1>8, <2>1
  <2>3. d.fb = Put(ready.fb, ready.CurrentCol, ready.CurrentRow, "NUL")
    <3>1. /\ ready \in Contexts /\ ready.CursorEnabled /\ ready.CurrentRow \in 0 .. ScreenHeight - 1
      BY <1>2, <1>4, GoodPosition DEF SameFlags, Good
    <3>2. QED BY <1>5, <2>1, <2>2, <3>1, MoveIs
  <2>4. d.fb = ready.fb
    <3>1. /\ Shape(ready.fb, ready.CurrentCol, ready.CurrentRow)
          /\ ready.CurrentCol \in 0 .. ScreenWidth - 1 /\ ready.CurrentCol >= ready.CurrentCol
          /\ ready.CurrentRow \in ready.CurrentRow .. ScreenHeight - 1
      BY <1>4, <2>1, <2>2, GoodPosition DEF Good
    <3>2. QED BY <2>3, <3>1, ShapeNul
  <2>5. QED BY <1>6, <2>2, <2>4
<1>9. QED BY <1>2, <1>4, <1>6, <1>7, <1>8 DEF SameFlags

-----------------------------------------------------------------------------
(* The loop of VgaStringEntry *)

(* The copy is behind the text; the row of the context is the copy's, or   *)
(* the one below the screen after the copy has been brought back to it.    *)
Copies == [c : Contexts, x : Nat, y : Nat]
Follows(e) ==
    /\ e \in Copies /\ Shape(e.c.fb, e.x, e.y)
    /\ \/ e.c.CurrentRow = e.y
       \/ e.y = ScreenHeight - 1 /\ e.c.CurrentRow = ScreenHeight
TextAt(e) == Shown(e.c.fb, e.y)

(* The checks before a letter of a string. *)
LEMMA ReadyCopyIs ==
    ASSUME NEW e, Follows(e), NEW d, d = ClampCopy(WrapCopy(e))
    PROVE  /\ Follows(d) /\ d.x < ScreenWidth /\ SameFlags(e.c, d.c)
           /\ TextAt(d) = IF TM!RowFull(TextAt(e)) THEN TM!NewRow(TextAt(e)) ELSE TextAt(e)
           /\ e.x < ScreenWidth => d = e
<1>1. /\ e \in Copies /\ e.c \in Contexts /\ Shape(e.c.fb, e.x, e.y)
      /\ e.x \in Nat /\ e.y \in Nat /\ e.x <= ScreenWidth /\ e.y < ScreenHeight
  BY Dims DEF Follows, Copies, Shape
<1>2. TM!RowFull(TextAt(e)) <=> e.x = ScreenWidth
  BY <1>1, ShapeFull DEF TextAt
<1>3. CASE e.x = ScreenWidth
  <2>1. PICK c : c = [e.c EXCEPT !.CurrentRow = e.y + 1]
    OBVIOUS
  <2>2. /\ c \in Contexts /\ SameFlags(e.c, c) /\ c.fb = e.c.fb /\ c.CurrentRow = e.y + 1
    <3>1. e.y + 1 \in Nat
      BY <1>1
    <3>2. QED BY <1>1, <2>1, <3>1 DEF Contexts, SameFlags
  <2>3. PICK w : w = WrapCopy(e)
    OBVIOUS
  <2>4. w \in Copies /\ w.c = c /\ w.x = 0 /\ w.y = e.y + 1
    <3>1. w = [e EXCEPT !.x = 0, !.y = e.y + 1, !.c = c]
      BY <1>1, <1>3, <2>1, <2>3, Dims DEF WrapCopy, Copies
    <3>2. e.y + 1 \in Nat
      BY <1>1
    <3>3. QED BY <1>1, <2>2, <3>1, <3>2 DEF Copies
  <2>5. d = ClampCopy(w)
    BY <2>3
  <2>6. 0 < ScreenWidth /\ ~ (e.x < ScreenWidth)
    BY <1>1, <1>3, Dims
  <2>7. CASE e.y + 1 < ScreenHeight
    <3>1. ~ (w.y >= ScreenHeight)
      BY <1>1, <2>4, <2>7, Dims
    <3>2. d = w
      BY <2>5, <3>1 DEF ClampCopy
    <3>3. Shape(e.c.fb, 0, e.y + 1) /\ Shown(e.c.fb, e.y + 1) = TM!NewRow(Shown(e.c.fb, e.y))
      BY <1>1, <2>7, ShapeDown
    <3>4. QED BY <1>2, <1>3, <2>2, <2>4, <2>6, <3>2, <3>3 DEF Follows, TextAt
  <2>8. CASE ~ (e.y + 1 < ScreenHeight)
    <3>1. e.y = ScreenHeight - 1 /\ w.y >= ScreenHeight /\ w.y = ScreenHeight
          /\ c.CurrentRow = ScreenHeight /\ Shape(c.fb, e.x, ScreenHeight - 1)
      BY <1>1, <2>2, <2>4, <2>8, Dims
    <3>2. PICK p : p = internalVgaPushUp(c)
      OBVIOUS
    <3>3. p \in Contexts /\ SameFlags(c, p) /\ p.fb = Scrolled(c.fb) /\ p.CurrentRow = c.CurrentRow
      BY <2>2, <3>1, <3>2, PushUpIs
    <3>4. d = [w EXCEPT !.y = ScreenHeight - 1, !.c = p]
      BY <2>4, <2>5, <3>1, <3>2 DEF ClampCopy
    <3>5. d \in Copies /\ d.c = p /\ d.x = 0 /\ d.y = ScreenHeight - 1
      BY <2>4, <3>3, <3>4, Dims DEF Copies
    <3>6. /\ Shape(Scrolled(c.fb), 0, ScreenHeight - 1)
          /\ Shown(Scrolled(c.fb), ScreenHeight - 1) = TM!NewRow(Shown(c.fb, ScreenHeight - 1))
      BY <3>1, ShapeScroll
    <3>7. Follows(d)
      BY <3>1, <3>3, <3>5, <3>6 DEF Follows
    <3>8. TextAt(d) = TM!NewRow(TextAt(e))
      BY <2>2, <3>1, <3>3, <3>5, <3>6 DEF TextAt
    <3>9. QED BY <1>2, <1>3, <2>2, <2>6, <3>3, <3>5, <3>7, <3>8 DEF SameFlags
  <2>9. QED BY <2>7, <2>8
<1>4. CASE e.x # ScreenWidth
  <2>1. e.x < ScreenWidth /\ ~ (e.x >= ScreenWidth) /\ ~ (e.y >= ScreenHeight)
    BY <1>1, <1>4, Dims
  <2>2. d = e
    BY <2>1 DEF WrapCopy, ClampCopy
  <2>3. QED BY <1>2, <1>4, <2>1, <2>2 DEF SameFlags
<1>5. QED BY <1>3, <1>4

(* One letter of a string. *)
LEMMA StepIs ==
    ASSUME NEW e, Follows(e), NEW L \in Letters, NEW d, d = StringStep(e, L)
    PROVE  /\ Follows(d) /\ SameFlags(e.c, d.c) /\ d.c.CurrentCol = d.x - 1
           /\ TextAt(d) = TM!WriteLetter(TextAt(e), L)
           /\ e.x < ScreenWidth => d.x = e.x + 1 /\ d.y = e.y /\ d.c.CurrentRow = e.c.CurrentRow
<1>1. L \notin {"NUL", "TAB", "LF"} /\ L \in Marks \ {"NUL"}
  BY TextAssumption DEF Marks
<1>2. PICK r : r = ClampCopy(WrapCopy(e))
  OBVIOUS
<1>3. /\ Follows(r) /\ r.x < ScreenWidth /\ SameFlags(e.c, r.c)
      /\ TextAt(r) = IF TM!RowFull(TextAt(e)) THEN TM!NewRow(TextAt(e)) ELSE TextAt(e)
      /\ e.x < ScreenWidth => r = e
  BY <1>2, ReadyCopyIs
<1>4. /\ r \in Copies /\ r.c \in Contexts /\ Shape(r.c.fb, r.x, r.y)
      /\ r.x \in Nat /\ r.x \in 0 .. ScreenWidth - 1 /\ r.y \in 0 .. ScreenHeight - 1
      /\ (r.x + 1) - 1 = r.x /\ r.x + 1 \in Nat
  BY <1>3, Dims DEF Follows, Copies, Shape
<1>5. PICK c : c = VgaEntry(r.c, L, r.x, r.y)
  OBVIOUS
<1>6. /\ c \in Contexts /\ SameFlags(r.c, c) /\ c.fb = Put(r.c.fb, r.x, r.y, L)
      /\ c.CurrentCol = r.x /\ c.CurrentRow = r.c.CurrentRow
  BY <1>1, <1>4, <1>5, EntryIs
<1>7. d = [r EXCEPT !.c = c, !.x = r.x + 1]
  BY <1>1, <1>2, <1>5 DEF StringStep
<1>8. d \in Copies /\ d.c = c /\ d.x = r.x + 1 /\ d.y = r.y
  BY <1>4, <1>6, <1>7 DEF Copies
<1>9. Shape(c.fb, r.x + 1, r.y) /\ Shown(c.fb, r.y) = TM!AddLetter(Shown(r.c.fb, r.y), L)
  BY <1>1, <1>3, <1>4, <1>6, ShapePut
<1>10. Follows(d)
  BY <1>3, <1>6, <1>8, <1>9 DEF Follows
<1>11. TextAt(d) = TM!WriteLetter(TextAt(e), L)
  BY <1>3, <1>8, <1>9 DEF TextAt, TM!WriteLetter
<1>12. QED BY <1>3, <1>4, <1>6, <1>8, <1>10, <1>11 DEF SameFlags

-----------------------------------------------------------------------------
(* Loops over the letters of a string *)

(* Counting up: a set with 0 in it, and with i when i - 1 is in it. *)
LEMMA CountUp ==
    ASSUME NEW n \in Nat, NEW G, 0 \in G, \A i \in 1 .. n : i - 1 \in G => i \in G
    PROVE  \A i \in 0 .. n : i \in G
<1> DEFINE B == {i \in 0 .. n : i \notin G}
<1>1. ASSUME B # {} PROVE FALSE
  <2>1. B \in SUBSET Nat
    OBVIOUS
  <2>2. PICK m \in B : \A k \in B : m <= k
    BY <1>1, <2>1, LeastNumber
  <2>3. m \in 1 .. n /\ m - 1 \in 0 .. n /\ ~ (m <= m - 1)
    <3>1. m # 0 /\ m \in 0 .. n
      BY <2>2
    <3>2. QED BY <3>1
  <2>4. m - 1 \in G
    BY <2>2, <2>3
  <2>5. QED BY <2>2, <2>3, <2>4
<1>2. QED BY <1>1

(* A run of a loop with the body f, which keeps to a set D. *)
LoopRun(w, D, f, t, S) ==
    /\ w \in [0 .. Len(S) -> D]
    /\ w[0] = t /\ \A i \in 1 .. Len(S) : w[i] = f[w[i - 1]][S[i]]

(* There is one from every start. *)
LEMMA LoopRuns ==
    ASSUME NEW D, NEW A, NEW f \in [D -> [A -> D]], NEW t \in D, NEW S \in Seq(A)
    PROVE  \E w : LoopRun(w, D, f, t, S)
<1> DEFINE Run(w, k) == w[0] = t /\ \A i \in 1 .. k : w[i] = f[w[i - 1]][S[i]]
           G == {k \in 0 .. Len(S) : \E w \in [0 .. k -> D] : Run(w, k)}
<1>1. Len(S) \in Nat /\ \A i \in 1 .. Len(S) : S[i] \in A
  OBVIOUS
<1>2. 0 \in G
  <2>1. [i \in 0 .. 0 |-> t] \in [0 .. 0 -> D] /\ Run([i \in 0 .. 0 |-> t], 0)
    OBVIOUS
  <2>2. 0 \in 0 .. Len(S)
    BY <1>1
  <2>3. QED BY <2>1, <2>2
<1>3. ASSUME NEW k \in 1 .. Len(S), k - 1 \in G PROVE k \in G
  <2>1. PICK w \in [0 .. k - 1 -> D] : Run(w, k - 1)
    BY <1>3
  <2>2. k \in Nat /\ k - 1 \in Nat /\ k \in 0 .. Len(S)
    BY <1>1
  <2>3. PICK z \in D : z = f[w[k - 1]][S[k]]
    BY <1>1, <2>1, <2>2
  <2> DEFINE v == [i \in 0 .. k |-> IF i = k THEN z ELSE w[i]]
  <2>4. \A i \in 0 .. k : i # k => i \in 0 .. k - 1 /\ v[i] = w[i]
    BY <2>2
  <2>5. v \in [0 .. k -> D]
    BY <2>1, <2>3, <2>4
  <2>6. v[0] = t
    BY <2>1, <2>2, <2>4
  <2>7. ASSUME NEW i \in 1 .. k PROVE v[i] = f[v[i - 1]][S[i]]
    <3>1. i - 1 \in 0 .. k /\ i - 1 # k /\ v[i - 1] = w[i - 1]
      BY <2>2, <2>4
    <3>2. CASE i = k
      BY <2>2, <2>3, <3>1, <3>2
    <3>3. CASE i # k
      <4>1. i \in 1 .. k - 1 /\ i \in 0 .. k /\ v[i] = w[i]
        BY <2>2, <2>4, <3>3
      <4>2. QED BY <2>1, <3>1, <4>1
    <3>4. QED BY <3>2, <3>3
  <2>8. QED BY <2>2, <2>5, <2>6, <2>7
<1>4. Len(S) \in G
  <2> HIDE DEF G
  <2>1. \A i \in 0 .. Len(S) : i \in G
    BY <1>1, <1>2, <1>3, CountUp
  <2>2. QED BY <1>1, <2>1
<1>5. QED BY <1>4 DEF LoopRun

(* What a terminal shows after a string is the end of any run of its loop. *)
LEMMA WriteStringIs ==
    ASSUME NEW t, NEW S, Len(S) \in Nat, NEW w, w[0] = t,
           \A i \in 1 .. Len(S) : w[i] = TM!WriteLetter(w[i - 1], S[i])
    PROVE  TM!WriteString(t, S) = w[Len(S)]
<1> DEFINE Run(v) == v = [i \in 0 .. Len(S) |->
                            IF i = 0 THEN t ELSE TM!WriteLetter(v[i - 1], S[i])]
           v == CHOOSE v : Run(v)
<1>1. Run([i \in 0 .. Len(S) |-> w[i]])
  <2>1. \A i \in 0 .. Len(S) : i # 0 => i \in 1 .. Len(S) /\ i - 1 \in 0 .. Len(S)
    OBVIOUS
  <2>2. \A i \in 0 .. Len(S) : w[i] = IF i = 0 THEN t ELSE
                  TM!WriteLetter([j \in 0 .. Len(S) |-> w[j]][i - 1], S[i])
    BY <2>1
  <2>3. QED BY <2>2
<1>2. Run(v)
  BY <1>1, Zenon
<1>3. TM!Texts(t, S) = v
  BY Zenon DEF TM!Texts
<1> HIDE DEF v
<1>4. \A i \in 0 .. Len(S) : v[i] = IF i = 0 THEN t ELSE TM!WriteLetter(v[i - 1], S[i])
  BY <1>2
<1> DEFINE G == {i \in 0 .. Len(S) : v[i] = w[i]}
<1>5. 0 \in G
  BY <1>4
<1>6. ASSUME NEW i \in 1 .. Len(S), i - 1 \in G PROVE i \in G
  <2>1. i \in 0 .. Len(S) /\ i # 0
    OBVIOUS
  <2>2. v[i] = TM!WriteLetter(v[i - 1], S[i])
    BY <1>4, <2>1
  <2>3. QED BY <1>6, <2>1, <2>2
<1>7. Len(S) \in G
  <2> HIDE DEF G
  <2>1. \A i \in 0 .. Len(S) : i \in G
    BY <1>5, <1>6, CountUp
  <2>2. QED BY <2>1
<1>8. QED BY <1>3, <1>7 DEF TM!WriteString

(* The rounds of VgaStringEntry, from a good position. *)
LEMMA RoundsAre ==
    ASSUME NEW c, Good(c), NEW S \in Seq(Letters), NEW e, e = Rounds(c, S)
    PROVE  /\ e[0] = [c |-> c, x |-> c.CurrentCol, y |-> c.CurrentRow]
           /\ \A i \in 1 .. Len(S) : e[i] = StringStep(e[i - 1], S[i])
           /\ \A i \in 0 .. Len(S) : Follows(e[i])
<1> DEFINE start == [c |-> c, x |-> c.CurrentCol, y |-> c.CurrentRow]
           D == {z \in Copies : Follows(z)}
           f == [z \in D |-> [L \in Letters |-> StringStep(z, L)]]
           Run(v) == v = [i \in 0 .. Len(S) |-> IF i = 0 THEN start ELSE StringStep(v[i - 1], S[i])]
<1>1. start \in D
  BY GoodPosition DEF Good, Follows, Copies
<1>2. \A z \in D : \A L \in Letters : StringStep(z, L) \in D
  BY StepIs DEF Follows
<1>3. f \in [D -> [Letters -> D]] /\ \A z \in D : \A L \in Letters : f[z][L] = StringStep(z, L)
  <2> HIDE DEF D
  <2>1. QED BY <1>2
<1>4. Len(S) \in Nat /\ \A i \in 1 .. Len(S) : S[i] \in Letters
  OBVIOUS
<1> HIDE DEF D, f, start
<1>5. PICK w : LoopRun(w, D, f, start, S)
  <2>1. f \in [D -> [Letters -> D]]
    BY <1>3
  <2>2. QED BY <1>1, <2>1, LoopRuns
<1>6. Run(w)
  <2>1. ASSUME NEW i \in 0 .. Len(S)
        PROVE  w[i] = IF i = 0 THEN start ELSE StringStep(w[i - 1], S[i])
    <3>1. CASE i = 0
      BY <1>5, <3>1 DEF LoopRun
    <3>2. CASE i # 0
      <4>1. i \in 1 .. Len(S) /\ i - 1 \in 0 .. Len(S)
        BY <1>4, <3>2
      <4>2. w[i - 1] \in D /\ S[i] \in Letters
        BY <1>4, <1>5, <4>1 DEF LoopRun
      <4>3. QED BY <1>3, <1>5, <3>2, <4>1, <4>2 DEF LoopRun
    <3>3. QED BY <3>1, <3>2
  <2>2. QED BY <1>5, <2>1 DEF LoopRun
<1>7. Run(CHOOSE v : Run(v))
  BY <1>6, Zenon
<1>8. e = CHOOSE v : Run(v)
  BY Zenon DEF Rounds, start
<1>9. Run(e)
  BY <1>7, <1>8
<1>10. e[0] = start
  BY <1>4, <1>9
<1>11. ASSUME NEW i \in 1 .. Len(S) PROVE e[i] = StringStep(e[i - 1], S[i])
  <2>1. i \in 0 .. Len(S) /\ i # 0
    BY <1>4
  <2>2. QED BY <1>9, <2>1
<1> HIDE DEF Run
<1>12. \A i \in 0 .. Len(S) : e[i] \in D
  <2> DEFINE G == {i \in 0 .. Len(S) : e[i] \in D}
  <2>1. 0 \in G
    BY <1>1, <1>4, <1>10
  <2>2. ASSUME NEW i \in 1 .. Len(S), i - 1 \in G PROVE i \in G
    <3>1. i \in 0 .. Len(S)
      BY <1>4
    <3>2. QED BY <1>2, <1>4, <1>11, <2>2, <3>1
  <2>3. \A i \in 0 .. Len(S) : i \in G
    <3> HIDE DEF G
    <3>1. QED BY <1>4, <2>1, <2>2, CountUp
  <2>4. QED BY <2>3
<1>13. \A i \in 0 .. Len(S) : Follows(e[i])
  BY <1>12 DEF D
<1>14. QED BY <1>10, <1>11, <1>13 DEF start

(* VgaStringEntry writes a string; it ends in column k of row r, and when  *)
(* the string fits into its row, the context is on its last letter.        *)
LEMMA StringIs ==
    ASSUME NEW c, Good(c), NEW S \in Seq(Letters), NEW d, d = VgaStringEntry(c, S)
    PROVE  \E k, r :
             /\ d \in Contexts /\ SameFlags(c, d) /\ Shape(d.fb, k, r)
             /\ Shown(d.fb, r) = TM!WriteString(TextOf(c), S)
             /\ d.CurrentRow = r \/ (r = ScreenHeight - 1 /\ d.CurrentRow = ScreenHeight)
             /\ S # <<>> /\ c.CurrentCol + Len(S) <= ScreenWidth =>
                  k = d.CurrentCol + 1 /\ r = d.CurrentRow
<1>1. PICK e : e = Rounds(c, S)
  OBVIOUS
<1>2. /\ e[0] = [c |-> c, x |-> c.CurrentCol, y |-> c.CurrentRow]
      /\ \A i \in 1 .. Len(S) : e[i] = StringStep(e[i - 1], S[i])
      /\ \A i \in 0 .. Len(S) : Follows(e[i])
  BY <1>1, RoundsAre
<1>3. PICK n \in Nat : n = Len(S)
  OBVIOUS
<1>4. \A i \in 1 .. n : S[i] \in Letters /\ i - 1 \in 0 .. n /\ i \in 0 .. n
  BY <1>3
<1>5. ASSUME NEW i \in 1 .. n
      PROVE  /\ SameFlags(e[i - 1].c, e[i].c) /\ e[i].c.CurrentCol = e[i].x - 1
             /\ TextAt(e[i]) = TM!WriteLetter(TextAt(e[i - 1]), S[i])
             /\ e[i - 1].x < ScreenWidth =>
                  e[i].x = e[i - 1].x + 1 /\ e[i].y = e[i - 1].y
                  /\ e[i].c.CurrentRow = e[i - 1].c.CurrentRow
  <2>1. Follows(e[i - 1]) /\ S[i] \in Letters /\ e[i] = StringStep(e[i - 1], S[i])
    BY <1>2, <1>3, <1>4
  <2>2. QED BY <2>1, StepIs
<1>6. /\ e[0].c = c /\ e[0].x = c.CurrentCol /\ e[0].y = c.CurrentRow /\ TextAt(e[0]) = TextOf(c)
  BY <1>2 DEF TextAt, TextOf
<1>7. d = e[n].c /\ Follows(e[n])
  BY <1>1, <1>2, <1>3 DEF VgaStringEntry
<1>8. SameFlags(c, d)
  <2> DEFINE G == {i \in 0 .. n : SameFlags(c, e[i].c)}
  <2>1. 0 \in G
    BY <1>6 DEF SameFlags
  <2>2. ASSUME NEW i \in 1 .. n, i - 1 \in G PROVE i \in G
    BY <1>4, <1>5, <2>2 DEF SameFlags
  <2>3. \A i \in 0 .. n : i \in G
    <3> HIDE DEF G
    <3>1. QED BY <2>1, <2>2, CountUp
  <2>4. QED BY <1>7, <2>3
<1>9. TextAt(e[n]) = TM!WriteString(TextOf(c), S)
  <2>1. PICK w : w = [i \in 0 .. n |-> TextAt(e[i])]
    OBVIOUS
  <2>2. w[0] = TextOf(c) /\ w[n] = TextAt(e[n])
    BY <1>6, <2>1
  <2>3. \A i \in 1 .. n : w[i] = TM!WriteLetter(w[i - 1], S[i])
    <3>1. TAKE i \in 1 .. n
    <3>2. w[i] = TextAt(e[i]) /\ w[i - 1] = TextAt(e[i - 1])
      BY <1>4, <2>1
    <3>3. QED BY <1>5, <3>2
  <2>4. QED BY <1>3, <2>2, <2>3, WriteStringIs
<1>10. ASSUME S # <<>>, c.CurrentCol + n <= ScreenWidth
       PROVE  e[n].x = d.CurrentCol + 1 /\ e[n].y = d.CurrentRow
  <2>1. n \in 1 .. n
    BY <1>3, <1>10, EmptySeq
  <2>2. e[n].x \in Nat
    BY <1>7 DEF Follows, Copies
  <2>3. e[n].x = d.CurrentCol + 1
    <3>1. e[n].c.CurrentCol = e[n].x - 1
      BY <1>5, <2>1
    <3>2. d.CurrentCol = e[n].x - 1
      BY <1>7, <3>1
    <3>3. QED BY <2>2, <3>2
  <2> DEFINE G == {i \in 0 .. n : /\ e[i].x = c.CurrentCol + i /\ e[i].y = c.CurrentRow
                                  /\ e[i].c.CurrentRow = c.CurrentRow}
  <2>4. 0 \in G
    BY <1>6, GoodPosition
  <2>5. ASSUME NEW i \in 1 .. n, i - 1 \in G PROVE i \in G
    <3>1. /\ e[i - 1].x = c.CurrentCol + (i - 1) /\ e[i - 1].y = c.CurrentRow
          /\ e[i - 1].c.CurrentRow = c.CurrentRow
      BY <2>5
    <3>2. c.CurrentCol + (i - 1) < ScreenWidth /\ (c.CurrentCol + (i - 1)) + 1 = c.CurrentCol + i
      BY <1>10, GoodPosition, Dims
    <3>3. QED BY <1>4, <1>5, <3>1, <3>2
  <2>6. \A i \in 0 .. n : i \in G
    <3> HIDE DEF G
    <3>1. QED BY <2>4, <2>5, CountUp
  <2>7. e[n].y = d.CurrentRow
    BY <1>7, <2>6
  <2>8. QED BY <2>3, <2>7
<1>11. d \in Contexts /\ Shape(d.fb, e[n].x, e[n].y)
       /\ (d.CurrentRow = e[n].y \/ (e[n].y = ScreenHeight - 1 /\ d.CurrentRow = ScreenHeight))
  BY <1>7 DEF Follows, Copies
<1>12. Shown(d.fb, e[n].y) = TM!WriteString(TextOf(c), S)
  BY <1>7, <1>9 DEF TextAt
<1>13. QED BY <1>3, <1>8, <1>10, <1>11, <1>12

-----------------------------------------------------------------------------
(* The calls *)

(* VgaPrintln writes a string and goes to the next row. *)
LEMMA PrintlnIs ==
    ASSUME NEW c, Good(c), NEW S \in Seq(Letters), NEW d, d = VgaPrintln(c, S)
    PROVE  /\ Good(d) /\ SameFlags(c, d) /\ d.CurrentCol = 0
           /\ TextOf(d) = TM!NewRow(TM!WriteString(TextOf(c), S))
           /\ c.CursorEnabled => CursorAt(d, d.CurrentCol, d.CurrentRow)
<1>1. PICK put : put = VgaStringEntry(c, S)
  OBVIOUS
<1>2. PICK k, r :
             /\ put \in Contexts /\ SameFlags(c, put) /\ Shape(put.fb, k, r)
             /\ Shown(put.fb, r) = TM!WriteString(TextOf(c), S)
             /\ put.CurrentRow = r \/ (r = ScreenHeight - 1 /\ put.CurrentRow = ScreenHeight)
  BY <1>1, StringIs
<1>3. PICK p : p = [put EXCEPT !.CurrentRow = put.CurrentRow + 1, !.CurrentCol = 0]
  OBVIOUS
<1>4. /\ p \in Contexts /\ SameFlags(put, p) /\ p.fb = put.fb
      /\ p.CurrentRow = put.CurrentRow + 1 /\ p.CurrentCol = 0
  <2>1. put.CurrentRow + 1 \in Nat /\ 0 \in Nat
    BY <1>2 DEF Contexts
  <2>2. QED BY <1>2, <1>3, <2>1 DEF Contexts, SameFlags
<1>5. PICK ready : ready = ClampRow(p)
  OBVIOUS
<1>6. /\ Good(ready) /\ ready.CurrentCol = 0 /\ SameFlags(p, ready)
      /\ TextOf(ready) = TM!NewRow(Shown(p.fb, r))
  <2>1. p.CurrentRow = r + 1 \/ (r = ScreenHeight - 1 /\ p.CurrentRow = ScreenHeight + 1)
    BY <1>2, <1>4
  <2>2. Shape(p.fb, k, r)
    BY <1>2, <1>4
  <2>3. QED BY <1>4, <1>5, <2>1, <2>2, NextRowIs
<1>7. d = VgaMoveCursor(ready, ready.CurrentCol, ready.CurrentRow)
  BY <1>1, <1>3, <1>5 DEF VgaPrintln
<1>8. ready.CurrentCol < ScreenWidth
  BY <1>6, Dims
<1>9. /\ Good(d) /\ TextOf(d) = TextOf(ready) /\ SameFlags(ready, d)
      /\ d.CurrentCol = ready.CurrentCol
      /\ ready.CursorEnabled => CursorAt(d, d.CurrentCol, d.CurrentRow)
  BY <1>6, <1>7, <1>8, MoveHere
<1>10. QED BY <1>2, <1>4, <1>6, <1>9 DEF SameFlags

(* VgaAutoPrint with the cursor off writes a string that fits its row. *)
LEMMA AutoPrintIs ==
    ASSUME NEW c, Good(c), ~ c.CursorEnabled, NEW S \in Seq(Letters), S # <<>>,
           c.CurrentCol + Len(S) <= ScreenWidth, NEW d, d = VgaAutoPrint(c, S)
    PROVE  Good(d) /\ SameFlags(c, d) /\ TextOf(d) = TM!WriteString(TextOf(c), S)
<1>1. PICK put : put = VgaStringEntry(c, S)
  OBVIOUS
<1>2. PICK k, r :
             /\ put \in Contexts /\ SameFlags(c, put) /\ Shape(put.fb, k, r)
             /\ Shown(put.fb, r) = TM!WriteString(TextOf(c), S)
             /\ k = put.CurrentCol + 1 /\ r = put.CurrentRow
  BY <1>1, StringIs
<1>3. PICK p : p = [put EXCEPT !.CurrentCol = put.CurrentCol + 1]
  OBVIOUS
<1>4. /\ p \in Contexts /\ SameFlags(put, p) /\ p.fb = put.fb
      /\ p.CurrentRow = r /\ p.CurrentCol = k
  <2>1. put.CurrentCol + 1 \in Nat
    BY <1>2 DEF Contexts
  <2>2. QED BY <1>2, <1>3, <2>1 DEF Contexts, SameFlags
<1>5. d = p
  <2>1. ~ p.CursorEnabled
    BY <1>2, <1>4 DEF SameFlags
  <2>2. d = VgaMoveCursor(p, put.CurrentCol + 1, put.CurrentRow)
    BY <1>1, <1>3 DEF VgaAutoPrint
  <2>3. QED BY <2>1, <2>2 DEF VgaMoveCursor
<1>6. QED BY <1>2, <1>4, <1>5 DEF Good, TextOf, SameFlags

(* The letters of a register, one VgaAutoEntry after the other. *)
LEMMA RegisterIs ==
    ASSUME NEW c, Good(c), NEW S \in Seq(Letters), Len(S) = 4, NEW d,
           d = LET put[n \in 0 .. 4] == IF n = 0 THEN c ELSE VgaAutoEntry(put[n - 1], S[n])
               IN  put[4]
    PROVE  Good(d) /\ SameFlags(c, d) /\ TextOf(d) = TM!WriteString(TextOf(c), S)
<1> DEFINE D == {z \in Contexts : Good(z)}
           f == [z \in D |-> [L \in Letters |-> VgaAutoEntry(z, L)]]
           Run(v) == v = [n \in 0 .. 4 |-> IF n = 0 THEN c ELSE VgaAutoEntry(v[n - 1], S[n])]
<1>1. c \in D
  BY DEF Good
<1>2. \A L \in Letters : L \in Marks \ {"NUL"}
  BY TextAssumption DEF Marks
<1>3. \A z \in D : \A L \in Letters : VgaAutoEntry(z, L) \in D
  BY <1>2, AutoEntryIs DEF Good
<1>4. f \in [D -> [Letters -> D]] /\ \A z \in D : \A L \in Letters : f[z][L] = VgaAutoEntry(z, L)
  <2> HIDE DEF D
  <2>1. QED BY <1>3
<1>5. \A i \in 1 .. 4 : S[i] \in Letters /\ i \in 0 .. 4 /\ i - 1 \in 0 .. 4 /\ i # 0
  <2>1. \A i \in 1 .. Len(S) : S[i] \in Letters
    BY ElementOfSeq
  <2>2. \A i \in 1 .. 4 : i \in 0 .. 4 /\ i - 1 \in 0 .. 4 /\ i # 0
    OBVIOUS
  <2>3. QED BY <2>1, <2>2
<1> HIDE DEF D, f
<1>6. PICK w : LoopRun(w, D, f, c, S)
  <2>1. f \in [D -> [Letters -> D]]
    BY <1>4
  <2>2. QED BY <1>1, <2>1, LoopRuns
<1>7. w \in [0 .. 4 -> D] /\ w[0] = c /\ \A i \in 1 .. 4 : w[i] = f[w[i - 1]][S[i]]
  BY <1>6 DEF LoopRun
<1>8. Run(w)
  <2>1. ASSUME NEW i \in 0 .. 4
        PROVE  w[i] = IF i = 0 THEN c ELSE VgaAutoEntry(w[i - 1], S[i])
    <3>1. CASE i = 0
      BY <1>7, <3>1
    <3>2. CASE i # 0
      <4>1. i \in 1 .. 4
        BY <3>2
      <4>2. w[i - 1] \in D /\ S[i] \in Letters
        BY <1>5, <1>7, <4>1
      <4>3. QED BY <1>4, <1>7, <3>2, <4>1, <4>2
    <3>3. QED BY <3>1, <3>2
  <2>2. QED BY <1>7, <2>1
<1>9. PICK v : v = CHOOSE u : Run(u)
  OBVIOUS
<1>10. Run(v)
  <2>1. Run(CHOOSE u : Run(u))
    BY <1>8, Zenon
  <2>2. QED BY <1>9, <2>1
<1>11. d = v[4]
  BY <1>9, Zenon
<1>12. v[0] = c /\ \A i \in 1 .. 4 : v[i] = VgaAutoEntry(v[i - 1], S[i])
  BY <1>5, <1>10
<1> HIDE DEF Run
<1>13. \A i \in 0 .. 4 : Good(v[i]) /\ SameFlags(c, v[i])
  <2> DEFINE G == {i \in 0 .. 4 : Good(v[i]) /\ SameFlags(c, v[i])}
  <2>1. 0 \in G
    BY <1>12 DEF SameFlags
  <2>2. ASSUME NEW i \in 1 .. 4, i - 1 \in G PROVE i \in G
    <3>1. Good(v[i]) /\ SameFlags(v[i - 1], v[i])
      BY <1>2, <1>5, <1>12, <2>2, AutoEntryIs
    <3>2. QED BY <1>5, <2>2, <3>1 DEF SameFlags
  <2>3. \A i \in 0 .. 4 : i \in G
    <3> HIDE DEF G
    <3>1. QED BY <2>1, <2>2, CountUp
  <2>4. QED BY <2>3
<1>14. TextOf(v[4]) = TM!WriteString(TextOf(c), S)
  <2>1. PICK t : t = [i \in 0 .. 4 |-> TextOf(v[i])]
    OBVIOUS
  <2>2. t[0] = TextOf(c) /\ t[4] = TextOf(v[4])
    BY <1>12, <2>1
  <2>3. \A i \in 1 .. 4 : t[i] = TM!WriteLetter(t[i - 1], S[i])
    <3>1. TAKE i \in 1 .. 4
    <3>2. t[i] = TextOf(v[i]) /\ t[i - 1] = TextOf(v[i - 1])
      BY <1>5, <2>1
    <3>3. TextOf(v[i]) = TM!WriteLetter(TextOf(v[i - 1]), S[i])
      BY <1>2, <1>5, <1>12, <1>13, AutoEntryIs
    <3>4. QED BY <3>2, <3>3
  <2>4. Len(S) \in Nat /\ (\A i \in 1 .. Len(S) : t[i] = TM!WriteLetter(t[i - 1], S[i]))
    BY <2>3
  <2>5. TM!WriteString(TextOf(c), S) = t[Len(S)]
    BY <2>2, <2>4, WriteStringIs
  <2>6. QED BY <2>2, <2>5
<1>15. QED BY <1>11, <1>13, <1>14

(* InternalVgaBackspace erases the letter before the position: the space   *)
(* it prints to do so does not remain.                                     *)
LEMMA BackspaceIs ==
    ASSUME NEW c, Good(c), c.CursorEnabled, c.FollowingInput,
           c.CurrentCol # 0, c.CurrentCol < ScreenWidth,
           NEW d, d = InternalVgaBackspace(c)
    PROVE  /\ Good(d) /\ SameFlags(c, d) /\ d.CurrentCol < ScreenWidth
           /\ CursorAt(d, d.CurrentCol, d.CurrentRow)
           /\ TextOf(c).rows[TextOf(c).cur] # <<>>
           /\ TextOf(d) = [TextOf(c) EXCEPT !.rows[TextOf(c).cur] =
                               Front(TextOf(c).rows[TextOf(c).cur])]
<1>1. PICK X, Y : X = c.CurrentCol - 1 /\ Y = c.CurrentRow
  OBVIOUS
<1>2. /\ c \in Contexts /\ Shape(c.fb, c.CurrentCol, Y) /\ c.CurrentCol > 0
      /\ X \in 0 .. ScreenWidth - 1 /\ Y \in 0 .. ScreenHeight - 1
      /\ X < ScreenWidth /\ X + 1 < ScreenWidth /\ X + 1 = c.CurrentCol
  BY <1>1, GoodPosition, Dims DEF Good
<1>3. PICK a : a = VgaMoveCursor(c, X, Y)
  OBVIOUS
<1>4. /\ a \in Contexts /\ SameFlags(c, a) /\ a.fb = Put(c.fb, X, Y, "NUL")
      /\ a.CurrentRow = Y /\ a.CurrentCol = X
  BY <1>1, <1>2, <1>3, MoveIs
<1>5. /\ Shape(a.fb, X, Y) /\ Shown(c.fb, Y).rows[Shown(c.fb, Y).cur] # <<>>
      /\ Shown(a.fb, Y) = [Shown(c.fb, Y) EXCEPT !.rows[Shown(c.fb, Y).cur] =
                               Front(Shown(c.fb, Y).rows[Shown(c.fb, Y).cur])]
  BY <1>1, <1>2, <1>4, ShapeErase
<1>6. Good(a) /\ a.CursorEnabled /\ a.FollowingInput
  BY <1>4, <1>5 DEF Good, SameFlags
<1>7. PICK b : b = VgaPutChar(a, "SP")
  OBVIOUS
<1>8. /\ Good(b) /\ SameFlags(a, b) /\ b.fb = Put(a.fb, X, Y, "SP") /\ b.CurrentRow = Y
  <2>1. "SP" \in Marks \ {"NUL"}
    BY DEF Marks
  <2>2. QED BY <1>2, <1>4, <1>6, <1>7, <2>1, PutCharIs
<1>9. d = VgaMoveCursor(b, X, Y)
  BY <1>1, <1>3, <1>7 DEF InternalVgaBackspace
<1>10. /\ d \in Contexts /\ SameFlags(b, d) /\ d.fb = Put(b.fb, X, Y, "NUL")
       /\ d.CurrentRow = Y /\ d.CurrentCol = X /\ CursorAt(d, X, Y)
  <2>1. b \in Contexts /\ b.CursorEnabled
    BY <1>6, <1>8 DEF Good, SameFlags
  <2>2. QED BY <1>2, <1>8, <1>9, <2>1, MoveIs
<1>11. d.fb = a.fb
  <2>1. c.fb \in Screens
    BY <1>2 DEF Shape
  <2>2. QED BY <1>4, <1>8, <1>10, <2>1 DEF Put, Screens
<1>12. Good(d) /\ SameFlags(c, d) /\ TextOf(d) = Shown(a.fb, Y) /\ TextOf(c) = Shown(c.fb, Y)
  BY <1>1, <1>4, <1>5, <1>8, <1>10, <1>11 DEF Good, SameFlags, TextOf
<1>13. QED BY <1>2, <1>5, <1>10, <1>12

(* Turning the cursor on, in column 0, leaves the text alone. *)
LEMMA EnableIs ==
    ASSUME NEW c, Good(c), c.CurrentCol = 0, NEW d, d = EnableCursor(c)
    PROVE  /\ Good(d) /\ d.CursorEnabled /\ d.FollowingInput /\ d.CurrentCol = 0
           /\ TextOf(d) = TextOf(c)
<1>1. PICK p : p = [c EXCEPT !.CursorEnabled = TRUE, !.FollowingInput = TRUE, !.index = "end"]
  OBVIOUS
<1>2. /\ p \in Contexts /\ p.fb = c.fb /\ p.CurrentRow = c.CurrentRow
      /\ p.CursorEnabled = TRUE /\ p.FollowingInput = TRUE
  BY <1>1 DEF Good, Contexts
<1>3. /\ 0 \in 0 .. ScreenWidth - 1 /\ ScreenHeight - 1 \in 0 .. ScreenHeight - 1
      /\ ScreenHeight - 1 \in c.CurrentRow .. ScreenHeight - 1 /\ 0 >= c.CurrentCol
  BY GoodPosition, Dims
<1>4. d = VgaMoveCursor(p, 0, ScreenHeight - 1)
  BY <1>1 DEF EnableCursor
<1>5. /\ d \in Contexts /\ SameFlags(p, d) /\ d.fb = Put(p.fb, 0, ScreenHeight - 1, "NUL")
      /\ d.CurrentRow = p.CurrentRow /\ d.CurrentCol = 0
  BY <1>2, <1>3, <1>4, MoveIs
<1>6. d.fb = c.fb
  <2>1. Shape(c.fb, c.CurrentCol, c.CurrentRow)
    BY DEF Good
  <2>2. Put(c.fb, 0, ScreenHeight - 1, "NUL") = c.fb
    BY <1>3, <2>1, ShapeNul
  <2>3. QED BY <1>2, <1>5, <2>2
<1>7. QED BY <1>2, <1>5, <1>6 DEF Good, SameFlags, TextOf

(* A blank screen. *)
LEMMA BlankIs ==
    ASSUME NEW c, c = VgaPrepareEnvironment("firmware"), NEW d, d = KiBlankVgaScreen(c)
    PROVE  /\ Good(d) /\ ~ d.CursorEnabled /\ ~ d.FollowingInput
           /\ TextOf(d) = TM!EmptyText
<1>1. PICK fb : fb = [n \in Cells |-> "NUL"]
  OBVIOUS
<1>2. fb \in Screens /\ 0 \in 0 .. PortRange - 1 /\ 0 \in Nat
  BY <1>1, Dims DEF Screens, Marks
<1>3. /\ d \in Contexts /\ d.fb = fb /\ d.CurrentRow = 0 /\ d.CurrentCol = 0
      /\ d.CursorEnabled = FALSE /\ d.FollowingInput = FALSE
  BY <1>1, <1>2 DEF VgaPrepareEnvironment, KiBlankVgaScreen, Contexts
<1>4. ASSUME NEW r \in 0 .. ScreenHeight - 1
      PROVE  Filled(RowCells(fb, r), 0) /\ Trimmed(RowCells(fb, r)) = <<>>
  <2>1. ASSUME NEW i \in Columns PROVE RowCells(fb, r)[i] = "NUL" /\ i > 0
    <3>1. i - 1 \in Nat /\ i - 1 < ScreenWidth /\ r \in Nat /\ r < ScreenHeight /\ i > 0
      BY Dims DEF Columns
    <3>2. QED BY <1>1, <3>1, OffsetOK DEF RowCells, Columns
  <2>2. Filled(RowCells(fb, r), 0)
    BY <2>1 DEF Filled
  <2>3. RowCells(fb, r) \in [Columns -> Marks] /\ 0 \in 0 .. ScreenWidth /\ 1 .. 0 = {}
    BY <1>2, RowType, Dims
  <2>4. Trimmed(RowCells(fb, r)) = [i \in 1 .. 0 |-> RowCells(fb, r)[i]]
    BY <2>2, <2>3, TrimFilled
  <2>5. QED BY <2>2, <2>3, <2>4
<1>5. Shape(fb, 0, 0)
  <2>1. /\ 0 \in 0 .. ScreenHeight - 1 /\ 0 \in 0 .. ScreenWidth
        /\ \A r \in 0 + 1 .. ScreenHeight - 1 : r \in 0 .. ScreenHeight - 1
    BY Dims
  <2>2. QED BY <1>2, <1>4, <2>1 DEF Shape
<1>6. Shown(fb, 0) = TM!EmptyText
  <2>1. \A r \in 1 .. ScreenHeight : Trimmed(RowCells(fb, r - 1)) = <<>>
    <3>1. TAKE r \in 1 .. ScreenHeight
    <3>2. r - 1 \in 0 .. ScreenHeight - 1
      BY Dims
    <3>3. QED BY <1>4, <3>2
  <2>2. [r \in 1 .. ScreenHeight |-> Trimmed(RowCells(fb, r - 1))] =
          [r \in 1 .. ScreenHeight |-> <<>>]
    BY <2>1
  <2>3. 0 + 1 = 1
    OBVIOUS
  <2>4. QED BY <2>2, <2>3 DEF Shown, TM!EmptyText
<1>7. QED BY <1>3, <1>5, <1>6 DEF Good, TextOf

-----------------------------------------------------------------------------
(* The console *)

(* The inductive invariant: once the screen is blank the position is behind *)
(* the text, with nothing below it, and when the cursor is on the row of    *)
(* the position is not full.                                                *)
Orderly ==
    /\ phase \in {"prepared", "boot", "running"}
    /\ phase = "prepared" => context = VgaPrepareEnvironment("firmware")
    /\ phase # "prepared" => Good(context)
    /\ phase = "boot" => ~ context.CursorEnabled /\ ~ context.FollowingInput
    /\ phase = "running" => /\ context.CursorEnabled /\ context.FollowingInput
                            /\ context.CurrentCol < ScreenWidth

(* The text that a terminal shows, before a step and after it. *)
LEMMA TextNow ==
    ASSUME phase # "prepared", NEW c, c = context
    PROVE  TM!Text = TextOf(c) /\ ShownRows = TextOf(c).rows /\ CurrentRow = TextOf(c).cur
BY DEF TM!Text, TextOf, Shown, ShownRows, CurrentRow

(* After it. *)
LEMMA TextNext ==
    ASSUME phase' # "prepared", NEW d, d = context', NEW t, TextOf(d) = t
    PROVE  TM!Becomes(t) /\ ShownRows' = t.rows /\ CurrentRow' = t.cur
<1>1. ShownRows' = t.rows /\ CurrentRow' = t.cur
  BY DEF TextOf, Shown, ShownRows, CurrentRow
<1>2. QED BY <1>1 DEF TM!Becomes

(* The invariant after a step, from the context. *)
LEMMA OrderlyNext ==
    ASSUME NEW d, d = context', Good(d), phase' \in {"boot", "running"},
           phase' = "boot" => ~ d.CursorEnabled /\ ~ d.FollowingInput,
           phase' = "running" => d.CursorEnabled /\ d.FollowingInput /\ d.CurrentCol < ScreenWidth
    PROVE  Orderly'
BY DEF Orderly

(* What is shown of each step: the invariant, the step of the terminal and *)
(* where the cursor is.                                                    *)
Faithful == /\ Orderly'
            /\ [TM!Next]_(TM!vars)
            /\ phase = "running" /\ context' # context =>
                 CursorAt(context', context.CurrentCol', context.CurrentRow')

(* BlankScreen: the screen shows the empty text it is to show. *)
LEMMA BlankScreenOK == ASSUME Orderly, BlankScreen PROVE Faithful
<1>1. PICK c, d : c = context /\ d = context'
  OBVIOUS
<1>2. /\ phase = "prepared" /\ phase' = "boot" /\ c = VgaPrepareEnvironment("firmware")
      /\ d = KiBlankVgaScreen(c)
  BY <1>1 DEF Orderly, BlankScreen
<1>3. Good(d) /\ ~ d.CursorEnabled /\ ~ d.FollowingInput /\ TextOf(d) = TM!EmptyText
  BY <1>2, BlankIs
<1>4. Orderly'
  BY <1>1, <1>2, <1>3, OrderlyNext
<1>5. ShownRows' = ShownRows /\ CurrentRow' = CurrentRow
  <2>1. ShownRows = TM!EmptyText.rows
    BY <1>2 DEF ShownRows, TM!EmptyText
  <2>2. CurrentRow = TM!EmptyText.cur
    <3>1. c.CurrentRow = 0
      BY <1>2 DEF VgaPrepareEnvironment
    <3>2. QED BY <1>1, <3>1 DEF CurrentRow, TM!EmptyText
  <2>3. PICK t : t = TM!EmptyText
    OBVIOUS
  <2>4. ShownRows' = t.rows /\ CurrentRow' = t.cur
    BY <1>1, <1>2, <1>3, <2>3, TextNext
  <2>5. QED BY <2>1, <2>2, <2>3, <2>4
<1>6. QED BY <1>2, <1>4, <1>5 DEF Faithful, TM!vars

(* A string printed during start-up, on its row. *)
LEMMA BootPrintOK ==
    ASSUME Orderly, NEW String \in Strings, BootPrint(String) PROVE Faithful
<1>1. PICK c, d : c = context /\ d = context'
  OBVIOUS
<1>2. /\ phase = "boot" /\ phase' = "boot" /\ Good(c)
      /\ c.CursorEnabled = FALSE /\ c.FollowingInput = FALSE
  BY <1>1 DEF Orderly, BootPrint, Good, Contexts
<1>3. /\ String \in Seq(Letters) /\ String # <<>> /\ c.CurrentCol + Len(String) <= ScreenWidth
      /\ d = VgaAutoPrint(c, String)
  BY <1>1, TextAssumption DEF BootPrint
<1>4. Good(d) /\ SameFlags(c, d) /\ TextOf(d) = TM!WriteString(TextOf(c), String)
  BY <1>2, <1>3, AutoPrintIs
<1>5. Orderly'
  BY <1>1, <1>2, <1>4, OrderlyNext DEF SameFlags
<1>6. TM!Write(String)
  <2>1. PICK t : t = TM!WriteString(TextOf(c), String)
    OBVIOUS
  <2>2. TM!Becomes(t)
    BY <1>1, <1>2, <1>4, <2>1, TextNext
  <2>3. TM!Text = TextOf(c)
    BY <1>1, <1>2, TextNow
  <2>4. QED BY <2>1, <2>2, <2>3 DEF TM!Write
<1>7. QED BY <1>2, <1>5, <1>6 DEF Faithful, TM!Next

(* The letters of a register. *)
LEMMA RegisterOK ==
    ASSUME Orderly, NEW String \in Strings, InternalPrintRegister(String) PROVE Faithful
<1>1. PICK c, d : c = context /\ d = context'
  OBVIOUS
<1>2. /\ phase = "boot" /\ phase' = "boot" /\ Good(c)
      /\ c.CursorEnabled = FALSE /\ c.FollowingInput = FALSE
  BY <1>1 DEF Orderly, InternalPrintRegister, Good, Contexts
<1>3. String \in Seq(Letters) /\ Len(String) = 4
  BY TextAssumption DEF InternalPrintRegister
<1>4. d = LET put[n \in 0 .. 4] == IF n = 0 THEN c ELSE VgaAutoEntry(put[n - 1], String[n])
          IN  put[4]
  BY <1>1, Zenon DEF InternalPrintRegister
<1>5. Good(d) /\ SameFlags(c, d) /\ TextOf(d) = TM!WriteString(TextOf(c), String)
  BY <1>2, <1>3, <1>4, RegisterIs
<1>6. Orderly'
  BY <1>1, <1>2, <1>5, OrderlyNext DEF SameFlags
<1>7. TM!Write(String)
  <2>1. PICK t : t = TM!WriteString(TextOf(c), String)
    OBVIOUS
  <2>2. TM!Becomes(t)
    BY <1>1, <1>2, <1>5, <2>1, TextNext
  <2>3. TM!Text = TextOf(c)
    BY <1>1, <1>2, TextNow
  <2>4. QED BY <2>1, <2>2, <2>3 DEF TM!Write
<1>8. QED BY <1>2, <1>6, <1>7 DEF Faithful, TM!Next

(* A line, during start-up and later. *)
LEMMA PrintLineOK ==
    ASSUME Orderly, NEW String \in Strings, BootPrintLine(String) \/ KiPrintLine(String)
    PROVE  Faithful
<1>1. PICK c, d : c = context /\ d = context'
  OBVIOUS
<1>2. /\ phase \in {"boot", "running"} /\ phase' = phase /\ Good(c)
      /\ phase = "boot" => c.CursorEnabled = FALSE /\ c.FollowingInput = FALSE
      /\ phase = "running" => c.CursorEnabled = TRUE /\ c.FollowingInput = TRUE
  BY <1>1 DEF Orderly, BootPrintLine, KiPrintLine, Good, Contexts
<1>3. String \in Seq(Letters) /\ d = VgaPrintln(c, String)
  BY <1>1, TextAssumption DEF BootPrintLine, KiPrintLine
<1>4. /\ Good(d) /\ SameFlags(c, d) /\ d.CurrentCol = 0
      /\ TextOf(d) = TM!NewRow(TM!WriteString(TextOf(c), String))
      /\ c.CursorEnabled => CursorAt(d, d.CurrentCol, d.CurrentRow)
  BY <1>2, <1>3, PrintlnIs
<1>5. Orderly'
  <2>1. d.CurrentCol < ScreenWidth
    BY <1>4, Dims
  <2>2. QED BY <1>1, <1>2, <1>4, <2>1, OrderlyNext DEF SameFlags
<1>6. TM!PrintLine(String)
  <2>1. PICK t : t = TM!NewRow(TM!WriteString(TextOf(c), String))
    OBVIOUS
  <2>2. TM!Becomes(t)
    BY <1>1, <1>2, <1>4, <2>1, TextNext
  <2>3. TM!Text = TextOf(c)
    BY <1>1, <1>2, TextNow
  <2>4. QED BY <2>1, <2>2, <2>3 DEF TM!PrintLine
<1>7. phase = "running" => CursorAt(context', context.CurrentCol', context.CurrentRow')
  BY <1>1, <1>2, <1>4
<1>8. QED BY <1>5, <1>6, <1>7 DEF Faithful, TM!Next

(* Turning the cursor on. *)
LEMMA TurnCursorOnOK == ASSUME Orderly, TurnCursorOn PROVE Faithful
<1>1. PICK c, d : c = context /\ d = context'
  OBVIOUS
<1>2. /\ phase = "boot" /\ phase' = "running" /\ Good(c) /\ c.CurrentCol = 0 /\ d = EnableCursor(c)
  BY <1>1 DEF Orderly, TurnCursorOn
<1>3. /\ Good(d) /\ d.CursorEnabled /\ d.FollowingInput /\ d.CurrentCol = 0
      /\ TextOf(d) = TextOf(c)
  BY <1>2, EnableIs
<1>4. Orderly'
  <2>1. d.CurrentCol < ScreenWidth
    BY <1>3, Dims
  <2>2. QED BY <1>1, <1>2, <1>3, <2>1, OrderlyNext
<1>5. ShownRows' = ShownRows /\ CurrentRow' = CurrentRow
  <2>1. PICK t : t = TextOf(c)
    OBVIOUS
  <2>2. ShownRows' = t.rows /\ CurrentRow' = t.cur
    BY <1>1, <1>2, <1>3, <2>1, TextNext
  <2>3. ShownRows = t.rows /\ CurrentRow = t.cur
    BY <1>1, <1>2, <2>1, TextNow
  <2>4. QED BY <2>2, <2>3
<1>6. QED BY <1>2, <1>4, <1>5 DEF Faithful, TM!vars

(* A typed letter. *)
LEMMA KiPutCharOK ==
    ASSUME Orderly, NEW Letter \in Letters, KiPutChar(Letter) PROVE Faithful
<1>1. PICK c, d : c = context /\ d = context'
  OBVIOUS
<1>2. /\ phase = "running" /\ phase' = "running" /\ Good(c) /\ c.CursorEnabled /\ c.FollowingInput
      /\ d = VgaPutChar(c, Letter)
  BY <1>1 DEF Orderly, KiPutChar
<1>3. Letter \in Marks \ {"NUL"}
  BY TextAssumption DEF Marks
<1>4. /\ Good(d) /\ SameFlags(c, d) /\ d.CurrentCol < ScreenWidth
      /\ TextOf(d) = TM!TypeLetter(TextOf(c), Letter)
      /\ CursorAt(d, d.CurrentCol, d.CurrentRow)
  BY <1>2, <1>3, PutCharIs
<1>5. Orderly'
  BY <1>1, <1>2, <1>4, OrderlyNext DEF SameFlags
<1>6. TM!Type(Letter)
  <2>1. PICK t : t = TM!TypeLetter(TextOf(c), Letter)
    OBVIOUS
  <2>2. TM!Becomes(t)
    BY <1>1, <1>2, <1>4, <2>1, TextNext
  <2>3. TM!Text = TextOf(c)
    BY <1>1, <1>2, TextNow
  <2>4. QED BY <2>1, <2>2, <2>3 DEF TM!Type
<1>7. QED BY <1>1, <1>4, <1>5, <1>6 DEF Faithful, TM!Next

(* A backspace. *)
LEMMA KiBackspaceOK == ASSUME Orderly, KiBackspace PROVE Faithful
<1>1. PICK c, d : c = context /\ d = context'
  OBVIOUS
<1>2. /\ phase = "running" /\ phase' = "running" /\ Good(c) /\ c.CursorEnabled /\ c.FollowingInput
      /\ c.CurrentCol < ScreenWidth /\ d = InternalVgaBackspace(c)
  BY <1>1 DEF Orderly, KiBackspace
<1>3. CASE c.CurrentCol = 0
  <2>1. d = c
    BY <1>2, <1>3 DEF InternalVgaBackspace
  <2>2. Orderly'
    BY <1>1, <1>2, <2>1, OrderlyNext
  <2>3. ShownRows' = ShownRows /\ CurrentRow' = CurrentRow
    BY <1>1, <1>2, <2>1 DEF ShownRows, CurrentRow
  <2>4. QED BY <1>1, <2>1, <2>2, <2>3 DEF Faithful, TM!vars
<1>4. CASE c.CurrentCol # 0
  <2>1. PICK t : t = TextOf(c)
    OBVIOUS
  <2>2. /\ Good(d) /\ SameFlags(c, d) /\ d.CurrentCol < ScreenWidth
        /\ CursorAt(d, d.CurrentCol, d.CurrentRow) /\ t.rows[t.cur] # <<>>
        /\ TextOf(d) = [t EXCEPT !.rows[t.cur] = Front(t.rows[t.cur])]
    BY <1>2, <1>4, <2>1, BackspaceIs
  <2>3. Orderly'
    BY <1>1, <1>2, <2>2, OrderlyNext DEF SameFlags
  <2>4. TM!Erase
    <3>1. PICK u : u = [t EXCEPT !.rows[t.cur] = Front(t.rows[t.cur])]
      OBVIOUS
    <3>2. TM!Becomes(u)
      BY <1>1, <1>2, <2>2, <3>1, TextNext
    <3>3. TM!Text = t /\ ShownRows = t.rows /\ CurrentRow = t.cur
      BY <1>1, <1>2, <2>1, TextNow
    <3>4. \A s : TM!Front(s) = Front(s)
      BY DEF TM!Front, Front
    <3>5. QED BY <2>2, <3>1, <3>2, <3>3, <3>4 DEF TM!Erase
  <2>5. QED BY <1>1, <2>2, <2>3, <2>4 DEF Faithful, TM!Next
<1>5. QED BY <1>3, <1>4

(* Every step. *)
LEMMA StepOK == ASSUME Orderly, [Next]_vars PROVE Faithful
<1>1. CASE Next
  BY <1>1, BlankScreenOK, BootPrintOK, RegisterOK, PrintLineOK, TurnCursorOnOK,
     KiPutCharOK, KiBackspaceOK DEF Next
<1>2. CASE UNCHANGED vars
  BY <1>2 DEF vars, Orderly, Faithful, ShownRows, CurrentRow, TM!vars
<1>3. QED BY <1>1, <1>2

(* The first state: a terminal without text. *)
LEMMA InitOK == ASSUME Init PROVE Orderly /\ TM!Init
<1>1. phase = "prepared" /\ context = VgaPrepareEnvironment("firmware")
  BY DEF Init
<1>2. Orderly
  BY <1>1 DEF Orderly
<1>3. context.CurrentRow + 1 = 1
  BY <1>1 DEF VgaPrepareEnvironment
<1>4. QED BY <1>1, <1>2, <1>3 DEF TM!Init, TM!EmptyText, ShownRows, CurrentRow

(* The invariant holds. *)
LEMMA AlwaysOrderly == Spec => []Orderly
<1>1. Init => Orderly
  BY InitOK
<1>2. Orderly /\ [Next]_vars => Orderly'
  BY StepOK DEF Faithful
<1>3. QED BY <1>1, <1>2, PTL DEF Spec

(* No call of the console, in any order and with any strings, leaves the   *)
(* position off the screen or has written outside the frame buffer.        *)
THEOREM TypeCorrect == Spec => []TypeOK
<1>1. Orderly => TypeOK
  <2>1. SUFFICES ASSUME Orderly PROVE TypeOK
    OBVIOUS
  <2>2. PICK c : c = context
    OBVIOUS
  <2>3. CASE phase = "prepared"
    <3>1. c = VgaPrepareEnvironment("firmware")
      BY <2>1, <2>2, <2>3 DEF Orderly
    <3>2. [n \in Cells |-> "firmware"] \in [Cells -> Letters \cup {"NUL", "SP", "firmware"}]
          /\ 0 \in 0 .. PortRange - 1 /\ 0 \in 0 .. ScreenHeight - 1 /\ 0 \in 0 .. ScreenWidth
      BY Dims
    <3>3. c \in VgaContext
      BY <3>1, <3>2 DEF VgaPrepareEnvironment, VgaContext
    <3>4. QED BY <2>2, <2>3, <3>3 DEF TypeOK
  <2>4. CASE phase # "prepared"
    <3>1. c \in Contexts /\ c.CurrentRow \in 0 .. ScreenHeight - 1 /\ c.CurrentCol \in 0 .. ScreenWidth
      BY <2>1, <2>2, <2>4 DEF Orderly, Good, Shape
    <3>2. c \in VgaContext
      BY <3>1 DEF Contexts, VgaContext, Screens, Marks
    <3>3. QED BY <2>1, <2>2, <2>4, <3>2 DEF TypeOK, Orderly
  <2>5. QED BY <2>3, <2>4
<1>2. QED BY <1>1, AlwaysOrderly, PTL

(* Once the cursor is on, every call that changes anything leaves the two  *)
(* cursor registers on the position of the next letter.                    *)
THEOREM CursorIsThere == Spec => CursorFollows
<1>1. Orderly /\ [Next]_vars =>
        [phase = "running" /\ context' # context =>
           CursorAt(context', context.CurrentCol', context.CurrentRow')]_vars
  BY StepOK DEF Faithful
<1>2. QED BY <1>1, AlwaysOrderly, PTL DEF Spec, CursorFollows

(* The frame buffer shows the text of a terminal: VgaConsole implements    *)
(* Terminal under the mapping of rows to their trimmed cells.              *)
THEOREM ShowsTheText == Spec => ImplementsTerminal
<1>1. Init => TM!Init
  BY InitOK
<1>2. Orderly /\ [Next]_vars => [TM!Next]_(TM!vars)
  BY StepOK DEF Faithful
<1>3. QED BY <1>1, <1>2, AlwaysOrderly, PTL DEF Spec, ImplementsTerminal, TM!Spec
=============================================================================
