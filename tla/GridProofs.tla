----------------------------- MODULE GridProofs -----------------------------
(***************************************************************************)
(* Proofs about Grid for a terminal of any size, any tabulator stops and   *)
(* any bytes.  The cursor may stand one past the end of its row, so the    *)
(* places the code indexes are inside the cells only because each handler  *)
(* looks at the column first; what a parameter's digits amount to is left  *)
(* open, since a coordinate is kept on the grid whatever they say.  That   *)
(* the flat cells show the end of a page is proved step by step: each      *)
(* operation on the cells is one of Page's on the lines they are cut into. *)
(***************************************************************************)
EXTENDS Grid, TLAPS

USE GridAssumption

Cell == Bytes \cup {Blank}

ScreenOK ==
  /\ cells \in Seq(Cell) /\ Len(cells) = rows * cols
  /\ cursor_row \in 0 .. rows - 1 /\ cursor_col \in 0 .. cols
  /\ scrolled \in Seq(Seq(Cell))

(* Whatever n is, a kept column or row is one of the grid.                 *)
LEMMA KeptOnGrid ==
  ASSUME NEW n, NEW size \in Nat \ {0}
  PROVE  Kept(n, size) \in 0 .. size - 1
BY DEF Kept

(* The place of a row and a column of the grid is inside the cells.        *)
LEMMA AtInside ==
  ASSUME NEW r \in 0 .. rows - 1, NEW c \in 0 .. cols - 1
  PROVE  At(r, c) \in 1 .. rows * cols
<1>1. r * cols + cols <= rows * cols /\ r * cols >= 0
  <2>1. r + 1 <= rows /\ r \in Nat /\ cols \in Nat /\ rows \in Nat
    OBVIOUS
  <2>2. r * cols + cols = (r + 1) * cols /\ (r + 1) * cols <= rows * cols /\ r * cols >= 0
    BY <2>1
  <2>3. QED
    BY <2>2
<1>2. r * cols \in Nat /\ rows * cols \in Nat
  OBVIOUS
<1>3. QED
  BY <1>1, <1>2 DEF At

(* The grid has more cells than one row.                                   *)
LEMMA MoreThanARow ==
  rows * cols \in Nat /\ cols \in 1 .. rows * cols - 1
<1>1. rows * cols >= 2 * cols
  BY rows >= 2, cols >= 1
<1>2. QED
  BY <1>1

(* A grid that scrolled is still a grid.                                   *)
LEMMA ScrolledType ==
  ASSUME cells \in Seq(Cell), Len(cells) = rows * cols
  PROVE  /\ Scrolled \in Seq(Cell) /\ Len(Scrolled) = rows * cols
         /\ SubSeq(cells, 1, cols) \in Seq(Cell)
<1>1. BlankRow \in Seq(Cell) /\ Len(BlankRow) = cols
  BY DEF BlankRow, Cell
<1>2. /\ SubSeq(cells, cols + 1, rows * cols) \in Seq(Cell)
      /\ Len(SubSeq(cells, cols + 1, rows * cols)) = rows * cols - cols
  BY MoreThanARow
<1>3. SubSeq(cells, 1, cols) \in Seq(Cell)
  BY MoreThanARow
<1>4. QED
  BY <1>1, <1>2, <1>3, MoreThanARow DEF Scrolled

(* One cell written leaves a grid.                                         *)
LEMMA WrittenType ==
  ASSUME NEW grid \in Seq(Cell), Len(grid) = rows * cols, NEW i, NEW x \in Cell
  PROVE  [grid EXCEPT ![i] = x] \in Seq(Cell) /\ Len([grid EXCEPT ![i] = x]) = rows * cols
<1> DEFINE new == [grid EXCEPT ![i] = x]
<1>1. DOMAIN grid = 1 .. rows * cols /\ \A j \in DOMAIN grid : grid[j] \in Cell
  OBVIOUS
<1>2. new = [j \in DOMAIN grid |-> IF j = i THEN x ELSE grid[j]]
  BY Zenon
<1>3. new \in [1 .. rows * cols -> Cell]
  BY <1>1, <1>2
<1>4. rows * cols \in Nat
  BY MoreThanARow
<1> HIDE DEF new
<1>5. new \in Seq(Cell) /\ Len(new) = rows * cols
  BY <1>3, <1>4
<1>6. QED
  BY <1>5 DEF new

(* What going down one row leaves.                                         *)
LEMMA BelowType ==
  ASSUME ScreenOK
  PROVE  /\ Below \in Seq(Cell) /\ Len(Below) = rows * cols
         /\ NextRow \in 0 .. rows - 1
         /\ Leaving \in Seq(Seq(Cell))
<1>1. Below \in Seq(Cell) /\ Len(Below) = rows * cols
  BY ScrolledType DEF ScreenOK, Below
<1>2. NextRow \in 0 .. rows - 1
  BY DEF ScreenOK, NextRow, AtBottom
<1>3. Leaving \in Seq(Seq(Cell))
  BY ScrolledType DEF ScreenOK, Leaving
<1>4. QED
  BY <1>1, <1>2, <1>3

(* What each operation on the screen leaves is a screen.                   *)
LEMMA StillType == ScreenOK /\ UNCHANGED screenVars => ScreenOK'
BY DEF ScreenOK, screenVars, cursorVars

(* A character,                                                            *)
LEMMA WriteCharType ==
  ASSUME ScreenOK, NEW b \in Bytes, write_char(b)
  PROVE  ScreenOK'
<1>1. CASE cursor_col < cols
  <2>1. cells' \in Seq(Cell) /\ Len(cells') = rows * cols
    <3>1. cells' = [cells EXCEPT ![At(cursor_row, cursor_col)] = b] /\ b \in Cell
      BY <1>1 DEF write_char, Cell
    <3>2. cells \in Seq(Cell) /\ Len(cells) = rows * cols
      BY DEF ScreenOK
    <3>3. QED
      BY <3>1, <3>2, WrittenType
  <2>2. QED
    BY <1>1, <2>1 DEF ScreenOK, write_char
<1>2. CASE ~(cursor_col < cols)
  <2>1. cells' \in Seq(Cell) /\ Len(cells') = rows * cols
    <3>1. cells' = [Below EXCEPT ![At(NextRow, 0)] = b] /\ b \in Cell
      BY <1>2 DEF write_char, Cell
    <3>2. QED
      BY <3>1, BelowType, WrittenType
  <2>2. QED
    BY <1>2, <2>1, BelowType DEF ScreenOK, write_char
<1>3. QED
  BY <1>1, <1>2

(* a control,                                                              *)
LEMMA ControlType ==
  ASSUME ScreenOK, line_feed \/ carriage_return \/ backspace \/ tab
  PROVE  ScreenOK'
<1>1. CASE line_feed
  BY <1>1, BelowType DEF line_feed, ScreenOK
<1>2. CASE carriage_return
  BY <1>2 DEF carriage_return, ScreenOK
<1>3. CASE backspace
  <2>1. CASE cursor_col = 0
    BY <1>3, <2>1, StillType DEF backspace
  <2>2. CASE cursor_col # 0
    <3>1. cells' \in Seq(Cell) /\ Len(cells') = rows * cols
      BY <1>3, <2>2, WrittenType DEF backspace, ScreenOK, Cell
    <3>2. QED
      BY <1>3, <2>2, <3>1 DEF backspace, ScreenOK
  <2>3. QED
    BY <2>1, <2>2
<1>4. CASE tab
  <2>1. cursor_col' \in 0 .. cols - 1
    BY <1>4, KeptOnGrid DEF tab
  <2>2. QED
    BY <1>4, <2>1 DEF tab, ScreenOK
<1>5. QED
  BY <1>1, <1>2, <1>3, <1>4

(* an escape sequence.                                                     *)
LEMMA EscapeType ==
  ASSUME ScreenOK, NEW params,
         cursor_position(params) \/ erase_display(params) \/ erase_line
  PROVE  ScreenOK'
<1>1. CASE cursor_position(params)
  <2>1. cursor_row' \in 0 .. rows - 1 /\ cursor_col' \in 0 .. cols - 1
    BY <1>1, KeptOnGrid DEF cursor_position, Coordinate
  <2>2. QED
    BY <1>1, <2>1 DEF cursor_position, ScreenOK
<1>2. ASSUME NEW blanked \in SUBSET (1 .. rows * cols),
             cells' = [i \in DOMAIN cells |-> IF i \in blanked THEN Blank ELSE cells[i]]
      PROVE  cells' \in Seq(Cell) /\ Len(cells') = rows * cols
  <2>1. DOMAIN cells = 1 .. rows * cols /\ \A i \in DOMAIN cells : cells[i] \in Cell
    BY DEF ScreenOK
  <2>2. cells' \in [1 .. rows * cols -> Cell]
    BY <1>2, <2>1 DEF Cell
  <2>3. QED
    BY <2>2, MoreThanARow
<1>3. CASE erase_display(params)
  <2>1. CASE UNCHANGED screenVars
    BY <2>1, StillType
  <2>2. CASE cells' = [i \in DOMAIN cells |-> Blank] /\ cursor_row' = 0 /\ cursor_col' = 0
             /\ UNCHANGED scrolled
    <3>1. DOMAIN cells = 1 .. rows * cols
      BY DEF ScreenOK
    <3>2. cells' = [i \in DOMAIN cells |-> IF i \in DOMAIN cells THEN Blank ELSE cells[i]]
      BY <2>2
    <3>3. cells' \in Seq(Cell) /\ Len(cells') = rows * cols
      BY <1>2, <3>1, <3>2
    <3>4. QED
      BY <2>2, <3>3 DEF ScreenOK
  <2>3. QED
    BY <1>3, <2>1, <2>2 DEF erase_display
<1>4. CASE erase_line
  <2> DEFINE blanked == At(cursor_row, cursor_col) .. At(cursor_row, cols - 1)
  <2>1. blanked \in SUBSET (1 .. rows * cols)
    <3>1. At(cursor_row, cols - 1) \in 1 .. rows * cols
      BY AtInside DEF ScreenOK
    <3>2. At(cursor_row, cursor_col) \in Nat \ {0}
      <4>1. cursor_row \in Nat /\ cursor_col \in Nat
        BY DEF ScreenOK
      <4>2. cursor_row * cols \in Nat
        BY <4>1
      <4>3. QED
        BY <4>1, <4>2 DEF At
    <3>3. QED
      BY <3>1, <3>2
  <2>2. cells' \in Seq(Cell) /\ Len(cells') = rows * cols
    BY <1>2, <1>4, <2>1 DEF erase_line
  <2>3. QED
    BY <1>4, <2>2 DEF erase_line, cursorVars, ScreenOK
<1>5. QED
  BY <1>1, <1>3, <1>4

(* Every reachable value of every variable is one the code can hold: the   *)
(* cursor stays on the grid or one past the end of its row, for any size   *)
(* and any bytes.                                                          *)
THEOREM GridTypeCorrect == GridSpec => []GridTypeOK
<1>1. GridInit => GridTypeOK
  BY MoreThanARow DEF GridInit, GridTypeOK
<1>2. GridTypeOK /\ [GridNext]_gridVars => GridTypeOK'
  <2> SUFFICES ASSUME GridTypeOK, [GridNext]_gridVars PROVE GridTypeOK'
    OBVIOUS
  <2>1. ScreenOK
    BY DEF GridTypeOK, ScreenOK, Cell
  <2>3. ASSUME NEW b \in Bytes, write_char(b) PROVE ScreenOK'
    BY <2>1, <2>3, WriteCharType
  <2>4. ASSUME NEW b \in Bytes, Plain(b) PROVE ScreenOK'
    BY <2>1, <2>3, <2>4, ControlType, StillType DEF Plain
  <2>5. ASSUME NEW seq, process_escape_sequence(seq) PROVE ScreenOK'
    BY <2>1, <2>5, EscapeType, StillType DEF process_escape_sequence
  <2>6. ASSUME NEW b \in Bytes, write_byte(b) PROVE GridTypeOK'
    <3>1. escape_buf \in Seq(Bytes) /\ Append(escape_buf, b) \in Seq(Bytes)
          /\ Len(Append(escape_buf, b)) = Len(escape_buf) + 1
      BY DEF GridTypeOK
    <3>2. ScreenOK'
      <4>1. CASE escape_buf = <<>>
        <5>1. Plain(b)
          BY <2>6, <4>1, Zenon DEF write_byte
        <5>2. QED
          BY <2>4, <5>1
      <4>2. CASE escape_buf # <<>> /\ b \in Closing
        <5>1. process_escape_sequence(Append(escape_buf, b))
          BY <2>6, <4>2, Zenon DEF write_byte
        <5>2. QED
          BY <2>5, <5>1, Zenon
      <4>3. CASE escape_buf # <<>> /\ b \notin Closing
        <5>1. UNCHANGED screenVars
          BY <2>6, <4>3, Zenon DEF write_byte
        <5>2. QED
          BY <2>1, <5>1, StillType
      <4>4. QED
        BY <4>1, <4>2, <4>3
    <3>3. escape_buf' \in Seq(Bytes) /\ Len(escape_buf') <= MaxEscape
      <4>1. CASE escape_buf = <<>>
        <5>1. escape_buf' = IF b = "ESC" THEN Append(escape_buf, b) ELSE <<>>
          BY <2>6, <4>1, Zenon DEF write_byte
        <5>2. QED
          BY <3>1, <4>1, <5>1, GridAssumption
      <4>2. CASE escape_buf # <<>> /\ b \in Closing
        <5>1. escape_buf' = <<>>
          BY <2>6, <4>2, Zenon DEF write_byte
        <5>2. QED
          BY <5>1, GridAssumption
      <4>3. CASE escape_buf # <<>> /\ b \notin Closing
        <5>1. escape_buf' = IF Len(Append(escape_buf, b)) > MaxEscape THEN <<>>
                            ELSE Append(escape_buf, b)
          BY <2>6, <4>3, Zenon DEF write_byte
        <5>2. QED
          BY <3>1, <5>1, GridAssumption
      <4>4. QED
        BY <4>1, <4>2, <4>3
    <3>4. written' \in 0 .. MaxBytes
      <4>1. written < MaxBytes /\ written' = written + 1
        BY <2>6, Zenon DEF write_byte
      <4>2. QED
        BY <4>1, GridAssumption DEF GridTypeOK
    <3>5. QED
      BY <3>2, <3>3, <3>4 DEF GridTypeOK, ScreenOK, Cell
  <2>7. CASE UNCHANGED gridVars
    BY <2>7 DEF gridVars, screenVars, cursorVars, GridTypeOK
  <2>8. QED
    BY <2>6, <2>7 DEF GridNext
<1>3. QED
  BY <1>1, <1>2, PTL DEF GridSpec
-----------------------------------------------------------------------------
(***************************************************************************)
(* That the flat cells show the end of a page.  The refinement mapping     *)
(* cuts the cells into rows, so every lemma below is about one operation   *)
(* on the cells and the lines of the page it changes; what keeps rows      *)
(* apart is where At puts them.                                            *)
(***************************************************************************)

Grids == {cs \in Seq(Cell) : Len(cs) = rows * cols}

Row(cs, r) == SubSeq(cs, At(r - 1, 0), At(r - 1, cols - 1))

Lines(sc, cs) == sc \o [r \in 1 .. rows |-> Row(cs, r)]

(* A cell of the grid, a line of the page, a character of it replaced.     *)
Cells(cs, r, c, x) == [cs EXCEPT ![At(r, c)] = x]
Relined(page, l, text) == [page EXCEPT ![l] = text]
Cleared(page, l, c) ==
  [page EXCEPT ![l] = [d \in 1 .. cols |-> IF d > c THEN Blank ELSE @[d]]]
Retyped(page, l, c, x) == [page EXCEPT ![l][c + 1] = x]

(* Along a row the places count up, and the next row follows it.           *)
LEMMA AtSteps ==
  ASSUME NEW r \in 0 .. rows - 1, NEW c \in 0 .. cols
  PROVE  /\ At(r, 0) \in 1 .. rows * cols /\ At(r, c) = At(r, 0) + c
         /\ r + 1 < rows => At(r + 1, 0) = At(r, 0) + cols
         /\ At(0, 0) = 1 /\ At(rows - 1, 0) + cols = rows * cols + 1
<1>1. At(r, 0) \in 1 .. rows * cols
  BY AtInside
<1>2. r * cols \in Nat /\ (r + 1) * cols = r * cols + cols /\ 0 * cols = 0
      /\ (rows - 1) * cols + cols = rows * cols
  OBVIOUS
<1>3. QED
  BY <1>1, <1>2 DEF At

(* Rows do not overlap.                                                    *)
LEMMA RowsApart ==
  ASSUME NEW q \in 0 .. rows - 1, NEW r \in 0 .. rows - 1, q < r
  PROVE  At(q, 0) + cols <= At(r, 0)
<1>1. q \in Nat /\ r \in Nat /\ cols \in Nat /\ q + 1 <= r
  OBVIOUS
<1>2. (q + 1) * cols <= r * cols /\ (q + 1) * cols = q * cols + cols
      /\ q * cols \in Nat /\ r * cols \in Nat
  BY <1>1
<1>3. QED
  BY <1>1, <1>2 DEF At

(* A row is as long as the grid is wide, and shows its cells.              *)
LEMMA RowCells ==
  ASSUME NEW cs \in Grids, NEW r \in 1 .. rows
  PROVE  /\ Row(cs, r) \in [1 .. cols -> Cell] /\ Row(cs, r) \in Seq(Cell)
         /\ \A c \in 1 .. cols : Row(cs, r)[c] = cs[At(r - 1, c - 1)]
<1>1. /\ cs \in Seq(Cell) /\ Len(cs) = rows * cols /\ rows * cols \in Nat
  BY MoreThanARow DEF Grids
<1>2. PICK a \in 1 .. rows * cols : a = At(r - 1, 0)
  BY AtSteps
<1>3. \A c \in 0 .. cols : At(r - 1, c) = a + c
  BY <1>2, AtSteps
<1>4. PICK z \in 1 .. rows * cols : z = At(r - 1, cols - 1) /\ z = a + cols - 1
  BY <1>3, AtInside
<1>5. Row(cs, r) = SubSeq(cs, a, z)
  BY <1>2, <1>4 DEF Row
<1>6. /\ SubSeq(cs, a, z) \in Seq(Cell) /\ Len(SubSeq(cs, a, z)) = cols
      /\ \A c \in 1 .. cols : SubSeq(cs, a, z)[c] = cs[a + c - 1]
  BY <1>1, <1>4
<1>7. SubSeq(cs, a, z) \in [1 .. cols -> Cell]
  <2>1. PICK s \in Seq(Cell) : s = SubSeq(cs, a, z) /\ Len(s) = cols
    BY <1>6
  <2>2. s \in [1 .. Len(s) -> Cell]
    OBVIOUS
  <2>3. QED
    BY <2>1, <2>2
<1>8. \A c \in 1 .. cols : SubSeq(cs, a, z)[c] = cs[At(r - 1, c - 1)]
  BY <1>3, <1>6
<1>9. QED
  BY <1>5, <1>6, <1>7, <1>8

(* Sequences and rows are equal when they are element by element.          *)
LEMMA SameSequence ==
  ASSUME NEW T, NEW s \in Seq(T), NEW t \in Seq(T), Len(s) = Len(t),
         \A i \in 1 .. Len(s) : s[i] = t[i]
  PROVE  s = t
<1>1. DOMAIN s = 1 .. Len(s) /\ DOMAIN t = 1 .. Len(t)
  OBVIOUS
<1>2. s \in [1 .. Len(s) -> T] /\ t \in [1 .. Len(s) -> T]
  OBVIOUS
<1>3. QED
  BY <1>2

Text == Seq(Cell)

(* The lines of a page: those that scrolled away, and the rows.            *)
LEMMA LinesParts ==
  ASSUME NEW sc \in Seq(Text), NEW cs \in Grids
  PROVE  /\ Lines(sc, cs) \in Seq(Text) /\ Len(Lines(sc, cs)) = Len(sc) + rows
         /\ \A k \in 1 .. Len(sc) : Lines(sc, cs)[k] = sc[k]
         /\ \A r \in 1 .. rows : Lines(sc, cs)[Len(sc) + r] = Row(cs, r)
<1> DEFINE part == [r \in 1 .. rows |-> Row(cs, r)]
<1>1. /\ part \in Seq(Text) /\ Len(part) = rows
      /\ \A r \in 1 .. rows : part[r] = Row(cs, r)
  <2>1. part \in [1 .. rows -> Text] /\ \A r \in 1 .. rows : part[r] = Row(cs, r)
    BY RowCells DEF Text
  <2> HIDE DEF part
  <2>2. part \in Seq(Text) /\ Len(part) = rows
    BY <2>1
  <2>3. QED
    BY <2>1, <2>2
<1>2. Lines(sc, cs) = sc \o part
  BY DEF Lines
<1> HIDE DEF part
<1>3. sc \o part \in Seq(Text) /\ Len(sc \o part) = Len(sc) + Len(part)
  BY <1>1
<1>4. \A k \in 1 .. Len(sc) : (sc \o part)[k] = sc[k]
  BY <1>1
<1>5. \A r \in 1 .. rows : (sc \o part)[Len(sc) + r] = part[r]
  BY <1>1
<1>6. QED
  BY <1>1, <1>2, <1>3, <1>4, <1>5

(* A page with those parts is the page shown.                              *)
LEMMA LinesAre ==
  ASSUME NEW sc \in Seq(Text), NEW cs \in Grids, NEW page \in Seq(Text),
         Len(page) = Len(sc) + rows,
         \A k \in 1 .. Len(sc) : page[k] = sc[k],
         \A r \in 1 .. rows : page[Len(sc) + r] = Row(cs, r)
  PROVE  Lines(sc, cs) = page
<1>1. ASSUME NEW k \in 1 .. Len(page) PROVE Lines(sc, cs)[k] = page[k]
  <2>1. CASE k <= Len(sc)
    BY <2>1, LinesParts
  <2>2. CASE k > Len(sc)
    <3>1. PICK r \in 1 .. rows : k = Len(sc) + r
      BY <2>2
    <3>2. QED
      BY <3>1, LinesParts
  <2>3. QED
    BY <2>1, <2>2
<1>2. QED
  BY <1>1, LinesParts, SameSequence

(* Changing one row changes its line.                                      *)
LEMMA RowChanges ==
  ASSUME NEW sc \in Seq(Text), NEW cs \in Grids, NEW ds \in Grids, NEW r \in 1 .. rows,
         \A q \in 1 .. rows : q # r => Row(ds, q) = Row(cs, q)
  PROVE  Lines(sc, ds) = Relined(Lines(sc, cs), Len(sc) + r, Row(ds, r))
<1> DEFINE page == Lines(sc, cs)
           next == [page EXCEPT ![Len(sc) + r] = Row(ds, r)]
<1>1. page \in Seq(Text) /\ Len(page) = Len(sc) + rows /\ Row(ds, r) \in Text /\ Len(sc) \in Nat
  <2>1. Row(ds, r) \in Text
    BY RowCells DEF Text
  <2>2. QED
    BY <2>1, LinesParts
<1>2. /\ \A k \in 1 .. Len(sc) : page[k] = sc[k]
      /\ \A q \in 1 .. rows : page[Len(sc) + q] = Row(cs, q)
  BY LinesParts
<1> HIDE DEF page
<1>3. /\ next \in Seq(Text) /\ Len(next) = Len(page) /\ next[Len(sc) + r] = Row(ds, r)
      /\ \A k \in 1 .. Len(page) : k # Len(sc) + r => next[k] = page[k]
  BY <1>1
<1> HIDE DEF next
<1>4. \A k \in 1 .. Len(sc) : next[k] = sc[k]
  BY <1>1, <1>2, <1>3
<1>5. ASSUME NEW q \in 1 .. rows PROVE next[Len(sc) + q] = Row(ds, q)
  <2>1. Len(sc) + q \in 1 .. Len(page) /\ (q # r => Len(sc) + q # Len(sc) + r)
    BY <1>1
  <2>2. QED
    BY <1>2, <1>3, <2>1
<1>6. Lines(sc, ds) = next
  BY <1>1, <1>3, <1>4, <1>5, LinesAre
<1>7. QED
  BY <1>6 DEF next, page, Relined
(* A place belongs to one row and one column.                              *)
LEMMA AtApart ==
  ASSUME NEW q \in 0 .. rows - 1, NEW r \in 0 .. rows - 1,
         NEW b \in 0 .. cols - 1, NEW c \in 0 .. cols - 1, At(q, b) = At(r, c)
  PROVE  q = r /\ b = c
<1>1. PICK x, y \in Nat : x = At(q, 0) /\ y = At(r, 0)
  BY AtSteps
<1>2. At(q, b) = x + b /\ At(r, c) = y + c
  BY <1>1, AtSteps
<1>3. x + b = y + c
  BY <1>2
<1>4. CASE q < r
  <2>1. x + cols <= y
    BY <1>1, <1>4, RowsApart
  <2>2. QED
    BY <1>3, <2>1
<1>5. CASE r < q
  <2>1. y + cols <= x
    BY <1>1, <1>5, RowsApart
  <2>2. QED
    BY <1>3, <2>1
<1>6. CASE q = r
  BY <1>1, <1>3, <1>6
<1>7. QED
  BY <1>4, <1>5, <1>6

(* Rows are equal when they are so character by character.                 *)
LEMMA SameRow ==
  ASSUME NEW f \in [1 .. cols -> Cell], NEW g \in [1 .. cols -> Cell],
         \A c \in 1 .. cols : f[c] = g[c]
  PROVE  f = g
OBVIOUS

(* A cell written is a character put into its line.                        *)
LEMMA WrittenLines ==
  ASSUME NEW sc \in Seq(Text), NEW cs \in Grids, NEW r \in 0 .. rows - 1, NEW c \in 0 .. cols - 1,
         NEW x \in Cell, NEW l, l = Len(sc) + r + 1
  PROVE  /\ Cells(cs, r, c, x) \in Grids
         /\ Lines(sc, Cells(cs, r, c, x)) = Retyped(Lines(sc, cs), l, c, x)
<1> DEFINE ds == [cs EXCEPT ![At(r, c)] = x]
           page == Lines(sc, cs)
<1>1. ds \in Grids
  BY WrittenType DEF Grids
<1>2. /\ ds[At(r, c)] = x
      /\ \A j \in 1 .. rows * cols : j # At(r, c) => ds[j] = cs[j]
  <2>1. DOMAIN cs = 1 .. rows * cols /\ At(r, c) \in 1 .. rows * cols
    BY AtInside DEF Grids
  <2>2. QED
    BY <2>1
<1> HIDE DEF ds
<1>3. ASSUME NEW q \in 1 .. rows, q # r + 1 PROVE Row(ds, q) = Row(cs, q)
  <2>1. ASSUME NEW d \in 1 .. cols PROVE Row(ds, q)[d] = Row(cs, q)[d]
    <3>1. q - 1 \in 0 .. rows - 1 /\ d - 1 \in 0 .. cols - 1 /\ q - 1 # r
      BY <1>3
    <3>2. At(q - 1, d - 1) # At(r, c) /\ At(q - 1, d - 1) \in 1 .. rows * cols
      BY <3>1, AtApart, AtInside
    <3>3. QED
      BY <1>1, <1>2, <3>2, RowCells
  <2>2. QED
    BY <1>1, <2>1, RowCells, SameRow
<1>4. Row(ds, r + 1) = [Row(cs, r + 1) EXCEPT ![c + 1] = x]
  <2> DEFINE new == [Row(cs, r + 1) EXCEPT ![c + 1] = x]
  <2>1. r + 1 \in 1 .. rows /\ c + 1 \in 1 .. cols
    OBVIOUS
  <2>2. /\ new \in [1 .. cols -> Cell] /\ new[c + 1] = x
        /\ \A d \in 1 .. cols : d # c + 1 => new[d] = Row(cs, r + 1)[d]
    BY <2>1, RowCells
  <2> HIDE DEF new
  <2>3. ASSUME NEW d \in 1 .. cols PROVE Row(ds, r + 1)[d] = new[d]
    <3>1. Row(ds, r + 1)[d] = ds[At(r, d - 1)] /\ Row(cs, r + 1)[d] = cs[At(r, d - 1)]
      <4>1. (r + 1) - 1 = r
        OBVIOUS
      <4>2. /\ Row(ds, r + 1)[d] = ds[At((r + 1) - 1, d - 1)]
            /\ Row(cs, r + 1)[d] = cs[At((r + 1) - 1, d - 1)]
        BY <1>1, <2>1, RowCells
      <4>3. QED
        BY <4>1, <4>2
    <3>2. CASE d = c + 1
      <4>1. d - 1 = c
        BY <3>2
      <4>2. QED
        BY <1>2, <2>2, <3>1, <3>2, <4>1
    <3>3. CASE d # c + 1
      <4>1. d - 1 \in 0 .. cols - 1 /\ d - 1 # c
        BY <3>3
      <4>2. At(r, d - 1) # At(r, c) /\ At(r, d - 1) \in 1 .. rows * cols
        BY <4>1, AtApart, AtInside
      <4>3. QED
        BY <1>2, <2>2, <3>1, <3>3, <4>2
    <3>4. QED
      BY <3>2, <3>3
  <2>4. Row(ds, r + 1) \in [1 .. cols -> Cell]
    BY <1>1, <2>1, RowCells
  <2>5. Row(ds, r + 1) = new
    BY <2>2, <2>3, <2>4, SameRow
  <2>6. QED
    BY <2>5 DEF new
<1>5. r + 1 \in 1 .. rows /\ Len(sc) + (r + 1) = l
  OBVIOUS
<1>6. Lines(sc, ds) = [page EXCEPT ![l] = Row(ds, r + 1)]
  <2>1. Lines(sc, ds) = Relined(Lines(sc, cs), Len(sc) + (r + 1), Row(ds, r + 1))
    BY <1>1, <1>3, <1>5, RowChanges
  <2>2. QED
    BY <1>5, <2>1 DEF Relined
<1>7. page[l] = Row(cs, r + 1)
  <2>1. page[Len(sc) + (r + 1)] = Row(cs, r + 1)
    BY <1>5, LinesParts
  <2>2. QED
    BY <1>5, <2>1
<1> HIDE DEF page
<1>8. Lines(sc, ds) = [page EXCEPT ![l][c + 1] = x]
  BY <1>4, <1>6, <1>7
<1>9. QED
  BY <1>1, <1>8 DEF ds, page, Cells, Retyped

(* Going down a row at the bottom lengthens the page.                      *)
LEMMA ScrolledLines ==
  ASSUME ScreenOK
  PROVE  /\ Scrolled \in Grids
         /\ Lines(Append(scrolled, SubSeq(cells, 1, cols)), Scrolled)
              = Append(Lines(scrolled, cells), BlankRow)
<1> DEFINE page == Lines(scrolled, cells)
           longer == Append(page, BlankRow)
           top == SubSeq(cells, 1, cols)
<1>1. /\ cells \in Grids /\ scrolled \in Seq(Text) /\ Scrolled \in Grids
      /\ Len(scrolled) \in Nat /\ BlankRow \in Text
  BY ScrolledType DEF ScreenOK, Grids, Text, BlankRow, Cell
<1>2. top = Row(cells, 1) /\ top \in Text
  <2>1. At(0, 0) = 1 /\ At(0, cols - 1) = cols
    BY AtSteps
  <2>2. QED
    BY <2>1, ScrolledType DEF Row, ScreenOK, Text
<1>3. ASSUME NEW r \in 1 .. rows - 1 PROVE Row(Scrolled, r) = Row(cells, r + 1)
  <2>1. ASSUME NEW c \in 1 .. cols PROVE Row(Scrolled, r)[c] = Row(cells, r + 1)[c]
    <3>1. PICK i \in 1 .. rows * cols : i = At(r - 1, c - 1)
      BY AtInside
    <3>2. At(r, c - 1) = i + cols /\ At(r, c - 1) \in 1 .. rows * cols
      <4>1. At(r, c - 1) = At(r, 0) + (c - 1) /\ At(r - 1, c - 1) = At(r - 1, 0) + (c - 1)
            /\ At(r - 1, 0) \in Nat
        BY AtSteps
      <4>2. At((r - 1) + 1, 0) = At(r - 1, 0) + cols
        BY AtSteps
      <4>3. (r - 1) + 1 = r
        OBVIOUS
      <4>4. At(r, c - 1) \in 1 .. rows * cols
        BY AtInside
      <4>5. QED
        BY <3>1, <4>1, <4>2, <4>3, <4>4
    <3>3. Scrolled[i] = cells[i + cols]
      <4> DEFINE rest == SubSeq(cells, cols + 1, rows * cols)
      <4>1. /\ rest \in Seq(Cell) /\ Len(rest) = rows * cols - cols
            /\ rest[i] = cells[i + cols]
        BY <3>1, <3>2, MoreThanARow DEF ScreenOK
      <4>2. BlankRow \in Seq(Cell) /\ Scrolled = rest \o BlankRow
        BY <1>1 DEF Text, Scrolled
      <4> HIDE DEF rest
      <4>3. i \in 1 .. Len(rest)
        BY <3>1, <3>2, <4>1, MoreThanARow
      <4>4. (rest \o BlankRow)[i] = rest[i]
        BY <4>1, <4>2, <4>3
      <4>5. QED
        BY <4>1, <4>2, <4>4
    <3>4. Row(Scrolled, r)[c] = Scrolled[At(r - 1, c - 1)]
      BY <1>1, RowCells
    <3>5. Row(cells, r + 1)[c] = cells[At(r, c - 1)]
      <4>1. (r + 1) - 1 = r /\ r + 1 \in 1 .. rows
        OBVIOUS
      <4>2. Row(cells, r + 1)[c] = cells[At((r + 1) - 1, c - 1)]
        BY <1>1, <4>1, RowCells
      <4>3. QED
        BY <4>1, <4>2
    <3>6. QED
      BY <3>1, <3>2, <3>3, <3>4, <3>5
  <2>2. r \in 1 .. rows /\ r + 1 \in 1 .. rows
    OBVIOUS
  <2>3. QED
    BY <1>1, <2>1, <2>2, RowCells, SameRow
<1>4. Row(Scrolled, rows) = BlankRow
  <2>1. ASSUME NEW c \in 1 .. cols PROVE Row(Scrolled, rows)[c] = BlankRow[c]
    <3>1. At(rows - 1, c - 1) = (rows * cols - cols) + c
      BY AtSteps, MoreThanARow
    <3> DEFINE rest == SubSeq(cells, cols + 1, rows * cols)
    <3>2. rest \in Seq(Cell) /\ Len(rest) = rows * cols - cols
      BY MoreThanARow DEF ScreenOK
    <3>3. BlankRow \in Seq(Cell) /\ Len(BlankRow) = cols /\ Scrolled = rest \o BlankRow
      BY <1>1 DEF Text, Scrolled, BlankRow
    <3> HIDE DEF rest
    <3>4. (rest \o BlankRow)[Len(rest) + c] = BlankRow[c]
      <4>1. PICK n \in Nat : n = Len(rest)
        BY <3>2
      <4>2. c \in 1 .. Len(BlankRow)
        BY <3>3
      <4>3. n + c \in 1 .. Len(rest) + Len(BlankRow) /\ n + c > Len(rest) /\ (n + c) - Len(rest) = c
        BY <4>1, <4>2, <3>3
      <4>4. (rest \o BlankRow)[n + c] = BlankRow[(n + c) - Len(rest)]
        BY <3>2, <3>3, <4>3
      <4>5. QED
        BY <4>1, <4>3, <4>4
    <3>5. Row(Scrolled, rows)[c] = Scrolled[At(rows - 1, c - 1)]
      BY <1>1, RowCells
    <3>6. QED
      BY <3>1, <3>2, <3>3, <3>4, <3>5
  <2>2. BlankRow \in [1 .. cols -> Cell]
    BY DEF BlankRow, Cell
  <2>3. QED
    BY <1>1, <2>1, <2>2, RowCells, SameRow
<1>5. /\ page \in Seq(Text) /\ Len(page) = Len(scrolled) + rows
      /\ \A k \in 1 .. Len(scrolled) : page[k] = scrolled[k]
      /\ \A r \in 1 .. rows : page[Len(scrolled) + r] = Row(cells, r)
  BY <1>1, LinesParts
<1> HIDE DEF page
<1>6. /\ longer \in Seq(Text) /\ Len(longer) = Len(page) + 1 /\ longer[Len(page) + 1] = BlankRow
      /\ \A k \in 1 .. Len(page) : longer[k] = page[k]
  BY <1>1, <1>5
<1>7. /\ Append(scrolled, top) \in Seq(Text) /\ Len(Append(scrolled, top)) = Len(scrolled) + 1
      /\ Append(scrolled, top)[Len(scrolled) + 1] = top
      /\ \A k \in 1 .. Len(scrolled) : Append(scrolled, top)[k] = scrolled[k]
  BY <1>1, <1>2
<1> HIDE DEF longer, top
<1>8. \A k \in 1 .. Len(scrolled) + 1 : longer[k] = Append(scrolled, top)[k]
  <2>1. SUFFICES ASSUME NEW k \in 1 .. Len(scrolled) + 1 PROVE longer[k] = Append(scrolled, top)[k]
    OBVIOUS
  <2>2. CASE k <= Len(scrolled)
    BY <1>1, <1>5, <1>6, <1>7, <2>2
  <2>3. CASE k = Len(scrolled) + 1
    BY <1>1, <1>2, <1>5, <1>6, <1>7, <2>3
  <2>4. QED
    BY <1>1, <2>2, <2>3
<1>9. ASSUME NEW r \in 1 .. rows PROVE longer[(Len(scrolled) + 1) + r] = Row(Scrolled, r)
  <2>1. CASE r < rows
    <3>1. (Len(scrolled) + 1) + r = Len(scrolled) + (r + 1) /\ r + 1 \in 1 .. rows
          /\ r \in 1 .. rows - 1 /\ Len(scrolled) + (r + 1) \in 1 .. Len(page)
      BY <1>1, <1>5, <2>1
    <3>2. longer[Len(scrolled) + (r + 1)] = Row(cells, r + 1)
      BY <1>5, <1>6, <3>1
    <3>3. QED
      BY <1>3, <3>1, <3>2
  <2>2. CASE r = rows
    <3>1. (Len(scrolled) + 1) + r = Len(page) + 1
      BY <1>1, <1>5, <2>2
    <3>2. QED
      BY <1>4, <1>6, <2>2, <3>1
  <2>3. QED
    BY <2>1, <2>2
<1>10. Len(longer) = Len(Append(scrolled, top)) + rows
  BY <1>1, <1>5, <1>6, <1>7
<1>11. \A r \in 1 .. rows : longer[Len(Append(scrolled, top)) + r] = Row(Scrolled, r)
  BY <1>7, <1>9
<1>12. \A k \in 1 .. Len(Append(scrolled, top)) : longer[k] = Append(scrolled, top)[k]
  BY <1>7, <1>8
<1>13. Lines(Append(scrolled, top), Scrolled) = longer
  BY <1>1, <1>6, <1>7, <1>10, <1>11, <1>12, LinesAre
<1>14. QED
  BY <1>1, <1>13 DEF longer, page, top
(* A blank row is a row.                                                   *)
LEMMA BlankRowType == BlankRow \in Text /\ BlankRow \in [1 .. cols -> Cell]
BY DEF BlankRow, Text, Cell

(* Erasing to the end of a row, and everything.                            *)
LEMMA ErasedRow ==
  ASSUME NEW sc \in Seq(Text), NEW cs \in Grids, NEW r \in 0 .. rows - 1, NEW c \in 0 .. cols,
         NEW ds \in Grids,
         \A i \in 1 .. rows * cols :
           ds[i] = IF i \in At(r, c) .. At(r, cols - 1) THEN Blank ELSE cs[i],
         NEW l, l = Len(sc) + r + 1
  PROVE  Lines(sc, ds) = Cleared(Lines(sc, cs), l, c)
<1>1. DOMAIN cs = 1 .. rows * cols
  BY DEF Grids
<1>2. PICK y \in Nat : y = At(r, 0)
  BY AtSteps
<1>3. At(r, c) = y + c /\ At(r, cols - 1) = y + (cols - 1)
  <2>1. cols - 1 \in 0 .. cols
    OBVIOUS
  <2>2. At(r, c) = At(r, 0) + c /\ At(r, cols - 1) = At(r, 0) + (cols - 1)
    BY <2>1, AtSteps
  <2>3. QED
    BY <1>2, <2>2
<1>4. ASSUME NEW q \in 0 .. rows - 1, NEW d \in 0 .. cols - 1
      PROVE  ds[At(q, d)] = IF q = r /\ d >= c THEN Blank ELSE cs[At(q, d)]
  <2>1. PICK x \in Nat : x = At(q, 0)
    BY AtSteps
  <2>2. At(q, d) = x + d /\ At(q, d) \in 1 .. rows * cols
    <3>1. d \in 0 .. cols
      OBVIOUS
    <3>2. At(q, d) = At(q, 0) + d
      BY <3>1, AtSteps
    <3>3. At(q, d) \in 1 .. rows * cols
      BY AtInside
    <3>4. QED
      BY <2>1, <3>2, <3>3
  <2>3. q < r => x + cols <= y
    BY <1>2, <2>1, RowsApart
  <2>4. r < q => y + cols <= x
    BY <1>2, <2>1, RowsApart
  <2>5. q = r => x = y
    BY <1>2, <2>1
  <2>6. (x + d \in (y + c) .. (y + (cols - 1))) <=> (q = r /\ d >= c)
    BY <2>3, <2>4, <2>5
  <2>7. ds[At(q, d)] = IF At(q, d) \in At(r, c) .. At(r, cols - 1) THEN Blank ELSE cs[At(q, d)]
    BY <1>1, <2>2
  <2>8. QED
    BY <1>3, <2>2, <2>6, <2>7
<1>5. ASSUME NEW q \in 1 .. rows, q # r + 1 PROVE Row(ds, q) = Row(cs, q)
  <2>1. ASSUME NEW d \in 1 .. cols PROVE Row(ds, q)[d] = Row(cs, q)[d]
    <3>1. q - 1 \in 0 .. rows - 1 /\ d - 1 \in 0 .. cols - 1 /\ q - 1 # r
      BY <1>5
    <3>2. ds[At(q - 1, d - 1)] = cs[At(q - 1, d - 1)]
      BY <1>4, <3>1
    <3>3. QED
      BY <3>2, RowCells
  <2>2. QED
    BY <2>1, RowCells, SameRow
<1> DEFINE page == Lines(sc, cs)
           new == [d \in 1 .. cols |-> IF d > c THEN Blank ELSE page[l][d]]
<1>6. r + 1 \in 1 .. rows /\ Len(sc) + (r + 1) = l
  OBVIOUS
<1>7. page[l] = Row(cs, r + 1)
  <2>1. page[Len(sc) + (r + 1)] = Row(cs, r + 1)
    BY <1>6, LinesParts
  <2>2. QED
    BY <1>6, <2>1
<1>8. Row(ds, r + 1) = new
  <2>1. ASSUME NEW d \in 1 .. cols PROVE Row(ds, r + 1)[d] = new[d]
    <3>1. (r + 1) - 1 = r /\ d - 1 \in 0 .. cols - 1 /\ (d - 1 >= c <=> d > c)
      OBVIOUS
    <3>2. /\ Row(ds, r + 1)[d] = ds[At((r + 1) - 1, d - 1)]
          /\ Row(cs, r + 1)[d] = cs[At((r + 1) - 1, d - 1)]
      BY <1>6, RowCells
    <3>3. Row(ds, r + 1)[d] = IF d > c THEN Blank ELSE Row(cs, r + 1)[d]
      BY <1>4, <3>1, <3>2
    <3>4. QED
      BY <1>7, <3>3
  <2>2. new \in [1 .. cols -> Cell]
    <3>1. \A d \in 1 .. cols : page[l][d] \in Cell
      BY <1>6, <1>7, RowCells
    <3>2. QED
      BY <3>1 DEF Cell
  <2> HIDE DEF new
  <2>3. Row(ds, r + 1) \in [1 .. cols -> Cell]
    BY <1>6, RowCells
  <2>4. QED
    BY <2>1, <2>2, <2>3, SameRow
<1>9. Lines(sc, ds) = Relined(Lines(sc, cs), Len(sc) + (r + 1), Row(ds, r + 1))
  <2>1. PICK p \in 1 .. rows : p = r + 1
    BY <1>6
  <2>2. \A q \in 1 .. rows : q # p => Row(ds, q) = Row(cs, q)
    BY <1>5, <2>1
  <2>3. Lines(sc, ds) = Relined(Lines(sc, cs), Len(sc) + p, Row(ds, p))
    BY <2>2, RowChanges
  <2>4. QED
    BY <2>1, <2>3
<1>10. Lines(sc, ds) = [page EXCEPT ![l] = new]
  BY <1>6, <1>8, <1>9 DEF Relined
<1>11. QED
  BY <1>10 DEF Cleared

(* The whole screen.                                                       *)
LEMMA ErasedAll ==
  ASSUME NEW sc \in Seq(Text), NEW cs \in Grids, NEW ds \in Grids, ds = [i \in DOMAIN cs |-> Blank],
         NEW page, page = Lines(sc, cs)
  PROVE  Lines(sc, ds)
           = [l \in DOMAIN page |-> IF l \in Len(page) - rows + 1 .. Len(page) THEN BlankRow
                                    ELSE page[l]]
<1> DEFINE next == [l \in DOMAIN page |-> IF l \in Len(page) - rows + 1 .. Len(page) THEN BlankRow
                                          ELSE page[l]]
<1>1. /\ page \in Seq(Text) /\ Len(page) = Len(sc) + rows /\ Len(sc) \in Nat
      /\ DOMAIN page = 1 .. Len(sc) + rows
      /\ \A k \in 1 .. Len(sc) : page[k] = sc[k]
  <2>1. /\ Lines(sc, cs) \in Seq(Text) /\ Len(Lines(sc, cs)) = Len(sc) + rows
        /\ \A k \in 1 .. Len(sc) : Lines(sc, cs)[k] = sc[k]
    BY LinesParts, Zenon
  <2>2. page \in Seq(Text) /\ Len(page) = Len(sc) + rows
    BY <2>1, Zenon
  <2>3. DOMAIN page = 1 .. Len(page) /\ Len(sc) \in Nat
    BY <2>2
  <2>4. QED
    BY <2>1, <2>2, <2>3, Zenon
<1>2. BlankRow \in Text
  BY BlankRowType, Zenon
<1>3. /\ \A k \in 1 .. Len(sc) : next[k] = sc[k]
      /\ \A r \in 1 .. rows : next[Len(sc) + r] = BlankRow
  BY <1>1
<1>4. next \in Seq(Text) /\ Len(next) = Len(sc) + rows
  <2>1. next \in [1 .. Len(sc) + rows -> Text]
    BY <1>1, <1>2
  <2>2. PICK n \in Nat : n = Len(sc) + rows
    BY <1>1
  <2> HIDE DEF next
  <2>3. next \in [1 .. n -> Text]
    BY <2>1, <2>2, Zenon
  <2>4. next \in Seq(Text) /\ Len(next) = n
    BY <2>3
  <2>5. QED
    BY <2>2, <2>4, Zenon
<1>5. ASSUME NEW r \in 1 .. rows PROVE Row(ds, r) = BlankRow
  <2>1. ASSUME NEW c \in 1 .. cols PROVE Row(ds, r)[c] = BlankRow[c]
    <3>1. DOMAIN cs = 1 .. rows * cols /\ At(r - 1, c - 1) \in 1 .. rows * cols
      BY AtInside DEF Grids
    <3>2. ds[At(r - 1, c - 1)] = Blank
      BY <3>1
    <3>3. QED
      BY <3>2, RowCells DEF BlankRow
  <2>2. BlankRow \in [1 .. cols -> Cell]
    BY DEF BlankRow, Cell
  <2>3. QED
    BY <2>1, <2>2, RowCells, SameRow
<1> HIDE DEF next
<1>6. \A r \in 1 .. rows : next[Len(sc) + r] = Row(ds, r)
  BY <1>3, <1>5
<1>7. Lines(sc, ds) = next
  BY <1>3, <1>4, <1>6, LinesAre
<1>8. QED
  BY <1>7 DEF next

(* What the next row and what is above it show, whether or not the screen  *)
(* scrolls.                                                                *)
LEMMA BelowLines ==
  ASSUME ScreenOK
  PROVE  /\ Below \in Grids /\ Leaving \in Seq(Text)
         /\ Lines(Leaving, Below) = Page!Longer
         /\ Len(Leaving) + NextRow + 1 = Len(scrolled) + cursor_row + 1 + 1
<1>1. /\ Below \in Grids /\ Leaving \in Seq(Text)
      /\ cells \in Grids /\ scrolled \in Seq(Text) /\ Len(scrolled) \in Nat
      /\ cursor_row \in 0 .. rows - 1
  BY BelowType DEF ScreenOK, Grids, Text
<1>2. Page!Longer = IF Len(scrolled) + cursor_row + 1 < Len(Lines(scrolled, cells))
                    THEN Lines(scrolled, cells) ELSE Append(Lines(scrolled, cells), BlankRow)
  BY DEF Page!Longer, Page!BlankLine, Page!Blank, BlankRow, Blank, Lines, Row
<1>3. Len(Lines(scrolled, cells)) = Len(scrolled) + rows
  BY <1>1, LinesParts
<1>4. (Len(scrolled) + cursor_row + 1 < Len(Lines(scrolled, cells))) <=> ~AtBottom
  BY <1>1, <1>3 DEF AtBottom
<1>5. CASE AtBottom
  <2>1. Below = Scrolled /\ NextRow = cursor_row /\ Leaving = Append(scrolled, SubSeq(cells, 1, cols))
    BY <1>5 DEF Below, NextRow, Leaving
  <2>2. SubSeq(cells, 1, cols) \in Text
    BY ScrolledType DEF ScreenOK, Text
  <2>3. Len(Leaving) = Len(scrolled) + 1
    BY <1>1, <2>1, <2>2
  <2>4. QED
    BY <1>1, <1>2, <1>4, <1>5, <2>1, <2>3, ScrolledLines
<1>6. CASE ~AtBottom
  <2>1. Below = cells /\ NextRow = cursor_row + 1 /\ Leaving = scrolled
    BY <1>6 DEF Below, NextRow, Leaving
  <2>2. QED
    BY <1>1, <1>2, <1>4, <1>6, <2>1
<1>7. QED
  BY <1>5, <1>6

-----------------------------------------------------------------------------
(* What each operation does to the page.                                   *)

(* One character put,                                                      *)
LEMMA PutShown ==
  ASSUME NEW page, NEW l, NEW c, NEW x, Lines(scrolled', cells') = Retyped(page, l, c, x),
         Len(scrolled') + cursor_row' + 1 = l, cursor_col' = c + 1
  PROVE  Page!Put(page, l, c, x)
BY DEF Page!Put, Lines, Row, Retyped

(* which is what a character of the shell does,                            *)
LEMMA WriteCharShown ==
  ASSUME ScreenOK, NEW b \in Bytes \ Controls, write_char(b)
  PROVE  Page!Type
<1>1. /\ cells \in Grids /\ scrolled \in Seq(Text) /\ b \in Cell
      /\ cursor_row \in 0 .. rows - 1 /\ cursor_col \in 0 .. cols
  BY DEF ScreenOK, Grids, Text, Cell
<1>2. CASE cursor_col < cols
  <2> DEFINE l == Len(scrolled) + cursor_row + 1
  <2>1. /\ cells' = Cells(cells, cursor_row, cursor_col, b) /\ scrolled' = scrolled
        /\ cursor_row' = cursor_row /\ cursor_col' = cursor_col + 1
        /\ cursor_col \in 0 .. cols - 1
    BY <1>1, <1>2 DEF write_char, Cells
  <2>2. Lines(scrolled, Cells(cells, cursor_row, cursor_col, b))
          = Retyped(Lines(scrolled, cells), l, cursor_col, b)
    BY <1>1, <2>1, WrittenLines
  <2>3. Page!Put(Lines(scrolled, cells), l, cursor_col, b)
    BY <2>1, <2>2, PutShown
  <2>4. QED
    BY <1>2, <2>3 DEF Page!Type, Lines, Row
<1>3. CASE ~(cursor_col < cols)
  <2> DEFINE l == Len(scrolled) + cursor_row + 1 + 1
  <2>1. /\ Below \in Grids /\ Leaving \in Seq(Text) /\ NextRow \in 0 .. rows - 1
        /\ Lines(Leaving, Below) = Page!Longer /\ l = Len(Leaving) + NextRow + 1
    BY BelowLines, BelowType
  <2>2. /\ cells' = Cells(Below, NextRow, 0, b) /\ scrolled' = Leaving
        /\ cursor_row' = NextRow /\ cursor_col' = 0 + 1 /\ 0 \in 0 .. cols - 1
    BY <1>3 DEF write_char, Cells
  <2>3. Lines(Leaving, Cells(Below, NextRow, 0, b)) = Retyped(Lines(Leaving, Below), l, 0, b)
    BY <1>1, <2>1, <2>2, WrittenLines
  <2>4. Page!Put(Page!Longer, l, 0, b)
    BY <2>1, <2>2, <2>3, PutShown
  <2>5. QED
    BY <1>3, <2>4 DEF Page!Type
<1>4. QED
  BY <1>2, <1>3
(* a move,                                                                 *)
LEMMA MoveShown ==
  ASSUME cells \in Grids, scrolled \in Seq(Text), UNCHANGED <<cells, scrolled>>,
         cursor_row' \in 0 .. rows - 1, cursor_col' \in 0 .. cols - 1
  PROVE  Page!Move
<1>1. PICK n \in Nat : n = Len(scrolled) /\ Len(Lines(scrolled, cells)) = n + rows
  BY LinesParts
<1>2. n + cursor_row' + 1 \in (n + rows) - rows + 1 .. n + rows
  <2>1. PICK q \in 0 .. rows - 1 : q = cursor_row'
    OBVIOUS
  <2>2. n + q + 1 \in (n + rows) - rows + 1 .. n + rows
    OBVIOUS
  <2>3. QED
    BY <2>1, <2>2
<1>3. Len(scrolled') + cursor_row' + 1
        \in Len(Lines(scrolled, cells)) - rows + 1 .. Len(Lines(scrolled, cells))
  BY <1>1, <1>2
<1>4. QED
  BY <1>3 DEF Page!Move, Page!Screen, Lines, Row

(* the controls,                                                           *)
LEMMA ControlShown ==
  ASSUME ScreenOK
  PROVE  /\ line_feed => Page!NewLine
         /\ carriage_return \/ tab => Page!Move
         /\ backspace => Page!BackSpace \/ UNCHANGED screenVars
<1>1. /\ cells \in Grids /\ scrolled \in Seq(Text) /\ Len(scrolled) \in Nat
      /\ cursor_row \in 0 .. rows - 1 /\ cursor_col \in 0 .. cols
  BY DEF ScreenOK, Grids, Text
<1>2. ASSUME line_feed PROVE Page!NewLine
  <2>1. /\ cells' = Below /\ scrolled' = Leaving /\ cursor_row' = NextRow /\ cursor_col' = 0
    BY <1>2 DEF line_feed
  <2>2. Lines(scrolled', cells') = Page!Longer
    BY <2>1, BelowLines
  <2>3. Len(scrolled') + cursor_row' + 1 = Len(scrolled) + cursor_row + 1 + 1
    BY <2>1, BelowLines
  <2>4. QED
    BY <2>1, <2>2, <2>3 DEF Page!NewLine, Lines, Row
<1>3. ASSUME carriage_return \/ tab PROVE Page!Move
  <2>1. cursor_col' \in 0 .. cols - 1 /\ UNCHANGED <<cells, cursor_row, scrolled>>
    BY <1>3, KeptOnGrid DEF carriage_return, tab
  <2>2. QED
    BY <1>1, <2>1, MoveShown
<1>4. ASSUME backspace PROVE Page!BackSpace \/ UNCHANGED screenVars
  <2>1. CASE cursor_col = 0
    BY <1>4, <2>1 DEF backspace
  <2>2. CASE cursor_col # 0
    <3> DEFINE l == Len(scrolled) + cursor_row + 1
    <3>1. PICK c \in 0 .. cols - 1 : c = cursor_col - 1 /\ c + 1 = cursor_col
      BY <1>1, <2>2
    <3>2. /\ cells' = Cells(cells, cursor_row, c, Blank) /\ cursor_col' = c
          /\ UNCHANGED <<cursor_row, scrolled>> /\ Blank \in Cell
      BY <1>4, <2>2, <3>1 DEF backspace, Cells, Cell
    <3>3. Lines(scrolled, Cells(cells, cursor_row, c, Blank))
            = Retyped(Lines(scrolled, cells), l, c, Blank)
      BY <1>1, <3>2, WrittenLines
    <3>4. Lines(scrolled', cells') = Retyped(Lines(scrolled, cells), l, c, Blank)
      BY <3>2, <3>3
    <3>5. Retyped(Lines(scrolled, cells), l, c, Blank)
            = [Lines(scrolled, cells) EXCEPT ![l][cursor_col] = Blank]
      BY <3>1 DEF Retyped
    <3>6. cursor_col > 0 /\ cursor_col' = cursor_col - 1
          /\ Len(scrolled') + cursor_row' + 1 = Len(scrolled) + cursor_row + 1
          /\ Lines(scrolled', cells') = [Lines(scrolled, cells) EXCEPT ![l][cursor_col] = Blank]
      BY <1>1, <2>2, <3>1, <3>2, <3>4, <3>5
    <3>7. Page!BackSpace
      BY <3>6 DEF Page!BackSpace, Page!Blank, Blank, Lines, Row
    <3>8. QED
      BY <3>7
  <2>3. QED
    BY <2>1, <2>2
<1>5. QED
  BY <1>2, <1>3, <1>4

(* and the escape sequences.                                               *)
LEMMA EscapeShown ==
  ASSUME ScreenOK, ScreenOK', NEW params
  PROVE  /\ cursor_position(params) => Page!Move
         /\ erase_display(params) => Page!EraseScreen \/ UNCHANGED screenVars
         /\ erase_line => Page!EraseRest
<1>1. /\ cells \in Grids /\ cells' \in Grids /\ scrolled \in Seq(Text) /\ Len(scrolled) \in Nat
      /\ cursor_row \in 0 .. rows - 1 /\ cursor_col \in 0 .. cols
  BY DEF ScreenOK, Grids, Text
<1>2. ASSUME cursor_position(params) PROVE Page!Move
  <2>1. cursor_row' \in 0 .. rows - 1 /\ cursor_col' \in 0 .. cols - 1
        /\ UNCHANGED <<cells, scrolled>>
    BY <1>2, KeptOnGrid DEF cursor_position, Coordinate
  <2>2. QED
    BY <1>1, <2>1, MoveShown
<1>3. ASSUME erase_display(params) PROVE Page!EraseScreen \/ UNCHANGED screenVars
  <2> SUFFICES ASSUME cells' = [i \in DOMAIN cells |-> Blank], cursor_row' = 0, cursor_col' = 0,
                      scrolled' = scrolled
               PROVE  Page!EraseScreen
    BY <1>3 DEF erase_display
  <2>1. PICK page : page = Lines(scrolled, cells)
    OBVIOUS
  <2>2. Lines(scrolled, cells')
          = [l \in DOMAIN page |-> IF l \in Len(page) - rows + 1 .. Len(page) THEN BlankRow
                                   ELSE page[l]]
    BY <1>1, <2>1, ErasedAll
  <2>3. Len(page) = Len(scrolled) + rows
    BY <1>1, <2>1, LinesParts
  <2>4. Len(scrolled) + 0 + 1 = Len(page) - rows + 1
    BY <1>1, <2>3
  <2>5. QED
    BY <2>1, <2>2, <2>4
       DEF Page!EraseScreen, Page!Screen, Page!BlankLine, Page!Blank, BlankRow, Blank, Lines, Row
<1>4. ASSUME erase_line PROVE Page!EraseRest
  <2> DEFINE l == Len(scrolled) + cursor_row + 1
  <2>1. cells' = [i \in DOMAIN cells |->
                    IF i \in At(cursor_row, cursor_col) .. At(cursor_row, cols - 1) THEN Blank
                    ELSE cells[i]]
        /\ UNCHANGED <<cursor_row, cursor_col, scrolled>>
    BY <1>4 DEF erase_line, cursorVars
  <2>2. \A i \in 1 .. rows * cols :
          cells'[i] = IF i \in At(cursor_row, cursor_col) .. At(cursor_row, cols - 1) THEN Blank
                      ELSE cells[i]
    <3>1. DOMAIN cells = 1 .. rows * cols
      BY <1>1 DEF Grids
    <3>2. QED
      BY <2>1, <3>1
  <2>3. Lines(scrolled, cells') = Cleared(Lines(scrolled, cells), l, cursor_col)
    BY <1>1, <2>2, ErasedRow
  <2>4. QED
    BY <2>1, <2>3 DEF Cleared, Page!EraseRest, Page!Blank, Blank, Lines, Row
<1>5. QED
  BY <1>2, <1>3, <1>4

(* The flat cells show the last rows of an endless page, whatever bytes    *)
(* come: every step is one of those Page allows, or leaves the page as it  *)
(* is.  In particular nothing that scrolled away ever changes.             *)
THEOREM ScreenShowsPage == GridSpec => ShowsThePage
<1>1. GridInit => Page!PageInit
  <2> SUFFICES ASSUME GridInit PROVE Page!PageInit
    OBVIOUS
  <2>1. scrolled = <<>> /\ scrolled \in Seq(Text) /\ Len(scrolled) = 0
        /\ cells = [i \in 1 .. rows * cols |-> Blank] /\ cursor_row = 0 /\ cursor_col = 0
    BY DEF GridInit
  <2>2. cells \in Grids
    <3>1. cells \in [1 .. rows * cols -> Cell]
      BY <2>1 DEF Cell
    <3>2. QED
      BY <3>1, MoreThanARow DEF Grids
  <2> DEFINE page == [r \in 1 .. rows |-> BlankRow]
  <2>3. page \in Seq(Text) /\ Len(page) = rows /\ \A r \in 1 .. rows : page[r] = BlankRow
    <3>1. page \in [1 .. rows -> Text] /\ \A r \in 1 .. rows : page[r] = BlankRow
      BY BlankRowType
    <3> HIDE DEF page
    <3>2. QED
      BY <3>1
  <2> HIDE DEF page
  <2>4. ASSUME NEW r \in 1 .. rows PROVE Row(cells, r) = BlankRow
    <3>1. ASSUME NEW c \in 1 .. cols PROVE Row(cells, r)[c] = BlankRow[c]
      <4>1. At(r - 1, c - 1) \in 1 .. rows * cols
        BY AtInside
      <4>2. cells[At(r - 1, c - 1)] = Blank
        BY <2>1, <4>1
      <4>3. QED
        BY <2>2, <4>2, RowCells DEF BlankRow
    <3>2. QED
      BY <2>2, <3>1, BlankRowType, RowCells, SameRow
  <2>5. \A r \in 1 .. rows : page[Len(scrolled) + r] = Row(cells, r)
    BY <2>1, <2>3, <2>4
  <2>6. \A k \in 1 .. Len(scrolled) : page[k] = scrolled[k]
    BY <2>1
  <2>7. Len(page) = Len(scrolled) + rows
    BY <2>1, <2>3
  <2>8. Lines(scrolled, cells) = page
    BY <2>1, <2>2, <2>3, <2>5, <2>6, <2>7, LinesAre
  <2>9. Lines(scrolled, cells) = [r \in 1 .. rows |-> BlankRow]
        /\ Len(scrolled) + cursor_row + 1 = 1 /\ cursor_col = 0
    BY <2>1, <2>8 DEF page
  <2>10. QED
    BY <2>9
       DEF Page!PageInit, Page!BlankLine, Page!Blank, BlankRow, Blank, Lines, Row
<1>2. GridTypeOK /\ GridTypeOK' /\ [GridNext]_gridVars => [Page!PageNext]_(Page!pageVars)
  <2> SUFFICES ASSUME GridTypeOK, GridTypeOK', [GridNext]_gridVars
               PROVE  Page!PageNext \/ UNCHANGED Page!pageVars
    OBVIOUS
  <2>1. ScreenOK /\ ScreenOK'
    BY DEF GridTypeOK, ScreenOK, Cell
  <2>2. UNCHANGED screenVars => UNCHANGED Page!pageVars
    BY DEF screenVars, cursorVars, Page!pageVars
  <2>3. ASSUME NEW b \in Bytes, Plain(b) PROVE Page!PageNext \/ UNCHANGED screenVars
    <3>1. CASE b \notin Controls /\ write_char(b)
      BY <2>1, <3>1, WriteCharShown DEF Page!PageNext
    <3>2. CASE line_feed \/ carriage_return \/ backspace \/ tab
      BY <2>1, <3>2, ControlShown DEF Page!PageNext
    <3>3. CASE UNCHANGED screenVars
      BY <3>3
    <3>4. QED
      BY <2>3, <3>1, <3>2, <3>3, Zenon DEF Plain
  <2>4. ASSUME NEW seq, process_escape_sequence(seq) PROVE Page!PageNext \/ UNCHANGED screenVars
    <3>1. PICK params : \/ cursor_position(params) \/ erase_display(params) \/ erase_line
                        \/ UNCHANGED screenVars
      BY <2>4, Zenon DEF process_escape_sequence
    <3>2. QED
      BY <2>1, <3>1, EscapeShown DEF Page!PageNext
  <2>5. ASSUME NEW b \in Bytes, write_byte(b) PROVE Page!PageNext \/ UNCHANGED screenVars
    <3>1. \/ Plain(b) \/ process_escape_sequence(Append(escape_buf, b)) \/ UNCHANGED screenVars
      BY <2>5, Zenon DEF write_byte
    <3>2. QED
      BY <2>3, <2>4, <3>1
  <2>6. CASE UNCHANGED gridVars
    BY <2>2, <2>6 DEF gridVars
  <2>7. QED
    BY <2>2, <2>5, <2>6 DEF GridNext
<1>3. QED
  BY <1>1, <1>2, GridTypeCorrect, PTL DEF GridSpec, ShowsThePage, Page!PageSpec
=============================================================================
