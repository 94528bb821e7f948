-------------------------------- MODULE Grid --------------------------------
(***************************************************************************)
(* The screen of Terminow (src/terminow/src/grid.rs): the bytes of the     *)
(* shell arrive one after another and are put in one flat vector of cells, *)
(* row after row, with a cursor that may stand one past the end of its row *)
(* and an escape sequence collected byte by byte.  It implements Page.     *)
(***************************************************************************)
EXTENDS Integers, Sequences, SequencesExt

CONSTANTS
  cols, rows,  \* of the grid
  TabStop,     \* 8 in the code
  MaxEscape,   \* bytes of an escape sequence before it is given up, 64
  Bytes,       \* bytes the shell sends: characters, and the named controls
  MaxBytes     \* how many (bound)

ASSUME GridAssumption ==
  /\ cols \in Nat \ {0} /\ rows \in Nat \ {0, 1} /\ TabStop \in Nat \ {0}
  /\ MaxEscape \in Nat \ {0} /\ MaxBytes \in Nat

VARIABLES
  cells,                   \* row after row
  cursor_row, cursor_col,
  escape_buf,              \* empty when not in_escape
  written,                 \* bytes so far
  scrolled                 \* the rows that left the screen (history)

cursorVars == <<cursor_row, cursor_col>>
screenVars == <<cells, cursorVars, scrolled>>
gridVars == <<screenVars, escape_buf, written>>

Blank == " "
Controls == {"ESC", "BS", "TAB", "CR", "LF", "BEL"}
Closing == {"H", "f", "J", "K", "m", "~"}   \* letters and the tilde

BlankRow == [c \in 1 .. cols |-> Blank]

\* A column or a row, at most the last one.
Kept(n, size) == IF n \in 0 .. size - 1 THEN n ELSE size - 1

\* The place of a row and a column, both from 0, in `cells`.
At(r, c) == r * cols + c + 1

-----------------------------------------------------------------------------
(* Characters and controls.                                                *)

\* Mutant: as many cells leave as there are rows.
ScrolledByRows == SubSeq(cells, rows + 1, rows * cols) \o [r \in 1 .. rows |-> Blank]

Scrolled == SubSeq(cells, cols + 1, rows * cols) \o BlankRow

AtBottom == cursor_row + 1 >= rows

\* scroll_up, when the cursor cannot go down.
Below == IF AtBottom THEN Scrolled ELSE cells
NextRow == IF AtBottom THEN cursor_row ELSE cursor_row + 1
Leaving == IF AtBottom THEN Append(scrolled, SubSeq(cells, 1, cols)) ELSE scrolled

write_char(b) ==
  IF cursor_col < cols
  THEN /\ cells' = [cells EXCEPT ![At(cursor_row, cursor_col)] = b]
       /\ cursor_col' = cursor_col + 1
       /\ UNCHANGED <<cursor_row, scrolled>>
  ELSE /\ cells' = [Below EXCEPT ![At(NextRow, 0)] = b]
       /\ cursor_row' = NextRow /\ cursor_col' = 1
       /\ scrolled' = Leaving

line_feed ==
  /\ cells' = Below /\ cursor_row' = NextRow /\ cursor_col' = 0
  /\ scrolled' = Leaving

backspace ==
  IF cursor_col = 0 THEN UNCHANGED screenVars
  ELSE /\ cells' = [cells EXCEPT ![At(cursor_row, cursor_col - 1)] = Blank]
       /\ cursor_col' = cursor_col - 1
       /\ UNCHANGED <<cursor_row, scrolled>>

carriage_return == cursor_col' = 0 /\ UNCHANGED <<cells, cursor_row, scrolled>>

tab ==
  /\ cursor_col' = Kept((cursor_col \div TabStop + 1) * TabStop, cols)
  /\ UNCHANGED <<cells, cursor_row, scrolled>>

Plain(b) ==
  \/ b = "LF" /\ line_feed
  \/ b = "CR" /\ carriage_return
  \/ b = "BS" /\ backspace
  \/ b = "TAB" /\ tab
  \/ b \in {"BEL", "ESC"} /\ UNCHANGED screenVars
  \/ b \notin Controls /\ write_char(b)

-----------------------------------------------------------------------------
(* Escape sequences: ESC, [, parameters, and a closing byte.               *)

Digit(b) == CASE b = "0" -> 0 [] b = "1" -> 1 [] b = "2" -> 2 [] b = "3" -> 3 [] OTHER -> -1

\* A parameter that is not a number counts as 1.
Number(p) ==
  IF p = <<>> \/ \E i \in DOMAIN p : Digit(p[i]) < 0 THEN 1
  ELSE FoldLeft(LAMBDA n, b : 10 * n + Digit(b), 0, p)

UpToSemicolon(p) == SubSeq(p, 1, SelectInSeq(p \o <<";">>, LAMBDA b : b = ";") - 1)
PastSemicolon(p) == SubSeq(p, Len(UpToSemicolon(p)) + 2, Len(p))

\* The 0-based coordinate of a parameter, kept on the grid.
Coordinate(p, size) == Kept(IF Number(p) = 0 THEN 0 ELSE Number(p) - 1, size)

cursor_position(params) ==
  /\ cursor_row' = Coordinate(UpToSemicolon(params), rows)
  /\ cursor_col' = Coordinate(UpToSemicolon(PastSemicolon(params)), cols)
  /\ UNCHANGED <<cells, scrolled>>

erase_display(params) ==
  IF params \in {<<"2">>, <<"3">>}
  THEN /\ cells' = [i \in DOMAIN cells |-> Blank]
       /\ cursor_row' = 0 /\ cursor_col' = 0 /\ UNCHANGED scrolled
  ELSE UNCHANGED screenVars

erase_line ==
  /\ cells' = [i \in DOMAIN cells |->
                 IF i \in At(cursor_row, cursor_col) .. At(cursor_row, cols - 1) THEN Blank
                 ELSE cells[i]]
  /\ UNCHANGED <<cursorVars, scrolled>>

process_escape_sequence(seq) ==
  LET params == SubSeq(seq, 3, Len(seq) - 1)
      cmd == IF seq[2] = "[" THEN Last(seq) ELSE "none"
  IN  \/ cmd \in {"H", "f"} /\ cursor_position(params)
      \/ cmd = "J" /\ erase_display(params)
      \/ cmd = "K" /\ erase_line
      \/ cmd \notin {"H", "f", "J", "K"} /\ UNCHANGED screenVars

\* One byte of write_bytes.
write_byte(b) ==
  LET seq == Append(escape_buf, b)
  IN  /\ written < MaxBytes /\ written' = written + 1
      /\ IF escape_buf = <<>>
         THEN Plain(b) /\ escape_buf' = IF b = "ESC" THEN seq ELSE <<>>
         ELSE IF b \in Closing
         THEN process_escape_sequence(seq) /\ escape_buf' = <<>>
         ELSE /\ UNCHANGED screenVars
              /\ escape_buf' = IF Len(seq) > MaxEscape THEN <<>> ELSE seq

-----------------------------------------------------------------------------
GridInit ==
  /\ cells = [i \in 1 .. rows * cols |-> Blank]
  /\ cursor_row = 0 /\ cursor_col = 0 /\ escape_buf = <<>>
  /\ written = 0 /\ scrolled = <<>>

GridNext == \E b \in Bytes : write_byte(b)

GridSpec == GridInit /\ [][GridNext]_gridVars

-----------------------------------------------------------------------------
\* The variables of the grid have their types; the cursor stays on the grid
\* or one past the end of a row, so every index write_bytes forms is inside
\* `cells`.
GridTypeOK ==
  /\ cells \in Seq(Bytes \cup {Blank}) /\ Len(cells) = rows * cols
  /\ cursor_row \in 0 .. rows - 1 /\ cursor_col \in 0 .. cols
  /\ escape_buf \in Seq(Bytes) /\ Len(escape_buf) <= MaxEscape
  /\ written \in 0 .. MaxBytes
  /\ scrolled \in Seq(Seq(Bytes \cup {Blank}))

\* The page: what scrolled away, then the grid row by row.
Page == INSTANCE Page WITH
  Chars <- Bytes \ Controls,
  lines <- scrolled \o [r \in 1 .. rows |-> SubSeq(cells, At(r - 1, 0), At(r - 1, cols - 1))],
  line <- Len(scrolled) + cursor_row + 1,
  col <- cursor_col

\* The flat cells, index by index, are the end of an endless page: every
\* byte, whatever came before it (a row filled to its last column, half an
\* escape sequence, an erasure past the end of a row), does to the screen
\* one of the things Page allows, and nothing to what has scrolled away.
ShowsThePage == Page!PageSpec
=============================================================================
