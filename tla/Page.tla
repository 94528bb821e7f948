-------------------------------- MODULE Page --------------------------------
(***************************************************************************)
(* What a terminal's screen promises: it is the last `rows` lines of an    *)
(* endless page.  A character goes to the cursor, or to the start of the   *)
(* next line when the cursor is past the end of its own; a new line at the *)
(* bottom lengthens the page; the cursor moves and characters are erased   *)
(* only on the screen, never on a line that has scrolled away.             *)
(***************************************************************************)
EXTENDS Integers, Sequences

CONSTANTS cols, rows, Chars

VARIABLES
  lines,      \* the page, line by line
  line, col   \* the cursor: its line, and the columns before it

pageVars == <<lines, line, col>>

Blank == " "
BlankLine == [c \in 1 .. cols |-> Blank]
Screen == Len(lines) - rows + 1 .. Len(lines)

PageInit == lines = [r \in 1 .. rows |-> BlankLine] /\ line = 1 /\ col = 0

\* The page with the character, its line, and the column after it.
Put(page, l, c, char) == lines' = [page EXCEPT ![l][c + 1] = char] /\ line' = l /\ col' = c + 1

Longer == IF line < Len(lines) THEN lines ELSE Append(lines, BlankLine)

Type == \E char \in Chars :
  IF col < cols THEN Put(lines, line, col, char) ELSE Put(Longer, line + 1, 0, char)

NewLine == lines' = Longer /\ line' = line + 1 /\ col' = 0

BackSpace ==
  /\ col > 0 /\ col' = col - 1
  /\ lines' = [lines EXCEPT ![line][col] = Blank]
  /\ UNCHANGED line

Move == line' \in Screen /\ col' \in 0 .. cols - 1 /\ UNCHANGED lines

EraseScreen ==
  /\ lines' = [l \in DOMAIN lines |-> IF l \in Screen THEN BlankLine ELSE lines[l]]
  /\ line' = Len(lines) - rows + 1 /\ col' = 0

EraseRest ==
  /\ lines' = [lines EXCEPT ![line] = [c \in 1 .. cols |-> IF c > col THEN Blank ELSE @[c]]]
  /\ UNCHANGED <<line, col>>

PageNext == Type \/ NewLine \/ BackSpace \/ Move \/ EraseScreen \/ EraseRest

PageSpec == PageInit /\ [][PageNext]_pageVars
=============================================================================
