--------------------------------- MODULE Vga ---------------------------------
(***************************************************************************)
(* The text screen of devices/vga.c: characters and control characters are *)
(* put at the cursor, and at the bottom the screen is scrolled.  A         *)
(* character is put with interrupts off, except while the bell sounds.     *)
(*                                                                         *)
(* page is all that has been written since the screen was last cleared,    *)
(* without a bottom; row and column are where the next character goes.     *)
(***************************************************************************)
EXTENDS Naturals, SequencesExt

CONSTANTS COL_CNT, ROW_CNT,
          Tab,           \* columns of a tab stop: 8
          Characters,    \* those that are shown
          Blank,
          MaxRows        \* bound: rows of the page

Rows == 0..(ROW_CNT - 1)
Columns == 0..(COL_CNT - 1)
BlankRow == [x \in Columns |-> Blank]

VARIABLES inited, fb, cx, cy,
          cp,            \* the hardware's cursor
          beeping,
          page, row, column

text == <<page, row, column>>

\* The boot loader has left some text and the cursor.
Init ==
  /\ fb \in [Rows -> {BlankRow} \cup {[BlankRow EXCEPT ![0] = c] : c \in Characters}]
  /\ cp \in 0..(ROW_CNT * COL_CNT - 1)
  /\ inited = FALSE /\ cx = 0 /\ cy = 0 /\ beeping = FALSE
  /\ page = [y \in 1..ROW_CNT |-> fb[y - 1]]
  /\ row = cp \div COL_CNT + 1 /\ column = cp % COL_CNT

\* find_cursor, at the first character; afterwards the kernel's own position.
X == IF inited THEN cx ELSE cp % COL_CNT
Y == IF inited THEN cy ELSE cp \div COL_CNT

clear_row(screen, y) == [screen EXCEPT ![y] = BlankRow]

\* Slip: the last row is scrolled but not cleared.
Scrolled_kept(screen) ==
  [y \in Rows |-> IF y < ROW_CNT - 1 THEN screen[y + 1] ELSE screen[y]]

\* memmove of all rows but the first, then clear_row of the last.
Scrolled(screen) ==
  clear_row([y \in Rows |-> IF y < ROW_CNT - 1 THEN screen[y + 1] ELSE screen[y]], ROW_CNT - 1)

\* move_cursor: the hardware's cursor goes where the kernel's is.
move_cursor(x, y) == cx' = x /\ cy' = y /\ cp' = x + COL_CNT * y

newline(screen) ==
  IF Y + 1 >= ROW_CNT
  THEN move_cursor(0, ROW_CNT - 1) /\ fb' = Scrolled(screen)
  ELSE move_cursor(0, Y + 1) /\ fb' = screen

\* Slip: the cursor may stand behind the last column.
Advance_past(x, screen) ==
  IF x > COL_CNT THEN newline(screen) ELSE move_cursor(x, Y) /\ fb' = screen

Advance(x, screen) ==
  IF x >= COL_CNT THEN newline(screen) ELSE move_cursor(x, Y) /\ fb' = screen

-----------------------------------------------------------------------------
(* What the characters mean on a page without a bottom.                    *)
Grown(p, r) == IF r > Len(p) THEN Append(p, BlankRow) ELSE p
GoTo(p, r, c) ==
  /\ row' = IF c >= COL_CNT THEN r + 1 ELSE r
  /\ column' = IF c >= COL_CNT THEN 0 ELSE c
  /\ page' = Grown(p, row') /\ Len(page') <= MaxRows

vga_putc == inited' = TRUE /\ UNCHANGED beeping

put_character(c) ==
  /\ vga_putc /\ Advance(X + 1, [fb EXCEPT ![Y][X] = c])
  /\ GoTo([page EXCEPT ![row][column] = c], row, column + 1)

put_newline ==
  /\ vga_putc /\ newline(fb)
  /\ GoTo(page, row + 1, 0)

put_formfeed ==    \* cls
  /\ vga_putc /\ move_cursor(0, 0)
  /\ fb' = [y \in Rows |-> BlankRow]
  /\ page' = [y \in 1..ROW_CNT |-> BlankRow] /\ row' = 1 /\ column' = 0

put_backspace ==
  /\ vga_putc /\ move_cursor(IF X > 0 THEN X - 1 ELSE X, Y) /\ UNCHANGED fb
  /\ GoTo(page, row, IF column > 0 THEN column - 1 ELSE 0)

put_return ==
  /\ vga_putc /\ move_cursor(0, Y) /\ UNCHANGED fb
  /\ GoTo(page, row, 0)

put_tab ==
  /\ vga_putc /\ Advance(((X + 1 + Tab - 1) \div Tab) * Tab, fb)
  /\ GoTo(page, row, (column \div Tab + 1) * Tab)

\* The bell: interrupts are as they were while it sounds, so that others may put
\* characters; then the cursor is moved.
put_bell ==
  /\ ~beeping /\ beeping' = TRUE /\ inited' = TRUE
  /\ cx' = X /\ cy' = Y
  /\ UNCHANGED <<fb, cp, text>>

bell_over ==
  /\ beeping /\ beeping' = FALSE
  /\ move_cursor(cx, cy)
  /\ UNCHANGED <<inited, fb, text>>

Next ==
  \/ \E c \in Characters : put_character(c)
  \/ put_newline \/ put_formfeed \/ put_backspace \/ put_return \/ put_tab
  \/ put_bell \/ bell_over
-----------------------------------------------------------------------------
(* The screen shows the last rows of the page, whatever has been scrolled, *)
(* cleared or overwritten: newline "scrolls the screen upward one line"    *)
(* and loses nothing but the top row.                                      *)
ScreenShowsText == \A y \in Rows : fb[y] = page[Len(page) - ROW_CNT + y + 1]

(* The hardware's cursor stands where the next character will appear, and  *)
(* that place is on the screen.                                            *)
CursorShown ==
  /\ X \in Columns /\ Y \in Rows
  /\ cp = column + COL_CNT * (row - 1 - (Len(page) - ROW_CNT))
=============================================================================
