----------------------------------- MODULE VT ---------------------------------
(***************************************************************************)
(* The terminal that package cio writes to, as far as the program relies   *)
(* on it: a character terminal that obeys the sequences in                 *)
(* src/cio/ansi.go.  Rows that have scrolled off the top are kept, so that *)
(* what the user has seen can be spoken about; the screen is the last      *)
(* Height of the rows.  Columns count from 0, rows from 1.  The cursor is  *)
(* in column Width after a character in the last one, as terminals delay   *)
(* the wrap to the next row until there is a character for it.             *)
(***************************************************************************)
EXTENDS Integers, Sequences

CONSTANTS
    Height, Width,  \* of the screen
    Characters,
    Blank           \* the space

ASSUME ScreenAssumption ==
    Height \in Nat \ {0} /\ Width \in Nat \ {0} /\ Blank \in Characters

Colors == [fg : Nat, bg : Nat]
Cells  == [ch : Characters, color : Colors]
Rows   == [1 .. Width -> Cells]

VTs == [rows : Seq(Rows), x : Nat, y : Nat, pen : Colors, visible : BOOLEAN]

Cell(ch, color) == [ch |-> ch, color |-> color]

\* Of a blank, only the background is seen.
Seen(ch, color) == Cell(ch, IF ch = Blank THEN [color EXCEPT !.fg = 0] ELSE color)

BlankRow(color) == [i \in 1 .. Width |-> Seen(Blank, color)]

AtLeast(a, b) == IF a < b THEN b ELSE a
AtMost(a, b)  == IF a > b THEN b ELSE a

FirstRow(t) == Len(t.rows) - Height + 1

\* The column the cursor is seen in.
Column(t) == AtMost(t.x, Width - 1)

Return(t) == [t EXCEPT !.x = 0]

\* Rows down to y; those that are new are blank.
RowsTo(t, y) ==
    [r \in 1 .. AtLeast(y, Len(t.rows)) |->
        IF r \in DOMAIN t.rows THEN t.rows[r] ELSE BlankRow(t.pen)]

LineFeed(t) == [t EXCEPT !.rows = RowsTo(t, t.y + 1), !.y = @ + 1]

\* How many rows below that of its first cell a line of n cells ends.
RowsDown(n) == AtLeast(0, n - 1) \div Width

\* Characters that are written, going on in the next row after the last column.
Put(t, text) ==
    LET down  == RowsDown(t.x + Len(text))
        rows  == RowsTo(t, t.y + down)
        At(r, i) == (r - t.y) * Width + i - t.x
    IN  [t EXCEPT !.rows = [r \in DOMAIN rows |-> [i \in 1 .. Width |->
                               IF At(r, i) \in DOMAIN text THEN Seen(text[At(r, i)], t.pen)
                               ELSE rows[r][i]]],
                  !.x = @ + Len(text) - down * Width,
                  !.y = @ + down]

Up(t, n)    == [t EXCEPT !.y = AtLeast(@ - n, FirstRow(t))]
Down(t, n)  == [t EXCEPT !.y = AtMost(@ + n, Len(t.rows))]
Left(t, n)  == [t EXCEPT !.x = AtLeast(Column(t) - n, 0)]
Right(t, n) == [t EXCEPT !.x = AtMost(Column(t) + n, Width - 1)]

\* From the cursor to the end of its row, and of the rows below it.
Erase(t, last) ==
    [t EXCEPT !.rows =
        [r \in DOMAIN @ |->
            IF r = t.y THEN [i \in 1 .. Width |->
                                IF i > Column(t) THEN Seen(Blank, t.pen) ELSE @[r][i]]
            ELSE IF r > t.y /\ r <= last THEN BlankRow(t.pen) ELSE @[r]]]

EraseToEnd(t) == Erase(t, t.y)
EraseBelow(t) == Erase(t, Len(t.rows))

\* A part that is 0 stays as it is.
SetPen(t, color) ==
    [t EXCEPT !.pen = [fg |-> IF color.fg = 0 THEN @.fg ELSE color.fg,
                       bg |-> IF color.bg = 0 THEN @.bg ELSE color.bg]]

ShowCursor(t, show) == [t EXCEPT !.visible = show]

=============================================================================
