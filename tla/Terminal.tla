------------------------------- MODULE Terminal -------------------------------
(***************************************************************************)
(* What package cio draws on a terminal: src/cio/ansi.go, screenbuf.go,    *)
(* and the drawing of the command line and the field editors.  The program *)
(* never reads the screen; it keeps beliefs about it (where the cursor is, *)
(* the color, the frame that was painted last) and writes what makes the   *)
(* difference.  cio.vt is the terminal itself.                             *)
(*                                                                         *)
(* Each operator on the variables p of the program gives the new ones,     *)
(* with the terminal as it is when what they write has been written.       *)
(***************************************************************************)
EXTENDS VT

CONSTANTS
    Gap,            \* how many unchanged characters are skipped (7 in the code)
    Prompt,         \* "packet>"
    Label,          \* of the field that is edited
    Offered,        \* its entry area and its choices, with their places: [text, x, y]
    Pieces,         \* texts that are shown, in three parts of which the second is selected
    Texts,          \* what is printed in one go
    MaxLines,       \* bound on the lines of a value
    MaxRows         \* bound on the rows ever used

VARIABLES
    cio,            \* the variables of package cio, and the terminal it writes to
    mode,           \* what is on the screen besides what stays there
    frame,          \* history: what it should look like, a sequence of rows
    cursor,         \* history: where its cursor should be; <<>> if hidden
    log             \* history: the rows that stay

vars == <<cio, mode, frame, cursor, log>>

colorNormal   == [fg |-> 254, bg |-> 16]
colorLabel    == [fg |-> 51, bg |-> 16]
colorError    == [fg |-> 202, bg |-> 16]
colorEntry    == [fg |-> 231, bg |-> 238]
colorSelected == [fg |-> 16, bg |-> 254]
colorHelp     == [fg |-> 254, bg |-> 30]
NoColor       == [fg |-> 0, bg |-> 0]

Modes == {"command", "oneline", "multiline", "choices"}

entryx == Len(Label) + 2
TextX  == Len(Prompt) + 1

Textual == Seq(Characters)

ASSUME TextAssumption ==
    /\ Prompt \in Textual /\ TextX < Width
    /\ Label \in Textual /\ entryx < Width
    /\ Texts \subseteq Textual
    /\ Pieces \subseteq Textual \X Textual \X Textual
    /\ Gap \in Nat /\ MaxLines \in Nat

\* Frames are no taller than the screen, and leave four columns for a value.
ASSUME FrameAssumption == MaxLines < Height /\ 4 < Width

\* Choices stand in the order of reading, apart, and within the screen, the entry
\* area first (choicesLayout).
ASSUME OfferedAssumption ==
    /\ Offered \in Seq([text : Textual, x : Nat, y : Nat]) /\ Offered # <<>>
    /\ Offered[1].x = entryx /\ Offered[1].y = 0
    /\ \A i \in DOMAIN Offered :
          /\ Offered[i].x + Len(Offered[i].text) < Width /\ Offered[i].y < Height
          /\ i # 1 => Offered[i].y <= Offered[i - 1].y + 1
          /\ \A j \in 1 .. i - 1 :
                \/ Offered[j].y < Offered[i].y
                \/ /\ Offered[j].y = Offered[i].y
                   /\ Offered[j].x + Len(Offered[j].text) <= Offered[i].x

-----------------------------------------------------------------------------
(* ansi.go                                                                 *)

Meant(color) ==
    [fg |-> IF color.fg = 0 THEN colorNormal.fg ELSE color.fg,
     bg |-> IF color.bg = 0 THEN colorNormal.bg ELSE color.bg]

setColor(p, color) ==
    LET c       == Meant(color)
        changed == [fg |-> IF c.fg = p.lastColor.fg THEN 0 ELSE c.fg,
                    bg |-> IF c.bg = p.lastColor.bg THEN 0 ELSE c.bg]
    IN  IF c = p.lastColor THEN p
        ELSE [p EXCEPT !.vt = SetPen(@, changed), !.lastColor = c]

clearToEOL(p) == [setColor(p, NoColor) EXCEPT !.vt = EraseToEnd(@)]

Initial(t) ==
    [curX |-> 0, curY |-> 0, lastColor |-> NoColor, hideCursor |-> FALSE,
     haveStatus |-> FALSE, buf |-> <<>>, vt |-> t]

Cleared(p) ==
    LET q == setColor([p EXCEPT !.vt = Return(@)], colorNormal)
    IN  ShowCursor(EraseBelow(q.vt), TRUE)

\* Mutant: the cursor is shown and still believed hidden.
cleanTerminalHidden(p) == [Initial(Cleared(p)) EXCEPT !.hideCursor = p.hideCursor]

cleanTerminal(p) == Initial(Cleared(p))

\* print of text without a newline, and printb.
printText(p, color, text) ==
    [setColor(p, color) EXCEPT !.vt = Put(@, text), !.curX = @ + Len(text)]

\* Mutant: the new row is not counted.
printNewlineUncounted(p, color) ==
    [setColor(p, color) EXCEPT !.vt = LineFeed(Return(@)), !.curX = 0]

printNewline(p, color) ==
    [setColor(p, color) EXCEPT !.vt = LineFeed(Return(@)), !.curX = 0, !.curY = @ + 1]

\* Mutant: the status is printed over.
clearStatusNot(p) == p

clearStatus(p) ==
    IF ~p.haveStatus THEN p
    ELSE [clearToEOL([p EXCEPT !.vt = Return(@), !.curX = 0]) EXCEPT !.haveStatus = FALSE]

move(p, x, y) ==
    LET v == IF y > p.curY THEN Down(p.vt, y - p.curY)
             ELSE IF y < p.curY THEN Up(p.vt, p.curY - y) ELSE p.vt
        h == IF x > p.curX THEN Right(v, x - p.curX)
             ELSE IF x < p.curX THEN Left(v, p.curX - x) ELSE v
    IN  [p EXCEPT !.vt = h, !.curX = x, !.curY = y]

showCursor(p, show) ==
    IF show = ~p.hideCursor THEN p
    ELSE [p EXCEPT !.vt = ShowCursor(@, show), !.hideCursor = ~show]

-----------------------------------------------------------------------------
(* screenbuf.go.  A buffer is [lines, x, y]; a line has Width - 1 cells.   *)

Lines == [1 .. Width - 1 -> Cells]

Program ==
    [curX : Nat, curY : Nat, lastColor : Colors, hideCursor : BOOLEAN,
     haveStatus : BOOLEAN, buf : Seq(Lines), vt : VTs]

Spaces(n) == [i \in 1 .. n |-> Blank]

BlankLine == [i \in 1 .. Width - 1 |-> Cell(Blank, NoColor)]

newScreenBuf == [lines |-> <<BlankLine>>, x |-> 0, y |-> 0]

writeAt(b, x, y, color, text) ==
    LET lines == [r \in 1 .. AtLeast(y + 1, Len(b.lines)) |->
                    IF r \in DOMAIN b.lines THEN b.lines[r] ELSE BlankLine]
        end   == AtMost(x + Len(text), Width - 1)
        line  == [i \in 1 .. Width - 1 |->
                    IF i \in x + 1 .. end THEN Cell(text[i - x], color) ELSE lines[y + 1][i]]
    IN  [lines |-> [lines EXCEPT ![y + 1] = line], x |-> end, y |-> y]

write(b, color, text) == writeAt(b, b.x, b.y, color, text)

fill(b, x, dx, y, color) == writeAt(b, x, y, color, Spaces(dx))

\* The columns that are painted when those in diff differ: up to Gap - 1 unchanged
\* characters in a row are painted with the ones around them.
Painted(diff) ==
    {x \in 1 .. Width - 1 :
        x \in diff \/ \E a, b \in diff : a < x /\ x < b /\ b - a < Gap}

\* paintLine, on each run of these columns.  A span of one color is written at once;
\* written one by one, its characters need neither a move nor a color.
paintColumns(p, columns, y, line) ==
    LET painted[x \in 0 .. Width - 1] ==
            IF x = 0 THEN p
            ELSE IF x \notin columns THEN painted[x - 1]
            ELSE printText(move(painted[x - 1], x - 1, y), line[x].color, <<line[x].ch>>)
    IN  painted[Width - 1]

\* Line y of the new frame (from 0).  A line the screen does not have is made by a
\* newline at the bottom.
paintBufLine(p, y, new) ==
    LET q == IF y < Len(p.buf) THEN p
             ELSE printNewline(move([p EXCEPT !.buf = Append(@, BlankLine)], 0, y - 1),
                               NoColor)
        diff == {x \in 1 .. Width - 1 : new[x] # q.buf[y + 1][x]}
    IN  [paintColumns(q, Painted(diff), y, new) EXCEPT !.buf[y + 1] = new]

\* A line the new frame does not have is blanked.
blankLastLine(p) ==
    [paintColumns(p, 1 .. Width - 1, Len(p.buf) - 1, BlankLine)
        EXCEPT !.buf = SubSeq(@, 1, Len(@) - 1)]

paintBuf(p, n) ==
    LET first == IF p.buf = <<>> THEN [p EXCEPT !.buf = <<BlankLine>>] ELSE p
        drawn[y \in 0 .. Len(n.lines)] ==
            IF y = 0 THEN first ELSE paintBufLine(drawn[y - 1], y - 1, n.lines[y])
        extra == Len(drawn[Len(n.lines)].buf) - Len(n.lines)
        blanked[i \in 0 .. extra] ==
            IF i = 0 THEN drawn[Len(n.lines)] ELSE blankLastLine(blanked[i - 1])
    IN  blanked[extra]

-----------------------------------------------------------------------------
(* The frames that are painted.                                            *)

writePieces(b, x, y, color, p) ==
    write(write(writeAt(b, x, y, color, p[1]), colorSelected, p[2]), color, p[3])

Size(p) == Len(p[1]) + Len(p[2]) + Len(p[3])

commandFrame(p) ==
    writePieces(writeAt(newScreenBuf, 0, 0, colorLabel, Prompt), TextX, 0, NoColor, p)

labelFrame == writeAt(newScreenBuf, 0, 0, colorLabel, Label)

onelineFrame(p) ==
    writePieces(fill(labelFrame, entryx, Width - entryx - 1, 0, colorEntry),
                entryx, 0, colorEntry, p)

\* The lines of a value are indented by four columns.
multilineFrame(ps) ==
    LET written[y \in 0 .. Len(ps)] ==
            IF y = 0 THEN labelFrame
            ELSE writePieces(fill(written[y - 1], 4, Width - 5, y, colorEntry),
                             4, y, colorEntry, ps[y])
    IN  written[Len(ps)]

\* The entry area of choicesMode is the choice of no value.
ChoiceColor(i, sel) ==
    CASE i = 1 -> colorEntry [] i = sel /\ i # 1 -> colorSelected [] OTHER -> NoColor

\* choicesMode paints no buffer; it prints the label and the choices in place.
printChoices(p, sel) ==
    LET Printed(q, i) ==
            LET c    == Offered[i]
                down == IF c.y > q.curY THEN printNewline(q, NoColor) ELSE q
            IN  printText(printText(down, NoColor, Spaces(c.x - down.curX)),
                          ChoiceColor(i, sel), c.text)
        printed[i \in 0 .. Len(Offered)] ==
            IF i = 0 THEN printText(p, colorLabel, Label \o Spaces(2))
            ELSE Printed(printed[i - 1], i)
    IN  printed[Len(Offered)]

\* The old choice and the new one are printed again.
printChoice(p, i, color) ==
    IF i = 1 THEN p
    ELSE printText(move(p, Offered[i].x, Offered[i].y), color, Offered[i].text)

returnCursor(p, sel) == showCursor(move(p, entryx, 0), sel = 1)

-----------------------------------------------------------------------------
(* What the screen should look like.                                       *)

SeenRow(cells) ==
    [x \in 1 .. Width |->
        IF x \in DOMAIN cells THEN Seen(cells[x].ch, Meant(cells[x].color))
        ELSE Seen(Blank, colorNormal)]

Picture(lines) == [y \in DOMAIN lines |-> SeenRow(lines[y])]

Covers(i, x, y) ==
    Offered[i].y = y /\ x \in Offered[i].x + 1 .. Offered[i].x + Len(Offered[i].text)

\* The first n of the choices, each in its place, and the label.
ChoicesShown(sel, n) ==
    LET CellAt(x, y) ==
            IF \E i \in 1 .. n : Covers(i, x, y)
            THEN LET i == CHOOSE i \in 1 .. n : Covers(i, x, y)
                 IN  Cell(Offered[i].text[x - Offered[i].x], ChoiceColor(i, sel))
            ELSE IF y = 0 /\ x \in DOMAIN Label THEN Cell(Label[x], colorLabel)
            ELSE Cell(Blank, NoColor)
    IN  [y \in 1 .. (IF n = 0 THEN 0 ELSE Offered[n].y) + 1 |->
            SeenRow([x \in 1 .. Width - 1 |-> CellAt(x, y - 1)])]

ChoicesPicture(sel) == ChoicesShown(sel, Len(Offered))

Colored(color, text) == [i \in DOMAIN text |-> Cell(text[i], color)]

\* Cells that go on in the next row after the last column.
Wrapped(cells) ==
    [r \in 1 .. RowsDown(Len(cells)) + 1 |->
        SeenRow([i \in {x \in 1 .. Width : (r - 1) * Width + x <= Len(cells)} |->
                    cells[(r - 1) * Width + i]])]

-----------------------------------------------------------------------------

vt == cio.vt

TypeOK ==
    /\ cio \in Program
    /\ cio.hideCursor => mode = "choices"
    /\ cio.haveStatus => mode = "shell"
    /\ cio.buf # <<>> => mode \in Modes \ {"choices"}
    /\ vt.y \in FirstRow(vt) .. Len(vt.rows) /\ vt.x \in 0 .. Width
    /\ mode \in Modes \cup {"shell", "field", "display"}
    /\ frame \in Seq(Rows) /\ log \in Seq(Rows)
    /\ cursor = <<>> \/ cursor \in Nat \X Nat

\* A program is started with the cursor at the start of any row.
Init ==
    /\ \E y \in 1 .. Height :
        /\ cio = Initial([rows |-> [i \in 1 .. Height |-> BlankRow(colorNormal)],
                          x |-> 0, y |-> y, pen |-> colorNormal, visible |-> TRUE])
        /\ log = [i \in 1 .. y - 1 |-> BlankRow(colorNormal)]
    /\ mode = "shell"
    /\ frame = <<>> /\ cursor = <<0, 0>>

Keep(rows) ==
    /\ log' = log \o rows
    /\ Len(log') <= MaxRows
    /\ frame' = <<>> /\ cursor' = <<0, 0>>

Show(rows, x, y) ==
    /\ frame' = rows /\ cursor' = <<x, y>>
    /\ UNCHANGED log

\* The start of readCommandTerminal, onelineMode and multilineMode.
Begin(m) ==
    /\ mode \in {"shell", "field"}
    /\ m = "command" => mode = "shell"
    /\ m # "choices"
    /\ mode' = m
    /\ cio' = cleanTerminal(cio)
    /\ Show(<<>>, 0, 0)

DrawCommand(p, at) ==
    /\ mode = "command"
    /\ at <= AtMost(Size(p), Width - TextX - 1)
    /\ LET n == commandFrame(p)
       IN  /\ cio' = move(paintBuf(cio, n), TextX + at, 0)
           /\ Show(Picture(n.lines), TextX + at, 0)
    /\ UNCHANGED mode

DrawOneline(p, at) ==
    /\ mode = "oneline"
    /\ at <= Size(p) /\ entryx + Size(p) < Width
    /\ LET n == onelineFrame(p)
       IN  /\ cio' = move(paintBuf(cio, n), entryx + at, 0)
           /\ Show(Picture(n.lines), entryx + at, 0)
    /\ UNCHANGED mode

DrawMultiline(ps, y) ==
    /\ mode = "multiline"
    /\ y \in DOMAIN ps
    /\ \A i \in DOMAIN ps : Size(ps[i]) <= Width - 5
    /\ LET n == multilineFrame(ps)
       IN  /\ cio' = move(paintBuf(cio, n), 4 + Size(ps[y]), y)
           /\ Show(Picture(n.lines), 4 + Size(ps[y]), y)
    /\ UNCHANGED mode

ShowChoices(sel) ==
    /\ cursor' = IF sel = 1 THEN <<entryx, 0>> ELSE <<>>
    /\ frame' = ChoicesPicture(sel)
    /\ UNCHANGED log

BeginChoices(sel) ==
    /\ mode \in {"shell", "field"}
    /\ mode' = "choices"
    /\ cio' = returnCursor(printChoices(cleanTerminal(cio), sel), sel)
    /\ ShowChoices(sel)

Choose(old, new) ==
    /\ mode = "choices"
    /\ frame = ChoicesPicture(old) /\ new # old
    /\ cio' = returnCursor(printChoice(printChoice(cio, old, NoColor), new, colorSelected), new)
    /\ ShowChoices(new)
    /\ UNCHANGED mode

\* The deferred clearing of every mode.
leave(p) == cleanTerminal(move(p, 0, 0))

\* A key or a reading error ends the command line or the mode; another mode may
\* follow, or the display of the value.
Leave ==
    /\ mode \in Modes /\ frame # <<>>
    /\ mode' \in IF mode = "command" THEN {"shell"} ELSE {"shell", "field", "display"}
    /\ cio' = leave(cio)
    /\ Show(<<>>, 0, 0)

\* showHelp; the mode is left and begins anew.
Help(t) ==
    /\ mode \in Modes \ {"command"} /\ frame # <<>>
    /\ Len(t) < Width
    /\ mode' = "field"
    /\ LET line == t \o Spaces(Width - 1 - Len(t))
           p    == printText(leave(cio), colorHelp, line)
       IN  /\ cio' = leave(cleanTerminal(printNewline(p, NoColor)))
           /\ Keep(Wrapped(Colored(colorHelp, line)))

\* Enter in readCommandTerminal: the line is printed as a whole, and may wrap.
Enter(t) ==
    /\ mode = "command" /\ frame # <<>>
    /\ mode' = "shell"
    /\ LET p == printText(clearToEOL(move(cio, TextX, 0)), NoColor, t)
       IN  cio' = leave(cleanTerminal(printNewline(p, NoColor)))
    /\ Keep(Wrapped(Colored(colorLabel, Prompt) \o Colored(NoColor, Spaces(1) \o t)))

\* display, of a value that fits beside the label or one that is put below it.
Display(t, beside) ==
    /\ mode = "display"
    /\ Len(t) <= Width - 5
    /\ beside => Len(t) <= Width - Len(Label) - 3
    /\ mode' = "shell"
    /\ LET label == printText(cio, colorLabel, Label)
           p == IF beside THEN printText(label, NoColor, Spaces(2))
                ELSE printText(printNewline(label, NoColor), NoColor, Spaces(4))
       IN  cio' = printNewline(printText(p, NoColor, t), NoColor)
    /\ IF beside
       THEN Keep(Wrapped(Colored(colorLabel, Label) \o Colored(NoColor, Spaces(2) \o t)))
       ELSE Keep(Wrapped(Colored(colorLabel, Label))
                   \o Wrapped(Colored(NoColor, Spaces(4) \o t)))

\* Status writes without setting the color or counting columns.
Status(t) ==
    /\ mode = "shell"
    /\ cio' = [clearStatus(cio) EXCEPT !.vt = Put(@, t), !.haveStatus = TRUE]
    /\ Show(Wrapped(Colored(colorNormal, t)), Len(t), 0)
    /\ Len(t) < Width
    /\ UNCHANGED mode

StatusEmpty ==
    /\ mode = "shell"
    /\ cio' = clearStatus(cio)
    /\ Show(<<>>, 0, 0)
    /\ UNCHANGED mode

\* listMessageTable, one color of it.
ListMessage(color, t) ==
    /\ mode = "shell" /\ Len(t) <= Width
    /\ cio' = printNewline(printText(clearStatus(cio), color, t), NoColor)
    /\ Keep(Wrapped(Colored(color, t)))
    /\ UNCHANGED mode

Error(t) ==
    /\ mode = "shell" /\ Len(t) <= Width
    /\ cio' = setColor(printNewline(printText(clearStatus(cio), colorError, t), colorError),
                       NoColor)
    /\ Keep(Wrapped(Colored(colorError, t)))
    /\ UNCHANGED mode

\* Confirm does not go through print; the terminal makes a return of the newline.
Confirm(t) ==
    /\ mode = "shell"
    /\ cio' = [clearStatus(cio) EXCEPT !.vt = LineFeed(Return(Put(@, t)))]
    /\ Keep(Wrapped(Colored(colorNormal, t)))
    /\ UNCHANGED mode

Values == UNION {[1 .. n -> Pieces] : n \in 1 .. MaxLines}

Next ==
    \/ \E m \in Modes : Begin(m)
    \/ \E sel \in DOMAIN Offered : BeginChoices(sel)
    \/ \E old, new \in DOMAIN Offered : Choose(old, new)
    \/ \E p \in Pieces, at \in 0 .. Width : DrawCommand(p, at) \/ DrawOneline(p, at)
    \/ \E ps \in Values, y \in 1 .. MaxLines : DrawMultiline(ps, y)
    \/ Leave \/ StatusEmpty
    \/ \E t \in Texts :
        \/ Help(t) \/ Enter(t) \/ Status(t) \/ Error(t) \/ Confirm(t)
        \/ ListMessage(colorLabel, t)
        \/ \E beside \in BOOLEAN : Display(t, beside)

Spec == Init /\ [][Next]_vars

-----------------------------------------------------------------------------
(* Properties.                                                             *)

\* What has been printed stays on the screen above the cursor, and in the rows
\* that have scrolled away: frames are painted over none of it, and no part of a
\* frame or of a status is left among it.
PrintedStays == SubSeq(vt.rows, 1, Len(log)) = log

\* Below it stands the frame that was painted last, or the status, and nothing
\* of the frames before.
FrameShown ==
    \A y \in Len(log) + 1 .. Len(vt.rows) :
        vt.rows[y] = IF y - Len(log) \in DOMAIN frame THEN frame[y - Len(log)]
                     ELSE BlankRow(colorNormal)

\* What is believed of the screen is so: it shows what was printed, and below it
\* the frame, however little was painted to make it of the frame before
\* (screenbuf.go).
ScreenShown == PrintedStays /\ FrameShown

\* The cursor stands where the next character typed will go.
CursorShown ==
    IF cursor = <<>> THEN ~vt.visible
    ELSE vt.visible /\ <<Column(vt), vt.y - Len(log) - 1>> = cursor

=============================================================================
