---------------------------- MODULE TerminalProofs ----------------------------
(***************************************************************************)
(* Proofs about what package cio draws, for a screen of any size, any      *)
(* texts, and any prompt, choices and values that fit on it: the           *)
(* screen shows what was printed and the frame that was painted last, with *)
(* the cursor in its place.                                                *)
(*                                                                         *)
(* The lemmas go from the terminal (what each of its operators does to a   *)
(* row) over the ones of ansi.go (they keep the program and its terminal   *)
(* in step: Synced) to the buffers of screenbuf.go, then to the choices    *)
(* and to printed lines that may wrap, and from there to one lemma per     *)
(* action.  What a loop makes, of the characters of a line, the lines of a *)
(* buffer or the choices, is shown by what holds after each of its rounds  *)
(* (UpTo), which rests on the least-number principle (Least).              *)
(***************************************************************************)
EXTENDS Terminal, SequenceTheorems, WellFoundedInduction, TLAPS

-----------------------------------------------------------------------------
(* The inductive invariant.                                                *)

\* The program knows the color that is written in, and whether the cursor is hidden.
PenKnown(p) == p.lastColor = NoColor \/ p.lastColor = p.vt.pen

OnScreen(t) == Height <= Len(t.rows) /\ t.y \in FirstRow(t) .. Len(t.rows) /\ t.x \in 0 .. Width

Sound(p) ==
    /\ p \in Program
    /\ PenKnown(p)
    /\ p.vt.visible = ~p.hideCursor
    /\ OnScreen(p.vt)

\* The rows after top are on the screen, and the cursor is where it is believed to be,
\* counted from them.
Synced(p, top) ==
    /\ Sound(p)
    /\ Len(p.vt.rows) <= top + Height
    /\ p.vt.y = top + 1 + p.curY
    /\ p.vt.x = p.curX /\ p.curX < Width

RowAt(stay, shown, r) ==
    IF r <= Len(stay) THEN stay[r]
    ELSE IF r <= Len(stay) + Len(shown) THEN shown[r - Len(stay)]
    ELSE BlankRow(colorNormal)

\* There are rows that stay, the frame, and nothing else.
Shows(t, stay, shown) ==
    /\ Len(stay) + Len(shown) <= Len(t.rows)
    /\ \A r \in DOMAIN t.rows : t.rows[r] = RowAt(stay, shown, r)

\* What cleanTerminal leaves.
Clean(p, stay) ==
    /\ Synced(p, Len(stay)) /\ Shows(p.vt, stay, <<>>)
    /\ p.curX = 0 /\ p.curY = 0 /\ p.buf = <<>>
    /\ ~p.haveStatus /\ ~p.hideCursor
    /\ p.vt.pen = colorNormal

\* A buffer was painted.
Drawn(p, stay) ==
    /\ Synced(p, Len(stay)) /\ Shows(p.vt, stay, Picture(p.buf))
    /\ Len(p.buf) <= Height
    /\ ~p.haveStatus /\ ~p.hideCursor

Prompted(lines) ==
    /\ Len(lines) = 1
    /\ \A i \in 1 .. Len(Prompt) : lines[1][i] = Cell(Prompt[i], colorLabel)
    /\ lines[1][TextX] = Cell(Blank, NoColor)

Chosen(p, stay, shown) ==
    /\ Synced(p, Len(stay))
    /\ p.buf = <<>> /\ ~p.haveStatus
    /\ \E sel \in DOMAIN Offered : shown = ChoicesPicture(sel)

AtShell(p, stay, shown) ==
    /\ Sound(p)
    /\ Len(p.vt.rows) <= Len(stay) + Height
    /\ p.vt.y = Len(stay) + 1
    /\ p.vt.pen = colorNormal
    /\ p.buf = <<>> /\ ~p.hideCursor
    /\ IF p.haveStatus THEN Len(shown) = 1 ELSE shown = <<>> /\ p.vt.x = 0

Inv ==
    /\ frame \in Seq(Rows) /\ log \in Seq(Rows)
    /\ Shows(vt, log, frame)
    /\ CursorShown
    /\ cursor = <<>> \/ cursor \in Nat \X Nat
    /\ mode \in Modes \cup {"shell", "field", "display"}
    /\ mode = "shell" => AtShell(cio, log, frame)
    /\ mode \in {"field", "display"} => Clean(cio, log) /\ frame = <<>>
    /\ mode \in Modes \ {"choices"} => Drawn(cio, log) /\ frame = Picture(cio.buf)
    /\ mode = "command" /\ frame # <<>> => Prompted(cio.buf)
    /\ mode = "choices" => Chosen(cio, log, frame)

-----------------------------------------------------------------------------
(* Numbers.                                                                *)

HasMin(R, S) == \E x \in S : \A y \in S : ~(<<y, x>> \in R)

LEMMA WellFoundedMin ==
    ASSUME NEW R, NEW A, IsWellFoundedOn(R, A), NEW S, S \subseteq A, S # {}
    PROVE  HasMin(R, S)
BY WFMin DEF HasMin

LEMMA LeastByRelation ==
    ASSUME NEW S \in SUBSET Nat, S # {},
           NEW R, IsWellFoundedOn(R, Nat), \A i, j \in Nat : i < j => <<i, j>> \in R
    PROVE  \E n \in S : \A k \in S : n <= k
<1>1. S \subseteq Nat
  OBVIOUS
<1>2. HasMin(R, S)
  BY <1>1, WellFoundedMin, Zenon
<1>3. PICK n \in S : \A k \in S : ~(<<k, n>> \in R)
  BY <1>2 DEF HasMin
<1>4. \A k \in S : ~(k < n)
  BY <1>1, <1>3, Zenon
<1>5. \A k \in S : n <= k
  BY <1>1, <1>4
<1> QED BY <1>5

\* The least-number principle; what follows by induction is shown by it.
LEMMA Least ==
    ASSUME NEW S \in SUBSET Nat, S # {}
    PROVE  \E n \in S : \A k \in S : n <= k
<1>1. \A i, j \in Nat : i < j => <<i, j>> \in OpToRel(<, Nat)
  BY DEF OpToRel
<1> QED BY LeastByRelation, <1>1, NatLessThanWellFounded, Zenon

\* A set of numbers that has 0, and with each number below n the next, has all up to n.
LEMMA UpTo ==
    ASSUME NEW n \in Nat, NEW S, 0 \in S,
           \A i \in 1 .. n : i - 1 \in S => i \in S
    PROVE  \A i \in 0 .. n : i \in S
<1> DEFINE Out == {i \in 0 .. n : i \notin S}
<1> SUFFICES ASSUME Out # {} PROVE FALSE
  OBVIOUS
<1>1. Out \in SUBSET Nat
  OBVIOUS
<1>2. PICK m \in Out : \A k \in Out : m <= k
  <2> HIDE DEF Out
  <2> QED BY <1>1, Least
<1>3. m \in 1 .. n
  OBVIOUS
<1>4. m - 1 \notin Out
  BY <1>2, <1>3
<1>5. m - 1 \in S
  BY <1>3, <1>4
<1> QED BY <1>2, <1>3, <1>5

LEMMA RowsDownIs ==
    ASSUME NEW n \in Nat
    PROVE  /\ RowsDown(n) \in Nat
           /\ RowsDown(n) * Width <= n /\ n <= RowsDown(n) * Width + Width
           /\ n <= Width => RowsDown(n) = 0
           /\ n > 0 => RowsDown(n) * Width < n
<1> DEFINE m == AtLeast(0, n - 1)
<1>1. m \in Nat /\ m <= n /\ n <= m + 1 /\ (n > 0 => m < n) /\ (n <= Width => m < Width)
  BY ScreenAssumption DEF AtLeast
<1>2. RowsDown(n) = m \div Width
  BY DEF RowsDown
<1> HIDE DEF m
<1>3. /\ m \div Width \in Nat
      /\ (m \div Width) * Width <= m /\ m < (m \div Width) * Width + Width
      /\ m < Width => m \div Width = 0
  BY <1>1, ScreenAssumption
<1>4. (m \div Width) * Width \in Nat
  BY <1>3, ScreenAssumption
<1> DEFINE d == m \div Width
<1> DEFINE e == d * Width
<1>5. d \in Nat /\ e \in Nat /\ e <= m /\ m < e + Width /\ (m < Width => d = 0)
  BY <1>3, <1>4
<1>6. RowsDown(n) = d /\ RowsDown(n) * Width = e
  BY <1>2
<1> HIDE DEF d, e
<1>7. d \in Nat /\ e <= n /\ n <= e + Width /\ (n <= Width => d = 0) /\ (n > 0 => e < n)
  BY <1>1, <1>5, ScreenAssumption
<1> QED BY <1>6, <1>7

\* Characters that go on in the next rows go as far as if they had been put at once.
LEMMA RowsDownOn ==
    ASSUME NEW n \in Nat, NEW k \in Nat
    PROVE  /\ n - RowsDown(n) * Width \in Nat
           /\ RowsDown(n + k) = RowsDown(n) + RowsDown(n - RowsDown(n) * Width + k)
<1> DEFINE d == RowsDown(n)
<1> DEFINE x == n - d * Width
<1> DEFINE e == RowsDown(x + k)
<1>1. d \in Nat /\ d * Width \in Nat /\ x \in Nat /\ x <= Width /\ (n > 0 => x > 0)
  <2> DEFINE dw == d * Width
  <2>1. d \in Nat /\ dw <= n /\ n <= dw + Width /\ (n > 0 => dw < n)
    BY RowsDownIs
  <2>2. dw \in Nat
    BY <2>1, ScreenAssumption
  <2>3. x = n - dw /\ d * Width = dw
    OBVIOUS
  <2> HIDE DEF dw, d, x
  <2> QED BY <2>1, <2>2, <2>3, ScreenAssumption
<1>2. CASE n + k = 0
  <2>1. n = 0 /\ k = 0
    BY <1>2
  <2>2. RowsDown(0) = 0
    BY RowsDownIs, ScreenAssumption
  <2> QED BY <1>1, <2>1, <2>2, ScreenAssumption
<1>3. CASE n + k > 0
  <2>1. x + k > 0 /\ x + k \in Nat
    BY <1>1, <1>3
  <2>2. e \in Nat /\ e * Width \in Nat /\ e * Width < x + k /\ x + k <= e * Width + Width
    <3> HIDE DEF d, x
    <3>1. e \in Nat /\ e * Width < x + k /\ x + k <= e * Width + Width
      BY <2>1, RowsDownIs
    <3> HIDE DEF e
    <3> QED BY <3>1, ScreenAssumption
  <2>3. (d + e) * Width = d * Width + e * Width
    BY <1>1, <2>2, ScreenAssumption
  <2>4. RowsDown(n + k) \in Nat /\ RowsDown(n + k) * Width < n + k
        /\ n + k <= RowsDown(n + k) * Width + Width
    BY <1>3, RowsDownIs
  <2>5. (d + e) * Width < n + k /\ n + k <= (d + e) * Width + Width
    <3> DEFINE dw == d * Width
    <3> DEFINE ew == e * Width
    <3>1. dw \in Nat /\ ew \in Nat /\ x = n - dw /\ ew < x + k /\ x + k <= ew + Width
          /\ (d + e) * Width = dw + ew
      BY <1>1, <2>2, <2>3
    <3> HIDE DEF dw, ew, x, e, d
    <3> QED BY <3>1, ScreenAssumption
  <2> DEFINE a == RowsDown(n + k)
  <2> DEFINE b == d + e
  <2>6. a \in Nat /\ b \in Nat
    BY <1>1, <2>2, <2>4
  <2>7. a * Width < n + k /\ n + k <= a * Width + Width /\ b * Width < n + k /\ n + k <= b * Width + Width
    BY <2>4, <2>5
  <2> HIDE DEF a, b
  <2>8. a = b
    <3>1. CASE a < b
      <4>1. a + 1 <= b
        BY <2>6, <3>1
      <4>2. (a + 1) * Width <= b * Width
        BY <4>1, <2>6, ScreenAssumption
      <4>3. (a + 1) * Width = a * Width + Width
        BY <2>6, ScreenAssumption
      <4>4. a * Width \in Nat /\ b * Width \in Nat
        BY <2>6, ScreenAssumption
      <4> QED BY <4>2, <4>3, <4>4, <2>7, ScreenAssumption
    <3>2. CASE b < a
      <4>1. b + 1 <= a
        BY <2>6, <3>2
      <4>2. (b + 1) * Width <= a * Width
        BY <4>1, <2>6, ScreenAssumption
      <4>3. (b + 1) * Width = b * Width + Width
        BY <2>6, ScreenAssumption
      <4>4. a * Width \in Nat /\ b * Width \in Nat
        BY <2>6, ScreenAssumption
      <4> QED BY <4>2, <4>3, <4>4, <2>7, ScreenAssumption
    <3> QED BY <2>6, <3>1, <3>2
  <2> QED BY <1>1, <2>8 DEF a, b
<1> QED BY <1>2, <1>3

-----------------------------------------------------------------------------
(* Colors, cells and rows.                                                 *)

LEMMA ColorsTyped ==
    /\ colorNormal \in Colors /\ colorLabel \in Colors /\ colorError \in Colors
    /\ colorEntry \in Colors /\ colorSelected \in Colors /\ colorHelp \in Colors
    /\ NoColor \in Colors
BY DEF colorNormal, colorLabel, colorError, colorEntry, colorSelected, colorHelp, NoColor, Colors

LEMMA MeantTyped ==
    ASSUME NEW color \in Colors
    PROVE  Meant(color) \in Colors /\ Meant(color).fg # 0 /\ Meant(color).bg # 0
BY DEF Meant, Colors, colorNormal

LEMMA MeantNormal == Meant(NoColor) = colorNormal /\ Meant(colorNormal) = colorNormal
BY DEF Meant, NoColor, colorNormal

LEMMA MeantError == Meant(colorError).bg = colorNormal.bg
BY DEF Meant, colorError, colorNormal

LEMMA SeenTyped ==
    ASSUME NEW ch \in Characters, NEW color \in Colors
    PROVE  Seen(ch, color) \in Cells
BY DEF Seen, Cell, Cells, Colors

\* Blanks of one background look the same.
LEMMA SeenBlank ==
    ASSUME NEW a \in Colors, NEW b \in Colors, a.bg = b.bg
    PROVE  Seen(Blank, a) = Seen(Blank, b)
BY DEF Seen, Cell, Colors

LEMMA BlankRowTyped ==
    ASSUME NEW color \in Colors
    PROVE  /\ BlankRow(color) \in Rows
           /\ \A i \in 1 .. Width : BlankRow(color)[i] = Seen(Blank, color)
<1>1. Seen(Blank, color) \in Cells
  BY SeenTyped, ScreenAssumption
<1> QED BY <1>1 DEF BlankRow, Rows

LEMMA BlankRowSame ==
    ASSUME NEW a \in Colors, NEW b \in Colors, a.bg = b.bg
    PROVE  BlankRow(a) = BlankRow(b)
BY SeenBlank DEF BlankRow

\* Rows with the same cells are the same.
LEMMA RowsEqual ==
    ASSUME NEW a \in Rows, NEW b \in Rows, \A i \in 1 .. Width : a[i] = b[i]
    PROVE  a = b
<1>1. a = [i \in 1 .. Width |-> a[i]] /\ b = [i \in 1 .. Width |-> b[i]]
  BY DEF Rows
<1> QED BY <1>1

-----------------------------------------------------------------------------
(* What the program writes and what the terminal makes of it.              *)

LEMMA VTTyped ==
    ASSUME NEW t \in VTs
    PROVE  /\ t.rows \in Seq(Rows) /\ t.x \in Nat /\ t.y \in Nat
           /\ t.pen \in Colors /\ t.visible \in BOOLEAN
           /\ Len(t.rows) \in Nat /\ DOMAIN t.rows = 1 .. Len(t.rows)
           /\ \A r \in 1 .. Len(t.rows) : t.rows[r] \in Rows
BY DEF VTs

LEMMA ProgramTyped ==
    ASSUME NEW p \in Program
    PROVE  /\ p.curX \in Nat /\ p.curY \in Nat /\ p.lastColor \in Colors
           /\ p.hideCursor \in BOOLEAN /\ p.haveStatus \in BOOLEAN
           /\ p.buf \in Seq(Lines) /\ p.vt \in VTs
BY DEF Program

\* What writing and moving leave alone.
Kept(p, q) ==
    /\ q.buf = p.buf /\ q.haveStatus = p.haveStatus /\ q.hideCursor = p.hideCursor
    /\ q.vt.visible = p.vt.visible

LEMMA SetPenIs ==
    ASSUME NEW t \in VTs, NEW color \in Colors
    PROVE  LET q == SetPen(t, color)
           IN  /\ q \in VTs
               /\ q.rows = t.rows /\ q.x = t.x /\ q.y = t.y /\ q.visible = t.visible
               /\ q.pen.fg = IF color.fg = 0 THEN t.pen.fg ELSE color.fg
               /\ q.pen.bg = IF color.bg = 0 THEN t.pen.bg ELSE color.bg
<1> DEFINE pen == [fg |-> IF color.fg = 0 THEN t.pen.fg ELSE color.fg,
                   bg |-> IF color.bg = 0 THEN t.pen.bg ELSE color.bg]
<1>1. pen \in Colors
  BY VTTyped DEF Colors
<1>2. SetPen(t, color) = [t EXCEPT !.pen = pen]
  BY DEF SetPen, VTs
<1>3. pen.fg = (IF color.fg = 0 THEN t.pen.fg ELSE color.fg) /\ pen.bg = (IF color.bg = 0 THEN t.pen.bg ELSE color.bg)
  OBVIOUS
<1> HIDE DEF pen
<1> QED BY <1>1, <1>2, <1>3 DEF VTs

\* Setting a color: it is what is written in from then on, whether it was set or was so.
LEMMA SetColor ==
    ASSUME NEW p \in Program, PenKnown(p), NEW color \in Colors
    PROVE  LET q == setColor(p, color)
           IN  /\ q \in Program /\ PenKnown(q)
               /\ q.vt.pen = Meant(color) /\ q.lastColor = Meant(color)
               /\ q.vt.rows = p.vt.rows /\ q.vt.x = p.vt.x /\ q.vt.y = p.vt.y
               /\ q.curX = p.curX /\ q.curY = p.curY
               /\ Kept(p, q)
<1> DEFINE c == Meant(color)
<1>1. c \in Colors /\ c.fg # 0 /\ c.bg # 0 /\ c # NoColor
  BY MeantTyped DEF NoColor
<1>2. p.lastColor \in Colors /\ p.vt \in VTs
  BY ProgramTyped
<1>3. CASE c = p.lastColor
  <2>1. p.vt.pen = c
    BY <1>1, <1>3 DEF PenKnown
  <2>2. setColor(p, color) = p
    BY <1>3 DEF setColor
  <2> QED BY <1>3, <2>1, <2>2 DEF Kept
<1>4. CASE c # p.lastColor
  <2> DEFINE changed == [fg |-> IF c.fg = p.lastColor.fg THEN 0 ELSE c.fg,
                         bg |-> IF c.bg = p.lastColor.bg THEN 0 ELSE c.bg]
  <2> DEFINE t == SetPen(p.vt, changed)
  <2>1. setColor(p, color) = [p EXCEPT !.vt = t, !.lastColor = c]
    BY <1>4 DEF setColor, Program
  <2>2. changed \in Colors
    BY <1>1 DEF Colors
  <2>3. /\ t \in VTs /\ t.rows = p.vt.rows /\ t.x = p.vt.x /\ t.y = p.vt.y
        /\ t.visible = p.vt.visible
        /\ t.pen.fg = (IF changed.fg = 0 THEN p.vt.pen.fg ELSE changed.fg)
        /\ t.pen.bg = (IF changed.bg = 0 THEN p.vt.pen.bg ELSE changed.bg)
    <3> HIDE DEF changed
    <3> QED BY <1>2, <2>2, SetPenIs
  <2>4. t.pen = c
    <3>1. t.pen.fg = c.fg
      <4>1. CASE p.lastColor = NoColor
        BY <1>1, <2>3, <4>1 DEF NoColor
      <4>2. CASE p.lastColor = p.vt.pen
        BY <1>1, <2>3, <4>2
      <4> QED BY <4>1, <4>2 DEF PenKnown
    <3>2. t.pen.bg = c.bg
      <4>1. CASE p.lastColor = NoColor
        BY <1>1, <2>3, <4>1 DEF NoColor
      <4>2. CASE p.lastColor = p.vt.pen
        BY <1>1, <2>3, <4>2
      <4> QED BY <4>1, <4>2 DEF PenKnown
    <3>3. t.pen \in Colors
      BY <2>3, VTTyped
    <3> HIDE DEF t, c
    <3> QED BY <1>1, <3>1, <3>2, <3>3 DEF Colors
  <2> HIDE DEF t, c
  <2> DEFINE q == [p EXCEPT !.vt = t, !.lastColor = c]
  <2>5. /\ q \in Program /\ q.vt = t /\ q.lastColor = c
        /\ q.curX = p.curX /\ q.curY = p.curY
        /\ q.buf = p.buf /\ q.haveStatus = p.haveStatus /\ q.hideCursor = p.hideCursor
    BY <1>1, <2>3 DEF Program
  <2> HIDE DEF q
  <2>6. setColor(p, color) = q
    BY <2>1 DEF q
  <2>7. PenKnown(q) /\ Kept(p, q)
    BY <2>3, <2>4, <2>5 DEF PenKnown, Kept
  <2> QED BY <2>3, <2>4, <2>5, <2>6, <2>7 DEF c
<1> QED BY <1>3, <1>4

LEMMA RowsToIs ==
    ASSUME NEW t \in VTs, NEW y \in Nat
    PROVE  LET rows == RowsTo(t, y)
           IN  /\ rows \in Seq(Rows) /\ Len(rows) = AtLeast(y, Len(t.rows))
               /\ \A r \in 1 .. Len(rows) :
                    rows[r] = IF r <= Len(t.rows) THEN t.rows[r] ELSE BlankRow(t.pen)
<1> DEFINE n == AtLeast(y, Len(t.rows))
<1>1. n \in Nat /\ Len(t.rows) <= n
  BY VTTyped DEF AtLeast
<1>2. BlankRow(t.pen) \in Rows
  BY VTTyped, BlankRowTyped
<1>3. RowsTo(t, y) = [r \in 1 .. n |-> IF r <= Len(t.rows) THEN t.rows[r] ELSE BlankRow(t.pen)]
  BY <1>1, VTTyped DEF RowsTo
<1> HIDE DEF n
<1>4. \A r \in 1 .. n : (IF r <= Len(t.rows) THEN t.rows[r] ELSE BlankRow(t.pen)) \in Rows
  BY <1>1, <1>2, VTTyped
<1> QED BY <1>1, <1>3, <1>4 DEF n

\* Characters that fill cells, in the row of the cursor and after it.
LEMMA PutIs ==
    ASSUME NEW t \in VTs, NEW text \in Textual
    PROVE  LET q == Put(t, text)
               d == RowsDown(t.x + Len(text))
           IN  /\ q \in VTs
               /\ q.x = t.x + Len(text) - d * Width /\ q.y = t.y + d
               /\ q.pen = t.pen /\ q.visible = t.visible
               /\ Len(q.rows) = AtLeast(t.y + d, Len(t.rows))
               /\ \A r \in 1 .. Len(q.rows), i \in 1 .. Width :
                    q.rows[r][i] =
                        IF (r - t.y) * Width + i - t.x \in 1 .. Len(text)
                        THEN Seen(text[(r - t.y) * Width + i - t.x], t.pen)
                        ELSE IF r <= Len(t.rows) THEN t.rows[r][i] ELSE Seen(Blank, t.pen)
<1> DEFINE d == RowsDown(t.x + Len(text))
<1> DEFINE x == t.x + Len(text) - d * Width
<1> DEFINE y == t.y + d
<1> DEFINE old == RowsTo(t, y)
<1> DEFINE rows == [r \in 1 .. Len(old) |-> [i \in 1 .. Width |->
                        IF (r - t.y) * Width + i - t.x \in 1 .. Len(text)
                        THEN Seen(text[(r - t.y) * Width + i - t.x], t.pen) ELSE old[r][i]]]
<1>1. Len(text) \in Nat /\ DOMAIN text = 1 .. Len(text) /\ \A k \in 1 .. Len(text) : text[k] \in Characters
  BY DEF Textual
<1>2. t.x \in Nat /\ t.y \in Nat /\ t.pen \in Colors
  BY VTTyped
<1>3. d \in Nat /\ x \in Nat
  <2> DEFINE n == t.x + Len(text)
  <2>1. n \in Nat
    BY <1>1, <1>2
  <2> HIDE DEF n
  <2>2. RowsDown(n) \in Nat /\ n - RowsDown(n) * Width \in Nat
    <3>1. RowsDown(n) \in Nat /\ RowsDown(n) * Width <= n
      BY <2>1, RowsDownIs
    <3>2. RowsDown(n) * Width \in Nat
      BY <3>1, ScreenAssumption
    <3> QED BY <2>1, <3>1, <3>2
  <2>3. d = RowsDown(n)
    BY DEF n
  <2>4. x = n - RowsDown(n) * Width
    <3>1. RowsDown(n) * Width \in Int
      BY <2>2, ScreenAssumption
    <3> DEFINE e == RowsDown(n) * Width
    <3>2. x = t.x + (Len(text) - e) /\ n = t.x + Len(text)
      BY DEF n
    <3>3. e \in Int
      BY <3>1
    <3> HIDE DEF e, x, n
    <3>4. x = n - e
      BY <1>1, <1>2, <3>2, <3>3
    <3> QED BY <3>4 DEF e
  <2> HIDE DEF d, x
  <2> QED BY <2>2, <2>3, <2>4
<1>4. y \in Nat
  BY <1>2, <1>3
<1>5. /\ old \in Seq(Rows) /\ Len(old) = AtLeast(y, Len(t.rows))
      /\ \A r \in 1 .. Len(old) : old[r] = IF r <= Len(t.rows) THEN t.rows[r] ELSE BlankRow(t.pen)
  <2> HIDE DEF y
  <2> QED BY <1>4, RowsToIs
<1>6. Put(t, text) = [t EXCEPT !.rows = rows, !.x = x, !.y = y]
  <2>1. DOMAIN old = 1 .. Len(old)
    BY <1>5
  <2> QED BY <1>1, <2>1 DEF Put, VTs
<1>7. \A r \in 1 .. Len(old), i \in 1 .. Width : old[r][i] \in Cells
  <2>1. \A r \in 1 .. Len(old) : old[r] \in Rows
    <3> HIDE DEF old
    <3> QED BY <1>5
  <2> QED BY <2>1 DEF Rows
<1>8. rows \in Seq(Rows) /\ Len(rows) = Len(old)
  <2>1. \A k \in 1 .. Len(text) : Seen(text[k], t.pen) \in Cells
    BY <1>1, <1>2, SeenTyped
  <2>2. \A r \in 1 .. Len(old) : rows[r] \in Rows
    <3> HIDE DEF old
    <3> QED BY <2>1, <1>7 DEF Rows
  <2>3. Len(old) \in Nat
    BY <1>5
  <2> HIDE DEF old
  <2> QED BY <2>2, <2>3
<1>9. \A r \in 1 .. Len(old), i \in 1 .. Width :
        rows[r][i] =
            IF (r - t.y) * Width + i - t.x \in 1 .. Len(text)
            THEN Seen(text[(r - t.y) * Width + i - t.x], t.pen)
            ELSE IF r <= Len(t.rows) THEN t.rows[r][i] ELSE Seen(Blank, t.pen)
  <2>1. \A r \in 1 .. Len(old), i \in 1 .. Width :
          old[r][i] = IF r <= Len(t.rows) THEN t.rows[r][i] ELSE Seen(Blank, t.pen)
    <3>1. \A i \in 1 .. Width : BlankRow(t.pen)[i] = Seen(Blank, t.pen)
      BY <1>2, BlankRowTyped
    <3> HIDE DEF old
    <3> QED BY <1>5, <3>1
  <2>2. \A r \in 1 .. Len(old), i \in 1 .. Width :
          rows[r][i] = IF (r - t.y) * Width + i - t.x \in 1 .. Len(text)
                       THEN Seen(text[(r - t.y) * Width + i - t.x], t.pen) ELSE old[r][i]
    <3> HIDE DEF old
    <3> QED OBVIOUS
  <2> HIDE DEF old, rows
  <2> QED BY <2>1, <2>2
<1> DEFINE q == [t EXCEPT !.rows = rows, !.x = x, !.y = y]
<1>10. q \in VTs /\ q.rows = rows /\ q.x = x /\ q.y = y /\ q.pen = t.pen /\ q.visible = t.visible
  <2> HIDE DEF rows, x, y
  <2> QED BY <1>3, <1>4, <1>8 DEF VTs
<1>11. Len(q.rows) = AtLeast(t.y + d, Len(t.rows)) /\ Len(q.rows) = Len(old)
  BY <1>5, <1>8, <1>10
<1> HIDE DEF q, rows, old
<1> QED BY <1>6, <1>9, <1>10, <1>11 DEF q

\* Characters for which there is room in the row.
LEMMA PutInRow ==
    ASSUME NEW t \in VTs, NEW text \in Textual, t.x + Len(text) <= Width, t.y \in 1 .. Len(t.rows)
    PROVE  LET q == Put(t, text)
           IN  /\ q \in VTs
               /\ q.x = t.x + Len(text) /\ q.y = t.y
               /\ q.pen = t.pen /\ q.visible = t.visible
               /\ Len(q.rows) = Len(t.rows)
               /\ \A r \in 1 .. Len(t.rows) : r # t.y => q.rows[r] = t.rows[r]
               /\ \A i \in 1 .. Width :
                    q.rows[t.y][i] = IF i - t.x \in 1 .. Len(text)
                                     THEN Seen(text[i - t.x], t.pen) ELSE t.rows[t.y][i]
<1> DEFINE q == Put(t, text)
<1> DEFINE d == RowsDown(t.x + Len(text))
<1>1. Len(text) \in Nat /\ t.x \in Nat /\ t.y \in Nat /\ Len(t.rows) \in Nat
  BY VTTyped DEF Textual
<1>2. d = 0
  <2> DEFINE n == t.x + Len(text)
  <2>1. n \in Nat /\ n <= Width
    BY <1>1
  <2> HIDE DEF n
  <2>2. RowsDown(n) = 0
    BY <2>1, RowsDownIs
  <2> QED BY <2>2 DEF n
<1>3. /\ q \in VTs /\ q.x = t.x + Len(text) - d * Width /\ q.y = t.y + d
      /\ q.pen = t.pen /\ q.visible = t.visible /\ Len(q.rows) = AtLeast(t.y + d, Len(t.rows))
      /\ \A r \in 1 .. Len(q.rows), i \in 1 .. Width :
           q.rows[r][i] =
               IF (r - t.y) * Width + i - t.x \in 1 .. Len(text)
               THEN Seen(text[(r - t.y) * Width + i - t.x], t.pen)
               ELSE IF r <= Len(t.rows) THEN t.rows[r][i] ELSE Seen(Blank, t.pen)
  BY PutIs
<1> HIDE DEF q, d
<1>4. q.x = t.x + Len(text) /\ q.y = t.y /\ Len(q.rows) = Len(t.rows)
  BY <1>1, <1>2, <1>3, ScreenAssumption DEF AtLeast
<1>5. ASSUME NEW r \in 1 .. Len(t.rows), r # t.y
      PROVE  q.rows[r] = t.rows[r]
  <2>1. ASSUME NEW i \in 1 .. Width
        PROVE  q.rows[r][i] = t.rows[r][i]
    <3> DEFINE k == (r - t.y) * Width
    <3>1. k \in Int /\ (k >= Width \/ k <= - Width)
      <4>1. PICK j \in Int : j = r - t.y
        BY <1>1
      <4>2. j >= 1 \/ j <= -1
        BY <1>1, <1>5, <4>1
      <4>3. \A m \in Int : (m >= 1 => m * Width >= Width) /\ (m <= -1 => m * Width <= - Width)
        BY ScreenAssumption
      <4>4. j * Width \in Int
        BY ScreenAssumption
      <4> QED BY <4>1, <4>2, <4>3, <4>4
    <3>2. k + i - t.x \notin 1 .. Len(text)
      <4> HIDE DEF k
      <4> QED BY <1>1, <3>1, ScreenAssumption
    <3> QED BY <1>3, <1>4, <3>2
  <2>2. q.rows[r] \in Rows /\ t.rows[r] \in Rows
    BY <1>3, <1>4, VTTyped
  <2> QED BY <2>1, <2>2, RowsEqual
<1>6. ASSUME NEW i \in 1 .. Width
      PROVE  q.rows[t.y][i] = IF i - t.x \in 1 .. Len(text)
                              THEN Seen(text[i - t.x], t.pen) ELSE t.rows[t.y][i]
  <2>1. (t.y - t.y) * Width + i - t.x = i - t.x
    BY <1>1, ScreenAssumption
  <2>2. q.rows[t.y][i] =
               IF (t.y - t.y) * Width + i - t.x \in 1 .. Len(text)
               THEN Seen(text[(t.y - t.y) * Width + i - t.x], t.pen)
               ELSE IF t.y <= Len(t.rows) THEN t.rows[t.y][i] ELSE Seen(Blank, t.pen)
    BY <1>3, <1>4
  <2>3. t.y <= Len(t.rows)
    BY <1>1
  <2> QED BY <2>1, <2>2, <2>3
<1> QED BY <1>3, <1>4, <1>5, <1>6 DEF q

\* A new line: at the bottom there is one more row.
LEMMA FeedIs ==
    ASSUME NEW t \in VTs
    PROVE  LET q == LineFeed(Return(t))
           IN  /\ q \in VTs /\ q.x = 0 /\ q.y = t.y + 1
               /\ q.pen = t.pen /\ q.visible = t.visible
               /\ Len(q.rows) = AtLeast(t.y + 1, Len(t.rows))
               /\ \A r \in 1 .. Len(q.rows) :
                    q.rows[r] = IF r <= Len(t.rows) THEN t.rows[r] ELSE BlankRow(t.pen)
<1> DEFINE s == Return(t)
<1> DEFINE rows == RowsTo(s, s.y + 1)
<1>1. /\ s \in VTs /\ s.rows = t.rows /\ s.x = 0 /\ s.y = t.y /\ s.pen = t.pen /\ s.visible = t.visible
  BY DEF Return, VTs
<1> HIDE DEF s
<1>2. s.y + 1 \in Nat
  BY <1>1, VTTyped
<1>3. /\ rows \in Seq(Rows) /\ Len(rows) = AtLeast(s.y + 1, Len(s.rows))
      /\ \A r \in 1 .. Len(rows) : rows[r] = IF r <= Len(s.rows) THEN s.rows[r] ELSE BlankRow(s.pen)
  BY <1>1, <1>2, RowsToIs
<1> HIDE DEF rows
<1> DEFINE q == LineFeed(s)
<1>4. q = [s EXCEPT !.rows = rows, !.y = s.y + 1]
  BY <1>1 DEF LineFeed, rows, VTs
<1>5. q \in VTs /\ q.rows = rows /\ q.x = s.x /\ q.y = s.y + 1 /\ q.pen = s.pen /\ q.visible = s.visible
  BY <1>1, <1>2, <1>3, <1>4 DEF VTs
<1> HIDE DEF q
<1>6. q = LineFeed(Return(t))
  BY DEF q, s
<1> QED BY <1>1, <1>3, <1>5, <1>6

LEMMA EraseIs ==
    ASSUME NEW t \in VTs, t.y \in 1 .. Len(t.rows), NEW last \in Nat
    PROVE  LET q == Erase(t, last)
           IN  /\ q \in VTs /\ q.x = t.x /\ q.y = t.y
               /\ q.pen = t.pen /\ q.visible = t.visible
               /\ Len(q.rows) = Len(t.rows)
               /\ \A r \in 1 .. Len(t.rows) : r # t.y =>
                    q.rows[r] = IF r > t.y /\ r <= last THEN BlankRow(t.pen) ELSE t.rows[r]
               /\ \A i \in 1 .. Width :
                    q.rows[t.y][i] = IF i > Column(t) THEN Seen(Blank, t.pen) ELSE t.rows[t.y][i]
<1> DEFINE row == [i \in 1 .. Width |-> IF i > Column(t) THEN Seen(Blank, t.pen) ELSE t.rows[t.y][i]]
<1> DEFINE rows == [r \in 1 .. Len(t.rows) |->
                        IF r = t.y THEN row
                        ELSE IF r > t.y /\ r <= last THEN BlankRow(t.pen) ELSE t.rows[r]]
<1>1. /\ t.pen \in Colors /\ Len(t.rows) \in Nat /\ DOMAIN t.rows = 1 .. Len(t.rows)
      /\ \A r \in 1 .. Len(t.rows) : t.rows[r] \in Rows
  BY VTTyped
<1>2. BlankRow(t.pen) \in Rows /\ Seen(Blank, t.pen) \in Cells
  BY <1>1, BlankRowTyped, SeenTyped, ScreenAssumption
<1>3. row \in Rows
  <2>1. \A i \in 1 .. Width : t.rows[t.y][i] \in Cells
    BY <1>1 DEF Rows
  <2> QED BY <1>2, <2>1 DEF Rows
<1>4. Erase(t, last) = [t EXCEPT !.rows = rows]
  BY <1>1 DEF Erase, VTs
<1>5. \A i \in 1 .. Width : row[i] = IF i > Column(t) THEN Seen(Blank, t.pen) ELSE t.rows[t.y][i]
  OBVIOUS
<1> HIDE DEF row
<1>6. \A r \in 1 .. Len(t.rows) : rows[r] \in Rows
  BY <1>1, <1>2, <1>3
<1>7. rows \in Seq(Rows) /\ Len(rows) = Len(t.rows)
  <2>1. rows = [r \in 1 .. Len(t.rows) |-> rows[r]]
    OBVIOUS
  <2> HIDE DEF rows
  <2> QED BY <1>1, <1>6, <2>1
<1>8. \A r \in 1 .. Len(t.rows) : r # t.y =>
        rows[r] = IF r > t.y /\ r <= last THEN BlankRow(t.pen) ELSE t.rows[r]
  OBVIOUS
<1>9. rows[t.y] = row
  OBVIOUS
<1> HIDE DEF rows
<1> DEFINE q == [t EXCEPT !.rows = rows]
<1>10. q \in VTs /\ q.rows = rows /\ q.x = t.x /\ q.y = t.y /\ q.pen = t.pen /\ q.visible = t.visible
  BY <1>7 DEF VTs
<1> HIDE DEF q
<1>11. Erase(t, last) = q
  BY <1>4 DEF q
<1> QED BY <1>5, <1>7, <1>8, <1>9, <1>10, <1>11

\* The cursor goes to any column and row of those that are kept track of.
LEMMA Move ==
    ASSUME NEW top \in Nat, NEW p, Synced(p, top), NEW x \in Nat, x < Width,
           NEW y \in Nat, top + 1 + y <= Len(p.vt.rows)
    PROVE  LET q == move(p, x, y)
           IN  /\ Synced(q, top) /\ q.curX = x /\ q.curY = y
               /\ q.vt.rows = p.vt.rows /\ q.vt.pen = p.vt.pen
               /\ Kept(p, q)
<1> DEFINE t == p.vt
<1>1. /\ p \in Program /\ t \in VTs /\ PenKnown(p) /\ t.visible = ~p.hideCursor
      /\ Height <= Len(t.rows) /\ Len(t.rows) <= top + Height
      /\ t.y = top + 1 + p.curY /\ t.x = p.curX /\ p.curX < Width
      /\ p.curX \in Nat /\ p.curY \in Nat /\ Len(t.rows) \in Nat
      /\ t.y <= Len(t.rows)
  BY ProgramTyped, VTTyped DEF Synced, Sound, OnScreen
<1> HIDE DEF t
<1>2. FirstRow(t) \in Int /\ FirstRow(t) <= top + 1 /\ FirstRow(t) >= 1
  BY <1>1, ScreenAssumption DEF FirstRow
<1> DEFINE v == IF y > p.curY THEN Down(t, y - p.curY)
                ELSE IF y < p.curY THEN Up(t, p.curY - y) ELSE t
<1> DEFINE h == IF x > p.curX THEN Right(v, x - p.curX)
                ELSE IF x < p.curX THEN Left(v, p.curX - x) ELSE v
<1>3. /\ v \in VTs /\ v.y = top + 1 + y /\ v.x = t.x /\ v.rows = t.rows
      /\ v.pen = t.pen /\ v.visible = t.visible
  <2>1. CASE y > p.curY
    <3>1. AtMost(t.y + (y - p.curY), Len(t.rows)) = top + 1 + y
      BY <1>1, <2>1 DEF AtMost, t
    <3>2. v = [t EXCEPT !.y = top + 1 + y]
      BY <1>1, <2>1, <3>1 DEF Down, VTs
    <3>3. top + 1 + y \in Nat
      OBVIOUS
    <3> DEFINE z == top + 1 + y
    <3> HIDE DEF v, z
    <3>4. z \in Nat /\ v = [t EXCEPT !.y = z]
      BY <3>2, <3>3 DEF z
    <3>5. v \in VTs /\ v.y = z /\ v.x = t.x /\ v.rows = t.rows /\ v.pen = t.pen /\ v.visible = t.visible
      BY <1>1, <3>4 DEF VTs
    <3> QED BY <3>5 DEF z
  <2>2. CASE y < p.curY
    <3>1. AtLeast(t.y - (p.curY - y), FirstRow(t)) = top + 1 + y
      <4>1. t.y - (p.curY - y) = top + 1 + y
        <5>1. t.y = top + 1 + p.curY /\ p.curY \in Nat
          BY <1>1
        <5> QED BY <5>1
      <4>2. ~(top + 1 + y < FirstRow(t))
        BY <1>2
      <4> QED BY <4>1, <4>2 DEF AtLeast
    <3>2. v = [t EXCEPT !.y = top + 1 + y]
      BY <1>1, <2>2, <3>1 DEF Up, VTs
    <3>3. top + 1 + y \in Nat
      OBVIOUS
    <3> DEFINE z == top + 1 + y
    <3> HIDE DEF v, z
    <3>4. z \in Nat /\ v = [t EXCEPT !.y = z]
      BY <3>2, <3>3 DEF z
    <3>5. v \in VTs /\ v.y = z /\ v.x = t.x /\ v.rows = t.rows /\ v.pen = t.pen /\ v.visible = t.visible
      BY <1>1, <3>4 DEF VTs
    <3> QED BY <3>5 DEF z
  <2>3. CASE y = p.curY
    BY <1>1, <2>3
  <2> QED BY <1>1, <2>1, <2>2, <2>3
<1> HIDE DEF v
<1>4. Column(v) = p.curX
  BY <1>1, <1>3, ScreenAssumption DEF Column, AtMost
<1>5. /\ h \in VTs /\ h.y = top + 1 + y /\ h.x = x /\ h.rows = t.rows
      /\ h.pen = t.pen /\ h.visible = t.visible
  <2>1. CASE x > p.curX
    <3>1. AtMost(Column(v) + (x - p.curX), Width - 1) = x
      BY <1>1, <1>4, <2>1, ScreenAssumption DEF AtMost
    <3>2. h = [v EXCEPT !.x = x]
      BY <2>1, <3>1 DEF Right
    <3> HIDE DEF h
    <3> QED BY <1>3, <3>2 DEF VTs
  <2>2. CASE x < p.curX
    <3>1. AtLeast(Column(v) - (p.curX - x), 0) = x
      BY <1>1, <1>4, <2>2 DEF AtLeast
    <3>2. h = [v EXCEPT !.x = x]
      BY <1>1, <2>2, <3>1 DEF Left
    <3> HIDE DEF h
    <3> QED BY <1>3, <3>2 DEF VTs
  <2>3. CASE x = p.curX
    BY <1>1, <1>3, <2>3
  <2> QED BY <1>1, <2>1, <2>2, <2>3
<1>6. move(p, x, y) = [p EXCEPT !.vt = h, !.curX = x, !.curY = y]
  BY DEF move, h, v, t
<1> HIDE DEF h
<1> DEFINE q == [p EXCEPT !.vt = h, !.curX = x, !.curY = y]
<1>7. /\ q \in Program /\ q.vt = h /\ q.curX = x /\ q.curY = y /\ q.lastColor = p.lastColor
      /\ q.buf = p.buf /\ q.haveStatus = p.haveStatus /\ q.hideCursor = p.hideCursor
  BY <1>1, <1>5 DEF Program
<1> HIDE DEF q
<1>8. Synced(q, top)
  <2>1. PenKnown(q)
    BY <1>1, <1>5, <1>7 DEF PenKnown, t
  <2>2. OnScreen(q.vt)
    <3>1. FirstRow(h) = FirstRow(t)
      BY <1>5 DEF FirstRow
    <3>2. h.y \in FirstRow(h) .. Len(h.rows) /\ h.x \in 0 .. Width
      BY <1>1, <1>2, <1>5, <3>1, ScreenAssumption DEF t
    <3> QED BY <1>1, <1>5, <1>7, <3>2 DEF OnScreen
  <2> QED BY <1>1, <1>5, <1>7, <2>1, <2>2 DEF Synced, Sound
<1>9. move(p, x, y) = q
  BY <1>6 DEF q
<1> QED BY <1>5, <1>7, <1>8, <1>9 DEF Kept, t

\* Text of a color, and the new line after it, are what the terminal makes of them with
\* its pen in that color.
Inked(p, t, color) ==
    /\ t \in VTs /\ t.rows = p.vt.rows /\ t.x = p.vt.x /\ t.y = p.vt.y
    /\ t.pen = Meant(color) /\ t.visible = p.vt.visible

Wrote(p, q, color) ==
    /\ q \in Program /\ q.lastColor = Meant(color)
    /\ q.buf = p.buf /\ q.haveStatus = p.haveStatus /\ q.hideCursor = p.hideCursor

LEMMA PrintTextIs ==
    ASSUME NEW p \in Program, PenKnown(p), NEW color \in Colors, NEW text \in Textual
    PROVE  LET q == printText(p, color, text)
           IN  /\ Wrote(p, q, color)
               /\ q.curX = p.curX + Len(text) /\ q.curY = p.curY
               /\ \E t : Inked(p, t, color) /\ q.vt = Put(t, text)
<1> DEFINE s == setColor(p, color)
<1>1. /\ s \in Program /\ s.vt.pen = Meant(color) /\ s.lastColor = Meant(color)
      /\ s.vt.rows = p.vt.rows /\ s.vt.x = p.vt.x /\ s.vt.y = p.vt.y
      /\ s.curX = p.curX /\ s.curY = p.curY /\ Kept(p, s)
  BY SetColor
<1> DEFINE v == Put(s.vt, text)
<1> DEFINE x == s.curX + Len(text)
<1> DEFINE q == printText(p, color, text)
<1>2. q = [s EXCEPT !.vt = v, !.curX = x]
  <2> HIDE DEF s
  <2>1. q = [s EXCEPT !.vt = Put(@, text), !.curX = @ + Len(text)]
    BY DEF printText, s
  <2> HIDE DEF q
  <2> QED BY <1>1, <2>1 DEF Program
<1> HIDE DEF s
<1>3. s.vt \in VTs
  BY <1>1, ProgramTyped
<1>4. v \in VTs
  BY <1>3, PutIs
<1>5. x \in Nat
  BY <1>1, ProgramTyped DEF Textual
<1> HIDE DEF v, x, q
<1>6. /\ q \in Program /\ q.vt = v /\ q.curX = x /\ q.curY = s.curY /\ q.lastColor = s.lastColor
      /\ q.buf = s.buf /\ q.haveStatus = s.haveStatus /\ q.hideCursor = s.hideCursor
  BY <1>1, <1>2, <1>4, <1>5 DEF Program
<1>7. Inked(p, s.vt, color) /\ q.vt = Put(s.vt, text)
  BY <1>1, <1>3, <1>6 DEF Inked, Kept, v
<1>8. Wrote(p, q, color)
  BY <1>1, <1>6 DEF Wrote, Kept
<1> QED BY <1>1, <1>6, <1>7, <1>8 DEF q, x

LEMMA PrintNewlineIs ==
    ASSUME NEW p \in Program, PenKnown(p), NEW color \in Colors
    PROVE  LET q == printNewline(p, color)
           IN  /\ Wrote(p, q, color)
               /\ q.curX = 0 /\ q.curY = p.curY + 1
               /\ \E t : Inked(p, t, color) /\ q.vt = LineFeed(Return(t))
<1> DEFINE s == setColor(p, color)
<1>1. /\ s \in Program /\ s.vt.pen = Meant(color) /\ s.lastColor = Meant(color)
      /\ s.vt.rows = p.vt.rows /\ s.vt.x = p.vt.x /\ s.vt.y = p.vt.y
      /\ s.curX = p.curX /\ s.curY = p.curY /\ Kept(p, s)
  BY SetColor
<1> DEFINE v == LineFeed(Return(s.vt))
<1> DEFINE y == s.curY + 1
<1> DEFINE q == printNewline(p, color)
<1>2. q = [s EXCEPT !.vt = v, !.curX = 0, !.curY = y]
  <2> HIDE DEF s
  <2>1. q = [s EXCEPT !.vt = LineFeed(Return(@)), !.curX = 0, !.curY = @ + 1]
    BY DEF printNewline, s
  <2> HIDE DEF q
  <2> QED BY <1>1, <2>1 DEF Program
<1> HIDE DEF s
<1>3. s.vt \in VTs
  BY <1>1, ProgramTyped
<1>4. v \in VTs
  BY <1>3, FeedIs
<1>5. y \in Nat
  BY <1>1, ProgramTyped
<1> HIDE DEF v, y, q
<1>6. /\ q \in Program /\ q.vt = v /\ q.curX = 0 /\ q.curY = y /\ q.lastColor = s.lastColor
      /\ q.buf = s.buf /\ q.haveStatus = s.haveStatus /\ q.hideCursor = s.hideCursor
  BY <1>1, <1>2, <1>4, <1>5 DEF Program
<1>7. Inked(p, s.vt, color) /\ q.vt = LineFeed(Return(s.vt))
  BY <1>1, <1>3, <1>6 DEF Inked, Kept, v
<1>8. Wrote(p, q, color)
  BY <1>1, <1>6 DEF Wrote, Kept
<1> QED BY <1>1, <1>6, <1>7, <1>8 DEF q, y

\* Text in a row of the frame: the cells it takes, and no others.
Printed(p, q, top, color, text) ==
    LET row == top + 1 + p.curY
    IN  /\ Synced(q, top) /\ q.curX = p.curX + Len(text) /\ q.curY = p.curY
        /\ q.vt.pen = Meant(color) /\ Kept(p, q)
        /\ row \in 1 .. Len(p.vt.rows) /\ Len(q.vt.rows) = Len(p.vt.rows)
        /\ \A r \in 1 .. Len(p.vt.rows) : r # row => q.vt.rows[r] = p.vt.rows[r]
        /\ \A i \in 1 .. Width :
             q.vt.rows[row][i] = IF i - p.curX \in 1 .. Len(text)
                                 THEN Seen(text[i - p.curX], Meant(color))
                                 ELSE p.vt.rows[row][i]

LEMMA PrintAt ==
    ASSUME NEW top \in Nat, NEW p, Synced(p, top), NEW color \in Colors, NEW text \in Textual,
           p.curX + Len(text) < Width
    PROVE  Printed(p, printText(p, color, text), top, color, text)
<1> DEFINE q == printText(p, color, text)
<1> DEFINE row == top + 1 + p.curY
<1>1. /\ p \in Program /\ PenKnown(p) /\ p.vt.visible = ~p.hideCursor
      /\ Height <= Len(p.vt.rows) /\ Len(p.vt.rows) <= top + Height
      /\ p.vt.y = row /\ p.vt.x = p.curX /\ p.vt.y <= Len(p.vt.rows)
      /\ p.vt.y >= FirstRow(p.vt)
      /\ p.curX \in Nat /\ p.curY \in Nat /\ Len(p.vt.rows) \in Nat /\ Len(text) \in Nat
  BY ProgramTyped, VTTyped DEF Synced, Sound, OnScreen, Textual
<1>2. PICK t : Inked(p, t, color) /\ q.vt = Put(t, text)
  BY <1>1, PrintTextIs
<1>3. Wrote(p, q, color) /\ q.curX = p.curX + Len(text) /\ q.curY = p.curY
  BY <1>1, PrintTextIs
<1> HIDE DEF q
<1> DEFINE v == Put(t, text)
<1>4. t \in VTs /\ t.x + Len(text) <= Width /\ t.y \in 1 .. Len(t.rows)
  <2>1. t \in VTs /\ t.rows = p.vt.rows /\ t.x = p.curX /\ t.y = row
    BY <1>1, <1>2 DEF Inked
  <2>2. row \in 1 .. Len(p.vt.rows)
    BY <1>1
  <2>3. p.curX + Len(text) <= Width
    BY <1>1, ScreenAssumption
  <2> QED BY <2>1, <2>2, <2>3
<1>5. /\ v \in VTs
      /\ v.x = t.x + Len(text) /\ v.y = t.y
      /\ v.pen = t.pen /\ v.visible = t.visible
      /\ Len(v.rows) = Len(t.rows)
      /\ \A r \in 1 .. Len(t.rows) : r # t.y => v.rows[r] = t.rows[r]
      /\ \A i \in 1 .. Width :
           v.rows[t.y][i] = IF i - t.x \in 1 .. Len(text)
                            THEN Seen(text[i - t.x], t.pen) ELSE t.rows[t.y][i]
  BY <1>4, PutInRow
<1> HIDE DEF v
<1>6. q.vt = v
  BY <1>2 DEF v
<1>7. /\ t.rows = p.vt.rows /\ t.x = p.curX /\ t.y = row /\ t.pen = Meant(color)
      /\ t.visible = p.vt.visible
  BY <1>1, <1>2 DEF Inked
<1>8. Kept(p, q) /\ PenKnown(q) /\ q \in Program
  BY <1>3, <1>5, <1>6, <1>7 DEF Kept, Wrote, PenKnown
<1>9. OnScreen(v)
  <2>1. FirstRow(v) = FirstRow(p.vt)
    BY <1>5, <1>7 DEF FirstRow
  <2> QED BY <1>1, <1>5, <1>7, <2>1, ScreenAssumption DEF OnScreen, FirstRow
<1>10. Synced(q, top)
  BY <1>1, <1>3, <1>5, <1>6, <1>7, <1>8, <1>9 DEF Synced, Sound, Kept
<1>11. row \in 1 .. Len(p.vt.rows)
  BY <1>1
<1> HIDE DEF row
<1>12. \A r \in 1 .. Len(p.vt.rows) : r # row => q.vt.rows[r] = p.vt.rows[r]
  BY <1>5, <1>6, <1>7
<1>13. \A i \in 1 .. Width :
           q.vt.rows[row][i] = IF i - p.curX \in 1 .. Len(text)
                               THEN Seen(text[i - p.curX], Meant(color))
                               ELSE p.vt.rows[row][i]
  BY <1>5, <1>6, <1>7
<1>14. q.vt.pen = Meant(color) /\ Len(q.vt.rows) = Len(p.vt.rows)
  BY <1>5, <1>6, <1>7
<1> QED BY <1>3, <1>8, <1>10, <1>11, <1>12, <1>13, <1>14 DEF q, row, Printed

\* A new line in a frame that has room for it: rows that are new are blank.
LEMMA Newline ==
    ASSUME NEW top \in Nat, NEW p, Synced(p, top), p.curY + 2 <= Height
    PROVE  LET q == printNewline(p, NoColor)
           IN  /\ Synced(q, top) /\ q.curX = 0 /\ q.curY = p.curY + 1
               /\ q.vt.pen = colorNormal /\ Kept(p, q)
               /\ Len(p.vt.rows) <= Len(q.vt.rows) /\ top + 1 + q.curY <= Len(q.vt.rows)
               /\ \A r \in 1 .. Len(q.vt.rows) :
                    q.vt.rows[r] = IF r <= Len(p.vt.rows) THEN p.vt.rows[r] ELSE BlankRow(colorNormal)
<1> DEFINE q == printNewline(p, NoColor)
<1>1. /\ p \in Program /\ PenKnown(p) /\ p.vt.visible = ~p.hideCursor
      /\ Height <= Len(p.vt.rows) /\ Len(p.vt.rows) <= top + Height
      /\ p.vt.y = top + 1 + p.curY /\ p.vt.x = p.curX /\ p.vt.y <= Len(p.vt.rows)
      /\ p.vt.y >= FirstRow(p.vt)
      /\ p.curX \in Nat /\ p.curY \in Nat /\ Len(p.vt.rows) \in Nat
  BY ProgramTyped, VTTyped DEF Synced, Sound, OnScreen
<1>2. PICK t : Inked(p, t, NoColor) /\ q.vt = LineFeed(Return(t))
  BY <1>1, ColorsTyped, PrintNewlineIs
<1>3. Wrote(p, q, NoColor) /\ q.curX = 0 /\ q.curY = p.curY + 1
  BY <1>1, ColorsTyped, PrintNewlineIs
<1> HIDE DEF q
<1> DEFINE v == LineFeed(Return(t))
<1>4. t \in VTs
  BY <1>2 DEF Inked
<1>5. /\ v \in VTs /\ v.x = 0 /\ v.y = t.y + 1
      /\ v.pen = t.pen /\ v.visible = t.visible
      /\ Len(v.rows) = AtLeast(t.y + 1, Len(t.rows))
      /\ \A r \in 1 .. Len(v.rows) : v.rows[r] = IF r <= Len(t.rows) THEN t.rows[r] ELSE BlankRow(t.pen)
  BY <1>4, FeedIs
<1> HIDE DEF v
<1>6. q.vt = v
  BY <1>2 DEF v
<1>7. /\ t.rows = p.vt.rows /\ t.x = p.curX /\ t.y = top + 1 + p.curY /\ t.pen = colorNormal
      /\ t.visible = p.vt.visible
  BY <1>1, <1>2, MeantNormal DEF Inked
<1>8. Kept(p, q) /\ PenKnown(q) /\ q \in Program
  BY <1>3, <1>5, <1>6, <1>7, MeantNormal DEF Kept, Wrote, PenKnown
<1>9. /\ Len(v.rows) \in Nat /\ Len(v.rows) >= Len(p.vt.rows) /\ Len(v.rows) >= top + 1 + q.curY
      /\ Len(v.rows) <= top + Height
  <2> DEFINE a == t.y + 1
  <2> DEFINE b == Len(p.vt.rows)
  <2> DEFINE c == Len(v.rows)
  <2>1. a = top + 1 + q.curY /\ a \in Nat
    BY <1>1, <1>3, <1>7
  <2>2. a <= top + Height /\ b \in Nat /\ b <= top + Height
    BY <1>1, <1>7, ScreenAssumption
  <2>3. c = AtLeast(a, b)
    BY <1>5, <1>7
  <2> HIDE DEF a, b, c
  <2>4. c \in Nat /\ c >= b /\ c >= a /\ c <= top + Height
    BY <2>1, <2>2, <2>3 DEF AtLeast
  <2> QED BY <2>1, <2>4 DEF b, c
<1>10. OnScreen(v)
  <2>1. FirstRow(v) <= top + 1
    BY <1>9, ScreenAssumption DEF FirstRow
  <2>2. FirstRow(v) \in Int
    BY <1>9, ScreenAssumption DEF FirstRow
  <2>3. v.x \in 0 .. Width
    BY <1>5, ScreenAssumption
  <2>4. v.y = top + 1 + q.curY /\ v.y >= top + 1 /\ v.y \in Nat
    BY <1>1, <1>3, <1>5, <1>7
  <2>5. v.y \in FirstRow(v) .. Len(v.rows)
    BY <1>9, <2>1, <2>2, <2>4
  <2>6. Height <= Len(v.rows)
    BY <1>1, <1>9, ScreenAssumption
  <2> QED BY <2>3, <2>5, <2>6 DEF OnScreen
<1>11. Synced(q, top)
  BY <1>1, <1>3, <1>5, <1>6, <1>7, <1>8, <1>9, <1>10, ScreenAssumption DEF Synced, Sound, Kept
<1> QED BY <1>3, <1>5, <1>6, <1>7, <1>8, <1>9, <1>11 DEF q

-----------------------------------------------------------------------------
(* Clearing.                                                               *)

LEMMA ShowsBlank ==
    ASSUME NEW t, NEW stay, Len(stay) \in Nat
    PROVE  Shows(t, stay, <<>>) <=>
               /\ Len(stay) <= Len(t.rows)
               /\ \A r \in DOMAIN t.rows :
                    t.rows[r] = IF r <= Len(stay) THEN stay[r] ELSE BlankRow(colorNormal)
<1>1. Len(<<>>) = 0
  OBVIOUS
<1>2. Len(stay) + 0 = Len(stay)
  OBVIOUS
<1>3. \A r : RowAt(stay, <<>>, r) = IF r <= Len(stay) THEN stay[r] ELSE BlankRow(colorNormal)
  BY <1>1, <1>2 DEF RowAt
<1> QED BY <1>1, <1>2, <1>3 DEF Shows

\* When the row after those that stay is made blank, and what is below it is so, nothing
\* else is shown.
LEMMA ShowsErased ==
    ASSUME NEW stay \in Seq(Rows), NEW shown \in Seq(Rows), NEW t \in VTs, NEW q \in VTs,
           Shows(t, stay, shown), Len(stay) < Len(t.rows), Len(q.rows) = Len(t.rows),
           \A r \in 1 .. Len(t.rows) : r <= Len(stay) => q.rows[r] = t.rows[r],
           q.rows[Len(stay) + 1] = BlankRow(colorNormal),
           \A r \in 1 .. Len(t.rows) : r > Len(stay) + 1 =>
                \/ q.rows[r] = BlankRow(colorNormal)
                \/ Len(shown) <= 1 /\ q.rows[r] = t.rows[r]
    PROVE  Shows(q, stay, <<>>)
<1>1. /\ Len(stay) \in Nat /\ Len(shown) \in Nat
      /\ Len(t.rows) \in Nat /\ DOMAIN t.rows = 1 .. Len(t.rows)
      /\ DOMAIN q.rows = 1 .. Len(t.rows)
  BY VTTyped
<1>2. ASSUME NEW r \in 1 .. Len(t.rows)
      PROVE  q.rows[r] = IF r <= Len(stay) THEN stay[r] ELSE BlankRow(colorNormal)
  <2>1. t.rows[r] = RowAt(stay, shown, r)
    BY <1>1 DEF Shows
  <2>2. CASE r <= Len(stay)
    BY <2>1, <2>2 DEF RowAt
  <2>3. CASE r = Len(stay) + 1
    BY <1>1, <2>3
  <2>4. CASE r > Len(stay) + 1
    <3>1. Len(shown) <= 1 => t.rows[r] = BlankRow(colorNormal)
      BY <1>1, <2>1, <2>4 DEF RowAt
    <3> QED BY <1>1, <2>4, <3>1
  <2> QED BY <1>1, <2>2, <2>3, <2>4
<1> QED BY <1>1, <1>2, ShowsBlank

LEMMA ColumnReturned ==
    ASSUME NEW t, t.x = 0
    PROVE  Column(t) = 0
BY ScreenAssumption DEF Column, AtMost

\* A status is cleared before anything else is printed.
LEMMA ClearStatus ==
    ASSUME NEW stay \in Seq(Rows), NEW shown \in Seq(Rows), NEW p,
           AtShell(p, stay, shown), Shows(p.vt, stay, shown)
    PROVE  LET q == clearStatus(p)
           IN  AtShell(q, stay, <<>>) /\ Shows(q.vt, stay, <<>>) /\ ~q.haveStatus
<1>1. /\ p \in Program /\ PenKnown(p) /\ p.vt.visible = ~p.hideCursor
      /\ Height <= Len(p.vt.rows) /\ Len(p.vt.rows) <= Len(stay) + Height
      /\ p.vt.y = Len(stay) + 1 /\ p.vt.y <= Len(p.vt.rows) /\ p.vt.y >= FirstRow(p.vt)
      /\ p.vt.pen = colorNormal /\ p.buf = <<>> /\ ~p.hideCursor
      /\ p.vt \in VTs /\ Len(p.vt.rows) \in Nat /\ Len(stay) \in Nat
  BY ProgramTyped, VTTyped DEF AtShell, Sound, OnScreen
<1>2. CASE ~p.haveStatus
  <2>1. clearStatus(p) = p /\ shown = <<>>
    BY <1>2 DEF clearStatus, AtShell
  <2> QED BY <1>2, <2>1
<1>3. CASE p.haveStatus
  <2> DEFINE a == [p EXCEPT !.vt = Return(@), !.curX = 0]
  <2> DEFINE v == Return(p.vt)
  <2>1. /\ v \in VTs /\ v.rows = p.vt.rows /\ v.x = 0 /\ v.y = p.vt.y /\ v.pen = p.vt.pen
        /\ v.visible = p.vt.visible
    BY <1>1 DEF Return, VTs
  <2>2. a = [p EXCEPT !.vt = v, !.curX = 0]
    BY <1>1 DEF Program
  <2> HIDE DEF v
  <2>3. /\ a \in Program /\ a.vt = v /\ a.lastColor = p.lastColor
        /\ a.buf = p.buf /\ a.haveStatus = p.haveStatus /\ a.hideCursor = p.hideCursor
    <3> HIDE DEF a
    <3> QED BY <1>1, <2>1, <2>2 DEF Program
  <2>4. PenKnown(a)
    <3> HIDE DEF a
    <3> QED BY <1>1, <2>1, <2>3 DEF PenKnown
  <2> DEFINE s == setColor(a, NoColor)
  <2>5. /\ s \in Program /\ s.vt.pen = colorNormal /\ s.lastColor = colorNormal
        /\ s.vt.rows = a.vt.rows /\ s.vt.x = a.vt.x /\ s.vt.y = a.vt.y /\ Kept(a, s)
    <3> HIDE DEF a
    <3> QED BY <2>3, <2>4, SetColor, ColorsTyped, MeantNormal
  <2> DEFINE w == EraseToEnd(s.vt)
  <2> DEFINE b == clearToEOL(a)
  <2> HIDE DEF a
  <2>6. b = [s EXCEPT !.vt = w]
    BY <2>5 DEF clearToEOL, Program
  <2> HIDE DEF s
  <2>7. s.vt \in VTs /\ s.vt.y = p.vt.y /\ s.vt.x = 0 /\ s.vt.rows = p.vt.rows
        /\ s.vt.visible = p.vt.visible
    BY <2>1, <2>3, <2>5, ProgramTyped DEF Kept
  <2>8. /\ w \in VTs /\ w.x = 0 /\ w.y = p.vt.y /\ w.pen = colorNormal /\ w.visible = p.vt.visible
        /\ Len(w.rows) = Len(p.vt.rows)
        /\ \A r \in 1 .. Len(p.vt.rows) : r # p.vt.y => w.rows[r] = p.vt.rows[r]
        /\ \A i \in 1 .. Width : w.rows[p.vt.y][i] = Seen(Blank, colorNormal)
    <3>1. s.vt.y \in 1 .. Len(s.vt.rows) /\ s.vt.y \in Nat
      BY <1>1, <2>7
    <3>2. Column(s.vt) = 0
      BY <2>7, ColumnReturned
    <3> DEFINE u == s.vt
    <3> DEFINE e == Erase(u, u.y)
    <3> HIDE DEF u
    <3>3. u \in VTs /\ u.y \in 1 .. Len(u.rows) /\ u.y \in Nat
      BY <2>7, <3>1 DEF u
    <3>4. /\ e \in VTs /\ e.x = u.x /\ e.y = u.y
          /\ e.pen = u.pen /\ e.visible = u.visible
          /\ Len(e.rows) = Len(u.rows)
          /\ \A r \in 1 .. Len(u.rows) : r # u.y =>
               e.rows[r] = IF r > u.y /\ r <= u.y THEN BlankRow(u.pen) ELSE u.rows[r]
          /\ \A i \in 1 .. Width :
               e.rows[u.y][i] = IF i > Column(u) THEN Seen(Blank, u.pen) ELSE u.rows[u.y][i]
      BY <3>3, EraseIs
    <3>5. e = w
      BY DEF EraseToEnd, u
    <3> HIDE DEF e, w
    <3>6. \A r \in 1 .. Len(u.rows) : r # u.y => e.rows[r] = u.rows[r]
      BY <3>3, <3>4
    <3>7. \A i \in 1 .. Width : e.rows[u.y][i] = Seen(Blank, u.pen)
      BY <3>2, <3>4 DEF u
    <3> QED BY <2>5, <2>7, <3>4, <3>5, <3>6, <3>7 DEF u
  <2> HIDE DEF w
  <2>9. /\ b \in Program /\ b.vt = w /\ b.lastColor = colorNormal
        /\ b.buf = p.buf /\ b.hideCursor = p.hideCursor
    <3> HIDE DEF b
    <3> QED BY <2>3, <2>5, <2>6, <2>8 DEF Program, Kept
  <2> DEFINE q == clearStatus(p)
  <2>10. q = [b EXCEPT !.haveStatus = FALSE]
    BY <1>3 DEF clearStatus, a
  <2> HIDE DEF b, q
  <2>11. /\ q \in Program /\ q.vt = w /\ q.lastColor = colorNormal
         /\ q.buf = p.buf /\ q.hideCursor = p.hideCursor /\ q.haveStatus = FALSE
    BY <2>9, <2>10 DEF Program
  <2>12. Sound(q)
    <3>1. FirstRow(w) = FirstRow(p.vt)
      BY <2>8 DEF FirstRow
    <3>2. OnScreen(w)
      BY <1>1, <2>8, <3>1, ScreenAssumption DEF OnScreen
    <3>3. PenKnown(q)
      BY <2>8, <2>11 DEF PenKnown
    <3> QED BY <1>1, <2>8, <2>11, <3>2, <3>3 DEF Sound
  <2>13. AtShell(q, stay, <<>>)
    BY <1>1, <2>8, <2>11, <2>12 DEF AtShell
  <2>14. w.rows[p.vt.y] = BlankRow(colorNormal)
    <3>1. w.rows[p.vt.y] \in Rows
      BY <1>1, <2>8, VTTyped
    <3>2. /\ BlankRow(colorNormal) \in Rows
          /\ \A i \in 1 .. Width : BlankRow(colorNormal)[i] = Seen(Blank, colorNormal)
      BY ColorsTyped, BlankRowTyped
    <3>3. \A i \in 1 .. Width : w.rows[p.vt.y][i] = BlankRow(colorNormal)[i]
      BY <2>8, <3>2
    <3> QED BY <3>1, <3>2, <3>3, RowsEqual
  <2>15. Shows(w, stay, <<>>)
    <3>1. Len(shown) = 1
      BY <1>3 DEF AtShell
    <3>2. Len(stay) < Len(p.vt.rows)
      BY <1>1
    <3>3. \A r \in 1 .. Len(p.vt.rows) : r <= Len(stay) => w.rows[r] = p.vt.rows[r]
      BY <1>1, <2>8
    <3>4. \A r \in 1 .. Len(p.vt.rows) : r > Len(stay) + 1 => w.rows[r] = p.vt.rows[r]
      BY <1>1, <2>8
    <3>5. w.rows[Len(stay) + 1] = BlankRow(colorNormal)
      BY <1>1, <2>14
    <3> DEFINE t == p.vt
    <3>6. t \in VTs /\ w \in VTs /\ Len(w.rows) = Len(t.rows) /\ Shows(t, stay, shown)
      BY <1>1, <2>8
    <3>7. \A r \in 1 .. Len(t.rows) : r > Len(stay) + 1 =>
            \/ w.rows[r] = BlankRow(colorNormal)
            \/ Len(shown) <= 1 /\ w.rows[r] = t.rows[r]
      BY <3>1, <3>4
    <3>8. Len(stay) < Len(t.rows) /\ \A r \in 1 .. Len(t.rows) : r <= Len(stay) => w.rows[r] = t.rows[r]
      BY <3>2, <3>3
    <3> HIDE DEF t
    <3> QED BY <3>5, <3>6, <3>7, <3>8, ShowsErased
  <2> QED BY <2>11, <2>13, <2>15 DEF q
<1> QED BY <1>2, <1>3

LEMMA InitialTyped ==
    ASSUME NEW t \in VTs
    PROVE  LET q == Initial(t)
           IN  /\ q \in Program /\ q.vt = t /\ q.curX = 0 /\ q.curY = 0 /\ q.lastColor = NoColor
               /\ ~q.hideCursor /\ ~q.haveStatus /\ q.buf = <<>>
BY ColorsTyped DEF Initial, Program

\* From the row after those that stay, everything is cleared.
LEMMA CleanTerminal ==
    ASSUME NEW stay \in Seq(Rows), NEW shown \in Seq(Rows), NEW p,
           Sound(p), Shows(p.vt, stay, shown), p.vt.y = Len(stay) + 1,
           Len(p.vt.rows) <= Len(stay) + Height
    PROVE  Clean(cleanTerminal(p), stay)
<1>1. /\ p \in Program /\ PenKnown(p)
      /\ Height <= Len(p.vt.rows) /\ p.vt.y <= Len(p.vt.rows) /\ p.vt.y >= FirstRow(p.vt)
      /\ p.vt \in VTs /\ Len(p.vt.rows) \in Nat /\ Len(stay) \in Nat
  BY ProgramTyped, VTTyped DEF Sound, OnScreen
<1> DEFINE v == Return(p.vt)
<1> DEFINE a == [p EXCEPT !.vt = Return(@)]
<1>2. /\ v \in VTs /\ v.rows = p.vt.rows /\ v.x = 0 /\ v.y = p.vt.y /\ v.pen = p.vt.pen
  BY <1>1 DEF Return, VTs
<1>3. a = [p EXCEPT !.vt = v]
  BY <1>1 DEF Program
<1> HIDE DEF v
<1>4. a \in Program /\ a.vt = v /\ a.lastColor = p.lastColor
  <2> HIDE DEF a
  <2> QED BY <1>1, <1>2, <1>3 DEF Program
<1>5. PenKnown(a)
  <2> HIDE DEF a
  <2> QED BY <1>1, <1>2, <1>4 DEF PenKnown
<1> DEFINE s == setColor(a, colorNormal)
<1>6. /\ s \in Program /\ s.vt.pen = colorNormal
      /\ s.vt.rows = p.vt.rows /\ s.vt.x = 0 /\ s.vt.y = p.vt.y
  <2> HIDE DEF a
  <2> QED BY <1>2, <1>4, <1>5, SetColor, ColorsTyped, MeantNormal
<1> DEFINE u == s.vt
<1> DEFINE e == EraseBelow(u)
<1> DEFINE w == ShowCursor(e, TRUE)
<1>7. cleanTerminal(p) = Initial(w)
  BY DEF cleanTerminal, Cleared
<1> HIDE DEF a, s
<1>8. u \in VTs /\ u.y = Len(stay) + 1 /\ u.x = 0 /\ u.rows = p.vt.rows /\ u.pen = colorNormal
  BY <1>6, ProgramTyped
<1> HIDE DEF u
<1>9. /\ e \in VTs /\ e.x = 0 /\ e.y = u.y /\ e.pen = colorNormal
      /\ Len(e.rows) = Len(u.rows)
      /\ \A r \in 1 .. Len(u.rows) : r # u.y =>
           e.rows[r] = IF r > u.y /\ r <= Len(u.rows) THEN BlankRow(colorNormal) ELSE u.rows[r]
      /\ \A i \in 1 .. Width : e.rows[u.y][i] = Seen(Blank, colorNormal)
  <2>1. u.y \in 1 .. Len(u.rows) /\ Len(u.rows) \in Nat
    BY <1>1, <1>8
  <2>2. Column(u) = 0
    BY <1>8, ColumnReturned
  <2> DEFINE f == Erase(u, Len(u.rows))
  <2>3. /\ f \in VTs /\ f.x = u.x /\ f.y = u.y
        /\ f.pen = u.pen /\ f.visible = u.visible
        /\ Len(f.rows) = Len(u.rows)
        /\ \A r \in 1 .. Len(u.rows) : r # u.y =>
             f.rows[r] = IF r > u.y /\ r <= Len(u.rows) THEN BlankRow(u.pen) ELSE u.rows[r]
        /\ \A i \in 1 .. Width :
             f.rows[u.y][i] = IF i > Column(u) THEN Seen(Blank, u.pen) ELSE u.rows[u.y][i]
    BY <1>8, <2>1, EraseIs
  <2>4. e = f
    BY DEF EraseBelow
  <2> HIDE DEF e, f
  <2>5. \A i \in 1 .. Width : f.rows[u.y][i] = Seen(Blank, colorNormal)
    BY <1>8, <2>2, <2>3
  <2> QED BY <1>8, <2>3, <2>4, <2>5
<1> HIDE DEF e
<1>10. /\ w \in VTs /\ w.x = 0 /\ w.y = e.y /\ w.pen = colorNormal /\ w.visible = TRUE
       /\ w.rows = e.rows
  BY <1>9 DEF ShowCursor, VTs
<1> HIDE DEF w
<1>11. e.rows[Len(stay) + 1] = BlankRow(colorNormal)
  <2>1. e.rows[u.y] \in Rows
    BY <1>1, <1>8, <1>9, VTTyped
  <2>2. /\ BlankRow(colorNormal) \in Rows
        /\ \A i \in 1 .. Width : BlankRow(colorNormal)[i] = Seen(Blank, colorNormal)
    BY ColorsTyped, BlankRowTyped
  <2>3. e.rows[u.y] = BlankRow(colorNormal)
    <3> DEFINE blanked == e.rows[u.y]
    <3> DEFINE blank == BlankRow(colorNormal)
    <3>1. blanked \in Rows /\ blank \in Rows /\ \A i \in 1 .. Width : blanked[i] = blank[i]
      BY <1>9, <2>1, <2>2
    <3> HIDE DEF blanked, blank
    <3>2. blanked = blank
      BY <3>1, RowsEqual
    <3> QED BY <3>2 DEF blanked, blank
  <2> QED BY <1>8, <2>3
<1>12. Shows(w, stay, <<>>)
  <2>1. Len(stay) < Len(p.vt.rows)
    BY <1>1, <1>8
  <2>2. \A r \in 1 .. Len(p.vt.rows) : r <= Len(stay) => w.rows[r] = p.vt.rows[r]
    BY <1>1, <1>8, <1>9, <1>10
  <2>3. \A r \in 1 .. Len(p.vt.rows) : r > Len(stay) + 1 => w.rows[r] = BlankRow(colorNormal)
    BY <1>1, <1>8, <1>9, <1>10
  <2>4. Len(w.rows) = Len(p.vt.rows)
    BY <1>8, <1>9, <1>10
  <2> QED BY <1>1, <1>10, <1>11, <2>1, <2>2, <2>3, <2>4, ShowsErased
<1> DEFINE q == Initial(w)
<1>13. /\ q \in Program /\ q.vt = w /\ q.curX = 0 /\ q.curY = 0 /\ q.lastColor = NoColor
       /\ ~q.hideCursor /\ ~q.haveStatus /\ q.buf = <<>>
  BY <1>10, InitialTyped
<1> HIDE DEF q
<1>14. Synced(q, Len(stay))
  <2>1. FirstRow(w) = FirstRow(p.vt)
    BY <1>8, <1>9, <1>10 DEF FirstRow
  <2>2. OnScreen(w)
    BY <1>1, <1>8, <1>9, <1>10, <2>1, ScreenAssumption DEF OnScreen
  <2>3. Sound(q)
    BY <1>10, <1>13, <2>2 DEF Sound, PenKnown
  <2> QED BY <1>1, <1>8, <1>9, <1>10, <1>13, <2>3, ScreenAssumption DEF Synced
<1> QED BY <1>7, <1>10, <1>12, <1>13, <1>14 DEF Clean, q

LEMMA CleanTyped ==
    ASSUME NEW stay \in Seq(Rows), NEW p, Clean(p, stay)
    PROVE  /\ p \in Program /\ PenKnown(p) /\ Sound(p)
           /\ p.vt.y = Len(stay) + 1 /\ p.vt.x = 0
           /\ Len(p.vt.rows) <= Len(stay) + Height /\ p.vt.visible
           /\ Len(stay) < Len(p.vt.rows) /\ Len(stay) \in Nat
BY ProgramTyped, VTTyped DEF Clean, Synced, Sound, OnScreen

\* The deferred clearing of a mode.
LEMMA LeaveIs ==
    ASSUME NEW stay \in Seq(Rows), NEW shown \in Seq(Rows), NEW p,
           Synced(p, Len(stay)), Shows(p.vt, stay, shown)
    PROVE  Clean(leave(p), stay)
<1> DEFINE q == move(p, 0, 0)
<1>1. Len(stay) \in Nat /\ Len(stay) + 1 + 0 <= Len(p.vt.rows)
  BY ProgramTyped, VTTyped DEF Synced, Sound, OnScreen
<1>2. Synced(q, Len(stay)) /\ q.curY = 0 /\ q.vt.rows = p.vt.rows
  BY <1>1, Move, ScreenAssumption
<1>3. Shows(q.vt, stay, shown)
  BY <1>2 DEF Shows
<1>4. q.vt.y = Len(stay) + 1
  BY <1>1, <1>2 DEF Synced
<1> HIDE DEF q
<1>5. Clean(cleanTerminal(q), stay)
  BY <1>2, <1>3, <1>4, CleanTerminal DEF Synced
<1> QED BY <1>5 DEF leave, q

-----------------------------------------------------------------------------
(* Painting a buffer.                                                      *)

\* A function can be defined by recursion over 0 .. n, with steps each from the set of
\* what there may be after the one before to the next such set.
Recurs(f, n, S, a, g) ==
    /\ f = [i \in 0 .. n |-> f[i]]
    /\ f[0] = a
    /\ \A i \in 0 .. n : f[i] \in S[i]
    /\ \A i \in 1 .. n : f[i] = g[i][f[i - 1]]

LEMMA Recursion ==
    ASSUME NEW n \in Nat, NEW S, NEW a \in S[0],
           NEW g, \A i \in 1 .. n : g[i] \in [S[i - 1] -> S[i]]
    PROVE  \E f : Recurs(f, n, S, a, g)
<1> DEFINE To(k) == \E f : Recurs(f, k, S, a, g)
<1> DEFINE Ok == {k \in 0 .. n : To(k)}
<1>1. 0 \in Ok
  <2> DEFINE h == [x \in 0 .. 0 |-> a]
  <2>1. h[0] = a /\ \A i \in 0 .. 0 : h[i] \in S[i]
    OBVIOUS
  <2>2. \A i \in 1 .. 0 : h[i] = g[i][h[i - 1]]
    OBVIOUS
  <2>3. h = [i \in 0 .. 0 |-> h[i]]
    OBVIOUS
  <2> HIDE DEF h
  <2>4. To(0)
    BY <2>1, <2>2, <2>3, Zenon DEF Recurs
  <2> HIDE DEF To
  <2> QED BY <2>4
<1>2. ASSUME NEW k \in 1 .. n, k - 1 \in Ok
      PROVE  k \in Ok
  <2>1. PICK f : Recurs(f, k - 1, S, a, g)
    BY <1>2
  <2>2. /\ f[0] = a /\ \A i \in 0 .. k - 1 : f[i] \in S[i]
        /\ \A i \in 1 .. k - 1 : f[i] = g[i][f[i - 1]]
    BY <2>1 DEF Recurs
  <2> DEFINE b == g[k][f[k - 1]]
  <2> DEFINE h == [x \in 0 .. k |-> IF x = k THEN b ELSE f[x]]
  <2>3. b \in S[k]
    <3>1. f[k - 1] \in S[k - 1]
      BY <2>2
    <3>2. g[k] \in [S[k - 1] -> S[k]]
      OBVIOUS
    <3> QED BY <3>1, <3>2
  <2>4. h[k] = b /\ \A i \in 0 .. k - 1 : h[i] = f[i]
    OBVIOUS
  <2>5. h = [i \in 0 .. k |-> h[i]]
    OBVIOUS
  <2> HIDE DEF h
  <2>6. h[0] = a
    BY <2>2, <2>4
  <2>7. \A i \in 0 .. k : h[i] \in S[i]
    <3>1. \A i \in 0 .. k : i = k \/ i \in 0 .. k - 1
      OBVIOUS
    <3> HIDE DEF b
    <3> QED BY <2>2, <2>3, <2>4, <3>1
  <2>8. ASSUME NEW i \in 1 .. k
        PROVE  h[i] = g[i][h[i - 1]]
    <3>1. h[i - 1] = f[i - 1]
      BY <2>4
    <3>2. CASE i = k
      BY <2>4, <3>1, <3>2
    <3>3. CASE i # k
      <4>1. i \in 1 .. k - 1
        BY <3>3
      <4> QED BY <2>2, <2>4, <3>1, <4>1
    <3> QED BY <3>2, <3>3
  <2>9. To(k)
    BY <2>5, <2>6, <2>7, <2>8, Zenon DEF Recurs
  <2> HIDE DEF To
  <2> QED BY <2>9
<1>3. n \in Ok
  <2> HIDE DEF Ok
  <2>1. \A k \in 0 .. n : k \in Ok
    BY <1>1, <1>2, UpTo
  <2> QED BY <2>1
<1> QED BY <1>3

\* A sequence of steps from a, whatever chose it, stays in the sets.
LEMMA StepsStay ==
    ASSUME NEW n \in Nat, NEW S, NEW h, h[0] \in S[0],
           \A i \in 1 .. n : h[i - 1] \in S[i - 1] => h[i] \in S[i]
    PROVE  h[n] \in S[n]
<1> DEFINE Ok == {k \in 0 .. n : h[k] \in S[k]}
<1>1. 0 \in Ok
  OBVIOUS
<1>2. \A i \in 1 .. n : i - 1 \in Ok => i \in Ok
  OBVIOUS
<1>3. \A k \in 0 .. n : k \in Ok
  <2> HIDE DEF Ok
  <2> QED BY <1>1, <1>2, UpTo
<1> QED BY <1>3

\* Columns up to x of line y have been painted.
Painting(p, s, top, y, x, columns, line) ==
    /\ Synced(s, top) /\ Kept(p, s)
    /\ Len(s.vt.rows) = Len(p.vt.rows)
    /\ \A r \in 1 .. Len(p.vt.rows) : r # top + 1 + y => s.vt.rows[r] = p.vt.rows[r]
    /\ \A i \in 1 .. Width :
         s.vt.rows[top + 1 + y][i] =
             IF i \in columns /\ i <= x THEN Seen(line[i].ch, Meant(line[i].color))
             ELSE p.vt.rows[top + 1 + y][i]

paintColumn(s, x, y, line) == printText(move(s, x - 1, y), line[x].color, <<line[x].ch>>)

LEMMA LineCell ==
    ASSUME NEW line \in Lines, NEW x \in 1 .. Width - 1
    PROVE  line[x].ch \in Characters /\ line[x].color \in Colors
BY DEF Lines, Cells

ColumnPainted(s, q, top, y, x, line) ==
    LET row == top + 1 + y
    IN  /\ Synced(q, top) /\ Kept(s, q)
        /\ Len(q.vt.rows) = Len(s.vt.rows)
        /\ \A r \in 1 .. Len(s.vt.rows) : r # row => q.vt.rows[r] = s.vt.rows[r]
        /\ \A i \in 1 .. Width :
             q.vt.rows[row][i] = IF i = x THEN Seen(line[x].ch, Meant(line[x].color))
                                 ELSE s.vt.rows[row][i]

LEMMA PaintColumnIs ==
    ASSUME NEW top \in Nat, NEW s, Synced(s, top), NEW y \in Nat, top + 1 + y <= Len(s.vt.rows),
           NEW line \in Lines, NEW x \in 1 .. Width - 1
    PROVE  ColumnPainted(s, paintColumn(s, x, y, line), top, y, x, line)
<1> DEFINE m == move(s, x - 1, y)
<1> DEFINE text == <<line[x].ch>>
<1> DEFINE q == printText(m, line[x].color, text)
<1> DEFINE row == top + 1 + y
<1>1. line[x].ch \in Characters /\ line[x].color \in Colors
  BY LineCell
<1>2. x - 1 \in Nat /\ x - 1 < Width
  BY ScreenAssumption
<1>3. Synced(m, top) /\ m.curX = x - 1 /\ m.curY = y /\ m.vt.rows = s.vt.rows /\ Kept(s, m)
  BY <1>2, Move
<1>4. text \in Textual /\ Len(text) = 1 /\ text[1] = line[x].ch
  BY <1>1 DEF Textual
<1> DEFINE color == line[x].color
<1> HIDE DEF m, text
<1>5. m.curX + Len(text) < Width
  BY <1>3, <1>4, ScreenAssumption
<1>6. /\ Synced(q, top) /\ Kept(m, q)
      /\ Len(q.vt.rows) = Len(m.vt.rows)
      /\ \A r \in 1 .. Len(m.vt.rows) : r # top + 1 + m.curY => q.vt.rows[r] = m.vt.rows[r]
      /\ \A i \in 1 .. Width :
           q.vt.rows[top + 1 + m.curY][i] = IF i - m.curX \in 1 .. Len(text)
                                THEN Seen(text[i - m.curX], Meant(color))
                                ELSE m.vt.rows[top + 1 + m.curY][i]
  <2> HIDE DEF color
  <2>1. color \in Colors
    BY <1>1 DEF color
  <2>2. q = printText(m, color, text)
    BY DEF color
  <2> HIDE DEF q
  <2>3. Printed(m, q, top, color, text)
    BY <1>3, <1>4, <1>5, <2>1, <2>2, PrintAt
  <2> QED BY <2>3 DEF Printed
<1>7. \A i \in 1 .. Width : i - (x - 1) \in 1 .. 1 <=> i = x
  OBVIOUS
<1>8. \A i \in 1 .. Width :
        q.vt.rows[row][i] = IF i = x THEN Seen(line[x].ch, Meant(color)) ELSE s.vt.rows[row][i]
  <2> HIDE DEF q, color
  <2> TAKE i \in 1 .. Width
  <2>1. q.vt.rows[row][i] = IF i - (x - 1) \in 1 .. 1
                            THEN Seen(text[i - (x - 1)], Meant(color)) ELSE s.vt.rows[row][i]
    BY <1>3, <1>4, <1>6
  <2>2. CASE i = x
    <3>1. i - (x - 1) = 1
      BY <2>2
    <3> QED BY <1>4, <2>1, <2>2, <3>1
  <2>3. CASE i # x
    BY <1>7, <2>1, <2>3
  <2> QED BY <2>2, <2>3
<1>9. q = paintColumn(s, x, y, line)
  BY DEF paintColumn, m, text
<1> HIDE DEF q
<1> QED BY <1>3, <1>6, <1>8, <1>9 DEF Kept, ColumnPainted

LEMMA PaintingNext ==
    ASSUME NEW top \in Nat, NEW p \in Program, NEW y \in Nat, top + 1 + y <= Len(p.vt.rows),
           NEW line \in Lines, NEW columns, NEW x \in 1 .. Width - 1, NEW s,
           Painting(p, s, top, y, x - 1, columns, line)
    PROVE  Painting(p, IF x \notin columns THEN s ELSE paintColumn(s, x, y, line),
                    top, y, x, columns, line)
<1> DEFINE q == paintColumn(s, x, y, line)
<1> DEFINE row == top + 1 + y
<1>1. /\ Synced(s, top) /\ Kept(p, s)
      /\ Len(s.vt.rows) = Len(p.vt.rows)
      /\ \A r \in 1 .. Len(p.vt.rows) : r # row => s.vt.rows[r] = p.vt.rows[r]
      /\ \A i \in 1 .. Width :
           s.vt.rows[row][i] =
               IF i \in columns /\ i <= x - 1 THEN Seen(line[i].ch, Meant(line[i].color))
               ELSE p.vt.rows[row][i]
  BY DEF Painting
<1>2. CASE x \notin columns
  <2>1. \A i \in 1 .. Width : (i \in columns /\ i <= x) <=> (i \in columns /\ i <= x - 1)
    BY <1>2
  <2> HIDE DEF row
  <2>2. Painting(p, s, top, y, x, columns, line)
    BY <1>1, <2>1 DEF Painting, row
  <2> QED BY <1>2, <2>2
<1>3. CASE x \in columns
  <2>1. /\ Synced(q, top) /\ Kept(s, q)
        /\ Len(q.vt.rows) = Len(s.vt.rows)
        /\ \A r \in 1 .. Len(s.vt.rows) : r # row => q.vt.rows[r] = s.vt.rows[r]
        /\ \A i \in 1 .. Width :
             q.vt.rows[row][i] = IF i = x THEN Seen(line[x].ch, Meant(line[x].color))
                                 ELSE s.vt.rows[row][i]
    <3>1. top + 1 + y <= Len(s.vt.rows)
      BY <1>1
    <3>2. ColumnPainted(s, q, top, y, x, line)
      <4> HIDE DEF row
      <4> QED BY <1>1, <3>1, PaintColumnIs
    <3> HIDE DEF q
    <3> QED BY <3>2 DEF ColumnPainted
  <2> HIDE DEF q
  <2>2. Kept(p, q)
    BY <1>1, <2>1 DEF Kept
  <2>3. \A i \in 1 .. Width :
           q.vt.rows[row][i] =
               IF i \in columns /\ i <= x THEN Seen(line[i].ch, Meant(line[i].color))
               ELSE p.vt.rows[row][i]
    <3> TAKE i \in 1 .. Width
    <3>1. CASE i = x
      BY <1>3, <2>1, <3>1
    <3>2. CASE i # x
      <4>1. (i <= x) <=> (i <= x - 1)
        BY <3>2
      <4> QED BY <1>1, <2>1, <3>2, <4>1
    <3> QED BY <3>1, <3>2
  <2>4. Painting(p, q, top, y, x, columns, line)
    BY <1>1, <2>1, <2>2, <2>3 DEF Painting
  <2> QED BY <1>3, <2>4 DEF q
<1> QED BY <1>2, <1>3

\* The columns painted show the new cells, and the others what they did.
LEMMA PaintColumns ==
    ASSUME NEW top \in Nat, NEW p, Synced(p, top), NEW y \in Nat, top + 1 + y <= Len(p.vt.rows),
           NEW line \in Lines, NEW columns
    PROVE  Painting(p, paintColumns(p, columns, y, line), top, y, Width - 1, columns, line)
<1> DEFINE n == Width - 1
<1> DEFINE After(x) == {s \in Program : Painting(p, s, top, y, x, columns, line)}
<1> DEFINE S == [x \in 0 .. n |-> After(x)]
<1> DEFINE Step(s, x) == IF x \notin columns THEN s ELSE paintColumn(s, x, y, line)
<1> DEFINE g == [x \in 1 .. n |-> [s \in After(x - 1) |-> Step(s, x)]]
<1>1. n \in Nat /\ p \in Program
  BY ScreenAssumption DEF Synced, Sound
<1>2. p \in S[0]
  <2>1. \A i \in 1 .. Width : ~(i <= 0)
    BY ScreenAssumption
  <2>2. Painting(p, p, top, y, 0, columns, line)
    BY <2>1 DEF Painting, Kept
  <2> QED BY <1>1, <2>2
<1>3. ASSUME NEW x \in 1 .. n, NEW s \in After(x - 1)
      PROVE  Step(s, x) \in After(x)
  <2>1. Painting(p, s, top, y, x - 1, columns, line)
    OBVIOUS
  <2> DEFINE q == Step(s, x)
  <2>2. Painting(p, q, top, y, x, columns, line)
    BY <1>1, <2>1, PaintingNext
  <2> HIDE DEF q
  <2>3. q \in Program
    BY <2>2 DEF Painting, Synced, Sound
  <2> QED BY <2>2, <2>3 DEF q
<1>4. \A x \in 1 .. n : S[x - 1] = After(x - 1) /\ S[x] = After(x)
  <2> HIDE DEF After
  <2> QED BY <1>1
<1>5. \A x \in 1 .. n : g[x] \in [S[x - 1] -> S[x]]
  <2> HIDE DEF After, Step, S
  <2> QED BY <1>3, <1>4
<1>6. PICK f : Recurs(f, n, S, p, g)
  <2> HIDE DEF n, S, g
  <2> QED BY <1>1, <1>2, <1>5, Recursion
<1> DEFINE Is(h) == h = [x \in 0 .. n |->
                            IF x = 0 THEN p
                            ELSE IF x \notin columns THEN h[x - 1]
                            ELSE printText(move(h[x - 1], x - 1, y), line[x].color, <<line[x].ch>>)]
<1>7. Is(f)
  <2>1. /\ f = [x \in 0 .. n |-> f[x]] /\ f[0] = p
        /\ \A x \in 0 .. n : f[x] \in S[x]
        /\ \A x \in 1 .. n : f[x] = g[x][f[x - 1]]
    <3> HIDE DEF n, S, g
    <3> QED BY <1>6 DEF Recurs
  <2>2. \A x \in 1 .. n : f[x] = Step(f[x - 1], x)
    <3>1. \A x \in 1 .. n : f[x - 1] \in After(x - 1)
      <4> HIDE DEF After, S
      <4> QED BY <1>1, <1>4, <2>1
    <3> HIDE DEF After, Step
    <3> QED BY <2>1, <3>1
  <2>3. \A x \in 0 .. n : x = 0 \/ x \in 1 .. n
    BY <1>1
  <2>4. \A x \in 0 .. n : f[x] = IF x = 0 THEN p ELSE Step(f[x - 1], x)
    <3> HIDE DEF Step
    <3> QED BY <2>1, <2>2, <2>3
  <2> QED BY <2>1, <2>4, Zenon DEF paintColumn
<1> DEFINE painted == CHOOSE h : Is(h)
<1>8. Is(painted)
  <2> HIDE DEF Is
  <2> QED BY <1>7
<1>9. paintColumns(p, columns, y, line) = painted[n]
  BY DEF paintColumns
<1> HIDE DEF painted
<1>10. painted[0] = p
  BY <1>1, <1>8
<1>11. \A x \in 1 .. n : painted[x] = Step(painted[x - 1], x)
  <2>1. \A x \in 1 .. n : x \in 0 .. n /\ x # 0
    BY <1>1
  <2> HIDE DEF n
  <2> QED BY <1>8, <2>1, Zenon DEF paintColumn
<1>12. \A x \in 1 .. n : painted[x - 1] \in S[x - 1] => painted[x] \in S[x]
  <2> HIDE DEF After, Step, S
  <2> QED BY <1>3, <1>4, <1>11
<1>13. painted[n] \in S[n]
  <2> HIDE DEF n, S
  <2> QED BY <1>1, <1>2, <1>10, <1>12, StepsStay
<1>14. S[n] = After(n)
  <2> HIDE DEF After
  <2> QED BY <1>1
<1> QED BY <1>9, <1>13, <1>14

LEMMA SeenRowIs ==
    ASSUME NEW cells, \A i \in 1 .. Width : i \in DOMAIN cells => cells[i] \in Cells
    PROVE  /\ SeenRow(cells) \in Rows
           /\ \A i \in 1 .. Width :
                SeenRow(cells)[i] = IF i \in DOMAIN cells THEN Seen(cells[i].ch, Meant(cells[i].color))
                                    ELSE Seen(Blank, colorNormal)
<1>1. Seen(Blank, colorNormal) \in Cells
  BY ColorsTyped, SeenTyped, ScreenAssumption
<1>2. ASSUME NEW i \in 1 .. Width, i \in DOMAIN cells
      PROVE  Seen(cells[i].ch, Meant(cells[i].color)) \in Cells
  <2>1. cells[i].ch \in Characters /\ cells[i].color \in Colors
    BY <1>2 DEF Cells
  <2> QED BY <2>1, MeantTyped, SeenTyped
<1> QED BY <1>1, <1>2 DEF SeenRow, Rows

LEMMA LineShown ==
    ASSUME NEW line \in Lines
    PROVE  /\ SeenRow(line) \in Rows
           /\ \A i \in 1 .. Width :
                SeenRow(line)[i] = IF i <= Width - 1 THEN Seen(line[i].ch, Meant(line[i].color))
                                   ELSE Seen(Blank, colorNormal)
<1>1. DOMAIN line = 1 .. Width - 1 /\ \A i \in 1 .. Width - 1 : line[i] \in Cells
  BY DEF Lines
<1>2. \A i \in 1 .. Width : i \in DOMAIN line <=> i <= Width - 1
  BY <1>1, ScreenAssumption
<1>3. /\ SeenRow(line) \in Rows
      /\ \A i \in 1 .. Width :
                SeenRow(line)[i] = IF i \in DOMAIN line THEN Seen(line[i].ch, Meant(line[i].color))
                                    ELSE Seen(Blank, colorNormal)
  BY <1>1, SeenRowIs
<1> QED BY <1>2, <1>3

LEMMA BlankLineTyped ==
    /\ BlankLine \in Lines
    /\ \A i \in 1 .. Width - 1 : BlankLine[i] = Cell(Blank, NoColor)
<1>1. Cell(Blank, NoColor) \in Cells
  BY ColorsTyped, ScreenAssumption DEF Cell, Cells
<1> QED BY <1>1 DEF BlankLine, Lines

LEMMA BlankLineShown == SeenRow(BlankLine) = BlankRow(colorNormal)
<1>1. Cell(Blank, NoColor).ch = Blank /\ Cell(Blank, NoColor).color = NoColor
  BY DEF Cell
<1>2. \A i \in 1 .. Width : SeenRow(BlankLine)[i] = Seen(Blank, colorNormal)
  <2>1. \A i \in 1 .. Width - 1 : BlankLine[i].ch = Blank /\ BlankLine[i].color = NoColor
    BY <1>1, BlankLineTyped
  <2>2. \A i \in 1 .. Width : i <= Width - 1 => i \in 1 .. Width - 1
    BY ScreenAssumption
  <2> QED BY <2>1, <2>2, BlankLineTyped, LineShown, MeantNormal
<1>3. SeenRow(BlankLine) \in Rows
  BY BlankLineTyped, LineShown
<1>4. BlankRow(colorNormal) \in Rows /\ \A i \in 1 .. Width : BlankRow(colorNormal)[i] = Seen(Blank, colorNormal)
  BY ColorsTyped, BlankRowTyped
<1>5. \A i \in 1 .. Width : SeenRow(BlankLine)[i] = BlankRow(colorNormal)[i]
  BY <1>2, <1>4
<1> QED BY <1>3, <1>4, <1>5, RowsEqual

LEMMA PictureIs ==
    ASSUME NEW lines \in Seq(Lines)
    PROVE  /\ Picture(lines) \in Seq(Rows) /\ Len(Picture(lines)) = Len(lines)
           /\ \A y \in 1 .. Len(lines) : Picture(lines)[y] = SeenRow(lines[y])
<1>1. DOMAIN lines = 1 .. Len(lines) /\ Len(lines) \in Nat
  OBVIOUS
<1>2. \A y \in 1 .. Len(lines) : SeenRow(lines[y]) \in Rows
  BY LineShown
<1>3. Picture(lines) = [y \in 1 .. Len(lines) |-> SeenRow(lines[y])]
  BY <1>1 DEF Picture
<1> QED BY <1>1, <1>2, <1>3

\* What a frame of lines shows, in terms of its lines.
LEMMA ShowsLines ==
    ASSUME NEW stay \in Seq(Rows), NEW lines \in Seq(Lines), NEW t \in VTs
    PROVE  Shows(t, stay, Picture(lines)) <=>
               /\ Len(stay) + Len(lines) <= Len(t.rows)
               /\ \A r \in 1 .. Len(t.rows) :
                    t.rows[r] = IF r <= Len(stay) THEN stay[r]
                                ELSE IF r <= Len(stay) + Len(lines) THEN SeenRow(lines[r - Len(stay)])
                                ELSE BlankRow(colorNormal)
<1>1. DOMAIN t.rows = 1 .. Len(t.rows) /\ Len(t.rows) \in Nat
  BY VTTyped
<1>2. Len(stay) \in Nat /\ Len(lines) \in Nat
  OBVIOUS
<1>3. ASSUME NEW r \in 1 .. Len(t.rows)
      PROVE  RowAt(stay, Picture(lines), r) =
                IF r <= Len(stay) THEN stay[r]
                ELSE IF r <= Len(stay) + Len(lines) THEN SeenRow(lines[r - Len(stay)])
                ELSE BlankRow(colorNormal)
  <2>1. CASE r <= Len(stay)
    BY <2>1 DEF RowAt
  <2>2. CASE r > Len(stay) /\ r <= Len(stay) + Len(lines)
    <3>1. r - Len(stay) \in 1 .. Len(lines)
      BY <1>1, <1>2, <2>2
    <3> QED BY <1>1, <1>2, <2>2, <3>1, PictureIs DEF RowAt
  <2>3. CASE r > Len(stay) /\ ~(r <= Len(stay) + Len(lines))
    BY <1>1, <1>2, <2>3, PictureIs DEF RowAt
  <2> QED BY <1>1, <1>2, <2>1, <2>2, <2>3
<1> QED BY <1>1, <1>3, PictureIs DEF Shows

LEMMA WithBuf ==
    ASSUME NEW top, NEW p, Synced(p, top), NEW lines \in Seq(Lines)
    PROVE  LET q == [p EXCEPT !.buf = lines]
           IN  /\ Synced(q, top) /\ q.buf = lines /\ q.vt = p.vt
               /\ q.curX = p.curX /\ q.curY = p.curY
               /\ q.haveStatus = p.haveStatus /\ q.hideCursor = p.hideCursor
<1> DEFINE q == [p EXCEPT !.buf = lines]
<1>1. p \in Program
  BY DEF Synced, Sound
<1>2. /\ q \in Program /\ q.buf = lines /\ q.vt = p.vt /\ q.lastColor = p.lastColor
      /\ q.curX = p.curX /\ q.curY = p.curY
      /\ q.haveStatus = p.haveStatus /\ q.hideCursor = p.hideCursor
  BY <1>1 DEF Program
<1> HIDE DEF q
<1> QED BY <1>2 DEF Synced, Sound, PenKnown, q

LEMMA BufTyped ==
    ASSUME NEW stay \in Seq(Rows), NEW p, Drawn(p, stay)
    PROVE  /\ p \in Program /\ p.buf \in Seq(Lines) /\ p.vt \in VTs
           /\ Len(p.buf) \in Nat /\ Len(stay) \in Nat
           /\ Len(p.vt.rows) \in Nat /\ Len(stay) < Len(p.vt.rows)
           /\ Len(p.vt.rows) <= Len(stay) + Height
           /\ Len(stay) + Len(p.buf) <= Len(p.vt.rows)
<1>1. p \in Program /\ p.buf \in Seq(Lines) /\ p.vt \in VTs
  BY ProgramTyped DEF Drawn, Synced, Sound
<1>2. Len(stay) + Len(p.buf) <= Len(p.vt.rows)
  BY <1>1, ShowsLines DEF Drawn
<1> QED BY <1>1, <1>2, ProgramTyped, VTTyped DEF Drawn, Synced, Sound, OnScreen

\* A blank line is there where the frame ends.
LEMMA ShowsMore ==
    ASSUME NEW stay \in Seq(Rows), NEW lines \in Seq(Lines), NEW t \in VTs, NEW q \in VTs,
           Shows(t, stay, Picture(lines)),
           Len(stay) + Len(lines) + 1 <= Len(q.rows),
           \A r \in 1 .. Len(q.rows) :
                q.rows[r] = IF r <= Len(t.rows) THEN t.rows[r] ELSE BlankRow(colorNormal)
    PROVE  Shows(q, stay, Picture(Append(lines, BlankLine)))
<1> DEFINE more == Append(lines, BlankLine)
<1> DEFINE n == Len(lines)
<1>1. /\ more \in Seq(Lines) /\ Len(more) = n + 1 /\ more[n + 1] = BlankLine
      /\ \A y \in 1 .. n : more[y] = lines[y]
  BY BlankLineTyped
<1>2. n \in Nat /\ Len(stay) \in Nat /\ Len(t.rows) \in Nat /\ Len(q.rows) \in Nat
  BY VTTyped
<1> HIDE DEF more, n
<1>3. /\ Len(stay) + n <= Len(t.rows)
      /\ \A r \in 1 .. Len(t.rows) :
                    t.rows[r] = IF r <= Len(stay) THEN stay[r]
                                ELSE IF r <= Len(stay) + n THEN SeenRow(lines[r - Len(stay)])
                                ELSE BlankRow(colorNormal)
  BY ShowsLines DEF n
<1>4. ASSUME NEW r \in 1 .. Len(q.rows)
      PROVE  q.rows[r] = IF r <= Len(stay) THEN stay[r]
                                ELSE IF r <= Len(stay) + Len(more) THEN SeenRow(more[r - Len(stay)])
                                ELSE BlankRow(colorNormal)
  <2>1. CASE r <= Len(stay)
    BY <1>2, <1>3, <2>1
  <2>2. CASE r > Len(stay) /\ r <= Len(stay) + n
    <3>1. r - Len(stay) \in 1 .. n /\ r \in 1 .. Len(t.rows) /\ r <= Len(stay) + Len(more)
      BY <1>1, <1>2, <1>3, <2>2
    <3>2. q.rows[r] = SeenRow(lines[r - Len(stay)])
      BY <1>2, <1>3, <2>2, <3>1
    <3>3. more[r - Len(stay)] = lines[r - Len(stay)]
      BY <1>1, <3>1
    <3> QED BY <1>2, <2>2, <3>1, <3>2, <3>3
  <2>3. CASE r = Len(stay) + n + 1
    <3>1. r - Len(stay) = n + 1 /\ r > Len(stay) /\ r <= Len(stay) + Len(more)
      BY <1>1, <1>2, <2>3
    <3>2. q.rows[r] = BlankRow(colorNormal)
      BY <1>2, <1>3, <2>3
    <3> QED BY <1>1, <1>2, <3>1, <3>2, BlankLineShown
  <2>4. CASE r > Len(stay) + n + 1
    BY <1>1, <1>2, <1>3, <2>4
  <2> QED BY <1>2, <2>1, <2>2, <2>3, <2>4
<1>5. Len(stay) + Len(more) <= Len(q.rows)
  BY <1>1, <1>2 DEF n
<1>6. Shows(q, stay, Picture(more))
  BY <1>1, <1>4, <1>5, ShowsLines
<1> QED BY <1>6 DEF more

\* A row that showed a line shows another when the columns where they differ are painted.
RowShows(p, row, line) == p.vt.rows[row] = SeenRow(line)

LEMMA RowPainted ==
    ASSUME NEW top \in Nat, NEW p \in Program, NEW s, NEW y \in Nat, NEW columns,
           NEW old \in Lines, NEW new \in Lines,
           Painting(p, s, top, y, Width - 1, columns, new),
           top + 1 + y \in 1 .. Len(p.vt.rows),
           RowShows(p, top + 1 + y, old),
           columns \subseteq 1 .. Width - 1,
           \A i \in 1 .. Width - 1 : i \notin columns => new[i] = old[i]
    PROVE  RowShows(s, top + 1 + y, new)
<1> DEFINE row == top + 1 + y
<1>1. s.vt.rows[row] \in Rows
  BY ProgramTyped, VTTyped DEF Painting, Synced, Sound
<1>2. SeenRow(new) \in Rows
  BY LineShown
<1>3. ASSUME NEW i \in 1 .. Width
      PROVE  s.vt.rows[row][i] = SeenRow(new)[i]
  <2>1. s.vt.rows[row][i] = IF i \in columns /\ i <= Width - 1 THEN Seen(new[i].ch, Meant(new[i].color))
                            ELSE SeenRow(old)[i]
    BY DEF Painting, RowShows
  <2>2. CASE i \in columns
    <3>1. i <= Width - 1
      BY <2>2, ScreenAssumption
    <3> QED BY <2>1, <2>2, <3>1, LineShown
  <2>3. CASE i \notin columns
    <3>1. i <= Width - 1 => i \in 1 .. Width - 1
      BY ScreenAssumption
    <3>2. i <= Width - 1 => new[i] = old[i]
      BY <2>3, <3>1
    <3> QED BY <2>1, <2>3, <3>2, LineShown
  <2> QED BY <2>2, <2>3
<1> QED BY <1>1, <1>2, <1>3, RowsEqual DEF RowShows

\* A line of a frame is painted over.
LEMMA LinePainted ==
    ASSUME NEW stay \in Seq(Rows), NEW p, Drawn(p, stay), NEW y \in Nat, y < Len(p.buf),
           NEW new \in Lines, NEW columns, columns \subseteq 1 .. Width - 1,
           \A i \in 1 .. Width - 1 : i \notin columns => new[i] = p.buf[y + 1][i]
    PROVE  LET s == paintColumns(p, columns, y, new)
           IN  /\ Synced(s, Len(stay)) /\ Kept(p, s)
               /\ [p.buf EXCEPT ![y + 1] = new] \in Seq(Lines)
               /\ Shows(s.vt, stay, Picture([p.buf EXCEPT ![y + 1] = new]))
<1> DEFINE top == Len(stay)
<1> DEFINE s == paintColumns(p, columns, y, new)
<1> DEFINE lines == [p.buf EXCEPT ![y + 1] = new]
<1>1. /\ p \in Program /\ p.buf \in Seq(Lines) /\ p.vt \in VTs /\ Len(p.buf) \in Nat /\ top \in Nat
      /\ Len(p.vt.rows) \in Nat /\ top + Len(p.buf) <= Len(p.vt.rows)
  BY BufTyped
<1>2. y + 1 \in 1 .. Len(p.buf) /\ top + 1 + y \in 1 .. Len(p.vt.rows)
  BY <1>1
<1>3. /\ lines \in Seq(Lines) /\ Len(lines) = Len(p.buf) /\ lines[y + 1] = new
      /\ \A i \in 1 .. Len(p.buf) : i # y + 1 => lines[i] = p.buf[i]
  BY <1>1, <1>2
<1>4. \A r \in 1 .. Len(p.vt.rows) :
        p.vt.rows[r] = IF r <= top THEN stay[r]
                       ELSE IF r <= top + Len(p.buf) THEN SeenRow(p.buf[r - top])
                       ELSE BlankRow(colorNormal)
  BY <1>1, ShowsLines DEF Drawn
<1> HIDE DEF lines
<1>5. Painting(p, s, top, y, Width - 1, columns, new)
  <2>1. Synced(p, top) /\ top + 1 + y <= Len(p.vt.rows)
    BY <1>2 DEF Drawn
  <2> HIDE DEF top
  <2> QED BY <1>1, <2>1, PaintColumns
<1> HIDE DEF s
<1> DEFINE old == p.buf[y + 1]
<1>6. old \in Lines /\ p.vt.rows[top + 1 + y] = SeenRow(old)
  <2>1. (top + 1 + y) - top = y + 1 /\ top + 1 + y > top /\ top + 1 + y <= top + Len(p.buf)
    BY <1>1, <1>2
  <2> QED BY <1>1, <1>2, <1>4, <2>1
<1>7. s.vt.rows[top + 1 + y] = SeenRow(new)
  <2> HIDE DEF top
  <2>1. \A i \in 1 .. Width - 1 : i \notin columns => new[i] = old[i]
    OBVIOUS
  <2>2. top \in Nat /\ p \in Program /\ old \in Lines
    BY <1>1, <1>6
  <2> HIDE DEF old
  <2>3. RowShows(p, top + 1 + y, old)
    BY <1>6 DEF RowShows
  <2>4. RowShows(s, top + 1 + y, new)
    BY <1>2, <1>5, <1>6, <2>1, <2>2, <2>3, RowPainted
  <2> QED BY <2>4 DEF RowShows
<1>8. /\ Synced(s, top) /\ Kept(p, s)
      /\ Len(s.vt.rows) = Len(p.vt.rows)
      /\ \A r \in 1 .. Len(p.vt.rows) : r # top + 1 + y => s.vt.rows[r] = p.vt.rows[r]
  BY <1>5 DEF Painting
<1>9. s.vt \in VTs
  BY <1>8, ProgramTyped DEF Synced, Sound
<1>10. ASSUME NEW r \in 1 .. Len(s.vt.rows)
       PROVE  s.vt.rows[r] = IF r <= top THEN stay[r]
                             ELSE IF r <= top + Len(lines) THEN SeenRow(lines[r - top])
                             ELSE BlankRow(colorNormal)
  <2>1. CASE r = top + 1 + y
    <3>1. r - top = y + 1 /\ r > top /\ r <= top + Len(lines)
      BY <1>1, <1>2, <1>3, <2>1
    <3> QED BY <1>1, <1>3, <1>7, <2>1, <3>1
  <2>2. CASE r # top + 1 + y
    <3>1. s.vt.rows[r] = p.vt.rows[r] /\ r \in 1 .. Len(p.vt.rows)
      BY <1>8, <2>2
    <3>2. r > top /\ r <= top + Len(lines) => r - top \in 1 .. Len(p.buf) /\ r - top # y + 1
      BY <1>1, <1>3, <2>2
    <3>3. r > top /\ r <= top + Len(lines) => lines[r - top] = p.buf[r - top]
      BY <1>3, <3>2
    <3>4. r \in Nat /\ top + Len(lines) = top + Len(p.buf)
      BY <1>1, <1>3, <3>1
    <3>5. CASE r <= top
      BY <1>4, <3>1, <3>5
    <3>6. CASE r > top /\ r <= top + Len(lines)
      BY <1>1, <1>4, <3>1, <3>3, <3>4, <3>6
    <3>7. CASE r > top /\ ~(r <= top + Len(lines))
      BY <1>1, <1>4, <3>1, <3>4, <3>7
    <3> QED BY <1>1, <3>4, <3>5, <3>6, <3>7
  <2> QED BY <2>1, <2>2
<1>11. Shows(s.vt, stay, Picture(lines))
  <2>1. top + Len(lines) <= Len(s.vt.rows)
    BY <1>1, <1>3, <1>8
  <2> QED BY <1>3, <1>9, <1>10, <2>1, ShowsLines
<1> QED BY <1>3, <1>8, <1>11 DEF s, lines

\* A line below the last of a frame: a new line is made for it.
LEMMA LineAdded ==
    ASSUME NEW stay \in Seq(Rows), NEW p, Drawn(p, stay), Len(p.buf) >= 1, Len(p.buf) < Height
    PROVE  LET q == printNewline(move([p EXCEPT !.buf = Append(@, BlankLine)], 0, Len(p.buf) - 1),
                                 NoColor)
           IN  /\ Drawn(q, stay)
               /\ q.buf = Append(p.buf, BlankLine)
<1> DEFINE top == Len(stay)
<1> DEFINE more == Append(p.buf, BlankLine)
<1> DEFINE n == Len(p.buf)
<1> DEFINE a == [p EXCEPT !.buf = Append(@, BlankLine)]
<1> DEFINE m == move(a, 0, n - 1)
<1> DEFINE q == printNewline(m, NoColor)
<1>1. /\ p \in Program /\ p.buf \in Seq(Lines) /\ p.vt \in VTs /\ n \in Nat /\ top \in Nat
      /\ Len(p.vt.rows) \in Nat /\ top + n <= Len(p.vt.rows) /\ n >= 1
  BY BufTyped
<1>2. more \in Seq(Lines) /\ Len(more) = n + 1
  BY <1>1, BlankLineTyped
<1>3. a = [p EXCEPT !.buf = more]
  BY <1>1 DEF Program
<1>4. Synced(a, top) /\ a.buf = more /\ a.vt = p.vt /\ a.haveStatus = p.haveStatus /\ a.hideCursor = p.hideCursor
  <2> HIDE DEF a, more
  <2> QED BY <1>2, <1>3, WithBuf DEF Drawn
<1> HIDE DEF a, more
<1>5. Synced(m, top) /\ m.curX = 0 /\ m.curY = n - 1 /\ m.vt.rows = a.vt.rows /\ Kept(a, m)
  <2>1. n - 1 \in Nat /\ top + 1 + (n - 1) <= Len(a.vt.rows)
    <3> HIDE DEF n, top
    <3> QED BY <1>1, <1>4
  <2> HIDE DEF n, top
  <2> QED BY <1>1, <1>4, <2>1, Move, ScreenAssumption
<1> HIDE DEF m
<1>6. /\ Synced(q, top) /\ q.curX = 0 /\ q.curY = m.curY + 1
      /\ q.vt.pen = colorNormal /\ Kept(m, q)
      /\ Len(m.vt.rows) <= Len(q.vt.rows) /\ top + 1 + q.curY <= Len(q.vt.rows)
      /\ \A r \in 1 .. Len(q.vt.rows) :
            q.vt.rows[r] = IF r <= Len(m.vt.rows) THEN m.vt.rows[r] ELSE BlankRow(colorNormal)
  <2>1. m.curY + 2 <= Height
    BY <1>1, <1>5, ScreenAssumption
  <2>2. top \in Nat /\ Synced(m, top)
    BY <1>1, <1>5
  <2> HIDE DEF top
  <2> QED BY <2>1, <2>2, Newline
<1> HIDE DEF q
<1>7. q.vt \in VTs
  BY <1>6, ProgramTyped DEF Synced, Sound
<1>8. Len(stay) + Len(p.buf) + 1 <= Len(q.vt.rows)
  <2>1. Len(q.vt.rows) \in Nat
    BY <1>7, VTTyped
  <2>2. q.curY = n
    BY <1>1, <1>5, <1>6
  <2>3. top + 1 + n <= Len(q.vt.rows)
    BY <1>6, <2>2
  <2>4. top + n + 1 <= Len(q.vt.rows)
    <3> HIDE DEF top, n
    <3> QED BY <1>1, <2>1, <2>3
  <2> QED BY <2>4
<1>9. Shows(q.vt, stay, Picture(more))
  <2>1. \A r \in 1 .. Len(q.vt.rows) :
            q.vt.rows[r] = IF r <= Len(p.vt.rows) THEN p.vt.rows[r] ELSE BlankRow(colorNormal)
    BY <1>4, <1>5, <1>6
  <2> QED BY <1>1, <1>7, <1>8, <2>1, ShowsMore DEF Drawn, more
<1>10. q.buf = more /\ ~q.haveStatus /\ ~q.hideCursor
  BY <1>4, <1>5, <1>6 DEF Kept, Drawn
<1>11. Len(more) <= Height
  BY <1>1, <1>2, ScreenAssumption
<1>12. Drawn(q, stay)
  BY <1>6, <1>9, <1>10, <1>11 DEF Drawn
<1> QED BY <1>10, <1>12 DEF q, m, a, more

LineIsNow(p, q, y, new) ==
    /\ Len(q.buf) = AtLeast(y + 1, Len(p.buf)) /\ q.buf[y + 1] = new
    /\ \A i \in 1 .. y : q.buf[i] = p.buf[i]

LEMMA PaintBufLineIs ==
    ASSUME NEW stay \in Seq(Rows), NEW p, Drawn(p, stay), Len(p.buf) >= 1,
           NEW y \in Nat, y <= Len(p.buf), y < Height, NEW new \in Lines
    PROVE  /\ Drawn(paintBufLine(p, y, new), stay)
           /\ LineIsNow(p, paintBufLine(p, y, new), y, new)
<1> DEFINE q == IF y < Len(p.buf) THEN p
             ELSE printNewline(move([p EXCEPT !.buf = Append(@, BlankLine)], 0, y - 1), NoColor)
<1> DEFINE diff == {x \in 1 .. Width - 1 : new[x] # q.buf[y + 1][x]}
<1> DEFINE columns == Painted(diff)
<1> DEFINE s == paintColumns(q, columns, y, new)
<1> DEFINE e == [s EXCEPT !.buf[y + 1] = new]
<1>0. paintBufLine(p, y, new) = e
  BY DEF paintBufLine
<1>1. p.buf \in Seq(Lines) /\ Len(p.buf) \in Nat
  BY BufTyped
<1>2. /\ Drawn(q, stay) /\ Len(q.buf) = AtLeast(y + 1, Len(p.buf))
      /\ \A i \in 1 .. y : q.buf[i] = p.buf[i]
  <2>1. CASE y < Len(p.buf)
    BY <1>1, <2>1 DEF AtLeast
  <2>2. CASE ~(y < Len(p.buf))
    <3>1. y = Len(p.buf)
      BY <1>1, <2>2
    <3>2. q = printNewline(move([p EXCEPT !.buf = Append(@, BlankLine)], 0, Len(p.buf) - 1), NoColor)
      BY <2>2, <3>1
    <3> HIDE DEF q
    <3>3. Drawn(q, stay) /\ q.buf = Append(p.buf, BlankLine)
      BY <3>1, <3>2, LineAdded
    <3> QED BY <1>1, <3>1, <3>3, BlankLineTyped DEF AtLeast
  <2> QED BY <2>1, <2>2
<1> HIDE DEF q
<1>3. y < Len(q.buf) /\ q.buf \in Seq(Lines) /\ Len(q.buf) \in Nat /\ Len(q.buf) <= Height
      /\ ~q.haveStatus /\ ~q.hideCursor
  BY <1>1, <1>2, BufTyped DEF AtLeast, Drawn
<1>4. columns \subseteq 1 .. Width - 1
  BY DEF Painted
<1>5. \A i \in 1 .. Width - 1 : i \notin columns => new[i] = q.buf[y + 1][i]
  BY DEF Painted
<1> HIDE DEF columns
<1> DEFINE lines == [q.buf EXCEPT ![y + 1] = new]
<1>6. Synced(s, Len(stay)) /\ Kept(q, s) /\ lines \in Seq(Lines) /\ Shows(s.vt, stay, Picture(lines))
  BY <1>2, <1>3, <1>4, <1>5, LinePainted
<1>7. /\ Len(lines) = Len(q.buf) /\ lines[y + 1] = new
      /\ \A i \in 1 .. y : lines[i] = q.buf[i]
  BY <1>3
<1> HIDE DEF s
<1>8. s \in Program /\ s.buf = q.buf /\ s.haveStatus = q.haveStatus /\ s.hideCursor = q.hideCursor
  BY <1>6 DEF Kept, Synced, Sound
<1>9. e = [s EXCEPT !.buf = lines]
  BY <1>8 DEF Program
<1> HIDE DEF e, lines
<1>10. /\ Synced(e, Len(stay)) /\ e.buf = lines /\ e.vt = s.vt
       /\ e.haveStatus = s.haveStatus /\ e.hideCursor = s.hideCursor
  BY <1>6, <1>9, WithBuf
<1>11. Drawn(e, stay)
  BY <1>3, <1>6, <1>7, <1>8, <1>10 DEF Drawn
<1> QED BY <1>0, <1>2, <1>7, <1>10, <1>11 DEF LineIsNow

LEMMA BlankLastLineIs ==
    ASSUME NEW stay \in Seq(Rows), NEW p, Drawn(p, stay), Len(p.buf) >= 1
    PROVE  LET q == blankLastLine(p)
           IN  /\ Drawn(q, stay)
               /\ Len(q.buf) = Len(p.buf) - 1
               /\ \A i \in 1 .. Len(p.buf) - 1 : q.buf[i] = p.buf[i]
<1> DEFINE n == Len(p.buf)
<1> DEFINE columns == 1 .. Width - 1
<1> DEFINE s == paintColumns(p, columns, n - 1, BlankLine)
<1> DEFINE e == [s EXCEPT !.buf = SubSeq(@, 1, Len(@) - 1)]
<1> DEFINE lines == [p.buf EXCEPT ![n] = BlankLine]
<1> DEFINE less == SubSeq(p.buf, 1, n - 1)
<1>0. blankLastLine(p) = e
  BY DEF blankLastLine
<1>1. /\ p.buf \in Seq(Lines) /\ n \in Nat /\ n >= 1 /\ Len(stay) \in Nat
  BY BufTyped
<1>2. Synced(s, Len(stay)) /\ Kept(p, s) /\ lines \in Seq(Lines) /\ Shows(s.vt, stay, Picture(lines))
  <2> DEFINE y == n - 1
  <2>1. y \in Nat /\ y < Len(p.buf) /\ y + 1 = n
    BY <1>1
  <2>2. columns \subseteq 1 .. Width - 1 /\ \A i \in 1 .. Width - 1 : i \notin columns => BlankLine[i] = p.buf[y + 1][i]
    OBVIOUS
  <2>3. s = paintColumns(p, columns, y, BlankLine) /\ lines = [p.buf EXCEPT ![y + 1] = BlankLine]
    BY <2>1
  <2> HIDE DEF y, columns, s, lines, n
  <2> QED BY <2>1, <2>2, <2>3, BlankLineTyped, LinePainted
<1> HIDE DEF s
<1>3. /\ Len(lines) = n /\ lines[n] = BlankLine
      /\ \A i \in 1 .. n - 1 : lines[i] = p.buf[i]
  BY <1>1
<1>4. less \in Seq(Lines) /\ Len(less) = n - 1 /\ \A i \in 1 .. n - 1 : less[i] = p.buf[i]
  BY <1>1
<1>5. s \in Program /\ s.buf = p.buf /\ s.haveStatus = p.haveStatus /\ s.hideCursor = p.hideCursor
      /\ s.vt \in VTs
  BY <1>2, ProgramTyped DEF Kept, Synced, Sound
<1>6. e = [s EXCEPT !.buf = less]
  BY <1>5 DEF Program
<1> HIDE DEF e, lines, less, n
<1>7. /\ Synced(e, Len(stay)) /\ e.buf = less /\ e.vt = s.vt
       /\ e.haveStatus = s.haveStatus /\ e.hideCursor = s.hideCursor
  BY <1>2, <1>4, <1>6, WithBuf
<1>8. Shows(s.vt, stay, Picture(less))
  <2>1. /\ Len(stay) + Len(lines) <= Len(s.vt.rows)
        /\ \A r \in 1 .. Len(s.vt.rows) :
                    s.vt.rows[r] = IF r <= Len(stay) THEN stay[r]
                                ELSE IF r <= Len(stay) + Len(lines) THEN SeenRow(lines[r - Len(stay)])
                                ELSE BlankRow(colorNormal)
    BY <1>2, <1>5, ShowsLines
  <2>2. Len(s.vt.rows) \in Nat
    BY <1>5, VTTyped
  <2>3. ASSUME NEW r \in 1 .. Len(s.vt.rows)
        PROVE  s.vt.rows[r] = IF r <= Len(stay) THEN stay[r]
                                ELSE IF r <= Len(stay) + Len(less) THEN SeenRow(less[r - Len(stay)])
                                ELSE BlankRow(colorNormal)
    <3>1. CASE r = Len(stay) + n
      <4>1. r - Len(stay) = n /\ r > Len(stay) /\ r <= Len(stay) + Len(lines) /\ ~(r <= Len(stay) + Len(less))
        BY <1>1, <1>3, <1>4, <3>1
      <4> QED BY <1>1, <1>3, <2>1, <4>1, BlankLineShown
    <3>2. CASE r # Len(stay) + n
      <4>1. r <= Len(stay) + n <=> r <= Len(stay) + (n - 1)
        BY <1>1, <3>2
      <4>2. r > Len(stay) /\ r <= Len(stay) + (n - 1) => r - Len(stay) \in 1 .. n - 1
        BY <1>1
      <4> QED BY <1>1, <1>3, <1>4, <2>1, <4>1, <4>2
    <3> QED BY <3>1, <3>2
  <2>4. Len(stay) + Len(less) <= Len(s.vt.rows)
    BY <1>1, <1>3, <1>4, <2>1, <2>2
  <2> QED BY <1>4, <1>5, <2>3, <2>4, ShowsLines
<1>9. Drawn(e, stay)
  <2>1. Len(less) <= Height
    BY <1>1, <1>4, ScreenAssumption DEF Drawn, n
  <2> QED BY <1>5, <1>7, <1>8, <2>1 DEF Drawn
<1> QED BY <1>0, <1>4, <1>7, <1>9 DEF n

\* The first y lines of a frame have been painted, of one that had k.
Drawing(s, stay, lines, k, y) ==
    /\ Drawn(s, stay)
    /\ Len(s.buf) = AtLeast(y, k)
    /\ \A i \in 1 .. y : s.buf[i] = lines[i]

\* All n have, and what is left below them is m lines.
Blanking(s, stay, lines, m) ==
    /\ Drawn(s, stay)
    /\ Len(s.buf) = Len(lines) + m
    /\ \A i \in 1 .. Len(lines) : s.buf[i] = lines[i]

LEMMA DrawingNext ==
    ASSUME NEW stay \in Seq(Rows), NEW lines \in Seq(Lines), Len(lines) <= Height,
           NEW k \in Nat, k >= 1, NEW y \in 1 .. Len(lines), NEW s,
           Drawing(s, stay, lines, k, y - 1)
    PROVE  Drawing(paintBufLine(s, y - 1, lines[y]), stay, lines, k, y)
<1> DEFINE z == y - 1
<1> DEFINE q == paintBufLine(s, z, lines[y])
<1>1. Drawn(s, stay) /\ Len(s.buf) = AtLeast(z, k) /\ \A i \in 1 .. z : s.buf[i] = lines[i]
  BY DEF Drawing
<1>2. /\ z \in Nat /\ z < Height /\ z + 1 = y /\ lines[y] \in Lines
      /\ AtLeast(z, k) >= z /\ AtLeast(z, k) >= 1 /\ AtLeast(z + 1, AtLeast(z, k)) = AtLeast(y, k)
  BY ScreenAssumption DEF AtLeast
<1>3. Len(s.buf) >= 1 /\ z <= Len(s.buf)
  BY <1>1, <1>2
<1> DEFINE new == lines[y]
<1>4. /\ Drawn(q, stay)
      /\ Len(q.buf) = AtLeast(z + 1, Len(s.buf)) /\ q.buf[z + 1] = new
      /\ \A i \in 1 .. z : q.buf[i] = s.buf[i]
  <2>1. new \in Lines /\ z \in Nat /\ z < Height
    BY <1>2
  <2> HIDE DEF z, new, q
  <2>2. q = paintBufLine(s, z, new)
    BY DEF q, new
  <2>3. Drawn(q, stay) /\ LineIsNow(s, q, z, new)
    BY <1>1, <1>3, <2>1, <2>2, PaintBufLineIs
  <2> QED BY <2>3 DEF LineIsNow
<1> HIDE DEF q
<1>5. \A i \in 1 .. y : q.buf[i] = lines[i]
  <2>1. \A i \in 1 .. y : i = z + 1 \/ i \in 1 .. z
    BY <1>2
  <2> QED BY <1>1, <1>2, <1>4, <2>1
<1>6. Drawing(q, stay, lines, k, y)
  BY <1>1, <1>2, <1>4, <1>5 DEF Drawing
<1> QED BY <1>6 DEF q

LEMMA BlankingNext ==
    ASSUME NEW stay \in Seq(Rows), NEW lines \in Seq(Lines), 1 <= Len(lines),
           NEW m \in Nat, m >= 1, NEW s,
           Blanking(s, stay, lines, m)
    PROVE  Blanking(blankLastLine(s), stay, lines, m - 1)
<1> DEFINE q == blankLastLine(s)
<1>1. Drawn(s, stay) /\ Len(s.buf) = Len(lines) + m /\ \A i \in 1 .. Len(lines) : s.buf[i] = lines[i]
  BY DEF Blanking
<1>2. Len(s.buf) >= 1 /\ Len(lines) + m - 1 = Len(lines) + (m - 1) /\ Len(lines) <= Len(s.buf) - 1
      /\ Len(s.buf) - 1 = Len(lines) + (m - 1)
  BY <1>1
<1>3. /\ Drawn(q, stay)
      /\ Len(q.buf) = Len(s.buf) - 1
      /\ \A i \in 1 .. Len(s.buf) - 1 : q.buf[i] = s.buf[i]
  BY <1>1, <1>2, BlankLastLineIs
<1> HIDE DEF q
<1>4. \A i \in 1 .. Len(lines) : q.buf[i] = lines[i]
  <2>1. \A i \in 1 .. Len(lines) : i \in 1 .. Len(s.buf) - 1
    BY <1>2
  <2> QED BY <1>1, <1>3, <2>1
<1>5. Blanking(q, stay, lines, m - 1)
  BY <1>2, <1>3, <1>4 DEF Blanking
<1> QED BY <1>5 DEF q

LEMMA DrawnTyped ==
    ASSUME NEW p, NEW stay, Drawn(p, stay)
    PROVE  p \in Program
BY DEF Drawn, Synced, Sound

\* paintBuf (screenbuf.go:60-122) makes of a screen that shows the frame painted
\* last one that shows the new frame, for any two frames no taller than the screen,
\* whatever their differences, and leaves what stands above as it is.
THEOREM PaintBuf ==
    ASSUME NEW stay \in Seq(Rows), NEW p, Drawn(p, stay),
           NEW b, b.lines \in Seq(Lines), 1 <= Len(b.lines), Len(b.lines) <= Height
    PROVE  Drawn(paintBuf(p, b), stay) /\ paintBuf(p, b).buf = b.lines
<1> DEFINE lines == b.lines
<1> DEFINE n == Len(lines)
<1> DEFINE first == IF p.buf = <<>> THEN [p EXCEPT !.buf = <<BlankLine>>] ELSE p
<1> DEFINE k == Len(first.buf)
<1>1. n \in Nat /\ n >= 1 /\ n <= Height /\ lines \in Seq(Lines)
  OBVIOUS
<1>2. Drawn(first, stay) /\ k \in Nat /\ k >= 1
  <2>1. /\ p \in Program /\ p.buf \in Seq(Lines) /\ p.vt \in VTs /\ Len(p.buf) \in Nat
        /\ Len(stay) + 1 <= Len(p.vt.rows) /\ Len(stay) \in Nat /\ Len(p.vt.rows) \in Nat
    BY BufTyped
  <2>2. CASE p.buf = <<>>
    <3>1. <<BlankLine>> \in Seq(Lines) /\ <<BlankLine>> = Append(<<>>, BlankLine) /\ Len(<<BlankLine>>) = 1
      BY BlankLineTyped
    <3>2. first = [p EXCEPT !.buf = <<BlankLine>>]
      BY <2>2
    <3> HIDE DEF first
    <3> DEFINE one == <<BlankLine>>
    <3>3. one \in Seq(Lines)
      BY <3>1
    <3>4. /\ Synced(first, Len(stay)) /\ first.buf = one /\ first.vt = p.vt
          /\ first.haveStatus = p.haveStatus /\ first.hideCursor = p.hideCursor
      <4>1. first = [p EXCEPT !.buf = one]
        BY <3>2
      <4> HIDE DEF one
      <4> QED BY <3>3, <4>1, WithBuf DEF Drawn
    <3>5. Shows(p.vt, stay, Picture(Append(<<>>, BlankLine)))
      <4> DEFINE t == p.vt
      <4> DEFINE none == p.buf
      <4>1. none \in Seq(Lines) /\ Len(none) = 0
        BY <2>1, <2>2
      <4>2. t \in VTs /\ Shows(t, stay, Picture(none))
        BY <2>1 DEF Drawn
      <4>3. \A r \in 1 .. Len(t.rows) : t.rows[r] = IF r <= Len(t.rows) THEN t.rows[r] ELSE BlankRow(colorNormal)
        BY <2>1
      <4>4. Len(stay) + Len(none) + 1 <= Len(t.rows)
        <5>1. Len(stay) + 0 + 1 <= Len(p.vt.rows)
          BY <2>1
        <5> QED BY <4>1, <5>1
      <4> HIDE DEF t, none
      <4>5. Shows(t, stay, Picture(Append(none, BlankLine)))
        BY <4>1, <4>2, <4>3, <4>4, ShowsMore
      <4> QED BY <2>2, <4>5 DEF t, none
    <3>6. Shows(first.vt, stay, Picture(first.buf)) /\ Len(first.buf) = 1
      BY <3>1, <3>4, <3>5
    <3> QED BY <3>4, <3>6, ScreenAssumption DEF Drawn
  <2>3. CASE p.buf # <<>>
    <3>1. Len(p.buf) # 0
      BY <2>1, <2>3
    <3> QED BY <2>1, <2>3, <3>1
  <2> QED BY <2>2, <2>3
<1> DEFINE After(y) == {s \in Program : Drawing(s, stay, lines, k, y)}
<1> DEFINE S == [y \in 0 .. n |-> After(y)]
<1> DEFINE Step(s, y) == paintBufLine(s, y - 1, lines[y])
<1> DEFINE g == [y \in 1 .. n |-> [s \in After(y - 1) |-> Step(s, y)]]
<1> HIDE DEF first
<1>3. first \in S[0]
  <2>1. AtLeast(0, k) = k /\ \A i \in 1 .. 0 : FALSE
    BY <1>2 DEF AtLeast
  <2>2. Drawing(first, stay, lines, k, 0)
    BY <1>2, <2>1 DEF Drawing
  <2>3. first \in Program
    BY <1>2, DrawnTyped
  <2>4. first \in After(0)
    BY <2>2, <2>3
  <2> HIDE DEF After
  <2> QED BY <1>1, <2>4
<1>4. ASSUME NEW y \in 1 .. n, NEW s \in After(y - 1)
      PROVE  Step(s, y) \in After(y)
  <2>1. Drawing(s, stay, lines, k, y - 1)
    OBVIOUS
  <2> DEFINE q == Step(s, y)
  <2>2. Drawing(q, stay, lines, k, y)
    <3> HIDE DEF k, lines
    <3> QED BY <1>1, <1>2, <2>1, DrawingNext
  <2> HIDE DEF q
  <2>3. q \in Program
    BY <2>2, DrawnTyped DEF Drawing
  <2> QED BY <2>2, <2>3 DEF q
<1>5. \A y \in 1 .. n : S[y - 1] = After(y - 1) /\ S[y] = After(y)
  <2> HIDE DEF After
  <2> QED BY <1>1
<1>6. \A y \in 1 .. n : g[y] \in [S[y - 1] -> S[y]]
  <2> HIDE DEF After, Step, S
  <2> QED BY <1>4, <1>5
<1>7. PICK f : Recurs(f, n, S, first, g)
  <2> HIDE DEF n, S, g
  <2> QED BY <1>1, <1>3, <1>6, Recursion
<1> DEFINE Is(h) == h = [y \in 0 .. Len(b.lines) |->
                            IF y = 0 THEN first ELSE paintBufLine(h[y - 1], y - 1, b.lines[y])]
<1>8. Is(f)
  <2>1. /\ f = [y \in 0 .. n |-> f[y]] /\ f[0] = first
        /\ \A y \in 0 .. n : f[y] \in S[y]
        /\ \A y \in 1 .. n : f[y] = g[y][f[y - 1]]
    <3> HIDE DEF n, S, g
    <3> QED BY <1>7 DEF Recurs
  <2>2. \A y \in 1 .. n : f[y] = Step(f[y - 1], y)
    <3>1. \A y \in 1 .. n : f[y - 1] \in After(y - 1)
      <4> HIDE DEF After, S, n
      <4> QED BY <1>1, <1>5, <2>1
    <3> HIDE DEF After, Step, n
    <3> QED BY <2>1, <3>1
  <2>3. \A y \in 0 .. n : y = 0 \/ y \in 1 .. n
    BY <1>1
  <2>4. \A y \in 0 .. n : f[y] = IF y = 0 THEN first ELSE Step(f[y - 1], y)
    <3> HIDE DEF Step, n
    <3> QED BY <2>1, <2>2, <2>3
  <2> QED BY <2>1, <2>4, Zenon
<1> DEFINE drawn == CHOOSE h : Is(h)
<1>9. Is(drawn)
  <2> HIDE DEF Is
  <2> QED BY <1>8
<1> DEFINE extra == Len(drawn[n].buf) - n
<1> DEFINE IsB(h) == h = [i \in 0 .. extra |-> IF i = 0 THEN drawn[n] ELSE blankLastLine(h[i - 1])]
<1> DEFINE blanked == CHOOSE h : IsB(h)
<1>10. paintBuf(p, b) = blanked[extra]
  BY DEF paintBuf, first
<1> HIDE DEF drawn
<1>11. drawn[0] = first
  BY <1>1, <1>9
<1>12. \A y \in 1 .. n : drawn[y] = Step(drawn[y - 1], y)
  <2>1. \A y \in 1 .. n : y \in 0 .. n /\ y # 0
    BY <1>1
  <2> QED BY <1>9, <2>1, Zenon
<1>13. \A y \in 1 .. n : drawn[y - 1] \in S[y - 1] => drawn[y] \in S[y]
  <2> HIDE DEF After, Step, S, n
  <2> QED BY <1>4, <1>5, <1>12
<1>14. drawn[n] \in S[n]
  <2> HIDE DEF n, S
  <2> QED BY <1>1, <1>3, <1>11, <1>13, StepsStay
<1>15. Drawing(drawn[n], stay, lines, k, n)
  <2>1. S[n] = After(n)
    <3> HIDE DEF After
    <3> QED BY <1>1
  <2> QED BY <1>14, <2>1
<1>16. extra \in Nat /\ Blanking(drawn[n], stay, lines, extra)
  <2>1. Len(drawn[n].buf) = AtLeast(n, k) /\ AtLeast(n, k) \in Nat /\ AtLeast(n, k) >= n
    <3> HIDE DEF n, k
    <3> QED BY <1>1, <1>2, <1>15 DEF Drawing, AtLeast
  <2>2. extra \in Nat /\ Len(drawn[n].buf) = n + extra
    <3> DEFINE a == Len(drawn[n].buf)
    <3>1. a \in Nat /\ a >= n /\ extra = a - n
      BY <2>1
    <3> HIDE DEF a, n, extra
    <3>2. extra \in Nat /\ a = n + extra
      BY <1>1, <3>1
    <3> QED BY <3>2 DEF a
  <2> QED BY <1>15, <2>2 DEF Drawing, Blanking
<1> HIDE DEF extra
<1> DEFINE AfterB(i) == {s \in Program : Blanking(s, stay, lines, extra - i)}
<1> DEFINE T == [i \in 0 .. extra |-> AfterB(i)]
<1> DEFINE e == [i \in 1 .. extra |-> [s \in AfterB(i - 1) |-> blankLastLine(s)]]
<1> DEFINE last == drawn[n]
<1>17. last \in T[0]
  <2>1. last \in Program
    BY <1>15, DrawnTyped DEF Drawing
  <2>2. extra - 0 = extra
    BY <1>16
  <2>3. last \in AfterB(0)
    BY <1>16, <2>1, <2>2
  <2> HIDE DEF AfterB
  <2> QED BY <1>16, <2>3
<1>18. ASSUME NEW i \in 1 .. extra, NEW s \in AfterB(i - 1)
       PROVE  blankLastLine(s) \in AfterB(i)
  <2> DEFINE m == extra - (i - 1)
  <2>1. m \in Nat /\ m >= 1 /\ m - 1 = extra - i
    BY <1>16
  <2>2. Blanking(s, stay, lines, m)
    OBVIOUS
  <2> DEFINE q == blankLastLine(s)
  <2>3. Blanking(q, stay, lines, m - 1)
    <3> HIDE DEF m, lines
    <3> QED BY <1>1, <2>1, <2>2, BlankingNext DEF n
  <2> HIDE DEF q, m
  <2>4. q \in Program
    BY <2>3, DrawnTyped DEF Blanking
  <2> QED BY <2>1, <2>3, <2>4 DEF q
<1>19. \A i \in 1 .. extra : T[i - 1] = AfterB(i - 1) /\ T[i] = AfterB(i)
  <2> HIDE DEF AfterB
  <2> QED BY <1>16
<1>20. \A i \in 1 .. extra : e[i] \in [T[i - 1] -> T[i]]
  <2> HIDE DEF AfterB, T
  <2> QED BY <1>18, <1>19
<1> HIDE DEF last
<1>21. PICK h : Recurs(h, extra, T, last, e)
  <2> HIDE DEF T, e
  <2> QED BY <1>16, <1>17, <1>20, Recursion
<1>22. IsB(h)
  <2>1. /\ h = [i \in 0 .. extra |-> h[i]] /\ h[0] = last
        /\ \A i \in 0 .. extra : h[i] \in T[i]
        /\ \A i \in 1 .. extra : h[i] = e[i][h[i - 1]]
    <3> HIDE DEF T, e
    <3> QED BY <1>21 DEF Recurs
  <2>2. \A i \in 1 .. extra : h[i] = blankLastLine(h[i - 1])
    <3>1. \A i \in 1 .. extra : h[i - 1] \in AfterB(i - 1)
      <4> HIDE DEF AfterB, T
      <4> QED BY <1>16, <1>19, <2>1
    <3> HIDE DEF AfterB
    <3> QED BY <2>1, <3>1
  <2>3. \A i \in 0 .. extra : i = 0 \/ i \in 1 .. extra
    BY <1>16
  <2>4. \A i \in 0 .. extra : h[i] = IF i = 0 THEN last ELSE blankLastLine(h[i - 1])
    BY <2>1, <2>2, <2>3
  <2> QED BY <2>1, <2>4, Zenon DEF last
<1>23. IsB(blanked)
  <2> HIDE DEF IsB
  <2> QED BY <1>22
<1> HIDE DEF blanked
<1>24. blanked[0] = last
  BY <1>16, <1>23 DEF last
<1>25. \A i \in 1 .. extra : blanked[i] = blankLastLine(blanked[i - 1])
  <2>1. \A i \in 1 .. extra : i \in 0 .. extra /\ i # 0
    BY <1>16
  <2> QED BY <1>23, <2>1, Zenon
<1>26. \A i \in 1 .. extra : blanked[i - 1] \in T[i - 1] => blanked[i] \in T[i]
  <2> HIDE DEF AfterB, T
  <2> QED BY <1>18, <1>19, <1>25
<1>27. blanked[extra] \in T[extra]
  <2> HIDE DEF T
  <2> QED BY <1>16, <1>17, <1>24, <1>26, StepsStay
<1> DEFINE q == blanked[extra]
<1>28. Blanking(q, stay, lines, 0)
  <2>1. T[extra] = AfterB(extra)
    <3> HIDE DEF AfterB
    <3> QED BY <1>16
  <2>2. extra - extra = 0
    BY <1>16
  <2> QED BY <1>27, <2>1, <2>2
<1> HIDE DEF q
<1>29. Drawn(q, stay) /\ q.buf = lines
  <2>1. Drawn(q, stay) /\ Len(q.buf) = n + 0 /\ \A i \in 1 .. n : q.buf[i] = lines[i]
    BY <1>28 DEF Blanking
  <2>2. q.buf \in Seq(Lines) /\ n + 0 = n
    BY <1>1, <2>1, BufTyped
  <2> QED BY <1>1, <2>1, <2>2, SeqEqual
<1> QED BY <1>10, <1>29 DEF q

-----------------------------------------------------------------------------
(* The frames.                                                             *)

Buffers == [lines : Seq(Lines), x : 0 .. Width - 1, y : Nat]

LEMMA BufferTyped ==
    ASSUME NEW b \in Buffers
    PROVE  /\ b.lines \in Seq(Lines) /\ b.x \in 0 .. Width - 1 /\ b.y \in Nat
           /\ Len(b.lines) \in Nat /\ DOMAIN b.lines = 1 .. Len(b.lines)
           /\ \A r \in 1 .. Len(b.lines) : b.lines[r] \in Lines
BY DEF Buffers

LEMMA SpacesTyped ==
    ASSUME NEW n \in Nat
    PROVE  /\ Spaces(n) \in Textual /\ Len(Spaces(n)) = n
           /\ \A i \in 1 .. n : Spaces(n)[i] = Blank
BY ScreenAssumption DEF Spaces, Textual

Written(b, q, x, y, color, text) ==
    /\ q \in Buffers /\ q.y = y
    /\ q.x = AtMost(x + Len(text), Width - 1) /\ x <= q.x
    /\ Len(q.lines) = AtLeast(y + 1, Len(b.lines))
    /\ \A r \in 1 .. Len(b.lines) : r # y + 1 => q.lines[r] = b.lines[r]
    /\ \A i \in 1 .. Width - 1 :
         q.lines[y + 1][i] = IF i \in x + 1 .. q.x THEN Cell(text[i - x], color)
                             ELSE IF y + 1 <= Len(b.lines) THEN b.lines[y + 1][i]
                             ELSE Cell(Blank, NoColor)

LEMMA WriteAt ==
    ASSUME NEW b \in Buffers, NEW x \in 0 .. Width - 1, NEW y \in 0 .. Len(b.lines),
           NEW color \in Colors, NEW text \in Textual
    PROVE  Written(b, writeAt(b, x, y, color, text), x, y, color, text)
<1> DEFINE n == AtLeast(y + 1, Len(b.lines))
<1> DEFINE old == [r \in 1 .. n |-> IF r \in DOMAIN b.lines THEN b.lines[r] ELSE BlankLine]
<1> DEFINE end == AtMost(x + Len(text), Width - 1)
<1> DEFINE line == [i \in 1 .. Width - 1 |->
                      IF i \in x + 1 .. end THEN Cell(text[i - x], color) ELSE old[y + 1][i]]
<1> DEFINE lines == [old EXCEPT ![y + 1] = line]
<1> DEFINE q == [lines |-> lines, x |-> end, y |-> y]
<1>0. writeAt(b, x, y, color, text) = q
  BY DEF writeAt
<1>1. /\ b.lines \in Seq(Lines) /\ Len(b.lines) \in Nat /\ DOMAIN b.lines = 1 .. Len(b.lines)
      /\ \A r \in 1 .. Len(b.lines) : b.lines[r] \in Lines
  BY BufferTyped
<1>2. Len(text) \in Nat /\ \A k \in 1 .. Len(text) : text[k] \in Characters
  BY DEF Textual
<1>3. n \in Nat /\ y + 1 \in 1 .. n /\ Len(b.lines) <= n
  BY <1>1 DEF AtLeast
<1>4. end \in 0 .. Width - 1 /\ x <= end /\ end <= x + Len(text)
  BY <1>2, ScreenAssumption DEF AtMost
<1>5. \A r \in 1 .. n : old[r] = IF r <= Len(b.lines) THEN b.lines[r] ELSE BlankLine
  BY <1>1, <1>3
<1>6. old \in Seq(Lines) /\ Len(old) = n
  <2>1. \A r \in 1 .. n : (IF r \in DOMAIN b.lines THEN b.lines[r] ELSE BlankLine) \in Lines
    BY <1>1, BlankLineTyped
  <2> HIDE DEF n
  <2> QED BY <1>3, <2>1
<1> HIDE DEF n, old, end
<1>7. old[y + 1] \in Lines
  BY <1>3, <1>6
<1>8. line \in Lines
  <2>1. \A i \in 1 .. Width - 1 : i \in x + 1 .. end => Cell(text[i - x], color) \in Cells
    <3> TAKE i \in 1 .. Width - 1
    <3> SUFFICES ASSUME i \in x + 1 .. end PROVE Cell(text[i - x], color) \in Cells
      OBVIOUS
    <3>1. i - x \in 1 .. Len(text)
      BY <1>2, <1>4
    <3>2. text[i - x] \in Characters
      BY <1>2, <3>1
    <3> QED BY <3>2 DEF Cell, Cells
  <2>2. \A i \in 1 .. Width - 1 : old[y + 1][i] \in Cells
    BY <1>7 DEF Lines
  <2> QED BY <2>1, <2>2 DEF Lines
<1>9. \A i \in 1 .. Width - 1 : line[i] = IF i \in x + 1 .. end THEN Cell(text[i - x], color) ELSE old[y + 1][i]
  OBVIOUS
<1> HIDE DEF line
<1>10. /\ lines \in Seq(Lines) /\ Len(lines) = n /\ lines[y + 1] = line
       /\ \A r \in 1 .. n : r # y + 1 => lines[r] = old[r]
  BY <1>3, <1>6, <1>8
<1> HIDE DEF lines
<1>11. q \in Buffers /\ q.lines = lines /\ q.x = end /\ q.y = y
  BY <1>1, <1>4, <1>10 DEF Buffers
<1> HIDE DEF q
<1>12. \A i \in 1 .. Width - 1 :
         q.lines[y + 1][i] = IF i \in x + 1 .. q.x THEN Cell(text[i - x], color)
                             ELSE IF y + 1 <= Len(b.lines) THEN b.lines[y + 1][i]
                             ELSE Cell(Blank, NoColor)
  BY <1>3, <1>5, <1>9, <1>10, <1>11, BlankLineTyped
<1>13. \A r \in 1 .. Len(b.lines) : r # y + 1 => q.lines[r] = b.lines[r]
  <2>1. \A r \in 1 .. Len(b.lines) : r \in 1 .. n
    BY <1>1, <1>3
  <2> QED BY <1>5, <1>10, <1>11, <2>1
<1> QED BY <1>0, <1>4, <1>10, <1>11, <1>12, <1>13 DEF Written, n, end

\* The cells up to column x of line y are those of another buffer.
SameBefore(b, q, x, y) ==
    /\ q \in Buffers /\ Len(q.lines) = Len(b.lines)
    /\ \A i \in 1 .. Width - 1 : i <= x => q.lines[y + 1][i] = b.lines[y + 1][i]

LEMMA WrittenAfter ==
    ASSUME NEW b \in Buffers, NEW x \in 0 .. Width - 1, NEW y \in Nat, y < Len(b.lines),
           NEW q, NEW color, NEW text \in Textual, Written(b, q, x, y, color, text)
    PROVE  /\ SameBefore(b, q, x, y)
           /\ q \in Buffers /\ q.y = y /\ q.x \in 0 .. Width - 1 /\ x <= q.x /\ y < Len(q.lines)
<1>1. Len(b.lines) \in Nat
  BY BufferTyped
<1>2. Len(q.lines) = Len(b.lines)
  BY <1>1 DEF Written, AtLeast
<1>3. \A i \in 1 .. Width - 1 : i <= x => i \notin x + 1 .. q.x
  OBVIOUS
<1>4. y + 1 <= Len(b.lines)
  BY <1>1
<1> QED BY <1>2, <1>3, <1>4, BufferTyped DEF SameBefore, Written

LEMMA WriteIs ==
    ASSUME NEW b \in Buffers, b.y < Len(b.lines), NEW color \in Colors, NEW text \in Textual
    PROVE  LET q == write(b, color, text)
           IN  /\ SameBefore(b, q, b.x, b.y)
               /\ q \in Buffers /\ q.y = b.y /\ b.x <= q.x /\ q.y < Len(q.lines)
<1> DEFINE q == write(b, color, text)
<1>1. b.x \in 0 .. Width - 1 /\ b.y \in Nat /\ Len(b.lines) \in Nat
  BY BufferTyped
<1>2. b.y \in 0 .. Len(b.lines)
  BY <1>1
<1>3. Written(b, q, b.x, b.y, color, text)
  BY <1>1, <1>2, WriteAt DEF write
<1> HIDE DEF q
<1> DEFINE x == b.x
<1> DEFINE y == b.y
<1>4. x \in 0 .. Width - 1 /\ y \in Nat /\ y < Len(b.lines) /\ Written(b, q, x, y, color, text)
  BY <1>1, <1>3
<1> HIDE DEF x, y
<1>5. /\ SameBefore(b, q, x, y)
      /\ q \in Buffers /\ q.y = y /\ x <= q.x /\ y < Len(q.lines)
  BY <1>4, WrittenAfter
<1> QED BY <1>5 DEF x, y, q

LEMMA PiecesTyped ==
    ASSUME NEW p \in Pieces
    PROVE  /\ p[1] \in Textual /\ p[2] \in Textual /\ p[3] \in Textual
           /\ Size(p) \in Nat
<1>1. p[1] \in Textual /\ p[2] \in Textual /\ p[3] \in Textual
  BY TextAssumption
<1>2. Len(p[1]) \in Nat /\ Len(p[2]) \in Nat /\ Len(p[3]) \in Nat
  BY <1>1 DEF Textual
<1>3. Size(p) \in Nat
  <2> DEFINE a == Len(p[1])
  <2> DEFINE b == Len(p[2])
  <2> DEFINE c == Len(p[3])
  <2>1. Size(p) = a + b + c
    BY DEF Size
  <2>2. a \in Nat /\ b \in Nat /\ c \in Nat
    BY <1>2
  <2> HIDE DEF a, b, c
  <2> QED BY <2>1, <2>2
<1> QED BY <1>1, <1>3

LEMMA WritePieces ==
    ASSUME NEW b \in Buffers, NEW x \in 0 .. Width - 1, NEW y \in Nat, y < Len(b.lines),
           NEW color \in Colors, NEW p \in Pieces
    PROVE  SameBefore(b, writePieces(b, x, y, color, p), x, y)
<1> DEFINE b1 == writeAt(b, x, y, color, p[1])
<1> DEFINE b2 == write(b1, colorSelected, p[2])
<1> DEFINE b3 == write(b2, color, p[3])
<1>1. p[1] \in Textual /\ p[2] \in Textual /\ p[3] \in Textual
  BY PiecesTyped
<1>2. y \in 0 .. Len(b.lines)
  BY BufferTyped
<1>3. Written(b, b1, x, y, color, p[1])
  BY <1>1, <1>2, WriteAt
<1> HIDE DEF b1
<1>4. SameBefore(b, b1, x, y) /\ b1 \in Buffers /\ b1.y = y /\ x <= b1.x /\ b1.y < Len(b1.lines)
      /\ b1.x \in 0 .. Width - 1
  BY <1>1, <1>3, WrittenAfter
<1>5. /\ SameBefore(b1, b2, b1.x, b1.y)
      /\ b2 \in Buffers /\ b2.y = b1.y /\ b1.x <= b2.x /\ b2.y < Len(b2.lines)
  BY <1>1, <1>4, ColorsTyped, WriteIs
<1> HIDE DEF b2
<1>6. SameBefore(b2, b3, b2.x, b2.y)
  BY <1>1, <1>5, WriteIs
<1> HIDE DEF b3
<1>7. b2.x \in 0 .. Width - 1
  BY <1>5, BufferTyped
<1>8. SameBefore(b, b3, x, y)
  <2>1. \A i \in 1 .. Width - 1 : i <= x => i <= b1.x /\ i <= b2.x
    BY <1>4, <1>5, <1>7
  <2> QED BY <1>4, <1>5, <1>6, <2>1 DEF SameBefore
<1>9. writePieces(b, x, y, color, p) = b3
  BY DEF writePieces, b3, b2, b1
<1> QED BY <1>8, <1>9

LEMMA NewScreenBufTyped ==
    newScreenBuf \in Buffers /\ Len(newScreenBuf.lines) = 1 /\ newScreenBuf.lines[1] = BlankLine
<1>1. <<BlankLine>> \in Seq(Lines)
  BY BlankLineTyped
<1> QED BY <1>1, ScreenAssumption DEF newScreenBuf, Buffers

LEMMA TextBounds ==
    /\ Prompt \in Textual /\ Len(Prompt) \in Nat /\ TextX = Len(Prompt) + 1 /\ TextX < Width
    /\ Label \in Textual /\ Len(Label) \in Nat /\ entryx = Len(Label) + 2 /\ entryx < Width
    /\ MaxLines \in Nat /\ MaxLines < Height /\ 4 < Width
BY TextAssumption, FrameAssumption DEF Textual, TextX, entryx

LEMMA CommandFrame ==
    ASSUME NEW p \in Pieces
    PROVE  LET n == commandFrame(p)
           IN  n.lines \in Seq(Lines) /\ Len(n.lines) = 1 /\ Prompted(n.lines)
<1> DEFINE b == writeAt(newScreenBuf, 0, 0, colorLabel, Prompt)
<1> DEFINE n == writePieces(b, TextX, 0, NoColor, p)
<1>0. commandFrame(p) = n
  BY DEF commandFrame
<1>1. Written(newScreenBuf, b, 0, 0, colorLabel, Prompt)
  <2>1. 0 \in 0 .. Width - 1 /\ 0 \in 0 .. Len(newScreenBuf.lines)
    BY NewScreenBufTyped, ScreenAssumption
  <2> QED BY <2>1, NewScreenBufTyped, ColorsTyped, TextBounds, WriteAt
<1> HIDE DEF b
<1>2. /\ b \in Buffers /\ Len(b.lines) = 1 /\ b.x = Len(Prompt)
      /\ \A i \in 1 .. Width - 1 :
            b.lines[1][i] = IF i \in 1 .. b.x THEN Cell(Prompt[i], colorLabel) ELSE Cell(Blank, NoColor)
  <2>1. /\ b \in Buffers /\ b.y = 0
        /\ b.x = AtMost(0 + Len(Prompt), Width - 1)
        /\ Len(b.lines) = AtLeast(0 + 1, 1)
        /\ \A i \in 1 .. Width - 1 :
             b.lines[0 + 1][i] = IF i \in 0 + 1 .. b.x THEN Cell(Prompt[i - 0], colorLabel)
                             ELSE IF 0 + 1 <= 1 THEN BlankLine[i]
                             ELSE Cell(Blank, NoColor)
    BY <1>1, NewScreenBufTyped DEF Written
  <2>2. AtMost(0 + Len(Prompt), Width - 1) = Len(Prompt) /\ AtLeast(0 + 1, 1) = 1
    BY TextBounds, ScreenAssumption DEF AtMost, AtLeast
  <2>3. \A i \in 1 .. Width - 1 : i - 0 = i
    OBVIOUS
  <2> QED BY <2>1, <2>2, <2>3, BlankLineTyped
<1>3. SameBefore(b, n, TextX, 0)
  <2>1. TextX \in 0 .. Width - 1 /\ 0 < Len(b.lines)
    BY <1>2, TextBounds, ScreenAssumption
  <2> QED BY <1>2, <2>1, ColorsTyped, WritePieces
<1> HIDE DEF n
<1>4. n \in Buffers /\ Len(n.lines) = 1 /\ \A i \in 1 .. Width - 1 : i <= TextX => n.lines[1][i] = b.lines[1][i]
  BY <1>2, <1>3 DEF SameBefore
<1>5. Prompted(n.lines)
  <2>1. \A i \in 1 .. Len(Prompt) : i \in 1 .. Width - 1 /\ i <= TextX
    BY TextBounds, ScreenAssumption
  <2>2. TextX \in 1 .. Width - 1 /\ TextX <= TextX /\ TextX \notin 1 .. Len(Prompt)
    BY TextBounds, ScreenAssumption
  <2> QED BY <1>2, <1>4, <2>1, <2>2 DEF Prompted
<1>6. n.lines \in Seq(Lines)
  BY <1>4, BufferTyped
<1> QED BY <1>0, <1>4, <1>5, <1>6

LEMMA LabelFrame ==
    labelFrame \in Buffers /\ Len(labelFrame.lines) = 1
<1> DEFINE b == labelFrame
<1>1. Written(newScreenBuf, b, 0, 0, colorLabel, Label)
  <2>1. 0 \in 0 .. Width - 1 /\ 0 \in 0 .. Len(newScreenBuf.lines)
    BY NewScreenBufTyped, ScreenAssumption
  <2> QED BY <2>1, NewScreenBufTyped, ColorsTyped, TextBounds, WriteAt DEF labelFrame
<1> QED BY <1>1, NewScreenBufTyped DEF Written, AtLeast

\* A line of a value is written: its background, and then its text.
LEMMA EntryLine ==
    ASSUME NEW b \in Buffers, NEW x \in 0 .. Width - 1, NEW n \in Nat, NEW y \in 0 .. Len(b.lines),
           NEW p \in Pieces
    PROVE  LET q == writePieces(fill(b, x, n, y, colorEntry), x, y, colorEntry, p)
           IN  q \in Buffers /\ Len(q.lines) = AtLeast(y + 1, Len(b.lines))
<1> DEFINE f == fill(b, x, n, y, colorEntry)
<1> DEFINE q == writePieces(f, x, y, colorEntry, p)
<1>1. Written(b, f, x, y, colorEntry, Spaces(n))
  BY SpacesTyped, ColorsTyped, WriteAt DEF fill
<1> HIDE DEF f
<1>2. f \in Buffers /\ Len(f.lines) = AtLeast(y + 1, Len(b.lines)) /\ y \in Nat /\ y < Len(f.lines)
  <2>1. y < AtLeast(y + 1, Len(b.lines)) /\ y \in Nat
    BY BufferTyped DEF AtLeast
  <2> QED BY <1>1, <2>1 DEF Written
<1>3. SameBefore(f, q, x, y)
  BY <1>2, ColorsTyped, WritePieces
<1> QED BY <1>2, <1>3 DEF SameBefore, f

LEMMA OnelineFrame ==
    ASSUME NEW p \in Pieces
    PROVE  LET n == onelineFrame(p)
           IN  n.lines \in Seq(Lines) /\ Len(n.lines) = 1
<1> DEFINE n == onelineFrame(p)
<1>1. entryx \in 0 .. Width - 1 /\ Width - entryx - 1 \in Nat /\ 0 \in 0 .. Len(labelFrame.lines)
      /\ AtLeast(0 + 1, 1) = 1
  BY TextBounds, LabelFrame, ScreenAssumption DEF AtLeast
<1>2. n \in Buffers /\ Len(n.lines) = AtLeast(0 + 1, Len(labelFrame.lines))
  BY <1>1, LabelFrame, EntryLine DEF onelineFrame
<1> QED BY <1>1, <1>2, LabelFrame, BufferTyped

LEMMA MultilineFrame ==
    ASSUME NEW ps \in Seq(Pieces)
    PROVE  LET n == multilineFrame(ps)
           IN  n.lines \in Seq(Lines) /\ Len(n.lines) = Len(ps) + 1
<1> DEFINE n == Len(ps)
<1> DEFINE After(y) == {b \in Buffers : Len(b.lines) = y + 1}
<1> DEFINE S == [y \in 0 .. n |-> After(y)]
<1> DEFINE Step(b, y) == writePieces(fill(b, 4, Width - 5, y, colorEntry), 4, y, colorEntry, ps[y])
<1> DEFINE g == [y \in 1 .. n |-> [b \in After(y - 1) |-> Step(b, y)]]
<1>1. n \in Nat
  OBVIOUS
<1>2. labelFrame \in S[0]
  <2>1. labelFrame \in After(0)
    BY LabelFrame
  <2> HIDE DEF After
  <2> QED BY <1>1, <2>1
<1>3. ASSUME NEW y \in 1 .. n, NEW b \in After(y - 1)
      PROVE  Step(b, y) \in After(y)
  <2>1. b \in Buffers /\ Len(b.lines) = y
    OBVIOUS
  <2>2. 4 \in 0 .. Width - 1 /\ Width - 5 \in Nat /\ y \in 0 .. Len(b.lines) /\ AtLeast(y + 1, y) = y + 1
    BY <2>1, TextBounds, ScreenAssumption DEF AtLeast
  <2>3. ps[y] \in Pieces
    OBVIOUS
  <2> DEFINE q == Step(b, y)
  <2>4. q \in Buffers /\ Len(q.lines) = AtLeast(y + 1, Len(b.lines))
    <3> DEFINE x == 4
    <3> DEFINE w == Width - 5
    <3> DEFINE one == ps[y]
    <3>1. x \in 0 .. Width - 1 /\ w \in Nat /\ one \in Pieces
      BY <2>2, <2>3
    <3>2. q = writePieces(fill(b, x, w, y, colorEntry), x, y, colorEntry, one)
      OBVIOUS
    <3> HIDE DEF x, w, one, q
    <3> QED BY <2>1, <2>2, <3>1, <3>2, EntryLine
  <2> HIDE DEF q
  <2>5. q \in After(y)
    BY <2>1, <2>2, <2>4
  <2> QED BY <2>5 DEF q
<1>4. \A y \in 1 .. n : S[y - 1] = After(y - 1) /\ S[y] = After(y)
  <2> HIDE DEF After
  <2> QED BY <1>1
<1>5. \A y \in 1 .. n : g[y] \in [S[y - 1] -> S[y]]
  <2> HIDE DEF After, Step, S, n
  <2> QED BY <1>3, <1>4
<1>6. PICK f : Recurs(f, n, S, labelFrame, g)
  <2> HIDE DEF n, S, g
  <2> QED BY <1>1, <1>2, <1>5, Recursion
<1> DEFINE Is(h) == h = [y \in 0 .. Len(ps) |->
            IF y = 0 THEN labelFrame
            ELSE writePieces(fill(h[y - 1], 4, Width - 5, y, colorEntry), 4, y, colorEntry, ps[y])]
<1>7. Is(f)
  <2>1. /\ f = [y \in 0 .. n |-> f[y]] /\ f[0] = labelFrame
        /\ \A y \in 0 .. n : f[y] \in S[y]
        /\ \A y \in 1 .. n : f[y] = g[y][f[y - 1]]
    <3> HIDE DEF n, S, g
    <3> QED BY <1>6 DEF Recurs
  <2>2. \A y \in 1 .. n : f[y] = Step(f[y - 1], y)
    <3>1. \A y \in 1 .. n : f[y - 1] \in After(y - 1)
      <4> HIDE DEF After, S, n
      <4> QED BY <1>1, <1>4, <2>1
    <3> HIDE DEF After, Step, n
    <3> QED BY <2>1, <3>1
  <2>3. \A y \in 0 .. n : y = 0 \/ y \in 1 .. n
    BY <1>1
  <2>4. \A y \in 0 .. n : f[y] = IF y = 0 THEN labelFrame ELSE Step(f[y - 1], y)
    <3> HIDE DEF Step, n
    <3> QED BY <2>1, <2>2, <2>3
  <2> QED BY <2>1, <2>4, Zenon
<1> DEFINE written == CHOOSE h : Is(h)
<1>8. Is(written)
  <2> HIDE DEF Is
  <2> QED BY <1>7
<1>9. multilineFrame(ps) = written[n]
  BY DEF multilineFrame
<1> HIDE DEF written
<1>10. written[0] = labelFrame
  BY <1>1, <1>8
<1>11. \A y \in 1 .. n : written[y] = Step(written[y - 1], y)
  <2>1. \A y \in 1 .. n : y \in 0 .. n /\ y # 0
    BY <1>1
  <2> QED BY <1>8, <2>1, Zenon
<1>12. \A y \in 1 .. n : written[y - 1] \in S[y - 1] => written[y] \in S[y]
  <2> HIDE DEF After, Step, S, n
  <2> QED BY <1>3, <1>4, <1>11
<1>13. written[n] \in S[n]
  <2> HIDE DEF n, S
  <2> QED BY <1>1, <1>2, <1>10, <1>12, StepsStay
<1>14. written[n] \in Buffers /\ Len(written[n].lines) = n + 1
  <2>1. S[n] = After(n)
    <3> HIDE DEF After
    <3> QED BY <1>1
  <2> QED BY <1>13, <2>1
<1> QED BY <1>9, <1>14, BufferTyped

-----------------------------------------------------------------------------
(* Choices.                                                                *)

Count == Len(Offered)
EndX(i) == IF i = 0 THEN entryx ELSE Offered[i].x + Len(Offered[i].text)
EndY(i) == IF i = 0 THEN 0 ELSE Offered[i].y

LEMMA Element ==
    ASSUME NEW S, NEW s \in Seq(S), NEW i \in 1 .. Len(s)
    PROVE  s[i] \in S
OBVIOUS

LEMMA OfferedTyped ==
    /\ Count \in Nat /\ Count >= 1 /\ DOMAIN Offered = 1 .. Count
    /\ Offered[1].x = entryx /\ Offered[1].y = 0
    /\ \A i \in 1 .. Count :
          /\ Offered[i].text \in Textual /\ Offered[i].x \in Nat /\ Offered[i].y \in Nat
          /\ Len(Offered[i].text) \in Nat
          /\ Offered[i].x + Len(Offered[i].text) < Width /\ Offered[i].y < Height
          /\ EndX(i) = Offered[i].x + Len(Offered[i].text) /\ EndY(i) = Offered[i].y
          /\ EndX(i) \in Nat /\ Offered[i].x <= EndX(i) /\ EndX(i) < Width
<1>1. Offered \in Seq([text : Textual, x : Nat, y : Nat]) /\ Offered # <<>>
      /\ Offered[1].x = entryx /\ Offered[1].y = 0
      /\ \A i \in DOMAIN Offered :
          Offered[i].x + Len(Offered[i].text) < Width /\ Offered[i].y < Height
  BY OfferedAssumption
<1>2. Count \in Nat /\ DOMAIN Offered = 1 .. Count /\ Count # 0
  BY <1>1 DEF Count
<1>3. \A i \in 1 .. Count : Offered[i] \in [text : Textual, x : Nat, y : Nat]
  BY <1>1, Element DEF Count
<1>4. ASSUME NEW i \in 1 .. Count
      PROVE  /\ Offered[i].text \in Textual /\ Offered[i].x \in Nat /\ Offered[i].y \in Nat
             /\ Len(Offered[i].text) \in Nat
  BY <1>3 DEF Textual
<1>5. ASSUME NEW i \in 1 .. Count
      PROVE  /\ Offered[i].x + Len(Offered[i].text) < Width /\ Offered[i].y < Height
             /\ EndX(i) = Offered[i].x + Len(Offered[i].text) /\ EndY(i) = Offered[i].y
             /\ EndX(i) \in Nat /\ Offered[i].x <= EndX(i) /\ EndX(i) < Width
  <2>1. Offered[i].x + Len(Offered[i].text) < Width /\ Offered[i].y < Height
    BY <1>1, <1>2
  <2>2. i # 0
    BY <1>2
  <2>3. EndX(i) = Offered[i].x + Len(Offered[i].text) /\ EndY(i) = Offered[i].y
    BY <2>2 DEF EndX, EndY
  <2> QED BY <1>4, <2>1, <2>3
<1>6. Count >= 1
  BY <1>2
<1> QED BY <1>1, <1>2, <1>4, <1>5, <1>6

\* Choices that stand before another end before it in its line, or are in a line above.
LEMMA InOrder ==
    ASSUME NEW j \in 1 .. Count, NEW i \in 1 .. Count, j < i
    PROVE  \/ Offered[j].y < Offered[i].y
           \/ Offered[j].y = Offered[i].y /\ EndX(j) <= Offered[i].x
<1>1. i \in DOMAIN Offered /\ j \in 1 .. i - 1
  BY OfferedTyped
<1>2. \/ Offered[j].y < Offered[i].y
      \/ /\ Offered[j].y = Offered[i].y
         /\ Offered[j].x + Len(Offered[j].text) <= Offered[i].x
  BY <1>1, OfferedAssumption
<1> QED BY <1>2, OfferedTyped

LEMMA NextChoice ==
    ASSUME NEW i \in 1 .. Count
    PROVE  /\ i - 1 \in 0 .. Count /\ EndY(i - 1) \in Nat /\ EndX(i - 1) \in Nat
           /\ EndY(i - 1) <= Offered[i].y /\ Offered[i].y <= EndY(i - 1) + 1
           /\ Offered[i].y = EndY(i - 1) => EndX(i - 1) <= Offered[i].x
           /\ Offered[i].y = 0 => entryx <= EndX(i - 1)
<1>1. CASE i = 1
  <2>1. i - 1 = 0
    BY <1>1
  <2> QED BY <1>1, <2>1, OfferedTyped, TextBounds DEF EndX, EndY
<1>2. CASE i # 1
  <2> DEFINE j == i - 1
  <2>1. j \in 1 .. Count /\ j < i
    BY <1>2, OfferedTyped
  <2>2. i \in DOMAIN Offered /\ Offered[i].y <= Offered[i - 1].y + 1
    BY <1>2, OfferedTyped, OfferedAssumption
  <2>3. \/ Offered[j].y < Offered[i].y
        \/ Offered[j].y = Offered[i].y /\ EndX(j) <= Offered[i].x
    BY <2>1, InOrder
  <2>4. Offered[i].y <= Offered[j].y + 1
    BY <2>2
  <2>5. j # 1 /\ Offered[j].y = 0 => entryx <= EndX(j)
    <3> SUFFICES ASSUME j # 1, Offered[j].y = 0 PROVE entryx <= EndX(j)
      OBVIOUS
    <3>1. 1 \in 1 .. Count /\ 1 < j
      BY <2>1, OfferedTyped
    <3>2. EndX(1) <= Offered[j].x
      <4>1. \/ Offered[1].y < Offered[j].y
            \/ Offered[1].y = Offered[j].y /\ EndX(1) <= Offered[j].x
        BY <2>1, <3>1, InOrder
      <4> QED BY <3>1, <4>1, OfferedTyped
    <3> HIDE DEF j
    <3>3. EndX(1) \in Nat /\ entryx <= EndX(1) /\ Offered[j].x <= EndX(j) /\ Offered[j].x \in Nat /\ EndX(j) \in Nat
          /\ entryx \in Nat
      BY <2>1, <3>1, OfferedTyped, TextBounds
    <3> QED BY <3>2, <3>3
  <2>6. j = 1 => entryx <= EndX(j)
    BY <2>1, OfferedTyped
  <2> HIDE DEF j
  <2>7. /\ EndY(j) = Offered[j].y /\ Offered[j].y \in Nat /\ Offered[i].y \in Nat /\ EndX(j) \in Nat
        /\ j \in 0 .. Count
    BY <2>1, OfferedTyped
  <2> QED BY <2>3, <2>4, <2>5, <2>6, <2>7 DEF j
<1> QED BY <1>1, <1>2

LEMMA CoversIs ==
    ASSUME NEW i \in 1 .. Count, NEW x \in Nat, NEW y \in Nat
    PROVE  Covers(i, x, y) <=> Offered[i].y = y /\ Offered[i].x < x /\ x <= EndX(i)
<1>1. EndX(i) = Offered[i].x + Len(Offered[i].text) /\ Offered[i].x \in Nat /\ EndX(i) \in Nat
  BY OfferedTyped
<1> QED BY <1>1 DEF Covers

LEMMA CoversOnce ==
    ASSUME NEW i \in 1 .. Count, NEW j \in 1 .. Count, NEW x \in Nat, NEW y \in Nat,
           Covers(i, x, y), Covers(j, x, y)
    PROVE  i = j
<1>1. ASSUME NEW a \in 1 .. Count, NEW b \in 1 .. Count, Covers(a, x, y), Covers(b, x, y), a < b
      PROVE  FALSE
  <2>1. Offered[a].y = y /\ x <= EndX(a) /\ Offered[b].y = y /\ Offered[b].x < x
    BY <1>1, CoversIs
  <2>2. EndX(a) <= Offered[b].x
    <3>1. \/ Offered[a].y < Offered[b].y
          \/ Offered[a].y = Offered[b].y /\ EndX(a) <= Offered[b].x
      BY <1>1, InOrder
    <3> QED BY <2>1, <3>1
  <2>3. EndX(a) \in Nat /\ Offered[b].x \in Nat
    BY OfferedTyped
  <2> QED BY <2>1, <2>2, <2>3
<1>2. i < j \/ j < i \/ i = j
  OBVIOUS
<1> QED BY <1>1, <1>2

LEMMA ChoiceColorTyped ==
    ASSUME NEW i, NEW sel
    PROVE  ChoiceColor(i, sel) \in Colors
BY ColorsTyped DEF ChoiceColor

ChoiceCell(sel, n, x, y) ==
    IF \E i \in 1 .. n : Covers(i, x, y)
    THEN LET i == CHOOSE i \in 1 .. n : Covers(i, x, y)
         IN  Cell(Offered[i].text[x - Offered[i].x], ChoiceColor(i, sel))
    ELSE IF y = 0 /\ x \in DOMAIN Label THEN Cell(Label[x], colorLabel)
    ELSE Cell(Blank, NoColor)

LEMMA CellCovered ==
    ASSUME NEW sel, NEW n \in 0 .. Count, NEW x \in Nat, NEW y \in Nat, NEW i \in 1 .. n, Covers(i, x, y)
    PROVE  ChoiceCell(sel, n, x, y) = Cell(Offered[i].text[x - Offered[i].x], ChoiceColor(i, sel))
<1> DEFINE k == CHOOSE j \in 1 .. n : Covers(j, x, y)
<1>1. k \in 1 .. n /\ Covers(k, x, y)
  OBVIOUS
<1>2. k \in 1 .. Count /\ i \in 1 .. Count
  BY <1>1, OfferedTyped
<1> HIDE DEF k
<1>3. k = i
  BY <1>1, <1>2, CoversOnce
<1>4. ChoiceCell(sel, n, x, y) = Cell(Offered[k].text[x - Offered[k].x], ChoiceColor(k, sel))
  BY DEF ChoiceCell, k
<1> QED BY <1>3, <1>4

LEMMA CellNotCovered ==
    ASSUME NEW sel, NEW n, NEW x, NEW y, \A i \in 1 .. n : ~Covers(i, x, y)
    PROVE  ChoiceCell(sel, n, x, y) = IF y = 0 /\ x \in DOMAIN Label THEN Cell(Label[x], colorLabel)
                                      ELSE Cell(Blank, NoColor)
BY DEF ChoiceCell

LEMMA ChoiceCellTyped ==
    ASSUME NEW sel, NEW n \in 0 .. Count, NEW x \in Nat, NEW y \in Nat
    PROVE  ChoiceCell(sel, n, x, y) \in Cells
<1>1. CASE \E i \in 1 .. n : Covers(i, x, y)
  <2>1. PICK i \in 1 .. n : Covers(i, x, y)
    BY <1>1
  <2>2. i \in 1 .. Count
    BY OfferedTyped
  <2>3. Offered[i].text \in Textual /\ x - Offered[i].x \in 1 .. Len(Offered[i].text)
    <3>1. Offered[i].x < x /\ x <= EndX(i)
      BY <2>1, <2>2, CoversIs
    <3>2. EndX(i) = Offered[i].x + Len(Offered[i].text) /\ Offered[i].x \in Nat /\ Len(Offered[i].text) \in Nat
          /\ Offered[i].text \in Textual
      BY <2>2, OfferedTyped
    <3> QED BY <3>1, <3>2
  <2>4. Offered[i].text[x - Offered[i].x] \in Characters
    BY <2>3 DEF Textual
  <2>5. Cell(Offered[i].text[x - Offered[i].x], ChoiceColor(i, sel)) \in Cells
    BY <2>4, ChoiceColorTyped DEF Cell, Cells
  <2> QED BY <2>1, <2>5, CellCovered
<1>2. CASE ~(\E i \in 1 .. n : Covers(i, x, y))
  <2>1. Cell(Blank, NoColor) \in Cells
    BY ColorsTyped, ScreenAssumption DEF Cell, Cells
  <2>2. x \in DOMAIN Label => Cell(Label[x], colorLabel) \in Cells
    BY ColorsTyped, TextBounds DEF Cell, Cells, Textual
  <2> QED BY <1>2, <2>1, <2>2, CellNotCovered
<1> QED BY <1>1, <1>2

\* One more choice is shown where it stands, and nothing else is changed.
LEMMA CellNext ==
    ASSUME NEW sel, NEW i \in 1 .. Count, NEW x \in Nat, NEW y \in Nat, ~Covers(i, x, y)
    PROVE  ChoiceCell(sel, i, x, y) = ChoiceCell(sel, i - 1, x, y)
<1>0. i \in 0 .. Count /\ i - 1 \in 0 .. Count /\ \A j \in 1 .. i - 1 : j \in 1 .. i
  BY OfferedTyped
<1>1. CASE \E j \in 1 .. i - 1 : Covers(j, x, y)
  <2>1. PICK j \in 1 .. i - 1 : Covers(j, x, y)
    BY <1>1
  <2>2. j \in 1 .. i
    BY <1>0
  <2>3. ChoiceCell(sel, i, x, y) = Cell(Offered[j].text[x - Offered[j].x], ChoiceColor(j, sel))
    BY <1>0, <2>1, <2>2, CellCovered
  <2>4. ChoiceCell(sel, i - 1, x, y) = Cell(Offered[j].text[x - Offered[j].x], ChoiceColor(j, sel))
    <3> DEFINE m == i - 1
    <3>1. m \in 0 .. Count /\ j \in 1 .. m
      BY <1>0, <2>1
    <3> HIDE DEF m
    <3>2. ChoiceCell(sel, m, x, y) = Cell(Offered[j].text[x - Offered[j].x], ChoiceColor(j, sel))
      BY <2>1, <3>1, CellCovered
    <3> QED BY <3>2 DEF m
  <2> QED BY <2>3, <2>4
<1>2. CASE ~(\E j \in 1 .. i - 1 : Covers(j, x, y))
  <2>1. \A j \in 1 .. i : j = i \/ j \in 1 .. i - 1
    OBVIOUS
  <2>2. ~(\E j \in 1 .. i : Covers(j, x, y))
    BY <1>2, <2>1
  <2> QED BY <1>2, <2>2 DEF ChoiceCell
<1> QED BY <1>1, <1>2

ChoiceRow(sel, n, y) == SeenRow([x \in 1 .. Width - 1 |-> ChoiceCell(sel, n, x, y)])

LEMMA ChoiceRowIs ==
    ASSUME NEW sel, NEW n \in 0 .. Count, NEW y \in Nat
    PROVE  /\ ChoiceRow(sel, n, y) \in Rows
           /\ \A x \in 1 .. Width :
                ChoiceRow(sel, n, y)[x] =
                    IF x <= Width - 1
                    THEN Seen(ChoiceCell(sel, n, x, y).ch, Meant(ChoiceCell(sel, n, x, y).color))
                    ELSE Seen(Blank, colorNormal)
<1> DEFINE line == [x \in 1 .. Width - 1 |-> ChoiceCell(sel, n, x, y)]
<1>1. \A x \in 1 .. Width - 1 : ChoiceCell(sel, n, x, y) \in Cells
  BY ChoiceCellTyped
<1>2. line \in Lines
  BY <1>1 DEF Lines
<1>3. \A x \in 1 .. Width : x <= Width - 1 => line[x] = ChoiceCell(sel, n, x, y)
  BY ScreenAssumption
<1>4. ChoiceRow(sel, n, y) = SeenRow(line)
  BY DEF ChoiceRow
<1> HIDE DEF line
<1> QED BY <1>2, <1>3, <1>4, LineShown

LEMMA ChoiceRowBelow ==
    ASSUME NEW sel, NEW n \in 0 .. Count, NEW y \in Nat, y > EndY(n)
    PROVE  ChoiceRow(sel, n, y) = BlankRow(colorNormal)
<1>1. ASSUME NEW i \in 1 .. n, NEW x \in Nat
      PROVE  ~Covers(i, x, y)
  <2>1. i \in 1 .. Count /\ n \in 1 .. Count
    BY OfferedTyped
  <2>2. Offered[i].y <= Offered[n].y
    <3>1. CASE i = n
      BY <2>1, <3>1, OfferedTyped
    <3>2. CASE i < n
      <4>1. Offered[i].y < Offered[n].y \/ Offered[i].y = Offered[n].y
        BY <2>1, <3>2, InOrder
      <4> QED BY <2>1, <4>1, OfferedTyped
    <3> QED BY <3>1, <3>2
  <2>3. EndY(n) = Offered[n].y /\ Offered[i].y \in Nat /\ Offered[n].y \in Nat
    BY <2>1, OfferedTyped
  <2>4. Offered[i].y # y
    BY <2>2, <2>3
  <2> QED BY <2>1, <2>4, CoversIs
<1>2. y # 0
  <2>1. EndY(n) \in Nat
    <3>1. n = 0 \/ n \in 1 .. Count
      BY OfferedTyped
    <3> QED BY <3>1, OfferedTyped DEF EndY
  <2> QED BY <2>1
<1>3. \A x \in 1 .. Width - 1 : ChoiceCell(sel, n, x, y) = Cell(Blank, NoColor)
  BY <1>1, <1>2, CellNotCovered
<1>4. [x \in 1 .. Width - 1 |-> ChoiceCell(sel, n, x, y)] = BlankLine
  BY <1>3 DEF BlankLine
<1> QED BY <1>4, BlankLineShown DEF ChoiceRow

LEMMA ChoicesShownIs ==
    ASSUME NEW sel, NEW n \in 0 .. Count
    PROVE  /\ EndY(n) \in Nat /\ ChoicesShown(sel, n) \in Seq(Rows) /\ Len(ChoicesShown(sel, n)) = EndY(n) + 1
           /\ \A y \in 1 .. EndY(n) + 1 : ChoicesShown(sel, n)[y] = ChoiceRow(sel, n, y - 1)
<1>1. EndY(n) \in Nat
  <2>1. n = 0 \/ n \in 1 .. Count
    BY OfferedTyped
  <2> QED BY <2>1, OfferedTyped DEF EndY
<1>2. ChoicesShown(sel, n) = [y \in 1 .. EndY(n) + 1 |-> ChoiceRow(sel, n, y - 1)]
  BY DEF ChoicesShown, ChoiceRow, ChoiceCell, EndY
<1>3. \A y \in 1 .. EndY(n) + 1 : ChoiceRow(sel, n, y - 1) \in Rows
  <2>1. \A y \in 1 .. EndY(n) + 1 : y - 1 \in Nat
    BY <1>1
  <2> QED BY <2>1, ChoiceRowIs
<1> QED BY <1>1, <1>2, <1>3

\* Every row after those that stay shows the choices in it.
LEMMA ShowsChoices ==
    ASSUME NEW stay \in Seq(Rows), NEW sel, NEW n \in 0 .. Count, NEW t \in VTs
    PROVE  Shows(t, stay, ChoicesShown(sel, n)) <=>
               /\ Len(stay) + 1 + EndY(n) <= Len(t.rows)
               /\ \A r \in 1 .. Len(t.rows) :
                    t.rows[r] = IF r <= Len(stay) THEN stay[r] ELSE ChoiceRow(sel, n, r - Len(stay) - 1)
<1> DEFINE shown == ChoicesShown(sel, n)
<1> DEFINE e == EndY(n)
<1>1. /\ e \in Nat /\ shown \in Seq(Rows) /\ Len(shown) = e + 1
      /\ \A y \in 1 .. e + 1 : shown[y] = ChoiceRow(sel, n, y - 1)
  BY ChoicesShownIs
<1>2. DOMAIN t.rows = 1 .. Len(t.rows) /\ Len(t.rows) \in Nat /\ Len(stay) \in Nat
  BY VTTyped
<1> HIDE DEF shown
<1>3. ASSUME NEW r \in 1 .. Len(t.rows)
      PROVE  RowAt(stay, shown, r) = IF r <= Len(stay) THEN stay[r] ELSE ChoiceRow(sel, n, r - Len(stay) - 1)
  <2>1. CASE r <= Len(stay)
    BY <2>1 DEF RowAt
  <2>2. CASE r > Len(stay) /\ r <= Len(stay) + Len(shown)
    <3>1. r - Len(stay) \in 1 .. e + 1 /\ ~(r <= Len(stay))
      BY <1>1, <1>2, <2>2
    <3> QED BY <1>1, <2>2, <3>1 DEF RowAt
  <2>3. CASE r > Len(stay) /\ ~(r <= Len(stay) + Len(shown))
    <3> DEFINE y == r - Len(stay) - 1
    <3>1. y \in Nat /\ y > e /\ ~(r <= Len(stay))
      BY <1>1, <1>2, <2>3
    <3>2. ChoiceRow(sel, n, y) = BlankRow(colorNormal)
      <4> HIDE DEF y
      <4> QED BY <3>1, ChoiceRowBelow
    <3> QED BY <2>3, <3>1, <3>2 DEF RowAt
  <2> QED BY <1>2, <2>1, <2>2, <2>3
<1>4. Len(stay) + Len(shown) <= Len(t.rows) <=> Len(stay) + 1 + e <= Len(t.rows)
  BY <1>1, <1>2
<1> QED BY <1>2, <1>3, <1>4 DEF Shows, shown

\* Sequences one after the other.
LEMMA Concat ==
    ASSUME NEW S, NEW a \in Seq(S), NEW b \in Seq(S)
    PROVE  /\ a \o b \in Seq(S) /\ Len(a \o b) = Len(a) + Len(b)
           /\ \A i \in 1 .. Len(a) + Len(b) :
                (a \o b)[i] = IF i <= Len(a) THEN a[i] ELSE b[i - Len(a)]
BY ConcatProperties

LEMMA TextConcat ==
    ASSUME NEW a \in Textual, NEW b \in Textual
    PROVE  /\ a \o b \in Textual /\ Len(a \o b) = Len(a) + Len(b)
           /\ \A i \in 1 .. Len(a) + Len(b) :
                (a \o b)[i] = IF i <= Len(a) THEN a[i] ELSE b[i - Len(a)]
BY Concat DEF Textual

\* The choices before one end before it, or in a line above.
LEMMA Reached ==
    ASSUME NEW k \in 0 .. Count, NEW j \in 1 .. k
    PROVE  /\ k \in 1 .. Count /\ j \in 1 .. Count
           /\ Offered[j].y <= EndY(k)
           /\ Offered[j].y = EndY(k) => EndX(j) <= EndX(k)
<1>1. k \in 1 .. Count /\ j \in 1 .. Count
  BY OfferedTyped
<1>2. /\ EndY(k) = Offered[k].y /\ Offered[k].y \in Nat /\ Offered[j].y \in Nat
      /\ EndX(k) \in Nat /\ EndX(j) \in Nat /\ Offered[k].x \in Nat /\ Offered[k].x <= EndX(k)
  BY <1>1, OfferedTyped
<1>3. CASE j = k
  BY <1>1, <1>2, <1>3
<1>4. CASE j < k
  <2>1. \/ Offered[j].y < Offered[k].y
        \/ Offered[j].y = Offered[k].y /\ EndX(j) <= Offered[k].x
    BY <1>1, <1>4, InOrder
  <2> QED BY <1>1, <1>2, <2>1
<1> QED BY <1>1, <1>3, <1>4

\* Between the choices is nothing.
LEMMA GapBlank ==
    ASSUME NEW sel, NEW i \in 1 .. Count, NEW x \in Nat, x <= Offered[i].x,
           Offered[i].y = EndY(i - 1) => x > EndX(i - 1)
    PROVE  ChoiceCell(sel, i, x, Offered[i].y) = Cell(Blank, NoColor)
<1> DEFINE y == Offered[i].y
<1> DEFINE k == i - 1
<1>1. /\ k \in 0 .. Count /\ EndY(k) \in Nat /\ EndX(k) \in Nat
      /\ EndY(k) <= y /\ y <= EndY(k) + 1
      /\ (y = EndY(k) => EndX(k) <= Offered[i].x)
      /\ (y = 0 => entryx <= EndX(k))
      /\ y \in Nat /\ Offered[i].x \in Nat
  BY NextChoice, OfferedTyped
<1>2. \A j \in 1 .. i : j = i \/ j \in 1 .. k
  OBVIOUS
<1>3. y = EndY(k) => x > EndX(k)
  OBVIOUS
<1> HIDE DEF k, y
<1>4. ASSUME NEW j \in 1 .. i
      PROVE  ~Covers(j, x, y)
  <2>1. CASE j = i
    <3>1. Covers(i, x, y) <=> Offered[i].y = y /\ Offered[i].x < x /\ x <= EndX(i)
      BY <1>1, CoversIs
    <3> QED BY <1>1, <2>1, <3>1
  <2>2. CASE j \in 1 .. k
    <3>1. /\ j \in 1 .. Count /\ Offered[j].y <= EndY(k)
          /\ Offered[j].y = EndY(k) => EndX(j) <= EndX(k)
      BY <1>1, <2>2, Reached
    <3>2. Covers(j, x, y) <=> Offered[j].y = y /\ Offered[j].x < x /\ x <= EndX(j)
      BY <1>1, <3>1, CoversIs
    <3>3. Offered[j].y \in Nat /\ EndX(j) \in Nat
      BY <3>1, OfferedTyped
    <3> QED BY <1>1, <1>3, <3>1, <3>2, <3>3
  <2> QED BY <1>2, <2>1, <2>2
<1>5. ~(y = 0 /\ x \in DOMAIN Label)
  <2> SUFFICES ASSUME y = 0, x \in DOMAIN Label PROVE FALSE
    OBVIOUS
  <2>1. x <= Len(Label)
    BY TextBounds DEF Textual
  <2>2. EndY(k) = 0
    BY <1>1
  <2> QED BY <1>1, <1>3, <2>1, <2>2, TextBounds
<1>6. ChoiceCell(sel, i, x, y) = Cell(Blank, NoColor)
  BY <1>4, <1>5, CellNotCovered
<1> QED BY <1>6 DEF y

ChoicesOn(t, stay, sel, n) ==
    \A r \in 1 .. Len(t.rows) :
        t.rows[r] = IF r <= Len(stay) THEN stay[r] ELSE ChoiceRow(sel, n, r - Len(stay) - 1)

\* The label and n of the choices have been printed.
Choosing(p, s, stay, sel, n) ==
    /\ Synced(s, Len(stay)) /\ Kept(p, s)
    /\ ChoicesOn(s.vt, stay, sel, n)
    /\ s.curX = EndX(n) /\ s.curY = EndY(n)

LEMMA SyncedTyped ==
    ASSUME NEW top \in Nat, NEW p, Synced(p, top)
    PROVE  /\ p \in Program /\ p.vt \in VTs /\ p.curX \in Nat /\ p.curY \in Nat
           /\ Len(p.vt.rows) \in Nat /\ top + 1 + p.curY <= Len(p.vt.rows)
           /\ \A r \in 1 .. Len(p.vt.rows) : p.vt.rows[r] \in Rows
BY ProgramTyped, VTTyped DEF Synced, Sound, OnScreen

LEMMA ChoosingStarts ==
    ASSUME NEW stay \in Seq(Rows), NEW p, Clean(p, stay), NEW sel
    PROVE  Choosing(p, printText(p, colorLabel, Label \o Spaces(2)), stay, sel, 0)
<1> DEFINE text == Label \o Spaces(2)
<1> DEFINE top == Len(stay)
<1> DEFINE q == printText(p, colorLabel, text)
<1> DEFINE row == top + 1
<1>1. /\ text \in Textual /\ Len(text) = entryx
      /\ \A i \in 1 .. entryx : text[i] = IF i <= Len(Label) THEN Label[i] ELSE Blank
  <2> DEFINE two == Spaces(2)
  <2>1. 2 \in Nat /\ two \in Textual /\ Len(two) = 2 /\ \A i \in 1 .. 2 : two[i] = Blank
    <3>1. 2 \in Nat
      OBVIOUS
    <3>2. Spaces(2) \in Textual /\ Len(Spaces(2)) = 2 /\ \A i \in 1 .. 2 : Spaces(2)[i] = Blank
      BY <3>1, SpacesTyped
    <3> QED BY <3>2
  <2> HIDE DEF two
  <2>2. /\ Label \o two \in Textual /\ Len(Label \o two) = Len(Label) + 2
        /\ \A i \in 1 .. Len(Label) + 2 :
             (Label \o two)[i] = IF i <= Len(Label) THEN Label[i] ELSE two[i - Len(Label)]
    <3>1. /\ Label \o two \in Textual /\ Len(Label \o two) = Len(Label) + Len(two)
          /\ \A i \in 1 .. Len(Label) + Len(two) :
               (Label \o two)[i] = IF i <= Len(Label) THEN Label[i] ELSE two[i - Len(Label)]
      <4>1. Label \in Textual
        BY TextBounds
      <4> QED BY <2>1, <4>1, TextConcat
    <3> QED BY <2>1, <3>1
  <2>3. ASSUME NEW i \in 1 .. entryx
        PROVE  (Label \o two)[i] = IF i <= Len(Label) THEN Label[i] ELSE Blank
    <3>1. i \in 1 .. Len(Label) + 2
      BY TextBounds
    <3>2. i > Len(Label) => i - Len(Label) \in 1 .. 2
      BY <3>1, TextBounds
    <3> QED BY <2>1, <2>2, <3>1, <3>2, TextBounds
  <2> QED BY <2>2, <2>3, TextBounds DEF two
<1> HIDE DEF text, q
<1>2. top \in Nat /\ Synced(p, top) /\ p.curX = 0 /\ p.curY = 0 /\ Shows(p.vt, stay, <<>>)
  BY DEF Clean
<1>3. Printed(p, q, top, colorLabel, text)
  <2>1. p.curX + Len(text) < Width
    BY <1>1, <1>2, TextBounds
  <2> QED BY <1>1, <1>2, <2>1, PrintAt, ColorsTyped DEF q
<1>4. /\ Synced(q, top) /\ q.curX = entryx /\ q.curY = 0 /\ Kept(p, q)
      /\ row \in 1 .. Len(p.vt.rows) /\ Len(q.vt.rows) = Len(p.vt.rows)
      /\ \A r \in 1 .. Len(p.vt.rows) : r # row => q.vt.rows[r] = p.vt.rows[r]
      /\ \A i \in 1 .. Width :
             q.vt.rows[row][i] = IF i \in 1 .. entryx
                                 THEN Seen(text[i], Meant(colorLabel))
                                 ELSE p.vt.rows[row][i]
  <2>1. top + 1 + 0 = row /\ 0 + entryx = entryx /\ \A i \in 1 .. Width : i - 0 = i
    BY <1>2, TextBounds
  <2> QED BY <1>1, <1>2, <1>3, <2>1 DEF Printed
<1>5. \A r \in 1 .. Len(p.vt.rows) : p.vt.rows[r] = IF r <= top THEN stay[r] ELSE BlankRow(colorNormal)
  <2>1. DOMAIN p.vt.rows = 1 .. Len(p.vt.rows)
    BY <1>2, SyncedTyped, VTTyped
  <2> QED BY <1>2, <2>1, ShowsBlank
<1>6. EndY(0) = 0 /\ EndX(0) = entryx /\ 0 \in 0 .. Count
  BY OfferedTyped DEF EndX, EndY
<1>7. q.vt.rows[row] = ChoiceRow(sel, 0, 0)
  <2>1. q.vt.rows[row] \in Rows
    BY <1>2, <1>4, SyncedTyped
  <2>2. /\ ChoiceRow(sel, 0, 0) \in Rows
        /\ \A x \in 1 .. Width :
                ChoiceRow(sel, 0, 0)[x] =
                    IF x <= Width - 1
                    THEN Seen(ChoiceCell(sel, 0, x, 0).ch, Meant(ChoiceCell(sel, 0, x, 0).color))
                    ELSE Seen(Blank, colorNormal)
    BY <1>6, ChoiceRowIs
  <2>3. \A i \in 1 .. Width : BlankRow(colorNormal)[i] = Seen(Blank, colorNormal)
    BY ColorsTyped, BlankRowTyped
  <2>4. p.vt.rows[row] = BlankRow(colorNormal)
    BY <1>2, <1>4, <1>5
  <2>5. ASSUME NEW x \in 1 .. Width
        PROVE  q.vt.rows[row][x] = ChoiceRow(sel, 0, 0)[x]
    <3>1. ChoiceCell(sel, 0, x, 0) = IF x \in DOMAIN Label THEN Cell(Label[x], colorLabel) ELSE Cell(Blank, NoColor)
      BY CellNotCovered
    <3>2. x \in DOMAIN Label <=> x <= Len(Label)
      BY TextBounds DEF Textual
    <3>3. Seen(Blank, Meant(colorLabel)) = Seen(Blank, colorNormal)
      <4>1. Meant(colorLabel).bg = colorNormal.bg
        BY DEF Meant, colorLabel, colorNormal
      <4> QED BY <4>1, MeantTyped, ColorsTyped, SeenBlank
    <3>4. CASE x <= Len(Label)
      <4>1. x <= Width - 1 /\ x \in 1 .. entryx
        BY <3>4, TextBounds, ScreenAssumption
      <4>2. ChoiceCell(sel, 0, x, 0).ch = Label[x] /\ ChoiceCell(sel, 0, x, 0).color = colorLabel
        BY <3>1, <3>2, <3>4 DEF Cell
      <4> QED BY <1>1, <1>4, <2>2, <3>4, <4>1, <4>2
    <3>5. CASE x > Len(Label)
      <4>1. ChoiceCell(sel, 0, x, 0).ch = Blank /\ ChoiceCell(sel, 0, x, 0).color = NoColor
        BY <3>1, <3>2, <3>5, TextBounds DEF Cell
      <4>2. ChoiceRow(sel, 0, 0)[x] = Seen(Blank, colorNormal)
        BY <2>2, <4>1, MeantNormal
      <4>3. q.vt.rows[row][x] = Seen(Blank, colorNormal)
        <5>1. CASE x \in 1 .. entryx
          <6>1. text[x] = Blank
            BY <1>1, <3>5, <5>1, TextBounds
          <6> QED BY <1>4, <3>3, <5>1, <6>1
        <5>2. CASE x \notin 1 .. entryx
          BY <1>4, <2>3, <2>4, <5>2
        <5> QED BY <5>1, <5>2
      <4> QED BY <4>2, <4>3
    <3> QED BY <3>4, <3>5, TextBounds
  <2> QED BY <2>1, <2>2, <2>5, RowsEqual
<1>8. ChoicesOn(q.vt, stay, sel, 0)
  <2> SUFFICES ASSUME NEW r \in 1 .. Len(q.vt.rows)
               PROVE  q.vt.rows[r] = IF r <= top THEN stay[r] ELSE ChoiceRow(sel, 0, r - top - 1)
    BY DEF ChoicesOn
  <2>1. CASE r <= top
    BY <1>2, <1>4, <1>5, <2>1
  <2>2. CASE r = row
    <3>1. r - top - 1 = 0 /\ ~(r <= top)
      BY <1>2, <2>2
    <3> QED BY <1>7, <2>2, <3>1
  <2>3. CASE r > row
    <3> DEFINE y == r - top - 1
    <3>1. y \in Nat /\ y > EndY(0) /\ ~(r <= top) /\ r # row
      BY <1>2, <1>6, <2>3
    <3>2. ChoiceRow(sel, 0, y) = BlankRow(colorNormal)
      <4> HIDE DEF y
      <4> QED BY <1>6, <3>1, ChoiceRowBelow
    <3> QED BY <1>4, <1>5, <3>1, <3>2
  <2> QED BY <1>2, <1>4, <2>1, <2>2, <2>3
<1>9. Choosing(p, q, stay, sel, 0)
  BY <1>4, <1>6, <1>8 DEF Choosing
<1> QED BY <1>9 DEF q, text

\* What the loop of printChoices does for a choice.
PrintedChoice(q, i, sel) ==
    LET c    == Offered[i]
        down == IF c.y > q.curY THEN printNewline(q, NoColor) ELSE q
    IN  printText(printText(down, NoColor, Spaces(c.x - down.curX)), ChoiceColor(i, sel), c.text)

\* The cursor is in the line of choice i, before its place.
Reaches(p, d, stay, sel, i) ==
    /\ Synced(d, Len(stay)) /\ Kept(p, d)
    /\ ChoicesOn(d.vt, stay, sel, i - 1)
    /\ d.curY = Offered[i].y /\ d.curX <= Offered[i].x
    /\ d.curY = EndY(i - 1) => d.curX = EndX(i - 1)

LEMMA ReachesNext ==
    ASSUME NEW stay \in Seq(Rows), NEW p, NEW s, NEW sel, NEW i \in 1 .. Count,
           Choosing(p, s, stay, sel, i - 1)
    PROVE  Reaches(p, IF Offered[i].y > s.curY THEN printNewline(s, NoColor) ELSE s, stay, sel, i)
<1> DEFINE k == i - 1
<1> DEFINE y == Offered[i].y
<1> DEFINE top == Len(stay)
<1>1. /\ k \in 0 .. Count /\ EndY(k) \in Nat /\ EndX(k) \in Nat
      /\ EndY(k) <= y /\ y <= EndY(k) + 1
      /\ (y = EndY(k) => EndX(k) <= Offered[i].x)
      /\ y \in Nat /\ Offered[i].x \in Nat /\ y < Height
  BY NextChoice, OfferedTyped
<1>2. Synced(s, top) /\ Kept(p, s) /\ ChoicesOn(s.vt, stay, sel, k) /\ s.curX = EndX(k) /\ s.curY = EndY(k)
      /\ top \in Nat
  BY DEF Choosing
<1>3. CASE y > s.curY
  <2> DEFINE q == printNewline(s, NoColor)
  <2>1. s.curY + 2 <= Height
    BY <1>1, <1>2, <1>3, ScreenAssumption
  <2>2. /\ Synced(q, top) /\ q.curX = 0 /\ q.curY = s.curY + 1 /\ Kept(s, q)
        /\ Len(s.vt.rows) <= Len(q.vt.rows)
        /\ \A r \in 1 .. Len(q.vt.rows) :
             q.vt.rows[r] = IF r <= Len(s.vt.rows) THEN s.vt.rows[r] ELSE BlankRow(colorNormal)
    <3> HIDE DEF top
    <3> QED BY <1>2, <2>1, Newline
  <2> HIDE DEF q
  <2>3. Kept(p, q)
    BY <1>2, <2>2 DEF Kept
  <2>4. q.curY = y /\ q.curY # EndY(k) /\ q.curX <= Offered[i].x
    BY <1>1, <1>2, <1>3, <2>2
  <2>5. ChoicesOn(q.vt, stay, sel, k)
    <3> SUFFICES ASSUME NEW r \in 1 .. Len(q.vt.rows)
                 PROVE  q.vt.rows[r] = IF r <= top THEN stay[r] ELSE ChoiceRow(sel, k, r - top - 1)
      BY DEF ChoicesOn
    <3>1. Len(s.vt.rows) \in Nat /\ Len(q.vt.rows) \in Nat /\ top + 1 + EndY(k) <= Len(s.vt.rows)
      BY <1>2, <2>2, SyncedTyped
    <3>2. CASE r <= Len(s.vt.rows)
      BY <1>2, <2>2, <3>1, <3>2 DEF ChoicesOn
    <3>3. CASE r > Len(s.vt.rows)
      <4> DEFINE z == r - top - 1
      <4>1. z \in Nat /\ z > EndY(k) /\ ~(r <= top)
        BY <1>1, <1>2, <3>1, <3>3
      <4>2. ChoiceRow(sel, k, z) = BlankRow(colorNormal)
        <5> HIDE DEF z, k
        <5> QED BY <1>1, <4>1, ChoiceRowBelow
      <4> QED BY <2>2, <3>1, <3>3, <4>1, <4>2
    <3> QED BY <3>1, <3>2, <3>3
  <2>6. Reaches(p, q, stay, sel, i)
    BY <2>2, <2>3, <2>4, <2>5 DEF Reaches
  <2> QED BY <1>3, <2>6 DEF q
<1>4. CASE ~(y > s.curY)
  <2>1. s.curY = y
    BY <1>1, <1>2, <1>4
  <2>2. Reaches(p, s, stay, sel, i)
    BY <1>1, <1>2, <2>1 DEF Reaches
  <2> QED BY <1>4, <2>2
<1> QED BY <1>3, <1>4

LEMMA ChoosingNext ==
    ASSUME NEW stay \in Seq(Rows), NEW p, NEW s, NEW sel, NEW i \in 1 .. Count,
           Choosing(p, s, stay, sel, i - 1)
    PROVE  Choosing(p, PrintedChoice(s, i, sel), stay, sel, i)
<1> DEFINE k == i - 1
<1> DEFINE x0 == Offered[i].x
<1> DEFINE y0 == Offered[i].y
<1> DEFINE text == Offered[i].text
<1> DEFINE top == Len(stay)
<1> DEFINE row == top + 1 + y0
<1> DEFINE d == IF Offered[i].y > s.curY THEN printNewline(s, NoColor) ELSE s
<1>1. Reaches(p, d, stay, sel, i)
  BY ReachesNext
<1> HIDE DEF d
<1>2. /\ Synced(d, top) /\ Kept(p, d) /\ ChoicesOn(d.vt, stay, sel, k) /\ d.curY = y0 /\ d.curX <= x0
      /\ (y0 = EndY(k) => d.curX = EndX(k))
      /\ top \in Nat /\ d.curX \in Nat /\ Len(d.vt.rows) \in Nat
  BY <1>1, SyncedTyped DEF Reaches
<1>3. /\ k \in 0 .. Count /\ i \in 0 .. Count /\ x0 \in Nat /\ y0 \in Nat /\ text \in Textual /\ Len(text) \in Nat
      /\ x0 + Len(text) < Width /\ EndX(i) = x0 + Len(text) /\ EndY(i) = y0
  BY NextChoice, OfferedTyped
<1> DEFINE n == x0 - d.curX
<1> DEFINE e == printText(d, NoColor, Spaces(n))
<1> DEFINE f == printText(e, ChoiceColor(i, sel), text)
<1>4. PrintedChoice(s, i, sel) = f
  BY DEF PrintedChoice, d
<1>5. n \in Nat /\ d.curX + n = x0 /\ x0 < Width
  BY <1>2, <1>3, ScreenAssumption
<1>6. Spaces(n) \in Textual /\ Len(Spaces(n)) = n /\ \A j \in 1 .. n : Spaces(n)[j] = Blank
  BY <1>5, SpacesTyped
<1> HIDE DEF k, x0, y0, text, top, n, e, f
<1>7. Printed(d, e, top, NoColor, Spaces(n))
  BY <1>2, <1>5, <1>6, ColorsTyped, PrintAt DEF e
<1>8. /\ Synced(e, top) /\ e.curX = x0 /\ e.curY = y0 /\ Kept(d, e)
      /\ row \in 1 .. Len(d.vt.rows) /\ Len(e.vt.rows) = Len(d.vt.rows)
      /\ \A r \in 1 .. Len(d.vt.rows) : r # row => e.vt.rows[r] = d.vt.rows[r]
      /\ \A x \in 1 .. Width :
           e.vt.rows[row][x] = IF x - d.curX \in 1 .. n THEN Seen(Blank, colorNormal)
                               ELSE d.vt.rows[row][x]
  <2>1. e.curX = d.curX + n /\ e.curY = d.curY
    BY <1>6, <1>7 DEF Printed
  <2>2. row = top + 1 + d.curY
    BY <1>2
  <2> HIDE DEF row
  <2>3. \A x \in 1 .. Width :
           e.vt.rows[row][x] = IF x - d.curX \in 1 .. n THEN Seen(Spaces(n)[x - d.curX], Meant(NoColor))
                               ELSE d.vt.rows[row][x]
    BY <1>6, <1>7, <2>2 DEF Printed
  <2>4. \A x \in 1 .. Width :
           e.vt.rows[row][x] = IF x - d.curX \in 1 .. n THEN Seen(Blank, colorNormal)
                               ELSE d.vt.rows[row][x]
    BY <1>6, <2>3, MeantNormal
  <2> QED BY <1>2, <1>5, <1>7, <2>1, <2>2, <2>4 DEF Printed
<1>9. Printed(e, f, top, ChoiceColor(i, sel), text)
  BY <1>2, <1>3, <1>8, ChoiceColorTyped, PrintAt DEF f
<1>10. /\ Synced(f, top) /\ f.curX = EndX(i) /\ f.curY = EndY(i) /\ Kept(e, f)
       /\ Len(f.vt.rows) = Len(d.vt.rows)
       /\ \A r \in 1 .. Len(d.vt.rows) : r # row => f.vt.rows[r] = d.vt.rows[r]
       /\ \A x \in 1 .. Width :
            f.vt.rows[row][x] = IF x - x0 \in 1 .. Len(text)
                                THEN Seen(text[x - x0], Meant(ChoiceColor(i, sel)))
                                ELSE e.vt.rows[row][x]
  <2>1. row = top + 1 + e.curY
    BY <1>8
  <2> HIDE DEF row
  <2> QED BY <1>3, <1>8, <1>9, <2>1 DEF Printed
<1>11. Kept(p, f)
  BY <1>2, <1>8, <1>10 DEF Kept
<1>12. ASSUME NEW x \in 1 .. Width
       PROVE  f.vt.rows[row][x] = ChoiceRow(sel, i, y0)[x]
  <2>1. /\ ChoiceRow(sel, i, y0)[x] =
             IF x <= Width - 1
             THEN Seen(ChoiceCell(sel, i, x, y0).ch, Meant(ChoiceCell(sel, i, x, y0).color))
             ELSE Seen(Blank, colorNormal)
        /\ ChoiceRow(sel, k, y0)[x] =
             IF x <= Width - 1
             THEN Seen(ChoiceCell(sel, k, x, y0).ch, Meant(ChoiceCell(sel, k, x, y0).color))
             ELSE Seen(Blank, colorNormal)
    BY <1>3, ChoiceRowIs
  <2>2. x \in Nat /\ (Covers(i, x, y0) <=> x0 < x /\ x <= EndX(i))
    BY <1>3, CoversIs DEF x0, y0
  <2>3. CASE x - x0 \in 1 .. Len(text)
    <3>1. Covers(i, x, y0) /\ x <= Width - 1
      BY <1>3, <2>2, <2>3, ScreenAssumption
    <3>2. i \in 1 .. i
      BY OfferedTyped
    <3>3. ChoiceCell(sel, i, x, y0) = Cell(text[x - x0], ChoiceColor(i, sel))
      BY <1>3, <2>2, <3>1, <3>2, CellCovered DEF text, x0
    <3>4. ChoiceCell(sel, i, x, y0).ch = text[x - x0] /\ ChoiceCell(sel, i, x, y0).color = ChoiceColor(i, sel)
      BY <3>3 DEF Cell
    <3> QED BY <1>10, <2>1, <2>3, <3>1, <3>4
  <2>4. CASE x - x0 \notin 1 .. Len(text) /\ x - d.curX \in 1 .. n
    <3>1. x <= x0 /\ (y0 = EndY(k) => x > EndX(k)) /\ x <= Width - 1
      <4>1. x > d.curX /\ x <= d.curX + n
        BY <1>2, <1>5, <2>4
      <4>2. x <= x0 /\ x0 \in Nat /\ x0 < Width
        BY <1>3, <1>5, <4>1
      <4>3. x <= Width - 1
        BY <4>2, ScreenAssumption
      <4> QED BY <1>2, <4>1, <4>2, <4>3
    <3>2. ChoiceCell(sel, i, x, y0) = Cell(Blank, NoColor)
      BY <2>2, <3>1, GapBlank DEF x0, y0, k
    <3>3. ChoiceCell(sel, i, x, y0).ch = Blank /\ ChoiceCell(sel, i, x, y0).color = NoColor
      BY <3>2 DEF Cell
    <3> QED BY <1>8, <1>10, <2>1, <2>4, <3>1, <3>3, MeantNormal
  <2>5. CASE x - x0 \notin 1 .. Len(text) /\ x - d.curX \notin 1 .. n
    <3>1. ~Covers(i, x, y0)
      BY <1>3, <2>2, <2>5
    <3>2. ChoiceCell(sel, i, x, y0) = ChoiceCell(sel, k, x, y0)
      BY <1>3, <2>2, <3>1, CellNext DEF k
    <3>3. d.vt.rows[row] = ChoiceRow(sel, k, y0)
      <4>1. row - top - 1 = y0 /\ ~(row <= top)
        BY <1>2, <1>3
      <4> HIDE DEF row
      <4> QED BY <1>2, <1>8, <4>1 DEF ChoicesOn, top
    <3> QED BY <1>8, <1>10, <2>1, <2>5, <3>2, <3>3
  <2> QED BY <2>3, <2>4, <2>5
<1>13. f.vt.rows[row] = ChoiceRow(sel, i, y0)
  <2>1. f.vt.rows[row] \in Rows
    BY <1>2, <1>8, <1>10, SyncedTyped
  <2>2. ChoiceRow(sel, i, y0) \in Rows
    BY <1>3, ChoiceRowIs
  <2> QED BY <1>12, <2>1, <2>2, RowsEqual
<1>14. ASSUME NEW y \in Nat, y # y0
       PROVE  ChoiceRow(sel, i, y) = ChoiceRow(sel, k, y)
  <2>1. \A x \in 1 .. Width - 1 : ~Covers(i, x, y)
    BY <1>14 DEF Covers, y0
  <2>2. \A x \in 1 .. Width - 1 : ChoiceCell(sel, i, x, y) = ChoiceCell(sel, k, x, y)
    BY <2>1, CellNext DEF k
  <2> QED BY <2>2 DEF ChoiceRow
<1>15. ChoicesOn(f.vt, stay, sel, i)
  <2> SUFFICES ASSUME NEW r \in 1 .. Len(f.vt.rows)
               PROVE  f.vt.rows[r] = IF r <= top THEN stay[r] ELSE ChoiceRow(sel, i, r - top - 1)
    BY DEF ChoicesOn, top
  <2>1. CASE r = row
    <3>1. r - top - 1 = y0 /\ ~(r <= top)
      BY <1>2, <1>3, <2>1
    <3> QED BY <1>13, <2>1, <3>1
  <2>2. CASE r # row
    <3>1. f.vt.rows[r] = IF r <= top THEN stay[r] ELSE ChoiceRow(sel, k, r - top - 1)
      BY <1>2, <1>10, <2>2 DEF ChoicesOn, top
    <3>2. CASE r <= top
      BY <3>1, <3>2
    <3>3. CASE ~(r <= top)
      <4> DEFINE y == r - top - 1
      <4>1. y \in Nat /\ y # y0
        BY <1>2, <1>3, <2>2, <3>3
      <4>2. ChoiceRow(sel, i, y) = ChoiceRow(sel, k, y)
        <5> HIDE DEF y
        <5> QED BY <1>14, <4>1
      <4> QED BY <3>1, <3>3, <4>2
    <3> QED BY <3>2, <3>3
  <2> QED BY <2>1, <2>2
<1>16. Choosing(p, f, stay, sel, i)
  BY <1>10, <1>11, <1>15 DEF Choosing, top
<1> QED BY <1>4, <1>16

LEMMA PrintChoices ==
    ASSUME NEW stay \in Seq(Rows), NEW p, Clean(p, stay), NEW sel
    PROVE  Choosing(p, printChoices(p, sel), stay, sel, Count)
<1> DEFINE first == printText(p, colorLabel, Label \o Spaces(2))
<1> DEFINE n == Len(Offered)
<1> DEFINE After(y) == {s \in Program : Choosing(p, s, stay, sel, y)}
<1> DEFINE S == [y \in 0 .. n |-> After(y)]
<1> DEFINE Step(s, y) == PrintedChoice(s, y, sel)
<1> DEFINE g == [y \in 1 .. n |-> [s \in After(y - 1) |-> Step(s, y)]]
<1>0. ASSUME NEW s, NEW y, Choosing(p, s, stay, sel, y)
      PROVE  s \in Program
  BY <1>0 DEF Choosing, Synced, Sound
<1>1. n \in Nat /\ n = Count
  BY OfferedTyped DEF Count
<1>2. first \in S[0]
  <2>1. Choosing(p, first, stay, sel, 0)
    BY ChoosingStarts
  <2> HIDE DEF first
  <2>2. first \in After(0)
    BY <1>0, <2>1
  <2> HIDE DEF After
  <2> QED BY <1>1, <2>2
<1>3. ASSUME NEW y \in 1 .. n, NEW s \in After(y - 1)
      PROVE  Step(s, y) \in After(y)
  <2>1. y \in 1 .. Count /\ Choosing(p, s, stay, sel, y - 1)
    BY <1>1
  <2>2. Choosing(p, Step(s, y), stay, sel, y)
    BY <2>1, ChoosingNext
  <2> HIDE DEF Step
  <2> QED BY <1>0, <2>2
<1>4. \A y \in 1 .. n : S[y - 1] = After(y - 1) /\ S[y] = After(y)
  <2> HIDE DEF After
  <2> QED BY <1>1
<1>5. \A y \in 1 .. n : g[y] \in [S[y - 1] -> S[y]]
  <2> HIDE DEF After, Step, S, n
  <2> QED BY <1>3, <1>4
<1>6. PICK f : Recurs(f, n, S, first, g)
  <2> HIDE DEF n, S, g, first
  <2> QED BY <1>1, <1>2, <1>5, Recursion
<1> DEFINE Is(h) == h = [i \in 0 .. Len(Offered) |->
            IF i = 0 THEN printText(p, colorLabel, Label \o Spaces(2))
            ELSE PrintedChoice(h[i - 1], i, sel)]
<1>7. Is(f)
  <2>1. /\ f = [y \in 0 .. n |-> f[y]] /\ f[0] = first
        /\ \A y \in 0 .. n : f[y] \in S[y]
        /\ \A y \in 1 .. n : f[y] = g[y][f[y - 1]]
    <3> HIDE DEF n, S, g, first
    <3> QED BY <1>6 DEF Recurs
  <2>2. \A y \in 1 .. n : f[y] = Step(f[y - 1], y)
    <3>1. \A y \in 1 .. n : f[y - 1] \in After(y - 1)
      <4> HIDE DEF After, S, n
      <4> QED BY <1>1, <1>4, <2>1
    <3> HIDE DEF After, Step, n
    <3> QED BY <2>1, <3>1
  <2>3. \A y \in 0 .. n : y = 0 \/ y \in 1 .. n
    BY <1>1
  <2>4. \A y \in 0 .. n : f[y] = IF y = 0 THEN first ELSE Step(f[y - 1], y)
    <3> HIDE DEF Step, n, first
    <3> QED BY <2>1, <2>2, <2>3
  <2> QED BY <2>1, <2>4, Zenon
<1> DEFINE printed == CHOOSE h : Is(h)
<1>8. Is(printed)
  <2> HIDE DEF Is
  <2> QED BY <1>7
<1>9. printChoices(p, sel) = printed[n]
  BY DEF printChoices, PrintedChoice
<1> HIDE DEF printed
<1>10. printed[0] = first
  BY <1>1, <1>8
<1>11. \A y \in 1 .. n : printed[y] = Step(printed[y - 1], y)
  <2>1. \A y \in 1 .. n : y \in 0 .. n /\ y # 0
    BY <1>1
  <2> QED BY <1>8, <2>1, Zenon
<1>12. \A y \in 1 .. n : printed[y - 1] \in S[y - 1] => printed[y] \in S[y]
  <2> HIDE DEF After, Step, S, n
  <2> QED BY <1>3, <1>4, <1>11
<1>13. printed[n] \in S[n]
  <2> HIDE DEF n, S, first
  <2> QED BY <1>1, <1>2, <1>10, <1>12, StepsStay
<1>14. Choosing(p, printed[n], stay, sel, n)
  <2>1. S[n] = After(n)
    <3> HIDE DEF After
    <3> QED BY <1>1
  <2> QED BY <1>13, <2>1
<1> QED BY <1>1, <1>9, <1>14

LEMMA ShowCursorIs ==
    ASSUME NEW top, NEW p, Synced(p, top), NEW show \in BOOLEAN
    PROVE  LET q == showCursor(p, show)
           IN  /\ Synced(q, top) /\ q.curX = p.curX /\ q.curY = p.curY
               /\ q.vt.rows = p.vt.rows /\ q.buf = p.buf /\ q.haveStatus = p.haveStatus
               /\ q.vt.visible = show
<1>1. p \in Program /\ p.vt \in VTs /\ PenKnown(p) /\ p.vt.visible = ~p.hideCursor /\ OnScreen(p.vt)
      /\ p.hideCursor \in BOOLEAN
  BY ProgramTyped DEF Synced, Sound
<1>2. CASE show = ~p.hideCursor
  BY <1>1, <1>2 DEF showCursor
<1>3. CASE show # ~p.hideCursor
  <2> DEFINE v == ShowCursor(p.vt, show)
  <2> DEFINE q == [p EXCEPT !.vt = v, !.hideCursor = ~show]
  <2>1. /\ v \in VTs /\ v.rows = p.vt.rows /\ v.x = p.vt.x /\ v.y = p.vt.y
        /\ v.pen = p.vt.pen /\ v.visible = show
    BY <1>1 DEF ShowCursor, VTs
  <2>2. showCursor(p, show) = q
    BY <1>1, <1>3 DEF showCursor, Program
  <2> HIDE DEF v
  <2>3. /\ q \in Program /\ q.vt = v /\ q.lastColor = p.lastColor
        /\ q.curX = p.curX /\ q.curY = p.curY
        /\ q.buf = p.buf /\ q.haveStatus = p.haveStatus /\ q.hideCursor = ~show
    BY <1>1, <2>1 DEF Program
  <2> HIDE DEF q
  <2>4. OnScreen(v)
    BY <1>1, <2>1 DEF OnScreen, FirstRow
  <2>5. Sound(q)
    BY <1>1, <2>1, <2>3, <2>4 DEF Sound, PenKnown
  <2>6. Synced(q, top)
    BY <2>1, <2>3, <2>5 DEF Synced
  <2> QED BY <2>1, <2>2, <2>3, <2>6
<1> QED BY <1>2, <1>3

\* Where choicesMode leaves the cursor.
LEMMA ReturnCursor ==
    ASSUME NEW top \in Nat, NEW p, Synced(p, top), NEW sel
    PROVE  LET q == returnCursor(p, sel)
           IN  /\ Synced(q, top) /\ q.curX = entryx /\ q.curY = 0
               /\ q.vt.rows = p.vt.rows /\ q.buf = p.buf /\ q.haveStatus = p.haveStatus
               /\ q.vt.visible = (sel = 1)
<1> DEFINE m == move(p, entryx, 0)
<1> DEFINE show == (sel = 1)
<1>1. top + 1 + 0 <= Len(p.vt.rows)
  BY SyncedTyped
<1>2. entryx \in Nat /\ entryx < Width
  BY TextBounds
<1>3. /\ Synced(m, top) /\ m.curX = entryx /\ m.curY = 0 /\ m.vt.rows = p.vt.rows /\ Kept(p, m)
  BY <1>1, <1>2, Move
<1>4. show \in BOOLEAN
  OBVIOUS
<1> HIDE DEF m, show
<1> DEFINE q == showCursor(m, show)
<1>5. /\ Synced(q, top) /\ q.curX = m.curX /\ q.curY = m.curY
      /\ q.vt.rows = m.vt.rows /\ q.buf = m.buf /\ q.haveStatus = m.haveStatus
      /\ q.vt.visible = show
  BY <1>3, <1>4, ShowCursorIs
<1>6. returnCursor(p, sel) = q
  BY DEF returnCursor, m, show
<1> HIDE DEF q
<1> QED BY <1>3, <1>5, <1>6 DEF Kept, show

\* Only the color of a choice changes the cells it takes.
LEMMA CellRecolored ==
    ASSUME NEW a, NEW b, NEW x \in Nat, NEW y \in Nat,
           \A j \in 1 .. Count : Covers(j, x, y) => ChoiceColor(j, a) = ChoiceColor(j, b)
    PROVE  ChoiceCell(a, Count, x, y) = ChoiceCell(b, Count, x, y)
<1>1. CASE \E j \in 1 .. Count : Covers(j, x, y)
  <2>1. PICK j \in 1 .. Count : Covers(j, x, y)
    BY <1>1
  <2>2. Count \in 0 .. Count
    BY OfferedTyped
  <2>3. /\ ChoiceCell(a, Count, x, y) = Cell(Offered[j].text[x - Offered[j].x], ChoiceColor(j, a))
        /\ ChoiceCell(b, Count, x, y) = Cell(Offered[j].text[x - Offered[j].x], ChoiceColor(j, b))
    BY <2>1, <2>2, CellCovered
  <2> QED BY <2>1, <2>3
<1>2. CASE ~(\E j \in 1 .. Count : Covers(j, x, y))
  BY <1>2, CellNotCovered
<1> QED BY <1>1, <1>2

\* The other choices have the same colors.
SameColors(a, b, i) == \A j \in 1 .. Count : j # i => ChoiceColor(j, a) = ChoiceColor(j, b)

\* Choice i is printed again in the color it has when b is selected instead of a.
LEMMA PrintChoice ==
    ASSUME NEW stay \in Seq(Rows), NEW p, Synced(p, Len(stay)), NEW a, NEW b,
           NEW i \in 1 .. Count, NEW color \in Colors,
           ChoicesOn(p.vt, stay, a, Count), Len(stay) + 1 + EndY(Count) <= Len(p.vt.rows),
           SameColors(a, b, i),
           i # 1 => color = ChoiceColor(i, b)
    PROVE  LET q == printChoice(p, i, color)
           IN  /\ Synced(q, Len(stay)) /\ Kept(p, q)
               /\ ChoicesOn(q.vt, stay, b, Count) /\ Len(q.vt.rows) = Len(p.vt.rows)
<1> DEFINE x0 == Offered[i].x
<1> DEFINE y0 == Offered[i].y
<1> DEFINE text == Offered[i].text
<1> DEFINE top == Len(stay)
<1> DEFINE row == top + 1 + y0
<1>1. Count \in 0 .. Count /\ Count \in Nat
  BY OfferedTyped
<1>2. CASE i = 1
  <2>1. printChoice(p, i, color) = p
    BY <1>2 DEF printChoice
  <2>2. ChoiceColor(1, a) = ChoiceColor(1, b)
    BY DEF ChoiceColor
  <2>3. \A j \in 1 .. Count : ChoiceColor(j, a) = ChoiceColor(j, b)
    BY <1>2, <2>2 DEF SameColors
  <2>4. ASSUME NEW y \in Nat
        PROVE  ChoiceRow(b, Count, y) = ChoiceRow(a, Count, y)
    <3>1. \A x \in 1 .. Width - 1 : ChoiceCell(b, Count, x, y) = ChoiceCell(a, Count, x, y)
      BY <2>3, CellRecolored
    <3> QED BY <3>1 DEF ChoiceRow
  <2>5. ChoicesOn(p.vt, stay, b, Count)
    <3> SUFFICES ASSUME NEW r \in 1 .. Len(p.vt.rows), ~(r <= top)
                 PROVE  ChoiceRow(b, Count, r - top - 1) = ChoiceRow(a, Count, r - top - 1)
      BY DEF ChoicesOn
    <3>1. r - top - 1 \in Nat
      OBVIOUS
    <3> QED BY <2>4, <3>1
  <2> QED BY <2>1, <2>5 DEF Kept
<1>3. CASE i # 1
  <2> DEFINE e == move(p, x0, y0)
  <2> DEFINE f == printText(e, color, text)
  <2>1. printChoice(p, i, color) = f
    BY <1>3 DEF printChoice
  <2>2. /\ x0 \in Nat /\ y0 \in Nat /\ text \in Textual /\ Len(text) \in Nat
        /\ x0 + Len(text) < Width /\ x0 < Width /\ EndX(i) = x0 + Len(text) /\ top \in Nat
    BY OfferedTyped, ScreenAssumption
  <2>3. top + 1 + y0 <= Len(p.vt.rows)
    <3>1. y0 <= EndY(Count)
      BY <1>1, Reached
    <3>2. EndY(Count) \in Nat /\ Len(p.vt.rows) \in Nat
      BY <1>1, ChoicesShownIs, <2>2, SyncedTyped
    <3> QED BY <2>2, <3>1, <3>2
  <2> HIDE DEF x0, y0, text, top, e, f
  <2>4. /\ Synced(e, top) /\ e.curX = x0 /\ e.curY = y0 /\ e.vt.rows = p.vt.rows /\ Kept(p, e)
    BY <2>2, <2>3, Move DEF e, top
  <2>5. Printed(e, f, top, color, text)
    BY <2>2, <2>4, PrintAt DEF f
  <2>6. /\ Synced(f, top) /\ Kept(e, f)
        /\ row \in 1 .. Len(p.vt.rows) /\ Len(f.vt.rows) = Len(p.vt.rows)
        /\ \A r \in 1 .. Len(p.vt.rows) : r # row => f.vt.rows[r] = p.vt.rows[r]
        /\ \A x \in 1 .. Width :
            f.vt.rows[row][x] = IF x - x0 \in 1 .. Len(text) THEN Seen(text[x - x0], Meant(color))
                                ELSE p.vt.rows[row][x]
    <3>1. row = top + 1 + e.curY
      BY <2>4
    <3> HIDE DEF row
    <3> QED BY <2>2, <2>4, <2>5, <3>1 DEF Printed
  <2>7. Kept(p, f)
    BY <2>4, <2>6 DEF Kept
  <2>8. ASSUME NEW x \in 1 .. Width
        PROVE  f.vt.rows[row][x] = ChoiceRow(b, Count, y0)[x]
    <3>1. /\ ChoiceRow(a, Count, y0)[x] =
               IF x <= Width - 1
               THEN Seen(ChoiceCell(a, Count, x, y0).ch, Meant(ChoiceCell(a, Count, x, y0).color))
               ELSE Seen(Blank, colorNormal)
          /\ ChoiceRow(b, Count, y0)[x] =
               IF x <= Width - 1
               THEN Seen(ChoiceCell(b, Count, x, y0).ch, Meant(ChoiceCell(b, Count, x, y0).color))
               ELSE Seen(Blank, colorNormal)
      BY <1>1, <2>2, ChoiceRowIs
    <3>2. x \in Nat /\ (Covers(i, x, y0) <=> x0 < x /\ x <= EndX(i))
      BY <2>2, CoversIs DEF x0, y0
    <3>3. CASE x - x0 \in 1 .. Len(text)
      <4>1. Covers(i, x, y0) /\ x <= Width - 1
        BY <2>2, <3>2, <3>3, ScreenAssumption
      <4>2. ChoiceCell(b, Count, x, y0) = Cell(text[x - x0], ChoiceColor(i, b))
        <5>1. Count \in 0 .. Count /\ x \in Nat /\ y0 \in Nat /\ Covers(i, x, y0)
          BY <1>1, <2>2, <3>2, <4>1
        <5>2. ChoiceCell(b, Count, x, y0) = Cell(Offered[i].text[x - Offered[i].x], ChoiceColor(i, b))
          BY <5>1, CellCovered
        <5> QED BY <5>2 DEF text, x0
      <4>3. ChoiceCell(b, Count, x, y0).ch = text[x - x0] /\ ChoiceCell(b, Count, x, y0).color = color
        BY <1>3, <4>2 DEF Cell
      <4> QED BY <2>6, <3>1, <3>3, <4>1, <4>3
    <3>4. CASE x - x0 \notin 1 .. Len(text)
      <4>1. ~Covers(i, x, y0)
        BY <2>2, <3>2, <3>4
      <4>2. \A j \in 1 .. Count : Covers(j, x, y0) => ChoiceColor(j, a) = ChoiceColor(j, b)
        BY <4>1 DEF SameColors
      <4>3. ChoiceCell(a, Count, x, y0) = ChoiceCell(b, Count, x, y0)
        BY <2>2, <3>2, <4>2, CellRecolored
      <4>4. p.vt.rows[row] = ChoiceRow(a, Count, y0)
        <5>1. row - top - 1 = y0 /\ ~(row <= top)
          BY <2>2
        <5> HIDE DEF row
        <5> QED BY <2>6, <5>1 DEF ChoicesOn, top
      <4> QED BY <2>6, <3>1, <3>4, <4>3, <4>4
    <3> QED BY <3>3, <3>4
  <2>9. f.vt.rows[row] = ChoiceRow(b, Count, y0)
    <3>1. f.vt.rows[row] \in Rows
      BY <2>2, <2>6, SyncedTyped
    <3>2. ChoiceRow(b, Count, y0) \in Rows
      BY <1>1, <2>2, ChoiceRowIs
    <3> QED BY <2>8, <3>1, <3>2, RowsEqual
  <2>10. ASSUME NEW y \in Nat, y # y0
        PROVE  ChoiceRow(a, Count, y) = ChoiceRow(b, Count, y)
    <3>1. \A x \in 1 .. Width - 1 : ~Covers(i, x, y)
      BY <2>10 DEF Covers, y0
    <3>2. \A x \in 1 .. Width - 1 : \A j \in 1 .. Count : Covers(j, x, y) => ChoiceColor(j, a) = ChoiceColor(j, b)
      BY <3>1 DEF SameColors
    <3>3. \A x \in 1 .. Width - 1 : ChoiceCell(a, Count, x, y) = ChoiceCell(b, Count, x, y)
      BY <3>2, CellRecolored
    <3> QED BY <3>3 DEF ChoiceRow
  <2>11. ChoicesOn(f.vt, stay, b, Count)
    <3> SUFFICES ASSUME NEW r \in 1 .. Len(f.vt.rows)
                 PROVE  f.vt.rows[r] = IF r <= top THEN stay[r] ELSE ChoiceRow(b, Count, r - top - 1)
      BY DEF ChoicesOn, top
    <3>1. CASE r = row
      <4>1. r - top - 1 = y0 /\ ~(r <= top)
        BY <2>2, <3>1
      <4> QED BY <2>9, <3>1, <4>1
    <3>2. CASE r # row
      <4>1. f.vt.rows[r] = IF r <= top THEN stay[r] ELSE ChoiceRow(a, Count, r - top - 1)
        BY <2>6, <3>2 DEF ChoicesOn, top
      <4>2. CASE r <= top
        BY <4>1, <4>2
      <4>3. CASE ~(r <= top)
        <5> DEFINE y == r - top - 1
        <5>1. y \in Nat /\ y # y0
          BY <2>2, <3>2, <4>3
        <5>2. ChoiceRow(a, Count, y) = ChoiceRow(b, Count, y)
          <6> HIDE DEF y
          <6> QED BY <2>10, <5>1
        <5> QED BY <4>1, <4>3, <5>2
      <4> QED BY <4>2, <4>3
    <3> QED BY <3>1, <3>2
  <2> QED BY <2>1, <2>6, <2>7, <2>11 DEF top
<1> QED BY <1>2, <1>3

-----------------------------------------------------------------------------
(* Printed lines.                                                          *)

\* The look of the nth cell of a line, and of its kth row (from 0).
WrapCell(cells, n) ==
    IF n <= Len(cells) THEN Seen(cells[n].ch, Meant(cells[n].color)) ELSE Seen(Blank, colorNormal)

WrapRow(cells, k) ==
    SeenRow([i \in {x \in 1 .. Width : k * Width + x <= Len(cells)} |-> cells[k * Width + i]])

LEMMA WrapRowIs ==
    ASSUME NEW cells \in Seq(Cells), NEW k \in Nat
    PROVE  /\ WrapRow(cells, k) \in Rows
           /\ \A i \in 1 .. Width : WrapRow(cells, k)[i] = WrapCell(cells, k * Width + i)
<1> DEFINE kw == k * Width
<1> DEFINE part == [i \in {x \in 1 .. Width : kw + x <= Len(cells)} |-> cells[kw + i]]
<1>1. kw \in Nat
  BY ScreenAssumption
<1>2. WrapRow(cells, k) = SeenRow(part)
  BY DEF WrapRow
<1> HIDE DEF kw
<1>3. ASSUME NEW i \in 1 .. Width
      PROVE  /\ i \in DOMAIN part <=> kw + i <= Len(cells)
             /\ i \in DOMAIN part => part[i] = cells[kw + i] /\ part[i] \in Cells
  <2>1. kw + i <= Len(cells) => kw + i \in 1 .. Len(cells)
    BY <1>1
  <2> QED BY <2>1, Element
<1> HIDE DEF part
<1>4. /\ SeenRow(part) \in Rows
      /\ \A i \in 1 .. Width :
           SeenRow(part)[i] = IF i \in DOMAIN part THEN Seen(part[i].ch, Meant(part[i].color))
                              ELSE Seen(Blank, colorNormal)
  BY <1>3, SeenRowIs
<1>5. \A i \in 1 .. Width : SeenRow(part)[i] = WrapCell(cells, kw + i)
  BY <1>3, <1>4 DEF WrapCell
<1> QED BY <1>2, <1>4, <1>5 DEF kw

LEMMA WrapRowBelow ==
    ASSUME NEW cells \in Seq(Cells), NEW k \in Nat, k > RowsDown(Len(cells))
    PROVE  WrapRow(cells, k) = BlankRow(colorNormal)
<1> DEFINE d == RowsDown(Len(cells))
<1> DEFINE kw == k * Width
<1>1. d \in Nat /\ Len(cells) <= d * Width + Width /\ Len(cells) \in Nat
  BY RowsDownIs
<1>2. (d + 1) * Width <= kw /\ (d + 1) * Width = d * Width + Width /\ d * Width \in Nat /\ kw \in Nat
  <2> HIDE DEF d
  <2>1. d + 1 <= k
    BY <1>1 DEF d
  <2> QED BY <1>1, <2>1, ScreenAssumption
<1>3. Len(cells) <= kw
  <2> HIDE DEF d, kw
  <2> QED BY <1>1, <1>2, ScreenAssumption
<1>4. \A i \in 1 .. Width : WrapRow(cells, k)[i] = Seen(Blank, colorNormal)
  <2>1. \A i \in 1 .. Width : ~(kw + i <= Len(cells))
    <3> HIDE DEF kw
    <3> QED BY <1>1, <1>2, <1>3
  <2> QED BY <2>1, WrapRowIs DEF WrapCell
<1>5. BlankRow(colorNormal) \in Rows /\ \A i \in 1 .. Width : BlankRow(colorNormal)[i] = Seen(Blank, colorNormal)
  BY ColorsTyped, BlankRowTyped
<1> QED BY <1>4, <1>5, WrapRowIs, RowsEqual

LEMMA WrappedIs ==
    ASSUME NEW cells \in Seq(Cells)
    PROVE  /\ Wrapped(cells) \in Seq(Rows) /\ Len(Wrapped(cells)) = RowsDown(Len(cells)) + 1
           /\ RowsDown(Len(cells)) \in Nat
           /\ \A k \in 1 .. RowsDown(Len(cells)) + 1 : Wrapped(cells)[k] = WrapRow(cells, k - 1)
<1> DEFINE d == RowsDown(Len(cells))
<1>1. d \in Nat
  BY RowsDownIs
<1>2. Wrapped(cells) = [k \in 1 .. d + 1 |-> WrapRow(cells, k - 1)]
  BY DEF Wrapped, WrapRow
<1> HIDE DEF d
<1>3. \A k \in 1 .. d + 1 : WrapRow(cells, k - 1) \in Rows
  <2>1. \A k \in 1 .. d + 1 : k - 1 \in Nat
    BY <1>1
  <2> QED BY <2>1, WrapRowIs
<1> QED BY <1>1, <1>2, <1>3 DEF d

LineOn(t, stay, cells) ==
    \A r \in 1 .. Len(t.rows) :
        t.rows[r] = IF r <= Len(stay) THEN stay[r] ELSE WrapRow(cells, r - Len(stay) - 1)

LEMMA ShowsWrapped ==
    ASSUME NEW stay \in Seq(Rows), NEW cells \in Seq(Cells), NEW t \in VTs
    PROVE  Shows(t, stay, Wrapped(cells)) <=>
               /\ Len(stay) + 1 + RowsDown(Len(cells)) <= Len(t.rows)
               /\ LineOn(t, stay, cells)
<1> DEFINE shown == Wrapped(cells)
<1> DEFINE e == RowsDown(Len(cells))
<1>1. /\ e \in Nat /\ shown \in Seq(Rows) /\ Len(shown) = e + 1
      /\ \A y \in 1 .. e + 1 : shown[y] = WrapRow(cells, y - 1)
  BY WrappedIs
<1>2. DOMAIN t.rows = 1 .. Len(t.rows) /\ Len(t.rows) \in Nat /\ Len(stay) \in Nat
  BY VTTyped
<1> HIDE DEF shown
<1>3. ASSUME NEW r \in 1 .. Len(t.rows)
      PROVE  RowAt(stay, shown, r) = IF r <= Len(stay) THEN stay[r] ELSE WrapRow(cells, r - Len(stay) - 1)
  <2>1. CASE r <= Len(stay)
    BY <2>1 DEF RowAt
  <2>2. CASE r > Len(stay) /\ r <= Len(stay) + Len(shown)
    <3>1. r - Len(stay) \in 1 .. e + 1 /\ ~(r <= Len(stay))
      BY <1>1, <1>2, <2>2
    <3> QED BY <1>1, <2>2, <3>1 DEF RowAt
  <2>3. CASE r > Len(stay) /\ ~(r <= Len(stay) + Len(shown))
    <3> DEFINE y == r - Len(stay) - 1
    <3>1. y \in Nat /\ y > e /\ ~(r <= Len(stay))
      BY <1>1, <1>2, <2>3
    <3>2. WrapRow(cells, y) = BlankRow(colorNormal)
      <4> HIDE DEF y
      <4> QED BY <3>1, WrapRowBelow
    <3> QED BY <2>3, <3>1, <3>2 DEF RowAt
  <2> QED BY <1>2, <2>1, <2>2, <2>3
<1>4. Len(stay) + Len(shown) <= Len(t.rows) <=> Len(stay) + 1 + e <= Len(t.rows)
  BY <1>1, <1>2
<1> QED BY <1>2, <1>3, <1>4 DEF Shows, LineOn, shown

LEMMA ColoredTyped ==
    ASSUME NEW color \in Colors, NEW text \in Textual
    PROVE  /\ Colored(color, text) \in Seq(Cells) /\ Len(Colored(color, text)) = Len(text)
           /\ Len(text) \in Nat
           /\ \A i \in 1 .. Len(text) : Colored(color, text)[i] = Cell(text[i], color)
<1>1. text \in Seq(Characters) /\ Len(text) \in Nat /\ DOMAIN text = 1 .. Len(text)
  BY DEF Textual
<1>2. \A i \in 1 .. Len(text) : Cell(text[i], color) \in Cells
  BY <1>1, Element DEF Cell, Cells
<1>3. Colored(color, text) = [i \in 1 .. Len(text) |-> Cell(text[i], color)]
  BY <1>1 DEF Colored
<1> QED BY <1>1, <1>2, <1>3

LEMMA CellConcat ==
    ASSUME NEW a \in Seq(Cells), NEW b \in Seq(Cells)
    PROVE  /\ a \o b \in Seq(Cells) /\ Len(a \o b) = Len(a) + Len(b)
           /\ \A i \in 1 .. Len(a) + Len(b) :
                (a \o b)[i] = IF i <= Len(a) THEN a[i] ELSE b[i - Len(a)]
BY Concat

LEMMA ColoredConcat ==
    ASSUME NEW color \in Colors, NEW a \in Textual, NEW b \in Textual
    PROVE  Colored(color, a \o b) = Colored(color, a) \o Colored(color, b)
<1> DEFINE ab == a \o b
<1> DEFINE ca == Colored(color, a)
<1> DEFINE cb == Colored(color, b)
<1> DEFINE cab == Colored(color, ab)
<1>1. /\ ab \in Textual /\ Len(ab) = Len(a) + Len(b)
      /\ \A i \in 1 .. Len(a) + Len(b) : ab[i] = IF i <= Len(a) THEN a[i] ELSE b[i - Len(a)]
  BY TextConcat
<1> HIDE DEF ab
<1>2. /\ ca \in Seq(Cells) /\ Len(ca) = Len(a) /\ Len(a) \in Nat
      /\ \A i \in 1 .. Len(a) : ca[i] = Cell(a[i], color)
  BY ColoredTyped
<1>3. /\ cb \in Seq(Cells) /\ Len(cb) = Len(b) /\ Len(b) \in Nat
      /\ \A i \in 1 .. Len(b) : cb[i] = Cell(b[i], color)
  BY ColoredTyped
<1>4. /\ cab \in Seq(Cells) /\ Len(cab) = Len(ab)
      /\ \A i \in 1 .. Len(ab) : cab[i] = Cell(ab[i], color)
  BY <1>1, ColoredTyped
<1> HIDE DEF ca, cb, cab
<1>5. /\ ca \o cb \in Seq(Cells) /\ Len(ca \o cb) = Len(ca) + Len(cb)
      /\ \A i \in 1 .. Len(ca) + Len(cb) :
           (ca \o cb)[i] = IF i <= Len(ca) THEN ca[i] ELSE cb[i - Len(ca)]
  <2>1. ca \in Seq(Cells) /\ cb \in Seq(Cells)
    BY <1>2, <1>3
  <2> QED BY <2>1, CellConcat
<1>6. ASSUME NEW i \in 1 .. Len(cab)
      PROVE  cab[i] = (ca \o cb)[i]
  <2>1. i \in 1 .. Len(a) + Len(b) /\ cab[i] = Cell(ab[i], color)
    BY <1>1, <1>4
  <2>2. CASE i <= Len(a)
    BY <1>1, <1>2, <1>3, <1>5, <2>1, <2>2
  <2>3. CASE i > Len(a)
    <3>1. i - Len(a) \in 1 .. Len(b) /\ ~(i <= Len(a))
      BY <1>2, <1>3, <2>1, <2>3
    <3>2. ab[i] = b[i - Len(a)]
      BY <1>1, <2>1, <3>1
    <3>3. (ca \o cb)[i] = cb[i - Len(a)]
      BY <1>2, <1>3, <1>5, <2>1, <3>1
    <3>4. cb[i - Len(a)] = Cell(b[i - Len(a)], color)
      BY <1>3, <3>1
    <3> QED BY <2>1, <3>2, <3>3, <3>4
  <2>4. i <= Len(a) \/ i > Len(a)
    BY <1>2, <1>3, <2>1
  <2> QED BY <2>2, <2>3, <2>4
<1>7. Len(cab) = Len(ca \o cb)
  BY <1>1, <1>2, <1>3, <1>4, <1>5
<1>8. cab = ca \o cb
  BY <1>4, <1>5, <1>6, <1>7, SeqEqual
<1> QED BY <1>8 DEF ca, cb, cab, ab

\* A line is being printed: these cells of it stand after the rows that stay.
Lined(t, stay, cells) ==
    /\ t \in VTs /\ Height <= Len(t.rows)
    /\ LineOn(t, stay, cells)
    /\ t.y = Len(stay) + 1 + RowsDown(Len(cells)) /\ t.y <= Len(t.rows)
    /\ t.x = Len(cells) - RowsDown(Len(cells)) * Width
    /\ Len(t.rows) <= Len(stay) + Height \/ Len(t.rows) = t.y

LEMMA LinedStarts ==
    ASSUME NEW stay \in Seq(Rows), NEW t \in VTs,
           OnScreen(t), Shows(t, stay, <<>>), t.x = 0, t.y = Len(stay) + 1,
           Len(t.rows) <= Len(stay) + Height
    PROVE  Lined(t, stay, <<>>)
<1> DEFINE none == <<>>
<1>1. Height <= Len(t.rows) /\ t.y <= Len(t.rows) /\ Len(t.rows) \in Nat /\ Len(stay) \in Nat
      /\ DOMAIN t.rows = 1 .. Len(t.rows)
  BY VTTyped DEF OnScreen
<1>2. none \in Seq(Cells) /\ Len(none) = 0
  OBVIOUS
<1>3. RowsDown(0) = 0
  BY RowsDownIs, ScreenAssumption
<1>4. 0 - 0 * Width = 0 /\ Len(stay) + 1 + 0 = Len(stay) + 1
  BY <1>1, ScreenAssumption
<1> HIDE DEF none
<1>5. ASSUME NEW k \in Nat
      PROVE  WrapRow(none, k) = BlankRow(colorNormal)
  <2>1. BlankRow(colorNormal) \in Rows /\ \A i \in 1 .. Width : BlankRow(colorNormal)[i] = Seen(Blank, colorNormal)
    BY ColorsTyped, BlankRowTyped
  <2>2. \A i \in 1 .. Width : ~(k * Width + i <= 0)
    <3>1. k * Width \in Nat
      BY ScreenAssumption
    <3> DEFINE kw == k * Width
    <3> HIDE DEF kw
    <3>2. kw \in Nat
      BY <3>1 DEF kw
    <3>3. \A i \in 1 .. Width : ~(kw + i <= 0)
      BY <3>2
    <3> QED BY <3>3 DEF kw
  <2>3. \A i \in 1 .. Width : WrapRow(none, k)[i] = Seen(Blank, colorNormal)
    BY <1>2, <2>2, WrapRowIs DEF WrapCell
  <2> QED BY <1>2, <2>1, <2>3, WrapRowIs, RowsEqual
<1>6. LineOn(t, stay, none)
  <2> SUFFICES ASSUME NEW r \in 1 .. Len(t.rows)
               PROVE  t.rows[r] = IF r <= Len(stay) THEN stay[r] ELSE WrapRow(none, r - Len(stay) - 1)
    BY DEF LineOn
  <2>1. t.rows[r] = IF r <= Len(stay) THEN stay[r] ELSE BlankRow(colorNormal)
    BY <1>1, ShowsBlank
  <2>2. CASE ~(r <= Len(stay))
    <3>1. r - Len(stay) - 1 \in Nat
      BY <1>1, <2>2
    <3> QED BY <1>5, <2>1, <2>2, <3>1
  <2> QED BY <2>1, <2>2
<1> QED BY <1>1, <1>2, <1>3, <1>4, <1>6 DEF Lined, none

\* Cells of a color that are put after those of the line.
LEMMA PutLined ==
    ASSUME NEW stay \in Seq(Rows), NEW cells \in Seq(Cells), NEW t, Lined(t, stay, cells),
           NEW color \in Colors, t.pen = Meant(color), NEW text \in Textual,
           Meant(color).bg = colorNormal.bg \/ t.x + Len(text) <= Width
    PROVE  Lined(Put(t, text), stay, cells \o Colored(color, text))
<1> DEFINE top == Len(stay)
<1> DEFINE L == Len(cells)
<1> DEFINE n == Len(text)
<1> DEFINE d == RowsDown(L)
<1> DEFINE dw == d * Width
<1> DEFINE D == RowsDown(t.x + n)
<1> DEFINE Dw == D * Width
<1> DEFINE new == Colored(color, text)
<1> DEFINE more == cells \o new
<1> DEFINE q == Put(t, text)
<1>1. /\ L \in Nat /\ n \in Nat /\ top \in Nat /\ d \in Nat /\ dw \in Nat
      /\ new \in Seq(Cells) /\ Len(new) = n /\ \A i \in 1 .. n : new[i] = Cell(text[i], color)
  <2>1. L \in Nat /\ top \in Nat
    OBVIOUS
  <2>2. new \in Seq(Cells) /\ Len(new) = n /\ n \in Nat /\ \A i \in 1 .. n : new[i] = Cell(text[i], color)
    BY ColoredTyped
  <2>3. d \in Nat
    BY <2>1, RowsDownIs
  <2>4. dw \in Nat
    <3> HIDE DEF d
    <3> QED BY <2>3, ScreenAssumption
  <2> HIDE DEF L, top, new, n, d, dw
  <2> QED BY <2>1, <2>2, <2>3, <2>4
<1>2. /\ t \in VTs /\ Height <= Len(t.rows) /\ LineOn(t, stay, cells)
      /\ t.y = top + 1 + d /\ t.y <= Len(t.rows) /\ t.x = L - dw
      /\ Len(t.rows) <= top + Height \/ Len(t.rows) = t.y
      /\ t.x \in Nat /\ t.y \in Nat /\ Len(t.rows) \in Nat /\ t.pen \in Colors
  BY VTTyped DEF Lined
<1>3. dw <= L /\ L <= dw + Width
  BY <1>1, RowsDownIs
<1>4. RowsDown(L + n) = d + D /\ D \in Nat /\ Dw \in Nat
  <2>1. RowsDown(L + n) = d + RowsDown(L - d * Width + n)
    <3> HIDE DEF L, n
    <3> QED BY <1>1, RowsDownOn
  <2>2. L - d * Width + n = t.x + n /\ t.x + n \in Nat
    <3>1. L - d * Width = t.x
      BY <1>2
    <3> HIDE DEF L, n, d, dw
    <3>2. t.x + n \in Nat
      BY <1>1, <1>2
    <3>3. L - d * Width + n = (L - d * Width) + n
      <4> DEFINE e == d * Width
      <4>1. e \in Nat
        BY <1>1 DEF dw
      <4> HIDE DEF e
      <4>2. L - e + n = (L - e) + n
        BY <1>1, <4>1
      <4> QED BY <4>2 DEF e
    <3> QED BY <3>1, <3>2, <3>3
  <2>3. D \in Nat
    <3> DEFINE m == t.x + n
    <3>1. m \in Nat
      BY <2>2
    <3> HIDE DEF m
    <3>2. RowsDown(m) \in Nat
      BY <3>1, RowsDownIs
    <3> QED BY <3>2 DEF m
  <2>4. Dw \in Nat
    <3> HIDE DEF D
    <3> QED BY <2>3, ScreenAssumption
  <2>5. RowsDown(L + n) = d + D
    <3> HIDE DEF L, n, d
    <3> QED BY <2>1, <2>2
  <2> QED BY <2>3, <2>4, <2>5
<1>5. /\ q \in VTs
      /\ q.x = t.x + n - Dw /\ q.y = t.y + D
      /\ q.pen = t.pen /\ q.visible = t.visible
      /\ Len(q.rows) = AtLeast(t.y + D, Len(t.rows))
      /\ \A r \in 1 .. Len(q.rows), i \in 1 .. Width :
           q.rows[r][i] =
               IF (r - t.y) * Width + i - t.x \in 1 .. n
               THEN Seen(text[(r - t.y) * Width + i - t.x], t.pen)
               ELSE IF r <= Len(t.rows) THEN t.rows[r][i] ELSE Seen(Blank, t.pen)
  BY <1>2, PutIs
<1>6. /\ more \in Seq(Cells) /\ Len(more) = L + n
      /\ \A i \in 1 .. L + n : more[i] = IF i <= L THEN cells[i] ELSE new[i - L]
  <2> HIDE DEF new
  <2>1. /\ cells \o new \in Seq(Cells) /\ Len(cells \o new) = Len(cells) + Len(new)
        /\ \A i \in 1 .. Len(cells) + Len(new) :
             (cells \o new)[i] = IF i <= Len(cells) THEN cells[i] ELSE new[i - Len(cells)]
    BY <1>1, CellConcat
  <2> QED BY <1>1, <2>1
<1> HIDE DEF top, L, n, d, dw, D, Dw, new, more, q
<1>7. Len(q.rows) \in Nat /\ Len(q.rows) >= Len(t.rows) /\ Len(q.rows) >= q.y
      /\ (Len(q.rows) = Len(t.rows) \/ Len(q.rows) = q.y)
      /\ (Len(q.rows) # q.y => t.y < Len(t.rows))
  BY <1>2, <1>4, <1>5 DEF AtLeast
<1>8. q.y = top + 1 + RowsDown(L + n) /\ q.y \in Nat
  BY <1>1, <1>2, <1>4, <1>5
<1>9. q.x = (L + n) - RowsDown(L + n) * Width
  <2>1. (d + D) * Width = dw + Dw
    BY <1>1, <1>4, ScreenAssumption DEF dw, Dw
  <2> DEFINE w == (d + D) * Width
  <2>2. w = dw + Dw
    BY <2>1
  <2>3. RowsDown(L + n) * Width = w
    BY <1>4
  <2> HIDE DEF w
  <2>4. q.x = (L + n) - w
    BY <1>1, <1>2, <1>4, <1>5, <2>2
  <2> QED BY <2>3, <2>4
<1>10. ASSUME NEW r \in 1 .. Len(q.rows), r <= top
       PROVE  q.rows[r] = stay[r]
  <2>1. r \in 1 .. Len(t.rows) /\ r - t.y <= -1 /\ r - t.y \in Int
    BY <1>1, <1>2, <1>7, <1>10
  <2>2. (r - t.y) * Width <= -Width /\ (r - t.y) * Width \in Int
    <3> DEFINE a == r - t.y
    <3>1. a \in Int /\ a <= -1
      BY <2>1
    <3> HIDE DEF a
    <3>2. a * Width <= -Width /\ a * Width \in Int
      BY <3>1, ScreenAssumption
    <3> QED BY <3>2 DEF a
  <2>3. \A i \in 1 .. Width : ~((r - t.y) * Width + i - t.x \in 1 .. n)
    <3> DEFINE b == (r - t.y) * Width
    <3>1. b \in Int /\ b <= -Width
      BY <2>2
    <3> HIDE DEF b
    <3>2. \A i \in 1 .. Width : ~(b + i - t.x \in 1 .. n)
      BY <1>1, <1>2, <3>1, ScreenAssumption
    <3> QED BY <3>2 DEF b
  <2>4. t.rows[r] = stay[r]
    BY <1>2, <1>10, <2>1 DEF LineOn, top
  <2>5. \A i \in 1 .. Width : q.rows[r][i] = t.rows[r][i]
    <3>1. r <= Len(t.rows)
      BY <2>1
    <3> QED BY <1>5, <2>3, <3>1
  <2>6. q.rows[r] \in Rows /\ t.rows[r] \in Rows
    BY <1>2, <1>5, <2>1, VTTyped
  <2>7. q.rows[r] = t.rows[r]
    BY <2>5, <2>6, RowsEqual
  <2> QED BY <2>4, <2>7
<1>11. ASSUME NEW r \in 1 .. Len(q.rows), ~(r <= top)
       PROVE  q.rows[r] = WrapRow(more, r - top - 1)
  <2> DEFINE k == r - top - 1
  <2> DEFINE kw == k * Width
  <2>1. k \in Nat /\ r - t.y = k - d
    BY <1>1, <1>2, <1>11
  <2>2. kw \in Nat
    <3> HIDE DEF k
    <3> QED BY <2>1, ScreenAssumption
  <2>3. (r - t.y) * Width = kw - dw
    <3>1. (k - d) * Width = kw - dw
      <4> HIDE DEF k
      <4> QED BY <1>1, <2>1, ScreenAssumption DEF dw
    <3> HIDE DEF k, kw
    <3> QED BY <2>1, <3>1
  <2>4. \A i \in 1 .. Width : (r - t.y) * Width + i - t.x = kw + i - L
    <3> DEFINE b == (r - t.y) * Width
    <3>1. b = kw - dw
      BY <2>3
    <3> HIDE DEF b, kw
    <3>2. \A i \in 1 .. Width : b + i - t.x = kw + i - L
      BY <1>1, <1>2, <2>2, <3>1
    <3> QED BY <3>2 DEF b
  <2>5. r > Len(t.rows) => kw >= L /\ t.pen.bg = colorNormal.bg
    <3> SUFFICES ASSUME r > Len(t.rows) PROVE kw >= L /\ t.pen.bg = colorNormal.bg
      OBVIOUS
    <3>1. d + 1 <= k /\ D # 0
      <4>1. d + 1 <= k
        BY <1>1, <1>2, <2>1
      <4>2. q.y = t.y + D
        BY <1>5
      <4>3. D = 0 => q.y = t.y
        BY <1>2, <1>4, <4>2
      <4>4. q.y > t.y
        BY <1>2, <1>7
      <4> QED BY <1>2, <4>1, <4>3, <4>4
    <3>2. (d + 1) * Width <= kw /\ (d + 1) * Width = dw + Width
      <4> HIDE DEF k
      <4> QED BY <1>1, <2>1, <3>1, ScreenAssumption DEF kw, dw
    <3>3. ~(t.x + n <= Width)
      <4>1. t.x + n \in Nat
        BY <1>1, <1>2
      <4> DEFINE m == t.x + n
      <4>2. m \in Nat
        BY <4>1
      <4> HIDE DEF m
      <4>3. m <= Width => RowsDown(m) = 0
        BY <4>2, RowsDownIs
      <4> QED BY <3>1, <4>3 DEF D, m
    <3>4. Meant(color).bg = colorNormal.bg
      BY <3>3 DEF n
    <3> HIDE DEF kw
    <3> QED BY <1>1, <1>3, <2>2, <3>2, <3>4, ScreenAssumption
  <2>6. WrapRow(more, k) \in Rows /\ \A i \in 1 .. Width : WrapRow(more, k)[i] = WrapCell(more, kw + i)
    <3> HIDE DEF k
    <3> QED BY <1>6, <2>1, WrapRowIs DEF kw
  <2>7. r <= Len(t.rows) => \A i \in 1 .. Width : t.rows[r][i] = WrapCell(cells, kw + i)
    <3> SUFFICES ASSUME r <= Len(t.rows)
                 PROVE  \A i \in 1 .. Width : t.rows[r][i] = WrapCell(cells, kw + i)
      OBVIOUS
    <3>1. t.rows[r] = WrapRow(cells, k)
      BY <1>2, <1>7, <1>11 DEF LineOn, top
    <3> HIDE DEF k
    <3> QED BY <2>1, <3>1, WrapRowIs DEF kw
  <2>8. ASSUME NEW i \in 1 .. Width
        PROVE  q.rows[r][i] = WrapCell(more, kw + i)
    <3> DEFINE a == kw + i - L
    <3> DEFINE c == kw + i
    <3> HIDE DEF k, kw
    <3>1. c \in Nat /\ c >= 1 /\ a = c - L /\ (kw >= L => c > L)
      BY <1>1, <2>2
    <3>2. q.rows[r][i] = IF a \in 1 .. n THEN Seen(text[a], t.pen)
                         ELSE IF r <= Len(t.rows) THEN t.rows[r][i] ELSE Seen(Blank, t.pen)
      BY <1>5, <2>4
    <3>3. r <= Len(t.rows) => t.rows[r][i] = WrapCell(cells, c)
      BY <2>7
    <3>4. r > Len(t.rows) => c > L
      BY <2>5, <3>1
    <3> HIDE DEF a, c
    <3>5. CASE a \in 1 .. n
      <4>1. c \in 1 .. L + n /\ ~(c <= L) /\ c - L = a /\ c <= L + n
        BY <1>1, <3>1, <3>5
      <4>2. more[c] = Cell(text[a], color)
        <5>1. more[c] = new[c - L]
          BY <1>6, <4>1
        <5>2. new[a] = Cell(text[a], color)
          BY <1>1, <3>5
        <5> QED BY <4>1, <5>1, <5>2
      <4>3. more[c].ch = text[a] /\ more[c].color = color
        BY <4>2 DEF Cell
      <4>4. WrapCell(more, c) = Seen(text[a], Meant(color))
        BY <1>6, <4>1, <4>3 DEF WrapCell
      <4> QED BY <3>2, <3>5, <4>4 DEF c
    <3>6. CASE a \notin 1 .. n /\ c <= L
      <4>1. c \in 1 .. L + n /\ c <= L + n /\ r <= Len(t.rows)
        BY <1>1, <1>2, <1>7, <3>1, <3>4, <3>6
      <4>2. more[c] = cells[c]
        BY <1>6, <3>6, <4>1
      <4>3. WrapCell(more, c) = WrapCell(cells, c)
        BY <1>6, <3>6, <4>1, <4>2 DEF WrapCell, L
      <4> QED BY <3>2, <3>3, <3>6, <4>1, <4>3 DEF c
    <3>7. CASE a \notin 1 .. n /\ ~(c <= L)
      <4>1. ~(c <= L + n)
        BY <1>1, <3>1, <3>7
      <4>2. WrapCell(more, c) = Seen(Blank, colorNormal)
        BY <1>6, <4>1 DEF WrapCell
      <4>3. WrapCell(cells, c) = Seen(Blank, colorNormal)
        BY <3>7 DEF WrapCell, L
      <4>4. r > Len(t.rows) => Seen(Blank, t.pen) = Seen(Blank, colorNormal)
        BY <1>2, <2>5, SeenBlank, ColorsTyped
      <4>5. r <= Len(t.rows) \/ r > Len(t.rows)
        BY <1>2, <1>7
      <4> QED BY <3>2, <3>3, <3>7, <4>2, <4>3, <4>4, <4>5 DEF c
    <3> QED BY <3>5, <3>6, <3>7
  <2>9. q.rows[r] \in Rows
    BY <1>5, VTTyped
  <2> HIDE DEF kw
  <2>10. \A i \in 1 .. Width : q.rows[r][i] = WrapRow(more, k)[i]
    BY <2>6, <2>8
  <2> QED BY <2>6, <2>9, <2>10, RowsEqual
<1>12. LineOn(q, stay, more)
  BY <1>10, <1>11 DEF LineOn, top
<1>13. Len(q.rows) <= top + Height \/ Len(q.rows) = q.y
  BY <1>1, <1>2, <1>5, <1>7
<1>14. Height <= Len(q.rows) /\ q.y <= Len(q.rows)
  BY <1>2, <1>7, <1>8, ScreenAssumption
<1>15. Lined(q, stay, more)
  <2>1. Len(more) = L + n /\ q \in VTs
    BY <1>5, <1>6
  <2>2. q.y = Len(stay) + 1 + RowsDown(Len(more))
    BY <1>8, <2>1 DEF top
  <2>3. q.x = Len(more) - RowsDown(Len(more)) * Width
    BY <1>9, <2>1
  <2> QED BY <1>12, <1>13, <1>14, <2>1, <2>2, <2>3 DEF Lined, top
<1> QED BY <1>15 DEF q, more, new

\* Rows stay, and the cursor is at the start of the one after them.
Fed(t, stay) ==
    /\ t \in VTs /\ OnScreen(t) /\ Shows(t, stay, <<>>)
    /\ t.x = 0 /\ t.y = Len(stay) + 1
    /\ Len(t.rows) <= Len(stay) + Height

LEMMA StayTyped ==
    ASSUME NEW stay \in Seq(Rows), NEW cells \in Seq(Cells)
    PROVE  LET all == stay \o Wrapped(cells)
               d == RowsDown(Len(cells))
           IN  /\ d \in Nat /\ all \in Seq(Rows) /\ Len(all) = Len(stay) + 1 + d
               /\ \A r \in 1 .. Len(stay) + 1 + d :
                    all[r] = IF r <= Len(stay) THEN stay[r] ELSE WrapRow(cells, r - Len(stay) - 1)
<1> DEFINE w == Wrapped(cells)
<1> DEFINE d == RowsDown(Len(cells))
<1> DEFINE n == Len(stay)
<1> DEFINE all == stay \o w
<1>1. /\ w \in Seq(Rows) /\ Len(w) = d + 1 /\ d \in Nat /\ n \in Nat
      /\ \A k \in 1 .. d + 1 : w[k] = WrapRow(cells, k - 1)
  BY WrappedIs
<1> HIDE DEF w, d
<1>2. /\ all \in Seq(Rows) /\ Len(all) = n + Len(w)
      /\ \A i \in 1 .. n + Len(w) : all[i] = IF i <= n THEN stay[i] ELSE w[i - n]
  BY <1>1, Concat
<1> HIDE DEF all
<1>3. Len(all) = n + 1 + d
  BY <1>1, <1>2
<1>4. ASSUME NEW r \in 1 .. n + 1 + d
      PROVE  all[r] = IF r <= n THEN stay[r] ELSE WrapRow(cells, r - n - 1)
  <2>1. r \in 1 .. n + Len(w)
    BY <1>1
  <2>2. CASE r <= n
    BY <1>2, <2>1, <2>2
  <2>3. CASE ~(r <= n)
    <3> DEFINE k == r - n
    <3>1. k \in 1 .. d + 1 /\ k - 1 = r - n - 1
      BY <1>1, <2>3
    <3>2. all[r] = w[k]
      BY <1>2, <2>1, <2>3
    <3> HIDE DEF k, n
    <3> QED BY <1>1, <2>3, <3>1, <3>2
  <2> QED BY <2>2, <2>3
<1> QED BY <1>1, <1>2, <1>3, <1>4 DEF all, w, d

LEMMA FeedLined ==
    ASSUME NEW stay \in Seq(Rows), NEW cells \in Seq(Cells), NEW t, Lined(t, stay, cells),
           t.pen.bg = colorNormal.bg
    PROVE  LET q == LineFeed(Return(t))
           IN  Fed(q, stay \o Wrapped(cells)) /\ q.pen = t.pen /\ q.visible = t.visible
<1> DEFINE q == LineFeed(Return(t))
<1> DEFINE all == stay \o Wrapped(cells)
<1> DEFINE d == RowsDown(Len(cells))
<1> DEFINE n == Len(stay)
<1>1. /\ d \in Nat /\ all \in Seq(Rows) /\ Len(all) = n + 1 + d /\ n \in Nat
      /\ \A r \in 1 .. n + 1 + d :
           all[r] = IF r <= n THEN stay[r] ELSE WrapRow(cells, r - n - 1)
  BY StayTyped
<1>2. /\ t \in VTs /\ Height <= Len(t.rows) /\ LineOn(t, stay, cells)
      /\ t.y = n + 1 + d /\ t.y <= Len(t.rows)
      /\ Len(t.rows) <= n + Height \/ Len(t.rows) = t.y
      /\ t.y \in Nat /\ Len(t.rows) \in Nat /\ t.pen \in Colors
  BY VTTyped DEF Lined
<1>3. /\ q \in VTs /\ q.x = 0 /\ q.y = t.y + 1
      /\ q.pen = t.pen /\ q.visible = t.visible
      /\ Len(q.rows) = AtLeast(t.y + 1, Len(t.rows))
      /\ \A r \in 1 .. Len(q.rows) :
           q.rows[r] = IF r <= Len(t.rows) THEN t.rows[r] ELSE BlankRow(t.pen)
  BY <1>2, FeedIs
<1> HIDE DEF q, all, d, n
<1>4. /\ Len(q.rows) \in Nat /\ Len(q.rows) >= q.y /\ Len(q.rows) >= Len(t.rows)
      /\ (Len(q.rows) = q.y \/ Len(q.rows) = Len(t.rows))
  BY <1>2, <1>3 DEF AtLeast
<1>5. q.y = Len(all) + 1 /\ q.y \in Nat
  BY <1>1, <1>2, <1>3
<1>6. Len(q.rows) <= Len(all) + Height
  BY <1>1, <1>2, <1>4, <1>5, ScreenAssumption
<1>7. OnScreen(q)
  <2>1. FirstRow(q) <= q.y /\ FirstRow(q) \in Int
    BY <1>1, <1>4, <1>5, <1>6, ScreenAssumption DEF FirstRow
  <2>2. Height <= Len(q.rows)
    BY <1>2, <1>4, ScreenAssumption
  <2>3. q.y \in FirstRow(q) .. Len(q.rows)
    BY <1>4, <1>5, <2>1
  <2>4. q.x \in 0 .. Width
    BY <1>3, ScreenAssumption
  <2> QED BY <2>2, <2>3, <2>4 DEF OnScreen
<1>8. ASSUME NEW r \in 1 .. Len(q.rows)
      PROVE  q.rows[r] = IF r <= Len(all) THEN all[r] ELSE BlankRow(colorNormal)
  <2>1. CASE r <= Len(all)
    <3>1. r \in 1 .. n + 1 + d /\ r \in 1 .. Len(t.rows)
      BY <1>1, <1>2, <2>1
    <3>2. q.rows[r] = t.rows[r]
      BY <1>3, <3>1
    <3>3. t.rows[r] = IF r <= n THEN stay[r] ELSE WrapRow(cells, r - n - 1)
      BY <1>2, <3>1 DEF LineOn, n
    <3> QED BY <1>1, <2>1, <3>1, <3>2, <3>3
  <2>2. CASE ~(r <= Len(all)) /\ r <= Len(t.rows)
    <3> DEFINE k == r - n - 1
    <3>1. k \in Nat /\ k > d /\ ~(r <= n) /\ r \in 1 .. Len(t.rows)
      BY <1>1, <1>2, <1>4, <2>2
    <3>2. t.rows[r] = WrapRow(cells, k)
      BY <1>2, <3>1 DEF LineOn, n
    <3>3. WrapRow(cells, k) = BlankRow(colorNormal)
      <4> HIDE DEF k
      <4> QED BY <3>1, WrapRowBelow DEF d
    <3> QED BY <1>3, <2>2, <3>1, <3>2, <3>3
  <2>3. CASE ~(r <= Len(all)) /\ ~(r <= Len(t.rows))
    <3>1. BlankRow(t.pen) = BlankRow(colorNormal)
      BY <1>2, BlankRowSame, ColorsTyped
    <3> QED BY <1>3, <2>3, <3>1
  <2> QED BY <2>1, <2>2, <2>3
<1>9. Shows(q, all, <<>>)
  <2>1. DOMAIN q.rows = 1 .. Len(q.rows)
    BY <1>3, VTTyped
  <2>2. Len(all) <= Len(q.rows) /\ Len(all) \in Nat
    BY <1>1, <1>4, <1>5
  <2> QED BY <1>8, <2>1, <2>2, ShowsBlank
<1>10. Fed(q, all)
  BY <1>3, <1>5, <1>6, <1>7, <1>9 DEF Fed
<1> QED BY <1>3, <1>10 DEF q, all

LEMMA LinedOnScreen ==
    ASSUME NEW stay \in Seq(Rows), NEW cells \in Seq(Cells), NEW t, Lined(t, stay, cells)
    PROVE  OnScreen(t)
<1> DEFINE d == RowsDown(Len(cells))
<1> DEFINE dw == d * Width
<1>1. d \in Nat /\ dw <= Len(cells) /\ Len(cells) <= dw + Width /\ Len(cells) \in Nat /\ Len(stay) \in Nat
  BY RowsDownIs
<1>2. dw \in Nat
  <2> HIDE DEF d
  <2> QED BY <1>1, ScreenAssumption
<1>3. /\ t \in VTs /\ Height <= Len(t.rows)
      /\ t.y = Len(stay) + 1 + d /\ t.y <= Len(t.rows) /\ t.x = Len(cells) - dw
      /\ Len(t.rows) <= Len(stay) + Height \/ Len(t.rows) = t.y
      /\ Len(t.rows) \in Nat
  BY VTTyped DEF Lined
<1> HIDE DEF d, dw
<1>4. t.x \in 0 .. Width
  BY <1>1, <1>2, <1>3, ScreenAssumption
<1>5. FirstRow(t) <= t.y /\ FirstRow(t) \in Int /\ t.y \in Int
  BY <1>1, <1>3, ScreenAssumption DEF FirstRow
<1>6. t.y \in FirstRow(t) .. Len(t.rows)
  BY <1>3, <1>5
<1> QED BY <1>3, <1>4, <1>6 DEF OnScreen

\* The program prints a line.
Plain(p) == p.buf = <<>> /\ ~p.haveStatus /\ ~p.hideCursor

LinedBy(p, stay, cells) ==
    /\ p \in Program /\ PenKnown(p) /\ p.vt.visible = ~p.hideCursor
    /\ Lined(p.vt, stay, cells)

LEMMA LineStarts ==
    ASSUME NEW stay \in Seq(Rows), NEW p, Sound(p), Fed(p.vt, stay)
    PROVE  LinedBy(p, stay, <<>>)
<1>1. Lined(p.vt, stay, <<>>)
  BY LinedStarts DEF Fed
<1> QED BY <1>1 DEF LinedBy, Sound

LEMMA LineGoesOn ==
    ASSUME NEW stay \in Seq(Rows), NEW cells \in Seq(Cells), NEW p, LinedBy(p, stay, cells),
           NEW color \in Colors, NEW text \in Textual,
           Meant(color).bg = colorNormal.bg \/ p.vt.x + Len(text) <= Width
    PROVE  LET q == printText(p, color, text)
           IN  /\ LinedBy(q, stay, cells \o Colored(color, text))
               /\ cells \o Colored(color, text) \in Seq(Cells)
               /\ Plain(p) => Plain(q)
<1> DEFINE q == printText(p, color, text)
<1> DEFINE more == cells \o Colored(color, text)
<1>1. p \in Program /\ PenKnown(p) /\ p.vt.visible = ~p.hideCursor /\ Lined(p.vt, stay, cells)
  BY DEF LinedBy
<1>2. PICK t : Inked(p, t, color) /\ q.vt = Put(t, text)
  BY <1>1, PrintTextIs
<1>3. Wrote(p, q, color)
  BY <1>1, PrintTextIs
<1> HIDE DEF q
<1>4. /\ t \in VTs /\ t.rows = p.vt.rows /\ t.x = p.vt.x /\ t.y = p.vt.y
      /\ t.pen = Meant(color) /\ t.visible = p.vt.visible
  BY <1>2 DEF Inked
<1>5. Lined(t, stay, cells)
  BY <1>1, <1>4 DEF Lined, LineOn
<1>6. Lined(q.vt, stay, more)
  <2>1. Lined(Put(t, text), stay, more)
    BY <1>4, <1>5, PutLined
  <2> QED BY <1>2, <2>1
<1>7. q.vt.pen = t.pen /\ q.vt.visible = t.visible
  BY <1>2, <1>4, PutIs
<1>8. more \in Seq(Cells)
  <2> DEFINE new == Colored(color, text)
  <2>1. new \in Seq(Cells)
    BY ColoredTyped
  <2> HIDE DEF new
  <2>2. cells \o new \in Seq(Cells)
    BY <2>1, CellConcat
  <2> QED BY <2>2 DEF new
<1> HIDE DEF more
<1>9. LinedBy(q, stay, more)
  BY <1>1, <1>3, <1>4, <1>6, <1>7 DEF LinedBy, Wrote, PenKnown
<1> QED BY <1>3, <1>8, <1>9 DEF q, more, Plain, Wrote

\* And ends it.
LEMMA LineEnds ==
    ASSUME NEW stay \in Seq(Rows), NEW cells \in Seq(Cells), NEW p, LinedBy(p, stay, cells),
           NEW color \in Colors, Meant(color).bg = colorNormal.bg
    PROVE  LET q == printNewline(p, color)
           IN  /\ Sound(q) /\ Fed(q.vt, stay \o Wrapped(cells)) /\ q.vt.pen = Meant(color)
               /\ stay \o Wrapped(cells) \in Seq(Rows)
               /\ Plain(p) => Plain(q)
<1> DEFINE q == printNewline(p, color)
<1> DEFINE all == stay \o Wrapped(cells)
<1>1. p \in Program /\ PenKnown(p) /\ p.vt.visible = ~p.hideCursor /\ Lined(p.vt, stay, cells)
  BY DEF LinedBy
<1>2. PICK t : Inked(p, t, color) /\ q.vt = LineFeed(Return(t))
  BY <1>1, PrintNewlineIs
<1>3. Wrote(p, q, color)
  BY <1>1, PrintNewlineIs
<1> HIDE DEF q
<1>4. /\ t \in VTs /\ t.rows = p.vt.rows /\ t.x = p.vt.x /\ t.y = p.vt.y
      /\ t.pen = Meant(color) /\ t.visible = p.vt.visible
  BY <1>2 DEF Inked
<1>5. Lined(t, stay, cells)
  BY <1>1, <1>4 DEF Lined, LineOn
<1>6. Fed(q.vt, all) /\ q.vt.pen = t.pen /\ q.vt.visible = t.visible
  <2>1. Fed(LineFeed(Return(t)), all) /\ LineFeed(Return(t)).pen = t.pen /\ LineFeed(Return(t)).visible = t.visible
    BY <1>4, <1>5, FeedLined
  <2> QED BY <1>2, <2>1
<1>7. all \in Seq(Rows)
  BY StayTyped
<1> HIDE DEF all
<1>8. Sound(q)
  BY <1>1, <1>3, <1>4, <1>6 DEF Sound, Wrote, PenKnown, Fed
<1> QED BY <1>3, <1>4, <1>6, <1>7, <1>8 DEF q, all, Plain, Wrote

LEMMA CleanFed ==
    ASSUME NEW stay \in Seq(Rows), NEW p, Clean(p, stay)
    PROVE  Sound(p) /\ Fed(p.vt, stay) /\ Plain(p) /\ p.vt.pen = colorNormal
BY ProgramTyped DEF Clean, Synced, Sound, Fed, Plain

LEMMA ShellFed ==
    ASSUME NEW stay \in Seq(Rows), NEW p, AtShell(p, stay, <<>>), Shows(p.vt, stay, <<>>), ~p.haveStatus
    PROVE  Sound(p) /\ Fed(p.vt, stay) /\ Plain(p) /\ p.vt.pen = colorNormal
BY ProgramTyped DEF AtShell, Sound, Fed, Plain

LEMMA FedShell ==
    ASSUME NEW stay, NEW p, Sound(p), Fed(p.vt, stay), Plain(p), p.vt.pen = colorNormal
    PROVE  AtShell(p, stay, <<>>)
BY DEF AtShell, Fed, Plain

LEMMA FedClean ==
    ASSUME NEW stay \in Seq(Rows), NEW p, Sound(p), Fed(p.vt, stay)
    PROVE  Clean(cleanTerminal(p), stay) /\ Clean(leave(cleanTerminal(p)), stay)
<1> DEFINE none == <<>>
<1> DEFINE q == cleanTerminal(p)
<1>1. none \in Seq(Rows)
  OBVIOUS
<1>2. Shows(p.vt, stay, none) /\ p.vt.y = Len(stay) + 1 /\ Len(p.vt.rows) <= Len(stay) + Height
  BY DEF Fed
<1> HIDE DEF none, q
<1>3. Clean(q, stay)
  BY <1>1, <1>2, CleanTerminal DEF q
<1>4. Synced(q, Len(stay)) /\ Shows(q.vt, stay, none)
  BY <1>3 DEF Clean, none
<1>5. Clean(leave(q), stay)
  BY <1>1, <1>4, LeaveIs
<1> QED BY <1>3, <1>5 DEF q

LEMMA CursorHome ==
    ASSUME NEW stay \in Seq(Rows), NEW t, Fed(t, stay)
    PROVE  <<Column(t), t.y - Len(stay) - 1>> = <<0, 0>>
<1>1. Column(t) = 0
  BY ColumnReturned DEF Fed
<1>2. t.y - Len(stay) - 1 = 0
  BY DEF Fed
<1> QED BY <1>1, <1>2

PaintedRow(stay, lines, r) ==
    IF r <= Len(stay) THEN stay[r]
    ELSE IF r <= Len(stay) + Len(lines) THEN SeenRow(lines[r - Len(stay)])
    ELSE BlankRow(colorNormal)

LEMMA PaintedRows ==
    ASSUME NEW stay \in Seq(Rows), NEW lines \in Seq(Lines), NEW t \in VTs,
           Shows(t, stay, Picture(lines))
    PROVE  \A r \in 1 .. Len(t.rows) : t.rows[r] = PaintedRow(stay, lines, r)
BY ShowsLines DEF PaintedRow

\* The command line is printed over itself, without what was selected or cut off.
LEMMA PromptLined ==
    ASSUME NEW stay \in Seq(Rows), NEW p, Drawn(p, stay), Prompted(p.buf)
    PROVE  LET q == clearToEOL(move(p, TextX, 0))
               cells == Colored(colorLabel, Prompt) \o Colored(NoColor, Spaces(1))
           IN  LinedBy(q, stay, cells) /\ cells \in Seq(Cells)
<1> DEFINE top == Len(stay)
<1> DEFINE row == top + 1
<1> DEFINE m == move(p, TextX, 0)
<1> DEFINE s == setColor(m, NoColor)
<1> DEFINE v == EraseToEnd(s.vt)
<1> DEFINE q == clearToEOL(m)
<1> DEFINE cp == Colored(colorLabel, Prompt)
<1> DEFINE sp == Colored(NoColor, Spaces(1))
<1> DEFINE cells == cp \o sp
<1>1. /\ p.buf \in Seq(Lines) /\ p.vt \in VTs /\ top \in Nat /\ Len(p.vt.rows) \in Nat
      /\ row <= Len(p.vt.rows) /\ Len(p.vt.rows) <= top + Height /\ Synced(p, top)
      /\ Len(p.buf) = 1 /\ Shows(p.vt, stay, Picture(p.buf)) /\ Height <= Len(p.vt.rows)
  BY BufTyped DEF Drawn, Prompted, Synced, Sound, OnScreen
<1>2. TextX \in Nat /\ TextX < Width /\ TextX = Len(Prompt) + 1 /\ Len(Prompt) \in Nat
  BY TextBounds
<1>3. /\ Synced(m, top) /\ m.curX = TextX /\ m.curY = 0 /\ m.vt.rows = p.vt.rows
  <2>1. 0 \in Nat /\ top + 1 + 0 <= Len(p.vt.rows)
    BY <1>1
  <2> HIDE DEF top
  <2> QED BY <1>1, <1>2, <2>1, Move
<1> HIDE DEF m
<1>4. m \in Program /\ PenKnown(m) /\ m.vt.x = TextX /\ m.vt.y = row /\ m.vt.visible = ~m.hideCursor
  BY <1>1, <1>3 DEF Synced, Sound
<1>5. /\ s \in Program /\ s.vt.pen = colorNormal /\ s.lastColor = colorNormal
      /\ s.vt.rows = p.vt.rows /\ s.vt.x = TextX /\ s.vt.y = row
      /\ s.hideCursor = m.hideCursor /\ s.vt.visible = m.vt.visible
  <2>1. m \in Program /\ PenKnown(m) /\ NoColor \in Colors
    BY <1>4, ColorsTyped
  <2>2. /\ s \in Program /\ s.vt.pen = Meant(NoColor) /\ s.lastColor = Meant(NoColor)
        /\ s.vt.rows = m.vt.rows /\ s.vt.x = m.vt.x /\ s.vt.y = m.vt.y /\ Kept(m, s)
    BY <2>1, SetColor
  <2> HIDE DEF s
  <2> QED BY <1>3, <1>4, <2>2, MeantNormal DEF Kept
<1>6. q = [s EXCEPT !.vt = v]
  BY <1>5 DEF clearToEOL, Program
<1> HIDE DEF s, q
<1> DEFINE u == s.vt
<1>7. u \in VTs /\ u.rows = p.vt.rows /\ u.x = TextX /\ u.y = row /\ u.pen = colorNormal
      /\ u.y \in 1 .. Len(u.rows) /\ u.y \in Nat
  BY <1>1, <1>5, ProgramTyped
<1>8. Column(u) = TextX
  BY <1>2, <1>7, ScreenAssumption DEF Column, AtMost
<1>9. /\ v \in VTs /\ v.x = TextX /\ v.y = row /\ v.pen = colorNormal /\ v.visible = u.visible
      /\ Len(v.rows) = Len(p.vt.rows)
      /\ \A r \in 1 .. Len(p.vt.rows) : r # row => v.rows[r] = p.vt.rows[r]
      /\ \A i \in 1 .. Width :
           v.rows[row][i] = IF i > TextX THEN Seen(Blank, colorNormal) ELSE p.vt.rows[row][i]
  <2> DEFINE e == Erase(u, u.y)
  <2>1. v = e
    BY DEF EraseToEnd
  <2> HIDE DEF u, v
  <2>2. /\ e \in VTs /\ e.x = u.x /\ e.y = u.y
        /\ e.pen = u.pen /\ e.visible = u.visible
        /\ Len(e.rows) = Len(u.rows)
        /\ \A r \in 1 .. Len(u.rows) : r # u.y =>
             e.rows[r] = IF r > u.y /\ r <= u.y THEN BlankRow(u.pen) ELSE u.rows[r]
        /\ \A i \in 1 .. Width :
             e.rows[u.y][i] = IF i > Column(u) THEN Seen(Blank, u.pen) ELSE u.rows[u.y][i]
    BY <1>7, EraseIs
  <2> HIDE DEF e, row
  <2>3. \A r \in 1 .. Len(p.vt.rows) : r # row => e.rows[r] = p.vt.rows[r]
    BY <1>7, <2>2
  <2> QED BY <1>7, <1>8, <2>1, <2>2, <2>3
<1> HIDE DEF v
<1>10. q \in Program /\ q.vt = v /\ q.lastColor = colorNormal /\ q.hideCursor = m.hideCursor
  BY <1>5, <1>6, <1>9 DEF Program
<1>11. /\ cp \in Seq(Cells) /\ Len(cp) = Len(Prompt)
       /\ \A i \in 1 .. Len(Prompt) : cp[i] = Cell(Prompt[i], colorLabel)
  BY TextBounds, ColorsTyped, ColoredTyped
<1>12. sp \in Seq(Cells) /\ Len(sp) = 1 /\ sp[1] = Cell(Blank, NoColor)
  <2> DEFINE one == Spaces(1)
  <2>1. 1 \in Nat /\ \A i \in 1 .. 1 : i = 1
    OBVIOUS
  <2>2. one \in Textual /\ Len(one) = 1 /\ \A i \in 1 .. 1 : one[i] = Blank
    BY <2>1, SpacesTyped
  <2> HIDE DEF one
  <2>3. /\ Colored(NoColor, one) \in Seq(Cells) /\ Len(Colored(NoColor, one)) = Len(one)
        /\ \A i \in 1 .. Len(one) : Colored(NoColor, one)[i] = Cell(one[i], NoColor)
    BY <2>2, ColorsTyped, ColoredTyped
  <2> QED BY <2>2, <2>3 DEF one
<1> HIDE DEF cp, sp, cells
<1>13. /\ cells \in Seq(Cells) /\ Len(cells) = TextX
       /\ \A i \in 1 .. Len(Prompt) : cells[i] = Cell(Prompt[i], colorLabel)
       /\ cells[TextX] = Cell(Blank, NoColor)
  <2>1. /\ cp \o sp \in Seq(Cells) /\ Len(cp \o sp) = Len(cp) + Len(sp)
        /\ \A i \in 1 .. Len(cp) + Len(sp) :
             (cp \o sp)[i] = IF i <= Len(cp) THEN cp[i] ELSE sp[i - Len(cp)]
    BY <1>11, <1>12, CellConcat
  <2>2. TextX \in 1 .. Len(cp) + Len(sp) /\ ~(TextX <= Len(cp)) /\ TextX - Len(cp) = 1
    BY <1>2, <1>11, <1>12
  <2>3. Len(cp) + Len(sp) = TextX /\ \A i \in 1 .. Len(Prompt) : i \in 1 .. Len(cp) + Len(sp) /\ i <= Len(cp)
    BY <1>2, <1>11, <1>12
  <2>4. \A i \in 1 .. Len(Prompt) : (cp \o sp)[i] = Cell(Prompt[i], colorLabel)
    BY <1>11, <2>1, <2>3
  <2>5. (cp \o sp)[TextX] = Cell(Blank, NoColor)
    BY <1>12, <2>1, <2>2
  <2> QED BY <2>1, <2>3, <2>4, <2>5 DEF cells
<1>14. RowsDown(Len(cells)) = 0 /\ Len(cells) - 0 * Width = TextX
  <2>1. RowsDown(TextX) = 0
    BY <1>2, RowsDownIs, ScreenAssumption
  <2>2. TextX - 0 * Width = TextX
    BY <1>2, ScreenAssumption
  <2> QED BY <1>13, <2>1, <2>2
<1>15. \A r \in 1 .. Len(p.vt.rows) :
          p.vt.rows[r] = IF r <= top THEN stay[r]
                         ELSE IF r <= top + 1 THEN SeenRow(p.buf[r - top])
                         ELSE BlankRow(colorNormal)
  <2> DEFINE lines == p.buf
  <2>1. lines \in Seq(Lines) /\ Shows(p.vt, stay, Picture(lines)) /\ Len(lines) = 1
    BY <1>1
  <2> HIDE DEF lines
  <2>2. \A r \in 1 .. Len(p.vt.rows) :
          p.vt.rows[r] = IF r <= Len(stay) THEN stay[r]
                         ELSE IF r <= Len(stay) + Len(lines) THEN SeenRow(lines[r - Len(stay)])
                         ELSE BlankRow(colorNormal)
    <3> DEFINE t == p.vt
    <3>1. t \in VTs /\ Shows(t, stay, Picture(lines))
      BY <1>1, <2>1
    <3> HIDE DEF t
    <3>2. \A r \in 1 .. Len(t.rows) : t.rows[r] = PaintedRow(stay, lines, r)
      BY <2>1, <3>1, PaintedRows
    <3> QED BY <3>2 DEF t, PaintedRow
  <2> QED BY <2>1, <2>2 DEF lines
<1>16. v.rows[row] = WrapRow(cells, 0)
  <2> DEFINE line == p.buf[1]
  <2>1. line \in Lines /\ p.vt.rows[row] = SeenRow(line)
    <3>1. line \in Lines
      BY <1>1
    <3>2. row - top = 1 /\ ~(row <= top) /\ row \in 1 .. Len(p.vt.rows)
      BY <1>1
    <3> HIDE DEF row
    <3> QED BY <1>15, <3>1, <3>2
  <2>2. \A i \in 1 .. Len(Prompt) : line[i] = Cell(Prompt[i], colorLabel)
    BY DEF Prompted
  <2>3. line[TextX] = Cell(Blank, NoColor)
    BY DEF Prompted
  <2> HIDE DEF line, row
  <2>4. \A i \in 1 .. Width :
          SeenRow(line)[i] = IF i <= Width - 1 THEN Seen(line[i].ch, Meant(line[i].color))
                             ELSE Seen(Blank, colorNormal)
    BY <2>1, LineShown
  <2>5. WrapRow(cells, 0) \in Rows /\ \A i \in 1 .. Width : WrapRow(cells, 0)[i] = WrapCell(cells, i)
    <3>1. WrapRow(cells, 0) \in Rows /\ \A i \in 1 .. Width : WrapRow(cells, 0)[i] = WrapCell(cells, 0 * Width + i)
      BY <1>13, WrapRowIs
    <3>2. \A i \in 1 .. Width : 0 * Width + i = i
      BY ScreenAssumption
    <3> QED BY <3>1, <3>2
  <2>6. ASSUME NEW i \in 1 .. Width
        PROVE  v.rows[row][i] = WrapRow(cells, 0)[i]
    <3>1. CASE i > TextX
      <4>1. WrapCell(cells, i) = Seen(Blank, colorNormal)
        BY <1>2, <1>13, <3>1 DEF WrapCell
      <4> QED BY <1>9, <2>5, <3>1, <4>1
    <3>2. CASE i <= TextX
      <4>1. cells[i] = line[i]
        <5>1. i = TextX \/ i \in 1 .. Len(Prompt)
          BY <1>2, <3>2
        <5> QED BY <1>13, <2>2, <2>3, <5>1
      <4>2. WrapCell(cells, i) = Seen(line[i].ch, Meant(line[i].color))
        BY <1>13, <3>2, <4>1 DEF WrapCell
      <4>3. i <= Width - 1 /\ ~(i > TextX)
        BY <1>2, <3>2, ScreenAssumption
      <4> QED BY <1>9, <2>1, <2>4, <2>5, <4>2, <4>3
    <3> QED BY <1>2, <3>1, <3>2
  <2>7. v.rows[row] \in Rows
    <3>1. row \in 1 .. Len(v.rows)
      BY <1>1, <1>9 DEF row
    <3> QED BY <1>9, <3>1, VTTyped
  <2> QED BY <2>5, <2>6, <2>7, RowsEqual
<1>17. LineOn(v, stay, cells)
  <2> SUFFICES ASSUME NEW r \in 1 .. Len(v.rows)
               PROVE  v.rows[r] = IF r <= top THEN stay[r] ELSE WrapRow(cells, r - top - 1)
    BY DEF LineOn
  <2>1. r \in 1 .. Len(p.vt.rows)
    BY <1>9
  <2>2. CASE r <= top
    BY <1>1, <1>9, <1>15, <2>1, <2>2
  <2>3. CASE r = row
    <3>1. r - top - 1 = 0 /\ ~(r <= top)
      BY <1>1, <2>3
    <3> QED BY <1>16, <2>3, <3>1
  <2>4. CASE r > row
    <3> DEFINE k == r - top - 1
    <3>1. k \in Nat /\ k > 0 /\ ~(r <= top) /\ ~(r <= top + 1) /\ r # row
      BY <1>1, <2>4
    <3>2. WrapRow(cells, k) = BlankRow(colorNormal)
      <4> HIDE DEF k
      <4> QED BY <1>13, <1>14, <3>1, WrapRowBelow
    <3> QED BY <1>9, <1>15, <2>1, <3>1, <3>2
  <2> QED BY <1>1, <2>1, <2>2, <2>3, <2>4
<1>18. Lined(v, stay, cells)
  <2>1. v.y = top + 1 + RowsDown(Len(cells))
    BY <1>1, <1>9, <1>14
  <2>2. v.x = Len(cells) - RowsDown(Len(cells)) * Width
    BY <1>9, <1>14
  <2> QED BY <1>1, <1>9, <1>17, <2>1, <2>2 DEF Lined
<1>19. LinedBy(q, stay, cells)
  BY <1>4, <1>5, <1>9, <1>10, <1>18 DEF LinedBy, PenKnown
<1> QED BY <1>13, <1>19 DEF q, m, cells, cp, sp

-----------------------------------------------------------------------------
(* The invariant is one.                                                   *)

LEMMA Home == <<0, 0>> # <<>> /\ <<0, 0>> \in Nat \X Nat
OBVIOUS

\* At the end of what has been printed, outside any mode.
LEMMA AfterPrinting ==
    ASSUME mode' = "shell", log' \in Seq(Rows), Sound(cio'), Fed(cio'.vt, log'), Plain(cio'),
           cio'.vt.pen = colorNormal, frame' = <<>>, cursor' = <<0, 0>>
    PROVE  Inv'
<1>1. AtShell(cio', log', frame')
  BY FedShell
<1>2. Shows(cio'.vt, log', frame') /\ frame' \in Seq(Rows)
  BY DEF Fed
<1>3. <<Column(cio'.vt), cio'.vt.y - Len(log') - 1>> = <<0, 0>>
  BY CursorHome
<1>4. cio'.vt.visible
  BY DEF Sound, Plain
<1>5. CursorShown'
  BY <1>3, <1>4, Home DEF CursorShown, vt
<1> QED BY <1>1, <1>2, <1>5, Home DEF Inv, vt, Modes

\* With a clean terminal, wherever it is wanted.
LEMMA AfterCleaning ==
    ASSUME mode' \in (Modes \ {"choices"}) \cup {"shell", "field", "display"},
           log' \in Seq(Rows), Clean(cio', log'), frame' = <<>>, cursor' = <<0, 0>>
    PROVE  Inv'
<1>1. Sound(cio') /\ Fed(cio'.vt, log') /\ Plain(cio') /\ cio'.vt.pen = colorNormal
  BY CleanFed
<1>2. CASE mode' = "shell"
  BY <1>1, <1>2, AfterPrinting
<1>3. CASE mode' # "shell"
  <2>1. Shows(cio'.vt, log', frame') /\ frame' \in Seq(Rows)
    BY <1>1 DEF Fed
  <2>2. <<Column(cio'.vt), cio'.vt.y - Len(log') - 1>> = <<0, 0>>
    BY <1>1, CursorHome
  <2>3. CursorShown'
    BY <1>1, <2>2, Home DEF CursorShown, vt, Sound, Plain
  <2>4. Picture(<<>>) = <<>>
    BY DEF Picture
  <2>5. Drawn(cio', log') /\ frame' = Picture(cio'.buf)
    BY <2>1, <2>4, ScreenAssumption DEF Clean, Drawn
  <2> QED BY <1>3, <2>1, <2>3, <2>5, Home DEF Inv, vt, Modes
<1> QED BY <1>2, <1>3

LEMMA CursorAt ==
    ASSUME NEW stay \in Seq(Rows), NEW p, Synced(p, Len(stay))
    PROVE  /\ <<Column(p.vt), p.vt.y - Len(stay) - 1>> = <<p.curX, p.curY>>
           /\ <<p.curX, p.curY>> # <<>> /\ <<p.curX, p.curY>> \in Nat \X Nat
<1>1. /\ p.vt.x = p.curX /\ p.curX < Width /\ p.vt.y = Len(stay) + 1 + p.curY /\ Len(stay) \in Nat
      /\ p.curX \in Nat /\ p.curY \in Nat
  BY ProgramTyped DEF Synced, Sound
<1>2. Column(p.vt) = p.curX
  BY <1>1, ScreenAssumption DEF Column, AtMost
<1>3. p.vt.y - Len(stay) - 1 = p.curY
  BY <1>1
<1> QED BY <1>1, <1>2, <1>3

\* When a frame was painted and the cursor moved to its place in it.
LEMMA AfterDrawing ==
    ASSUME mode' \in Modes \ {"choices"}, log' \in Seq(Rows),
           NEW n, n.lines \in Seq(Lines), 1 <= Len(n.lines), Len(n.lines) <= Height,
           NEW x \in Nat, x < Width, NEW y \in Nat, y < Len(n.lines),
           Drawn(cio, log'), cio' = move(paintBuf(cio, n), x, y),
           frame' = Picture(n.lines), cursor' = <<x, y>>,
           mode' = "command" => Prompted(n.lines)
    PROVE  Inv'
<1> DEFINE d == paintBuf(cio, n)
<1> DEFINE m == move(d, x, y)
<1>1. Drawn(d, log') /\ d.buf = n.lines
  BY PaintBuf
<1> HIDE DEF d
<1>2. /\ Len(log') + Len(d.buf) <= Len(d.vt.rows) /\ Len(log') \in Nat /\ Len(d.buf) \in Nat
      /\ Len(d.vt.rows) \in Nat
  BY <1>1, BufTyped
<1>3. Len(log') + 1 + y <= Len(d.vt.rows) /\ Synced(d, Len(log'))
  BY <1>1, <1>2 DEF Drawn
<1>4. Synced(m, Len(log')) /\ m.curX = x /\ m.curY = y /\ m.vt.rows = d.vt.rows /\ Kept(d, m)
  BY <1>2, <1>3, Move
<1>5. cio' = m
  BY DEF d
<1> HIDE DEF m
<1>6. Drawn(m, log') /\ m.buf = n.lines
  BY <1>1, <1>4 DEF Drawn, Kept, Shows
<1>7. /\ <<Column(m.vt), m.vt.y - Len(log') - 1>> = <<x, y>>
      /\ <<x, y>> # <<>> /\ <<x, y>> \in Nat \X Nat
  BY <1>4, CursorAt
<1>8. m.vt.visible
  BY <1>6 DEF Drawn, Synced, Sound
<1>9. CursorShown'
  BY <1>5, <1>7, <1>8 DEF CursorShown, vt
<1>10. frame' \in Seq(Rows)
  BY PictureIs
<1>11. Shows(cio'.vt, log', frame')
  BY <1>5, <1>6 DEF Drawn
<1>12. mode' # "choices" /\ mode' # "shell" /\ mode' # "field" /\ mode' # "display"
  BY DEF Modes
<1> QED BY <1>5, <1>6, <1>7, <1>9, <1>10, <1>11, <1>12 DEF Inv, vt

\* When the choices were printed, with sel selected.
LEMMA AfterChoosing ==
    ASSUME mode' = "choices", log' \in Seq(Rows), NEW sel \in DOMAIN Offered, NEW p,
           Synced(p, Len(log')), ChoicesOn(p.vt, log', sel, Count),
           Len(log') + 1 + EndY(Count) <= Len(p.vt.rows),
           p.buf = <<>>, ~p.haveStatus,
           cio' = returnCursor(p, sel), frame' = ChoicesPicture(sel),
           cursor' = IF sel = 1 THEN <<entryx, 0>> ELSE <<>>
    PROVE  Inv'
<1> DEFINE q == returnCursor(p, sel)
<1>1. /\ Synced(q, Len(log')) /\ q.curX = entryx /\ q.curY = 0
      /\ q.vt.rows = p.vt.rows /\ q.buf = p.buf /\ q.haveStatus = p.haveStatus
      /\ q.vt.visible = (sel = 1)
  <2>1. Len(log') \in Nat
    OBVIOUS
  <2> QED BY <2>1, ReturnCursor
<1>2. cio' = q
  OBVIOUS
<1> HIDE DEF q
<1>3. Count \in 0 .. Count /\ q.vt \in VTs
  BY <1>1, OfferedTyped, ProgramTyped DEF Synced, Sound
<1>4. ChoicesOn(q.vt, log', sel, Count)
  BY <1>1 DEF ChoicesOn
<1>5. Shows(q.vt, log', ChoicesShown(sel, Count))
  BY <1>1, <1>3, <1>4, ShowsChoices DEF ChoicesOn
<1>6. frame' = ChoicesShown(sel, Count) /\ frame' \in Seq(Rows)
  BY <1>3, ChoicesShownIs DEF ChoicesPicture, Count
<1>7. /\ <<Column(q.vt), q.vt.y - Len(log') - 1>> = <<entryx, 0>>
      /\ <<entryx, 0>> # <<>> /\ <<entryx, 0>> \in Nat \X Nat
  BY <1>1, CursorAt
<1>8. CursorShown' /\ (cursor' = <<>> \/ cursor' \in Nat \X Nat)
  <2>1. CASE sel = 1
    BY <1>1, <1>2, <1>7, <2>1 DEF CursorShown, vt
  <2>2. CASE sel # 1
    BY <1>1, <1>2, <2>2 DEF CursorShown, vt
  <2> QED BY <2>1, <2>2
<1>9. Chosen(cio', log', frame')
  BY <1>1, <1>2 DEF Chosen
<1>10. Shows(cio'.vt, log', frame')
  BY <1>2, <1>5, <1>6
<1> QED BY <1>6, <1>8, <1>9, <1>10 DEF Inv, vt, Modes

LEMMA InvTyped ==
    ASSUME Inv
    PROVE  frame \in Seq(Rows) /\ log \in Seq(Rows) /\ Shows(cio.vt, log, frame)
BY DEF Inv, vt

LEMMA InitInv ==
    ASSUME Init
    PROVE  Inv
<1>1. PICK y \in 1 .. Height :
        /\ cio = Initial([rows |-> [i \in 1 .. Height |-> BlankRow(colorNormal)],
                          x |-> 0, y |-> y, pen |-> colorNormal, visible |-> TRUE])
        /\ log = [i \in 1 .. y - 1 |-> BlankRow(colorNormal)]
  BY DEF Init
<1> DEFINE rows == [i \in 1 .. Height |-> BlankRow(colorNormal)]
<1> DEFINE t == [rows |-> rows, x |-> 0, y |-> y, pen |-> colorNormal, visible |-> TRUE]
<1>2. BlankRow(colorNormal) \in Rows
  BY ColorsTyped, BlankRowTyped
<1>3. Height \in Nat /\ Height >= 1 /\ y \in Nat /\ y - 1 \in Nat
  BY ScreenAssumption
<1>4. rows \in Seq(Rows) /\ Len(rows) = Height /\ \A i \in 1 .. Height : rows[i] = BlankRow(colorNormal)
  BY <1>2, <1>3
<1>5. log \in Seq(Rows) /\ Len(log) = y - 1 /\ \A i \in 1 .. y - 1 : log[i] = BlankRow(colorNormal)
  BY <1>1, <1>2, <1>3
<1> HIDE DEF rows
<1>6. /\ t \in VTs /\ t.rows = rows /\ t.x = 0 /\ t.y = y /\ t.pen = colorNormal /\ t.visible
  BY <1>3, <1>4, ColorsTyped DEF VTs
<1>7. cio = Initial(t)
  BY <1>1 DEF rows
<1> HIDE DEF t
<1>8. /\ cio \in Program /\ cio.vt = t /\ cio.lastColor = NoColor
      /\ ~cio.hideCursor /\ ~cio.haveStatus /\ cio.buf = <<>>
  BY <1>6, <1>7, InitialTyped
<1>9. OnScreen(t)
  BY <1>3, <1>4, <1>6, ScreenAssumption DEF OnScreen, FirstRow
<1>10. Shows(t, log, <<>>)
  <2>1. DOMAIN t.rows = 1 .. Height /\ Len(t.rows) = Height
    BY <1>4, <1>6, VTTyped
  <2>2. \A r \in DOMAIN t.rows : t.rows[r] = IF r <= Len(log) THEN log[r] ELSE BlankRow(colorNormal)
    BY <1>3, <1>4, <1>5, <1>6, <2>1
  <2> QED BY <1>3, <1>5, <2>1, <2>2, ShowsBlank
<1>11. Fed(t, log)
  BY <1>3, <1>4, <1>5, <1>6, <1>9, <1>10 DEF Fed
<1>12. Sound(cio) /\ Plain(cio)
  BY <1>6, <1>8, <1>9 DEF Sound, PenKnown, Plain
<1>13. AtShell(cio, log, <<>>)
  BY <1>6, <1>8, <1>11, <1>12, FedShell
<1>14. mode = "shell" /\ frame = <<>> /\ cursor = <<0, 0>>
  BY DEF Init
<1>15. <<Column(t), t.y - Len(log) - 1>> = <<0, 0>>
  BY <1>5, <1>11, CursorHome
<1>16. CursorShown
  BY <1>6, <1>8, <1>14, <1>15, Home DEF CursorShown, vt
<1>17. frame \in Seq(Rows)
  BY <1>14
<1> QED BY <1>5, <1>8, <1>10, <1>13, <1>14, <1>16, <1>17, Home DEF Inv, vt, Modes

\* Outside a frame the terminal can be cleared.
LEMMA CleanedOutside ==
    ASSUME Inv, mode \in {"shell", "field"}
    PROVE  Clean(cleanTerminal(cio), log)
<1>1. log \in Seq(Rows) /\ frame \in Seq(Rows) /\ Shows(cio.vt, log, frame)
  BY InvTyped
<1>2. CASE mode = "shell"
  <2>1. Sound(cio) /\ cio.vt.y = Len(log) + 1 /\ Len(cio.vt.rows) <= Len(log) + Height
    BY <1>2 DEF Inv, AtShell
  <2> QED BY <1>1, <2>1, CleanTerminal
<1>3. CASE mode = "field"
  <2>1. Clean(cio, log)
    BY <1>3 DEF Inv
  <2>2. Sound(cio) /\ Fed(cio.vt, log)
    BY <1>1, <2>1, CleanFed
  <2> QED BY <1>1, <2>2, FedClean
<1> QED BY <1>2, <1>3

LEMMA BeginInv ==
    ASSUME Inv, NEW m \in Modes, Begin(m)
    PROVE  Inv'
<1>1. Clean(cio', log') /\ log' \in Seq(Rows) /\ frame' = <<>> /\ cursor' = <<0, 0>>
  BY CleanedOutside, InvTyped DEF Begin, Show
<1>2. mode' \in Modes \ {"choices"}
  BY DEF Begin
<1> QED BY <1>1, <1>2, AfterCleaning

LEMMA LeaveInv ==
    ASSUME Inv, Leave
    PROVE  Inv'
<1>1. log \in Seq(Rows) /\ frame \in Seq(Rows) /\ Shows(cio.vt, log, frame)
  BY InvTyped
<1>2. Synced(cio, Len(log))
  BY DEF Inv, Leave, Drawn, Chosen
<1>3. Clean(leave(cio), log)
  BY <1>1, <1>2, LeaveIs
<1>4. cio' = leave(cio) /\ log' = log /\ frame' = <<>> /\ cursor' = <<0, 0>>
  BY DEF Leave, Show
<1>5. mode' \in {"shell", "field", "display"}
  BY DEF Leave
<1> QED BY <1>1, <1>3, <1>4, <1>5, AfterCleaning

LEMMA DrawCommandInv ==
    ASSUME Inv, NEW p \in Pieces, NEW at \in 0 .. Width, DrawCommand(p, at)
    PROVE  Inv'
<1> DEFINE n == commandFrame(p)
<1> DEFINE x == TextX + at
<1> DEFINE y == 0
<1>1. mode = "command" /\ mode' = "command" /\ log' = log
  BY DEF DrawCommand, Show
<1>2. at <= AtMost(Size(p), Width - TextX - 1)
  BY DEF DrawCommand
<1>3. cio' = move(paintBuf(cio, n), x, y) /\ frame' = Picture(n.lines) /\ cursor' = <<x, y>>
  BY DEF DrawCommand, Show
<1>4. n.lines \in Seq(Lines) /\ Len(n.lines) = 1 /\ Prompted(n.lines)
  BY CommandFrame
<1>5. x \in Nat /\ x < Width
  BY <1>2, TextBounds, PiecesTyped, ScreenAssumption DEF AtMost
<1>6. y \in Nat /\ y < Len(n.lines) /\ 1 <= Len(n.lines) /\ Len(n.lines) <= Height
  BY <1>4, ScreenAssumption
<1> HIDE DEF n, x, y
<1>7. log \in Seq(Rows) /\ Drawn(cio, log)
  BY <1>1 DEF Inv, Modes
<1>8. mode' \in Modes \ {"choices"}
  BY <1>1 DEF Modes
<1> QED BY <1>1, <1>3, <1>4, <1>5, <1>6, <1>7, <1>8, AfterDrawing

LEMMA DrawOnelineInv ==
    ASSUME Inv, NEW p \in Pieces, NEW at \in 0 .. Width, DrawOneline(p, at)
    PROVE  Inv'
<1> DEFINE n == onelineFrame(p)
<1> DEFINE x == entryx + at
<1> DEFINE y == 0
<1>1. mode = "oneline" /\ mode' = "oneline" /\ log' = log
  BY DEF DrawOneline, Show
<1>2. at <= Size(p) /\ entryx + Size(p) < Width
  BY DEF DrawOneline
<1>3. cio' = move(paintBuf(cio, n), x, y) /\ frame' = Picture(n.lines) /\ cursor' = <<x, y>>
  BY DEF DrawOneline, Show
<1>4. n.lines \in Seq(Lines) /\ Len(n.lines) = 1
  BY OnelineFrame
<1>5. x \in Nat /\ x < Width
  BY <1>2, TextBounds, PiecesTyped, ScreenAssumption
<1>6. y \in Nat /\ y < Len(n.lines) /\ 1 <= Len(n.lines) /\ Len(n.lines) <= Height
  BY <1>4, ScreenAssumption
<1> HIDE DEF n, x, y
<1>7. log \in Seq(Rows) /\ Drawn(cio, log)
  BY <1>1 DEF Inv, Modes
<1>8. mode' \in Modes \ {"choices"} /\ mode' # "command"
  BY <1>1 DEF Modes
<1> QED BY <1>1, <1>3, <1>4, <1>5, <1>6, <1>7, <1>8, AfterDrawing

LEMMA DrawMultilineInv ==
    ASSUME Inv, NEW ps \in Values, NEW y \in 1 .. MaxLines, DrawMultiline(ps, y)
    PROVE  Inv'
<1> DEFINE n == multilineFrame(ps)
<1> DEFINE x == 4 + Size(ps[y])
<1>1. mode = "multiline" /\ mode' = "multiline" /\ log' = log
  BY DEF DrawMultiline, Show
<1>2. y \in DOMAIN ps /\ \A i \in DOMAIN ps : Size(ps[i]) <= Width - 5
  BY DEF DrawMultiline
<1>3. cio' = move(paintBuf(cio, n), x, y) /\ frame' = Picture(n.lines) /\ cursor' = <<x, y>>
  BY DEF DrawMultiline, Show
<1>4. ps \in Seq(Pieces) /\ Len(ps) \in Nat /\ Len(ps) <= MaxLines
  <2>1. PICK k \in 1 .. MaxLines : ps \in [1 .. k -> Pieces]
    BY DEF Values
  <2>2. k \in Nat
    BY TextBounds
  <2> QED BY <2>1, <2>2
<1>5. y \in 1 .. Len(ps) /\ ps[y] \in Pieces
  BY <1>2, <1>4
<1>6. n.lines \in Seq(Lines) /\ Len(n.lines) = Len(ps) + 1
  BY <1>4, MultilineFrame
<1>7. x \in Nat /\ x < Width
  <2>1. Size(ps[y]) \in Nat /\ Size(ps[y]) <= Width - 5
    BY <1>2, <1>4, <1>5, PiecesTyped
  <2> QED BY <2>1, TextBounds, ScreenAssumption
<1> HIDE DEF n, x
<1>8. log \in Seq(Rows) /\ Drawn(cio, log)
  BY <1>1 DEF Inv, Modes
<1>9. 1 <= Len(n.lines) /\ Len(n.lines) <= Height /\ y < Len(n.lines) /\ y \in Nat
  BY <1>4, <1>5, <1>6, TextBounds, ScreenAssumption
<1>10. mode' \in Modes \ {"choices"} /\ mode' # "command"
  BY <1>1 DEF Modes
<1> QED BY <1>1, <1>3, <1>6, <1>7, <1>8, <1>9, <1>10, AfterDrawing

LEMMA BeginChoicesInv ==
    ASSUME Inv, NEW sel \in DOMAIN Offered, BeginChoices(sel)
    PROVE  Inv'
<1> DEFINE c == cleanTerminal(cio)
<1> DEFINE p == printChoices(c, sel)
<1>1. Clean(c, log) /\ log \in Seq(Rows)
  BY CleanedOutside, InvTyped DEF BeginChoices
<1> HIDE DEF c
<1>2. Choosing(c, p, log, sel, Count)
  BY <1>1, PrintChoices
<1>3. /\ mode' = "choices" /\ cio' = returnCursor(p, sel) /\ frame' = ChoicesPicture(sel)
      /\ cursor' = (IF sel = 1 THEN <<entryx, 0>> ELSE <<>>) /\ log' = log
  BY DEF BeginChoices, ShowChoices, c
<1> HIDE DEF p
<1>4. Synced(p, Len(log)) /\ ChoicesOn(p.vt, log, sel, Count) /\ Kept(c, p) /\ p.curY = EndY(Count)
  BY <1>2 DEF Choosing
<1>5. p.buf = <<>> /\ ~p.haveStatus
  BY <1>1, <1>4 DEF Kept, Clean
<1>6. Len(log) + 1 + EndY(Count) <= Len(p.vt.rows)
  <2>1. Len(log) \in Nat
    BY <1>1
  <2> QED BY <1>4, <2>1, SyncedTyped
<1> QED BY <1>1, <1>3, <1>4, <1>5, <1>6, AfterChoosing

LEMMA ChooseInv ==
    ASSUME Inv, NEW old \in DOMAIN Offered, NEW new \in DOMAIN Offered, Choose(old, new)
    PROVE  Inv'
<1> DEFINE p == printChoice(cio, old, NoColor)
<1> DEFINE q == printChoice(p, new, colorSelected)
<1>1. log \in Seq(Rows) /\ Shows(cio.vt, log, frame)
  BY InvTyped
<1>2. mode = "choices" /\ frame = ChoicesPicture(old)
  BY DEF Choose
<1>3. Synced(cio, Len(log)) /\ cio.buf = <<>> /\ ~cio.haveStatus
  BY <1>2 DEF Inv, Chosen
<1>4. old \in 1 .. Count /\ new \in 1 .. Count /\ Count \in 0 .. Count
  BY OfferedTyped
<1>5. cio.vt \in VTs
  BY <1>3, ProgramTyped DEF Synced, Sound
<1>6. Shows(cio.vt, log, ChoicesShown(old, Count))
  BY <1>1, <1>2 DEF ChoicesPicture, Count
<1>7. Len(log) + 1 + EndY(Count) <= Len(cio.vt.rows) /\ ChoicesOn(cio.vt, log, old, Count)
  BY <1>1, <1>4, <1>5, <1>6, ShowsChoices DEF ChoicesOn
<1> DEFINE none == 1
<1>8. /\ SameColors(old, none, old) /\ SameColors(none, new, new)
      /\ old # 1 => NoColor = ChoiceColor(old, none)
      /\ new # 1 => colorSelected = ChoiceColor(new, new)
  BY DEF SameColors, ChoiceColor
<1> HIDE DEF none
<1>9. /\ Synced(p, Len(log)) /\ Kept(cio, p)
      /\ ChoicesOn(p.vt, log, none, Count) /\ Len(p.vt.rows) = Len(cio.vt.rows)
  BY <1>1, <1>3, <1>4, <1>7, <1>8, ColorsTyped, PrintChoice
<1> HIDE DEF p
<1>10. /\ Synced(q, Len(log)) /\ Kept(p, q)
       /\ ChoicesOn(q.vt, log, new, Count) /\ Len(q.vt.rows) = Len(p.vt.rows)
  <2>1. Len(log) + 1 + EndY(Count) <= Len(p.vt.rows)
    BY <1>7, <1>9
  <2> QED BY <1>1, <1>4, <1>8, <1>9, <2>1, ColorsTyped, PrintChoice
<1>11. /\ mode' = "choices" /\ cio' = returnCursor(q, new) /\ frame' = ChoicesPicture(new)
       /\ cursor' = (IF new = 1 THEN <<entryx, 0>> ELSE <<>>) /\ log' = log
  BY <1>2 DEF Choose, ShowChoices, p
<1> HIDE DEF q
<1>12. q.buf = <<>> /\ ~q.haveStatus /\ Len(log) + 1 + EndY(Count) <= Len(q.vt.rows)
  BY <1>3, <1>7, <1>9, <1>10 DEF Kept
<1> QED BY <1>1, <1>10, <1>11, <1>12, AfterChoosing

\* A status is cleared, and a line may be printed where it stood.
LEMMA StatusCleared ==
    ASSUME Inv, mode = "shell"
    PROVE  /\ Sound(clearStatus(cio)) /\ Fed(clearStatus(cio).vt, log) /\ Plain(clearStatus(cio))
           /\ clearStatus(cio).vt.pen = colorNormal
           /\ LinedBy(clearStatus(cio), log, <<>>)
<1> DEFINE none == <<>>
<1> DEFINE q == clearStatus(cio)
<1>1. log \in Seq(Rows) /\ frame \in Seq(Rows) /\ Shows(cio.vt, log, frame) /\ AtShell(cio, log, frame)
  BY InvTyped DEF Inv
<1>2. AtShell(q, log, <<>>) /\ Shows(q.vt, log, <<>>) /\ ~q.haveStatus
  BY <1>1, ClearStatus
<1> HIDE DEF q
<1>3. Sound(q) /\ Fed(q.vt, log) /\ Plain(q) /\ q.vt.pen = colorNormal
  BY <1>1, <1>2, ShellFed
<1>4. LinedBy(q, log, <<>>)
  BY <1>1, <1>3, LineStarts
<1> QED BY <1>3, <1>4 DEF q

LEMMA TextsTyped ==
    ASSUME NEW t \in Texts
    PROVE  t \in Textual /\ Len(t) \in Nat
BY TextAssumption DEF Textual

LEMMA Backgrounds ==
    /\ Meant(colorLabel).bg = colorNormal.bg /\ Meant(colorError).bg = colorNormal.bg
    /\ Meant(NoColor).bg = colorNormal.bg /\ Meant(colorNormal).bg = colorNormal.bg
BY DEF Meant, colorLabel, colorError, colorNormal, NoColor

LEMMA EmptyCells ==
    /\ <<>> \in Seq(Cells)
    /\ \A s \in Seq(Cells) : <<>> \o s = s
BY ConcatEmptySeq

\* A whole line of a color.
LEMMA LineWhole ==
    ASSUME NEW stay \in Seq(Rows), NEW p, LinedBy(p, stay, <<>>), Plain(p),
           NEW color \in Colors, Meant(color).bg = colorNormal.bg, NEW text \in Textual
    PROVE  LET q == printText(p, color, text)
           IN  LinedBy(q, stay, Colored(color, text)) /\ Plain(q) /\ Colored(color, text) \in Seq(Cells)
<1> DEFINE none == <<>>
<1> DEFINE new == Colored(color, text)
<1> DEFINE q == printText(p, color, text)
<1>1. none \in Seq(Cells) /\ LinedBy(p, stay, none)
  BY EmptyCells
<1> HIDE DEF none
<1>2. LinedBy(q, stay, none \o Colored(color, text)) /\ Plain(q)
  BY <1>1, LineGoesOn
<1>3. new \in Seq(Cells)
  BY ColoredTyped
<1> HIDE DEF new
<1>4. none \o new = new
  BY <1>3, EmptyCells DEF none
<1> QED BY <1>2, <1>3, <1>4 DEF new

LEMMA ListMessageInv ==
    ASSUME Inv, NEW t \in Texts, ListMessage(colorLabel, t)
    PROVE  Inv'
<1> DEFINE p == clearStatus(cio)
<1> DEFINE q == printText(p, colorLabel, t)
<1> DEFINE r == printNewline(q, NoColor)
<1> DEFINE cells == Colored(colorLabel, t)
<1>1. /\ mode = "shell" /\ mode' = "shell" /\ cio' = r
      /\ log' = log \o Wrapped(cells) /\ frame' = <<>> /\ cursor' = <<0, 0>>
  BY DEF ListMessage, Keep
<1>2. log \in Seq(Rows) /\ LinedBy(p, log, <<>>) /\ Plain(p)
  BY <1>1, InvTyped, StatusCleared
<1> HIDE DEF p
<1>3. LinedBy(q, log, cells) /\ Plain(q) /\ cells \in Seq(Cells)
  BY <1>2, TextsTyped, ColorsTyped, Backgrounds, LineWhole
<1> HIDE DEF q, cells
<1>4. /\ Sound(r) /\ Fed(r.vt, log \o Wrapped(cells)) /\ r.vt.pen = Meant(NoColor)
      /\ log \o Wrapped(cells) \in Seq(Rows) /\ Plain(r)
  BY <1>2, <1>3, ColorsTyped, Backgrounds, LineEnds
<1> HIDE DEF r
<1> QED BY <1>1, <1>4, MeantNormal, AfterPrinting

LEMMA ErrorInv ==
    ASSUME Inv, NEW t \in Texts, Error(t)
    PROVE  Inv'
<1> DEFINE p == clearStatus(cio)
<1> DEFINE q == printText(p, colorError, t)
<1> DEFINE r == printNewline(q, colorError)
<1> DEFINE s == setColor(r, NoColor)
<1> DEFINE cells == Colored(colorError, t)
<1> DEFINE all == log \o Wrapped(cells)
<1>1. /\ mode = "shell" /\ mode' = "shell" /\ cio' = s
      /\ log' = all /\ frame' = <<>> /\ cursor' = <<0, 0>>
  BY DEF Error, Keep
<1>2. log \in Seq(Rows) /\ LinedBy(p, log, <<>>) /\ Plain(p)
  BY <1>1, InvTyped, StatusCleared
<1> HIDE DEF p
<1>3. LinedBy(q, log, cells) /\ Plain(q) /\ cells \in Seq(Cells)
  BY <1>2, TextsTyped, ColorsTyped, Backgrounds, LineWhole
<1> HIDE DEF q, cells
<1>4. Sound(r) /\ Fed(r.vt, all) /\ all \in Seq(Rows) /\ Plain(r)
  BY <1>2, <1>3, ColorsTyped, Backgrounds, LineEnds
<1> HIDE DEF r, all
<1>5. /\ s \in Program /\ PenKnown(s) /\ s.vt.pen = colorNormal
      /\ s.vt.rows = r.vt.rows /\ s.vt.x = r.vt.x /\ s.vt.y = r.vt.y /\ Kept(r, s)
  BY <1>4, SetColor, ColorsTyped, MeantNormal DEF Sound
<1> HIDE DEF s
<1>6. Sound(s) /\ Plain(s)
  BY <1>4, <1>5 DEF Sound, Plain, Kept, OnScreen, FirstRow
<1>7. Fed(s.vt, all)
  BY <1>4, <1>5, ProgramTyped DEF Fed, OnScreen, FirstRow, Shows
<1> QED BY <1>1, <1>4, <1>5, <1>6, <1>7, AfterPrinting

\* Writing that does not go through print.
LEMMA LinePut ==
    ASSUME NEW stay \in Seq(Rows), NEW p, LinedBy(p, stay, <<>>), p.vt.pen = colorNormal,
           NEW t \in Textual
    PROVE  LET v == Put(p.vt, t)
           IN  /\ Lined(v, stay, Colored(colorNormal, t)) /\ Colored(colorNormal, t) \in Seq(Cells)
               /\ v.pen = colorNormal /\ v.visible = p.vt.visible /\ v \in VTs
<1> DEFINE none == <<>>
<1> DEFINE new == Colored(colorNormal, t)
<1> DEFINE u == p.vt
<1>1. none \in Seq(Cells) /\ Lined(u, stay, none) /\ u \in VTs /\ u.pen = Meant(colorNormal)
  BY EmptyCells, MeantNormal, ProgramTyped DEF LinedBy
<1> HIDE DEF none, u
<1>2. Lined(Put(u, t), stay, none \o Colored(colorNormal, t))
  BY <1>1, PutLined, ColorsTyped, Backgrounds
<1>3. new \in Seq(Cells)
  BY ColoredTyped, ColorsTyped
<1> HIDE DEF new
<1>4. none \o new = new
  BY <1>3, EmptyCells DEF none
<1>5. Put(u, t).pen = u.pen /\ Put(u, t).visible = u.visible /\ Put(u, t) \in VTs
  BY <1>1, PutIs
<1> QED BY <1>1, <1>2, <1>3, <1>4, <1>5, MeantNormal DEF new, u

LEMMA ConfirmInv ==
    ASSUME Inv, NEW t \in Texts, Confirm(t)
    PROVE  Inv'
<1> DEFINE p == clearStatus(cio)
<1> DEFINE v == Put(p.vt, t)
<1> DEFINE w == LineFeed(Return(v))
<1> DEFINE q == [p EXCEPT !.vt = w]
<1> DEFINE cells == Colored(colorNormal, t)
<1> DEFINE all == log \o Wrapped(cells)
<1>1. log \in Seq(Rows) /\ LinedBy(p, log, <<>>) /\ Plain(p) /\ Sound(p) /\ p.vt.pen = colorNormal
  BY InvTyped, StatusCleared DEF Confirm
<1>2. /\ mode' = "shell" /\ cio' = [p EXCEPT !.vt = LineFeed(Return(Put(@, t)))]
      /\ log' = all /\ frame' = <<>> /\ cursor' = <<0, 0>>
  BY DEF Confirm, Keep
<1> HIDE DEF p
<1>3. cio' = q
  BY <1>1, <1>2 DEF Sound, Program
<1>4. /\ Lined(v, log, cells) /\ cells \in Seq(Cells)
      /\ v.pen = colorNormal /\ v.visible = p.vt.visible
  BY <1>1, LinePut, TextsTyped
<1> HIDE DEF v, cells
<1>5. Fed(w, all) /\ w.pen = colorNormal /\ w.visible = p.vt.visible /\ all \in Seq(Rows)
  BY <1>1, <1>4, FeedLined, StayTyped
<1> HIDE DEF w, all
<1>6. /\ q \in Program /\ q.vt = w /\ q.lastColor = p.lastColor
      /\ q.buf = p.buf /\ q.haveStatus = p.haveStatus /\ q.hideCursor = p.hideCursor
  BY <1>1, <1>5 DEF Sound, Program, Fed
<1> HIDE DEF q
<1>7. Sound(q) /\ Plain(q)
  BY <1>1, <1>5, <1>6 DEF Sound, PenKnown, Fed, Plain
<1> QED BY <1>2, <1>3, <1>5, <1>6, <1>7, AfterPrinting

LEMMA StatusEmptyInv ==
    ASSUME Inv, StatusEmpty
    PROVE  Inv'
<1>1. /\ mode = "shell" /\ mode' = "shell" /\ cio' = clearStatus(cio) /\ log' = log
      /\ frame' = <<>> /\ cursor' = <<0, 0>>
  BY DEF StatusEmpty, Show
<1> QED BY <1>1, InvTyped, StatusCleared, AfterPrinting

LEMMA StatusInv ==
    ASSUME Inv, NEW t \in Texts, Status(t)
    PROVE  Inv'
<1> DEFINE p == clearStatus(cio)
<1> DEFINE v == Put(p.vt, t)
<1> DEFINE q == [p EXCEPT !.vt = v, !.haveStatus = TRUE]
<1> DEFINE cells == Colored(colorNormal, t)
<1>1. log \in Seq(Rows) /\ LinedBy(p, log, <<>>) /\ Plain(p) /\ Sound(p) /\ p.vt.pen = colorNormal
  BY InvTyped, StatusCleared DEF Status
<1>2. /\ mode' = "shell" /\ cio' = [p EXCEPT !.vt = Put(@, t), !.haveStatus = TRUE]
      /\ log' = log /\ frame' = Wrapped(cells) /\ cursor' = <<Len(t), 0>> /\ Len(t) < Width
  BY DEF Status, Show
<1> HIDE DEF p
<1>3. cio' = q
  BY <1>1, <1>2 DEF Sound, Program
<1>4. /\ Lined(v, log, cells) /\ cells \in Seq(Cells)
      /\ v.pen = colorNormal /\ v.visible = p.vt.visible /\ v \in VTs
  BY <1>1, LinePut, TextsTyped
<1>5. Len(cells) = Len(t) /\ Len(t) \in Nat /\ RowsDown(Len(t)) = 0 /\ Len(t) - 0 * Width = Len(t)
  BY <1>2, ColoredTyped, ColorsTyped, TextsTyped, RowsDownIs, ScreenAssumption
<1> HIDE DEF v, cells
<1>6. OnScreen(v)
  BY <1>1, <1>4, LinedOnScreen
<1>7. /\ v.x = Len(t) /\ v.y = Len(log) + 1 /\ Len(v.rows) \in Nat /\ Len(log) \in Nat
      /\ Len(v.rows) <= Len(log) + Height /\ LineOn(v, log, cells)
      /\ Len(log) + 1 + 0 <= Len(v.rows)
  <2>1. Len(v.rows) \in Nat /\ Len(log) \in Nat
    BY <1>1, <1>4, VTTyped
  <2> QED BY <1>4, <1>5, <2>1, ScreenAssumption DEF Lined
<1>8. Shows(v, log, Wrapped(cells)) /\ Wrapped(cells) \in Seq(Rows) /\ Len(Wrapped(cells)) = 1
  <2>1. RowsDown(Len(cells)) = 0
    BY <1>5
  <2>2. Wrapped(cells) \in Seq(Rows) /\ Len(Wrapped(cells)) = 1
    <3>1. Wrapped(cells) \in Seq(Rows) /\ Len(Wrapped(cells)) = RowsDown(Len(cells)) + 1
      BY <1>4, WrappedIs
    <3> QED BY <2>1, <3>1
  <2>3. Len(log) + 1 + RowsDown(Len(cells)) <= Len(v.rows)
    BY <1>7, <2>1
  <2>4. log \in Seq(Rows) /\ cells \in Seq(Cells) /\ v \in VTs /\ LineOn(v, log, cells)
    BY <1>1, <1>4, <1>7
  <2>5. Shows(v, log, Wrapped(cells))
    BY <2>3, <2>4, ShowsWrapped
  <2> QED BY <2>2, <2>5
<1>9. /\ q \in Program /\ q.vt = v /\ q.lastColor = p.lastColor
      /\ q.buf = p.buf /\ q.haveStatus = TRUE /\ q.hideCursor = p.hideCursor
  BY <1>1, <1>4 DEF Sound, Program
<1> HIDE DEF q
<1>10. Sound(q)
  BY <1>1, <1>4, <1>6, <1>9 DEF Sound, PenKnown
<1>11. AtShell(q, log, Wrapped(cells))
  BY <1>1, <1>4, <1>7, <1>8, <1>9, <1>10 DEF AtShell, Plain
<1>12. Column(v) = Len(t) /\ v.y - Len(log) - 1 = 0
  BY <1>2, <1>5, <1>7, ScreenAssumption DEF Column, AtMost
<1>13. v.visible
  BY <1>1, <1>4 DEF Sound, Plain
<1>14. <<Len(t), 0>> # <<>> /\ <<Len(t), 0>> \in Nat \X Nat
  BY <1>5
<1>15. CursorShown'
  BY <1>2, <1>3, <1>9, <1>12, <1>13, <1>14 DEF CursorShown, vt
<1> QED BY <1>1, <1>2, <1>3, <1>8, <1>9, <1>11, <1>14, <1>15 DEF Inv, vt, Modes

LEMMA DisplayInv ==
    ASSUME Inv, NEW t \in Texts, NEW beside \in BOOLEAN, Display(t, beside)
    PROVE  Inv'
<1> DEFINE label == printText(cio, colorLabel, Label)
<1> DEFINE cl == Colored(colorLabel, Label)
<1>1. mode = "display" /\ mode' = "shell" /\ frame' = <<>> /\ cursor' = <<0, 0>>
  BY DEF Display, Keep
<1>2. log \in Seq(Rows) /\ Clean(cio, log)
  BY <1>1 DEF Inv
<1>3. Plain(cio) /\ LinedBy(cio, log, <<>>)
  BY <1>2, CleanFed, LineStarts
<1>4. LinedBy(label, log, cl) /\ Plain(label) /\ cl \in Seq(Cells)
  BY <1>2, <1>3, ColorsTyped, Backgrounds, TextBounds, LineWhole
<1>5. t \in Textual /\ NoColor \in Colors /\ Meant(NoColor).bg = colorNormal.bg /\ Meant(NoColor) = colorNormal
  BY TextsTyped, ColorsTyped, Backgrounds, MeantNormal
<1>6. CASE beside
  <2> DEFINE two == Spaces(2)
  <2> DEFINE p == printText(label, NoColor, two)
  <2> DEFINE q == printText(p, NoColor, t)
  <2> DEFINE r == printNewline(q, NoColor)
  <2> DEFINE cs == Colored(NoColor, two)
  <2> DEFINE ct == Colored(NoColor, t)
  <2>1. cio' = r /\ log' = log \o Wrapped(cl \o Colored(NoColor, two \o t))
    BY <1>6 DEF Display, Keep
  <2>2. two \in Textual
    BY SpacesTyped
  <2> HIDE DEF label, cl, two
  <2>3. LinedBy(p, log, cl \o cs) /\ Plain(p) /\ cl \o cs \in Seq(Cells)
    BY <1>2, <1>4, <1>5, <2>2, LineGoesOn
  <2> HIDE DEF p
  <2>4. cs \in Seq(Cells) /\ ct \in Seq(Cells) /\ Colored(NoColor, two \o t) = cs \o ct
    BY <1>5, <2>2, ColoredTyped, ColoredConcat
  <2> DEFINE a == cl \o cs
  <2>5. LinedBy(q, log, a \o ct) /\ Plain(q) /\ a \o ct \in Seq(Cells)
    <3> HIDE DEF a, cs
    <3> QED BY <1>2, <1>5, <2>3, LineGoesOn DEF a
  <2> HIDE DEF q, cs, ct
  <2>6. a \o ct = cl \o Colored(NoColor, two \o t)
    BY <1>4, <2>4, ConcatAssociative
  <2> DEFINE cells == a \o ct
  <2>7. LinedBy(q, log, cells) /\ cells \in Seq(Cells) /\ log' = log \o Wrapped(cells)
    BY <2>1, <2>5, <2>6
  <2> HIDE DEF cells
  <2>8. /\ Sound(r) /\ Fed(r.vt, log') /\ log' \in Seq(Rows) /\ Plain(r) /\ r.vt.pen = colorNormal
    BY <1>2, <1>5, <2>5, <2>7, LineEnds
  <2> HIDE DEF r
  <2> QED BY <1>1, <2>1, <2>8, AfterPrinting
<1>7. CASE ~beside
  <2> DEFINE four == Spaces(4)
  <2> DEFINE n == printNewline(label, NoColor)
  <2> DEFINE p == printText(n, NoColor, four)
  <2> DEFINE q == printText(p, NoColor, t)
  <2> DEFINE r == printNewline(q, NoColor)
  <2> DEFINE w == Wrapped(cl)
  <2> DEFINE mid == log \o w
  <2> DEFINE cs == Colored(NoColor, four)
  <2> DEFINE cells == Colored(NoColor, four \o t)
  <2>1. cio' = r /\ log' = log \o (w \o Wrapped(cells))
    BY <1>7 DEF Display, Keep
  <2>2. four \in Textual
    BY SpacesTyped
  <2> HIDE DEF label, cl, four
  <2>3. Sound(n) /\ Fed(n.vt, mid) /\ mid \in Seq(Rows) /\ Plain(n)
    BY <1>2, <1>4, <1>5, LineEnds
  <2>4. w \in Seq(Rows) /\ Wrapped(cells) \in Seq(Rows) /\ cells \in Seq(Cells)
    <3>1. four \o t \in Textual
      BY <1>5, <2>2, TextConcat
    <3>2. cells \in Seq(Cells)
      BY <1>5, <3>1, ColoredTyped
    <3> HIDE DEF cells
    <3> QED BY <1>4, <3>2, WrappedIs
  <2>5. log' = mid \o Wrapped(cells)
    <3> HIDE DEF w, cells
    <3> QED BY <1>2, <2>1, <2>4, ConcatAssociative
  <2> HIDE DEF n, w, mid
  <2>6. LinedBy(n, mid, <<>>)
    BY <2>3, LineStarts
  <2>7. LinedBy(p, mid, cs) /\ Plain(p) /\ cs \in Seq(Cells)
    BY <1>5, <2>2, <2>3, <2>6, LineWhole
  <2> HIDE DEF p
  <2>8. cells = cs \o Colored(NoColor, t)
    BY <1>5, <2>2, ColoredConcat
  <2>9. LinedBy(q, mid, cells) /\ Plain(q)
    <3> HIDE DEF cs, cells
    <3> QED BY <1>5, <2>3, <2>7, <2>8, LineGoesOn
  <2> HIDE DEF q, cells
  <2>10. /\ Sound(r) /\ Fed(r.vt, log') /\ log' \in Seq(Rows) /\ Plain(r) /\ r.vt.pen = colorNormal
    BY <1>5, <2>3, <2>4, <2>5, <2>9, LineEnds
  <2> HIDE DEF r
  <2> QED BY <1>1, <2>1, <2>10, AfterPrinting
<1> QED BY <1>6, <1>7

\* A line that was ended, and after which the terminal is cleared.
LEMMA HelpInv ==
    ASSUME Inv, NEW t \in Texts, Help(t)
    PROVE  Inv'
<1> DEFINE line == t \o Spaces(Width - 1 - Len(t))
<1> DEFINE l == leave(cio)
<1> DEFINE p == printText(l, colorHelp, line)
<1> DEFINE q == printNewline(p, NoColor)
<1> DEFINE cells == Colored(colorHelp, line)
<1> DEFINE all == log \o Wrapped(cells)
<1> DEFINE none == <<>>
<1>1. log \in Seq(Rows) /\ frame \in Seq(Rows) /\ Shows(cio.vt, log, frame)
  BY InvTyped
<1>2. Synced(cio, Len(log))
  BY DEF Inv, Help, Drawn, Chosen
<1>3. Clean(l, log)
  BY <1>1, <1>2, LeaveIs
<1>4. /\ mode' = "field" /\ cio' = leave(cleanTerminal(q)) /\ log' = all
      /\ frame' = <<>> /\ cursor' = <<0, 0>> /\ Len(t) < Width
  BY DEF Help, Keep
<1> HIDE DEF l
<1>5. line \in Textual /\ Len(line) = Width - 1
  <2> DEFINE n == Width - 1 - Len(t)
  <2>1. n \in Nat /\ Len(t) \in Nat /\ t \in Textual
    BY <1>4, TextsTyped, ScreenAssumption
  <2>2. Spaces(n) \in Textual /\ Len(Spaces(n)) = n
    <3> HIDE DEF n
    <3> QED BY <2>1, SpacesTyped
  <2> HIDE DEF n
  <2>3. t \o Spaces(n) \in Textual /\ Len(t \o Spaces(n)) = Len(t) + n
    BY <2>1, <2>2, TextConcat
  <2> QED BY <2>1, <2>3, ScreenAssumption DEF n
<1> HIDE DEF line
<1>6. Plain(l) /\ LinedBy(l, log, none) /\ none \in Seq(Cells)
  BY <1>1, <1>3, CleanFed, LineStarts, EmptyCells
<1>7. l.vt.x + Len(line) <= Width
  <2>1. l.vt.x = 0
    BY <1>1, <1>3, CleanFed DEF Fed
  <2> QED BY <1>5, <2>1, ScreenAssumption
<1> HIDE DEF none
<1>8. LinedBy(p, log, none \o Colored(colorHelp, line))
  BY <1>1, <1>5, <1>6, <1>7, ColorsTyped, LineGoesOn
<1>9. cells \in Seq(Cells)
  BY <1>5, ColorsTyped, ColoredTyped
<1> HIDE DEF p
<1>10. LinedBy(p, log, cells)
  <2>1. none \o cells = cells
    <3> HIDE DEF cells
    <3> QED BY <1>9, EmptyCells DEF none
  <2> QED BY <1>8, <2>1
<1> HIDE DEF cells
<1>11. Sound(q) /\ Fed(q.vt, all) /\ all \in Seq(Rows)
  BY <1>1, <1>9, <1>10, ColorsTyped, Backgrounds, LineEnds
<1> HIDE DEF q, all
<1>12. Clean(leave(cleanTerminal(q)), all)
  BY <1>11, FedClean
<1>13. mode' \in (Modes \ {"choices"}) \cup {"shell", "field", "display"}
  BY <1>4
<1> QED BY <1>4, <1>11, <1>12, <1>13, AfterCleaning

LEMMA EnterInv ==
    ASSUME Inv, NEW t \in Texts, Enter(t)
    PROVE  Inv'
<1> DEFINE one == Spaces(1)
<1> DEFINE c == clearToEOL(move(cio, TextX, 0))
<1> DEFINE p == printText(c, NoColor, t)
<1> DEFINE q == printNewline(p, NoColor)
<1> DEFINE cp == Colored(colorLabel, Prompt)
<1> DEFINE cs == Colored(NoColor, one)
<1> DEFINE ct == Colored(NoColor, t)
<1> DEFINE a == cp \o cs
<1> DEFINE cells == a \o ct
<1> DEFINE all == log \o Wrapped(cells)
<1>1. /\ mode = "command" /\ frame # <<>> /\ mode' = "shell" /\ frame' = <<>> /\ cursor' = <<0, 0>>
      /\ cio' = leave(cleanTerminal(q)) /\ log' = log \o Wrapped(cp \o Colored(NoColor, one \o t))
  BY DEF Enter, Keep
<1>2. log \in Seq(Rows) /\ Drawn(cio, log) /\ Prompted(cio.buf)
  BY <1>1 DEF Inv, Modes
<1>3. LinedBy(c, log, a) /\ a \in Seq(Cells)
  BY <1>2, PromptLined
<1>4. /\ t \in Textual /\ one \in Textual /\ Prompt \in Textual
      /\ NoColor \in Colors /\ colorLabel \in Colors /\ Meant(NoColor).bg = colorNormal.bg
  BY TextsTyped, SpacesTyped, TextBounds, ColorsTyped, Backgrounds
<1> HIDE DEF c, one
<1>5. cp \in Seq(Cells) /\ cs \in Seq(Cells) /\ ct \in Seq(Cells) /\ Colored(NoColor, one \o t) = cs \o ct
  BY <1>4, ColoredTyped, ColoredConcat
<1>6. LinedBy(p, log, cells) /\ cells \in Seq(Cells)
  <2> HIDE DEF a, cp, cs
  <2> QED BY <1>2, <1>3, <1>4, LineGoesOn
<1> HIDE DEF p, cp, cs, ct
<1>7. cells = cp \o Colored(NoColor, one \o t)
  BY <1>5, ConcatAssociative
<1> HIDE DEF a, cells
<1>8. log' = all
  BY <1>1, <1>7
<1>9. Sound(q) /\ Fed(q.vt, all) /\ all \in Seq(Rows)
  BY <1>2, <1>4, <1>6, LineEnds
<1> HIDE DEF q, all
<1>10. Clean(leave(cleanTerminal(q)), all)
  BY <1>9, FedClean
<1>11. mode' \in (Modes \ {"choices"}) \cup {"shell", "field", "display"}
  BY <1>1
<1> QED BY <1>1, <1>8, <1>9, <1>10, <1>11, AfterCleaning

-----------------------------------------------------------------------------
(* The theorems.                                                           *)

LEMMA NextInv ==
    ASSUME Inv, [Next]_vars
    PROVE  Inv'
<1>1. ASSUME NEW m \in Modes, Begin(m)
      PROVE  Inv'
  BY <1>1, BeginInv
<1>2. ASSUME NEW sel \in DOMAIN Offered, BeginChoices(sel)
      PROVE  Inv'
  BY <1>2, BeginChoicesInv
<1>3. ASSUME NEW old \in DOMAIN Offered, NEW new \in DOMAIN Offered, Choose(old, new)
      PROVE  Inv'
  BY <1>3, ChooseInv
<1>4. ASSUME NEW p \in Pieces, NEW at \in 0 .. Width, DrawCommand(p, at) \/ DrawOneline(p, at)
      PROVE  Inv'
  BY <1>4, DrawCommandInv, DrawOnelineInv
<1>5. ASSUME NEW ps \in Values, NEW y \in 1 .. MaxLines, DrawMultiline(ps, y)
      PROVE  Inv'
  BY <1>5, DrawMultilineInv
<1>6. CASE Leave \/ StatusEmpty
  BY <1>6, LeaveInv, StatusEmptyInv
<1>7. ASSUME NEW t \in Texts, Help(t) \/ Enter(t)
      PROVE  Inv'
  BY <1>7, HelpInv, EnterInv
<1>8. ASSUME NEW t \in Texts, Status(t) \/ Error(t) \/ Confirm(t) \/ ListMessage(colorLabel, t)
      PROVE  Inv'
  BY <1>8, StatusInv, ErrorInv, ConfirmInv, ListMessageInv
<1>9. ASSUME NEW t \in Texts, NEW beside \in BOOLEAN, Display(t, beside)
      PROVE  Inv'
  BY <1>9, DisplayInv
<1>10. CASE UNCHANGED vars
  BY <1>10 DEF vars, vt, Inv, CursorShown
<1> QED BY <1>1, <1>2, <1>3, <1>4, <1>5, <1>6, <1>7, <1>8, <1>9, <1>10 DEF Next

\* The conjuncts of the invariant that the properties are made of, in every mode.
LEMMA InvSound ==
    ASSUME Inv
    PROVE  /\ Sound(cio)
           /\ cio.hideCursor => mode = "choices"
           /\ cio.haveStatus => mode = "shell"
           /\ cio.buf # <<>> => mode \in Modes \ {"choices"}
<1>1. CASE mode = "shell"
  BY <1>1 DEF Inv, AtShell
<1>2. CASE mode \in {"field", "display"}
  <2>1. Clean(cio, log)
    BY <1>2 DEF Inv
  <2> QED BY <2>1 DEF Clean, Synced
<1>3. CASE mode \in Modes \ {"choices"}
  <2>1. Drawn(cio, log)
    BY <1>3 DEF Inv
  <2> QED BY <1>3, <2>1 DEF Drawn, Synced
<1>4. CASE mode = "choices"
  <2>1. Chosen(cio, log, frame)
    BY <1>4 DEF Inv
  <2> QED BY <1>4, <2>1 DEF Chosen, Synced
<1>5. mode \in Modes \cup {"shell", "field", "display"}
  BY DEF Inv
<1> QED BY <1>1, <1>2, <1>3, <1>4, <1>5

LEMMA InvTypeOK ==
    ASSUME Inv
    PROVE  TypeOK
<1>1. cio \in Program /\ OnScreen(cio.vt)
  BY InvSound DEF Sound
<1>2. /\ vt.y \in FirstRow(vt) .. Len(vt.rows) /\ vt.x \in 0 .. Width
  BY <1>1 DEF OnScreen, vt
<1>3. /\ frame \in Seq(Rows) /\ log \in Seq(Rows)
      /\ mode \in Modes \cup {"shell", "field", "display"}
      /\ cursor = <<>> \/ cursor \in Nat \X Nat
  BY DEF Inv
<1> QED BY <1>1, <1>2, <1>3, InvSound DEF TypeOK

LEMMA InvScreenShown ==
    ASSUME Inv
    PROVE  ScreenShown
<1>1. log \in Seq(Rows) /\ frame \in Seq(Rows) /\ Shows(vt, log, frame)
  BY DEF Inv
<1>2. vt.rows \in Seq(Rows) /\ DOMAIN vt.rows = 1 .. Len(vt.rows) /\ Len(vt.rows) \in Nat
  BY InvSound, ProgramTyped, VTTyped DEF Sound, vt
<1>3. Len(log) \in Nat /\ Len(frame) \in Nat /\ Len(log) <= Len(vt.rows)
  BY <1>1, <1>2 DEF Shows
<1> DEFINE rows == vt.rows
<1> HIDE DEF rows
<1>4. PrintedStays
  <2> DEFINE above == SubSeq(rows, 1, Len(log))
  <2>1. above \in Seq(Rows) /\ Len(above) = Len(log) /\ \A r \in 1 .. Len(log) : above[r] = rows[r]
    BY <1>2, <1>3 DEF rows
  <2> HIDE DEF above
  <2>2. \A r \in 1 .. Len(log) : rows[r] = log[r]
    BY <1>1, <1>2, <1>3 DEF Shows, RowAt, rows
  <2>3. above = log
    BY <1>1, <2>1, <2>2, SeqEqual
  <2> QED BY <2>3 DEF PrintedStays, above, rows
<1>5. FrameShown
  <2> SUFFICES ASSUME NEW y \in Len(log) + 1 .. Len(rows)
               PROVE  rows[y] = IF y - Len(log) \in DOMAIN frame THEN frame[y - Len(log)]
                                ELSE BlankRow(colorNormal)
    BY DEF FrameShown, rows
  <2>1. y \in 1 .. Len(rows) /\ ~(y <= Len(log))
    BY <1>2, <1>3 DEF rows
  <2>2. rows[y] = RowAt(log, frame, y)
    BY <1>1, <1>2, <2>1 DEF Shows, rows
  <2>3. y - Len(log) \in DOMAIN frame <=> y <= Len(log) + Len(frame)
    BY <1>1, <1>3, <2>1
  <2> QED BY <2>1, <2>2, <2>3 DEF RowAt
<1> QED BY <1>4, <1>5 DEF ScreenShown

\* The inductive invariant holds in every state a program can reach, for any
\* terminal, texts and choices: what the variables of package cio say of the
\* screen is what the terminal shows.
THEOREM Invariance == Spec => []Inv
<1>1. Init => Inv
  BY InitInv
<1>2. Inv /\ [Next]_vars => Inv'
  BY NextInv
<1> QED BY <1>1, <1>2, PTL DEF Spec

\* The type invariant of Terminal: in particular the cursor never leaves the
\* screen, and a status, a hidden cursor and a painted buffer are only about in
\* the modes whose end removes them (ansi.go, screenbuf.go).
THEOREM TypeCorrect == Spec => []TypeOK
<1>1. Inv => TypeOK
  BY InvTypeOK
<1> QED BY <1>1, Invariance, PTL

\* However little paintBuf writes to make one frame of the one before
\* (screenbuf.go:60-122), the screen shows the frame and nothing else below what
\* was printed, and all of that stays: nothing is painted over it, and no part of
\* a frame, of a help line or of a status (ansi.go:106-113) is left among it.
THEOREM ScreenIsShown == Spec => []ScreenShown
<1>1. Inv => ScreenShown
  BY InvScreenShown
<1> QED BY <1>1, Invariance, PTL

\* The cursor stands where the next character typed will go, through all the
\* moves that count from where the program believes it to be (ansi.go:120-132),
\* and is hidden only while a choice is selected.
THEOREM CursorIsShown == Spec => []CursorShown
<1>1. Inv => CursorShown
  BY DEF Inv
<1> QED BY <1>1, Invariance, PTL

=============================================================================
