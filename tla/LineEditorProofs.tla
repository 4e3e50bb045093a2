--------------------------- MODULE LineEditorProofs ---------------------------
(***************************************************************************)
(* The line editors for any text, choices and widths, and any number of    *)
(* keys and command lines: what was entered at the command line stays in   *)
(* the history, and an edited field is known to have changed; the state    *)
(* keeps its type, and the selection of a field that runs forwards lies in *)
(* its text, so that only one that runs backwards can stop the program:    *)
(* the last two for choices that autocomplete can cut to what they have in *)
(* common.                                                                 *)
(***************************************************************************)
EXTENDS LineEditor, SequenceTheorems, WellFoundedInduction, TLAPS

EditorModes == FieldModes \cup {"choices"}

-----------------------------------------------------------------------------
(* Changes are noticed.                                                    *)

\* The value of a field differs from the initial one only when that was marked,
\* and the command line, which marks nothing, ends with none of the results
\* that a field is left with.
ChangedInv ==
    /\ ChangedIfDifferent
    /\ mode \in {"shell", "command"} => result = "none"

\* What a key may do to a field: leave its value alone, or mark it; and the modes
\* it may lead to.
Marked == (UNCHANGED value /\ changed' = changed) \/ changed'

Kept == mode' = mode /\ result' = result

LEMMA EditedMarks ==
    ASSUME NEW v, Edited(v), mode # "command"
    PROVE  changed'
BY Zenon DEF Edited

LEMMA MovingMarks ==
    ASSUME Moved
    PROVE  Kept /\ Marked
BY DEF Moved, Remain, Kept, Marked

LEMMA EditingMarks ==
    ASSUME Remain, mode # "command",
           (\E v : Edited(v)) \/ UNCHANGED <<value, changed>>
    PROVE  Kept /\ Marked
<1>1. CASE \E v : Edited(v)
  BY <1>1, EditedMarks DEF Remain, Kept, Marked
<1>2. CASE UNCHANGED <<value, changed>>
  BY <1>2 DEF Remain, Kept, Marked
<1> QED BY <1>1, <1>2

\* The outcomes of a key in the editing of a field.
Staying == Kept /\ Marked
Turning == mode \in EditorModes /\ mode' \in FieldModes /\ result' = result /\ Marked
Ending  == mode \in EditorModes /\ mode' = "done" /\ UNCHANGED <<value, changed>>

LEMMA TypingTurns ==
    ASSUME NEW v, NEW s, NEW e, NEW ch, TypeOneline(v, s, e, ch), mode \in EditorModes
    PROVE  Turning
<1>1. mode # "command" /\ changed'
  BY EditedMarks DEF TypeOneline, EditorModes, FieldModes
<1> QED BY <1>1 DEF TypeOneline, Turning, Marked, FieldModes

LEMMA NewlineTurns ==
    ASSUME InsertNewline, mode \in FieldModes
    PROVE  Turning
<1>1. mode # "command" /\ changed'
  BY EditedMarks DEF InsertNewline, FieldModes
<1> QED BY <1>1 DEF InsertNewline, Turning, Marked, FieldModes, EditorModes

LEMMA FinishEnds ==
    ASSUME NEW r, Finish(r), mode \in EditorModes
    PROVE  Ending
BY DEF Finish, Ending

LEMMA FieldKey ==
    ASSUME Key, mode # "command"
    PROVE  Staying \/ Turning \/ Ending
<1>1. CASE Home \/ ShiftHome \/ End \/ ShiftEnd \/ Left \/ ShiftLeft \/ Right \/ ShiftRight
           \/ Down \/ ShiftDown \/ Up \/ ShiftUp \/ Redraw
  <2>1. Moved
    BY <1>1 DEF Home, ShiftHome, End, ShiftEnd, Left, ShiftLeft, Right, ShiftRight,
                Down, ShiftDown, Up, ShiftUp, Redraw
  <2> QED BY <2>1, MovingMarks DEF Staying
<1>2. CASE Delete \/ Backspace \/ KillLine \/ KillAll \/ Choose
           \/ \E ch \in Typed \cup {Blank} : Type(ch)
  <2>1. Remain
    BY <1>2 DEF Delete, Backspace, KillLine, KillAll, Choose, Type
  <2>2. (\E v : Edited(v)) \/ UNCHANGED <<value, changed>>
    BY <1>2, Zenon DEF Delete, Backspace, KillLine, KillAll, Choose, Type
  <2> QED BY <2>1, <2>2, EditingMarks DEF Staying
<1>3. CASE \E ch \in Typed \cup {Blank} : TypeHere(ch) \/ TypeInsteadOfChoice(ch)
  BY <1>3, TypingTurns DEF TypeHere, TypeInsteadOfChoice, In, EditorModes, FieldModes
<1>4. CASE EnterOneline \/ EnterMultiline
  <2>1. mode \in FieldModes
    BY <1>4 DEF EnterOneline, EnterMultiline, In, FieldModes
  <2>2. InsertNewline \/ Finish("next")
    BY <1>4 DEF EnterOneline, EnterMultiline
  <2> QED BY <2>1, <2>2, NewlineTurns, FinishEnds DEF EditorModes
<1>5. CASE Leave
  BY <1>5, FinishEnds DEF Leave, In, EditorModes
<1>6. ASSUME EnterCommand \/ Interrupt \/ RecallPrevious \/ RecallNext PROVE FALSE
  BY <1>6 DEF EnterCommand, Interrupt, RecallPrevious, RecallNext, In
<1> QED BY <1>1, <1>2, <1>3, <1>4, <1>5, <1>6 DEF Key

\* At the command line a key leaves the result alone or is Ctrl-C.
LEMMA CommandKey ==
    ASSUME Key, mode = "command"
    PROVE  \/ mode' \in {"shell", "command"} /\ result' = result
           \/ mode' = "done" /\ result' = "interrupted"
<1>1. CASE Home \/ ShiftHome \/ End \/ ShiftEnd \/ Left \/ ShiftLeft \/ Right \/ ShiftRight
  <2>1. Moved
    BY <1>1 DEF Home, ShiftHome, End, ShiftEnd, Left, ShiftLeft, Right, ShiftRight
  <2> QED BY <2>1 DEF Moved, Remain
<1>2. CASE Delete \/ Backspace \/ KillLine \/ KillAll
           \/ \E ch \in Typed \cup {Blank} : Type(ch)
  <2>1. Remain
    BY <1>2 DEF Delete, Backspace, KillLine, KillAll, Type
  <2> QED BY <2>1 DEF Remain
<1>3. CASE EnterCommand
  BY <1>3 DEF EnterCommand
<1>4. CASE Interrupt
  BY <1>4 DEF Interrupt, Finish
<1>5. CASE RecallPrevious \/ RecallNext
  BY <1>5 DEF RecallPrevious, RecallNext, Recall
<1>6. ASSUME \/ Down \/ ShiftDown \/ Up \/ ShiftUp \/ Redraw \/ Choose
             \/ EnterOneline \/ EnterMultiline \/ Leave
             \/ \E ch \in Typed \cup {Blank} : TypeHere(ch) \/ TypeInsteadOfChoice(ch)
      PROVE  FALSE
  BY <1>6 DEF Down, ShiftDown, Up, ShiftUp, Redraw, Choose, EnterOneline, EnterMultiline,
              Leave, TypeHere, TypeInsteadOfChoice, In, FieldModes
<1> QED BY <1>1, <1>2, <1>3, <1>4, <1>5, <1>6 DEF Key

LEMMA ChangedStep ==
    ASSUME ChangedInv, [Next]_vars
    PROVE  ChangedInv'
<1>1. CASE KeyStep /\ mode # "command"
  <2>1. initial' = initial
    BY <1>1 DEF KeyStep, field
  <2>2. Staying \/ Turning \/ Ending
    BY <1>1, FieldKey DEF KeyStep
  <2>3. CASE Staying
    BY <2>1, <2>3 DEF Staying, Kept, Marked, ChangedInv, ChangedIfDifferent
  <2>4. CASE Turning
    BY <2>1, <2>4 DEF Turning, Marked, ChangedInv, ChangedIfDifferent, EditorModes, FieldModes
  <2>5. CASE Ending
    BY <2>1, <2>5 DEF Ending, ChangedInv, ChangedIfDifferent, EditorModes, FieldModes
  <2> QED BY <2>2, <2>3, <2>4, <2>5
<1>2. CASE KeyStep /\ mode = "command"
  BY <1>2, CommandKey DEF KeyStep, ChangedInv, ChangedIfDifferent, FieldModes
<1>3. CASE ReadCommand
  BY <1>3 DEF ReadCommand, ChangedInv, ChangedIfDifferent, FieldModes
<1>4. CASE Verbatim \/ UNCHANGED vars
  BY <1>4 DEF Verbatim, vars, field, ChangedInv, ChangedIfDifferent
<1>5. CASE Panic
  BY <1>5 DEF Panic, field, TextModes, FieldModes, ChangedInv, ChangedIfDifferent
<1> QED BY <1>1, <1>2, <1>3, <1>4, <1>5 DEF Next

\* For any choices, widths and keys: a field that comes back with another value
\* than it had comes back as changed.
THEOREM ChangesNoticed == Spec => []ChangedIfDifferent
<1>1. Init => ChangedInv
  BY DEF Init, InitField, InitShell, ChangedInv, ChangedIfDifferent
<1>2. ChangedInv /\ [Next]_vars => ChangedInv'
  BY ChangedStep
<1>3. ChangedInv => ChangedIfDifferent
  BY DEF ChangedInv
<1> QED BY <1>1, <1>2, <1>3, PTL DEF Spec

-----------------------------------------------------------------------------
(* The history is kept.                                                    *)

\* The history is a sequence, of whatever was typed.
HistoryInv == history \in Seq(Range(history))

\* What a step may do to the history: nothing, set the line that is being typed
\* aside, or begin another.
HistoryMoves ==
    \/ history' = history
    \/ mode = "command" /\ history' = [history EXCEPT ![Len(history)] = value]
    \/ history' = Append(history, <<>>)

LEMMA Moves ==
    ASSUME [Next]_vars
    PROVE  HistoryMoves
<1>1. ASSUME Key PROVE HistoryMoves
  <2>1. CASE EnterCommand
    BY <2>1 DEF EnterCommand, In, HistoryMoves
  <2>2. CASE RecallPrevious
    BY <2>2 DEF RecallPrevious, In, HistoryMoves
  <2>3. CASE RecallNext
    BY <2>3 DEF RecallNext, HistoryMoves
  <2>4. CASE EnterOneline \/ EnterMultiline
    BY <2>4 DEF EnterOneline, EnterMultiline, InsertNewline, Finish, prompt, HistoryMoves
  <2>5. CASE Leave \/ Interrupt
    BY <2>5 DEF Leave, Interrupt, Finish, prompt, HistoryMoves
  <2>6. CASE \E ch \in Typed \cup {Blank} : TypeHere(ch) \/ TypeInsteadOfChoice(ch)
    BY <2>6 DEF TypeHere, TypeInsteadOfChoice, TypeOneline, prompt, HistoryMoves
  <2>7. CASE Delete \/ Backspace \/ KillLine \/ KillAll \/ Choose
             \/ \E ch \in Typed \cup {Blank} : Type(ch)
    BY <2>7 DEF Delete, Backspace, KillLine, KillAll, Choose, Type, Remain, prompt, HistoryMoves
  <2>8. CASE Home \/ ShiftHome \/ End \/ ShiftEnd \/ Left \/ ShiftLeft \/ Right
             \/ ShiftRight \/ Down \/ ShiftDown \/ Up \/ ShiftUp \/ Redraw
    BY <2>8 DEF Home, ShiftHome, End, ShiftEnd, Left, ShiftLeft, Right, ShiftRight, Down,
                ShiftDown, Up, ShiftUp, Redraw, Moved, Remain, prompt, HistoryMoves
  <2> QED BY <1>1, <2>1, <2>2, <2>3, <2>4, <2>5, <2>6, <2>7, <2>8 DEF Key
<1>2. CASE KeyStep
  BY <1>1, <1>2 DEF KeyStep
<1>3. CASE ReadCommand
  BY <1>3 DEF ReadCommand, HistoryMoves
<1>4. CASE Verbatim \/ Panic \/ UNCHANGED vars
  BY <1>4 DEF Verbatim, Panic, vars, prompt, HistoryMoves
<1> QED BY <1>2, <1>3, <1>4 DEF Next

\* A sequence is one over its own elements, and stays one over a set that has
\* what is put in.
LEMMA OwnElements ==
    ASSUME NEW S, NEW h \in Seq(S)
    PROVE  h \in Seq(Range(h))
<1>1. \A i \in 1 .. Len(h) : h[i] \in Range(h)
  BY DEF Range
<1> QED BY <1>1, Len(h) \in Nat, h = [i \in 1 .. Len(h) |-> h[i]]

LEMMA ReplacedElement ==
    ASSUME NEW S, NEW h \in Seq(S), NEW i, NEW e \in S
    PROVE  [h EXCEPT ![i] = e] \in Seq(S)
<1>1. h \in [1 .. Len(h) -> S] /\ Len(h) \in Nat
  OBVIOUS
<1>2. [h EXCEPT ![i] = e] \in [1 .. Len(h) -> S]
  BY <1>1, Zenon
<1>3. \A n \in Nat : \A g \in [1 .. n -> S] : g \in Seq(S)
  OBVIOUS
<1> QED BY <1>1, <1>2, <1>3

LEMMA HistoryStep ==
    ASSUME HistoryInv, HistoryMoves
    PROVE  /\ HistoryInv'
           /\ \A i \in 1 .. Len(history) :
                 (i = Len(history) /\ mode = "command") \/ history'[i] = history[i]
<1> DEFINE S == Range(history) \cup {value, <<>>}
<1>1. history \in Seq(S)
  BY DEF HistoryInv
<1>2. CASE history' = history
  BY <1>2 DEF HistoryInv
<1>3. CASE mode = "command" /\ history' = [history EXCEPT ![Len(history)] = value]
  <2>1. history' \in Seq(S)
    BY <1>1, <1>3, ReplacedElement
  <2>2. \A i \in 1 .. Len(history) : i # Len(history) => history'[i] = history[i]
    BY <1>1, <1>3
  <2> QED BY <1>3, <2>1, <2>2, OwnElements DEF HistoryInv
<1>4. CASE history' = Append(history, <<>>)
  <2>1. history' \in Seq(S)
    BY <1>1, <1>4
  <2>2. \A i \in 1 .. Len(history) : history'[i] = history[i]
    BY <1>1, <1>4
  <2> QED BY <2>1, <2>2, OwnElements DEF HistoryInv
<1> QED BY <1>2, <1>3, <1>4 DEF HistoryMoves

\* For any keys and any number of command lines: a line that was entered stays
\* in the history as it was entered.
THEOREM LinesKept == Spec => HistoryKept
<1>1. Init => HistoryInv
  BY DEF Init, HistoryInv
<1>2. HistoryInv /\ [Next]_vars => HistoryInv'
  BY Moves, HistoryStep
<1>3. HistoryInv /\ [Next]_vars =>
        [\A i \in 1 .. Len(history) :
           (i = Len(history) /\ mode = "command") \/ history'[i] = history[i]]_vars
  BY Moves, HistoryStep
<1> QED BY <1>1, <1>2, <1>3, PTL DEF Spec, HistoryKept

-----------------------------------------------------------------------------
(* Numbers and sequences.                                                  *)

HasMin(R, S) == \E x \in S : \A y \in S : ~(<<y, x>> \in R)

LEMMA WellFoundedMin ==
    ASSUME NEW R, NEW A, IsWellFoundedOn(R, A), NEW S, S \subseteq A, S # {}
    PROVE  HasMin(R, S)
BY WFMin DEF HasMin

LEMMA LeastByRelation ==
    ASSUME NEW S \in SUBSET Nat, S # {},
           NEW R, IsWellFoundedOn(R, Nat), \A i, j \in Nat : i < j => <<i, j>> \in R
    PROVE  \E n \in S : \A k \in S : n <= k
<1>1. S \subseteq Nat
  OBVIOUS
<1>2. HasMin(R, S)
  BY <1>1, WellFoundedMin, Zenon
<1>3. PICK n \in S : \A k \in S : ~(<<k, n>> \in R)
  BY <1>2 DEF HasMin
<1>4. \A k \in S : ~(k < n)
  BY <1>1, <1>3, Zenon
<1>5. \A k \in S : n <= k
  BY <1>1, <1>4
<1> QED BY <1>5

\* The least-number principle; what follows by induction is shown by it.
LEMMA Least ==
    ASSUME NEW S \in SUBSET Nat, S # {}
    PROVE  \E n \in S : \A k \in S : n <= k
<1>1. \A i, j \in Nat : i < j => <<i, j>> \in OpToRel(<, Nat)
  BY DEF OpToRel
<1> QED BY LeastByRelation, <1>1, NatLessThanWellFounded, Zenon

LEMMA LeastElement ==
    ASSUME NEW S \in SUBSET Nat, S # {}
    PROVE  Min(S) \in S /\ \A k \in S : Min(S) <= k
BY Least DEF Min

LEMMA GreatestElement ==
    ASSUME NEW n \in Nat, NEW S \in SUBSET (0 .. n), S # {}
    PROVE  Max(S) \in S /\ \A k \in S : Max(S) >= k
<1> DEFINE T == {n - k : k \in S}
<1>0. \A k \in S : n - k \in Nat
  OBVIOUS
<1>1. T \in SUBSET Nat /\ T # {}
  BY <1>0, Zenon
<1>2. \A t \in T : \E m \in S : t = n - m
  OBVIOUS
<1>3. \A k \in S : n - k \in T
  OBVIOUS
<1> HIDE DEF T
<1>4. PICK t \in T : \A u \in T : t <= u
  BY <1>1, Least
<1>5. PICK m \in S : t = n - m
  BY <1>2
<1>6. \A k \in S : m >= k
  BY <1>3, <1>4, <1>5
<1> QED BY <1>6, Zenon DEF Max

LEMMA MinOfTwo ==
    ASSUME NEW a \in Int, NEW b \in Int
    PROVE  Min({a, b}) = IF a <= b THEN a ELSE b
<1> DEFINE m == IF a <= b THEN a ELSE b
<1>1. m \in {a, b} /\ \A k \in {a, b} : m <= k
  OBVIOUS
<1>2. \A x \in {a, b} : (\A k \in {a, b} : x <= k) => x = m
  OBVIOUS
<1> HIDE DEF m
<1>3. Min({a, b}) = m
  BY <1>1, <1>2, Zenon DEF Min
<1> QED BY <1>3 DEF m

LEMMA MaxOfTwo ==
    ASSUME NEW a \in Int, NEW b \in Int
    PROVE  Max({a, b}) = IF a >= b THEN a ELSE b
<1> DEFINE m == IF a >= b THEN a ELSE b
<1>1. m \in {a, b} /\ \A k \in {a, b} : m >= k
  OBVIOUS
<1>2. \A x \in {a, b} : (\A k \in {a, b} : x >= k) => x = m
  OBVIOUS
<1> HIDE DEF m
<1>3. Max({a, b}) = m
  BY <1>1, <1>2, Zenon DEF Max
<1> QED BY <1>3 DEF m

\* The two parts of a sequence.
LEMMA Parts ==
    ASSUME NEW S, NEW s \in Seq(S), NEW n \in 0 .. Len(s)
    PROVE  /\ Before(s, n) \in Seq(S) /\ Len(Before(s, n)) = n
           /\ After(s, n) \in Seq(S) /\ Len(After(s, n)) = Len(s) - n
           /\ \A i \in 1 .. n : Before(s, n)[i] = s[i]
           /\ \A i \in 1 .. Len(s) - n : After(s, n)[i] = s[n + i]
BY DEF Before, After

\* What stands before one offset and after another, with or without a character
\* between.
LEMMA Joined ==
    ASSUME NEW S, NEW s \in Seq(S), NEW m \in 0 .. Len(s), NEW n \in 0 .. Len(s)
    PROVE  /\ Before(s, m) \o After(s, n) \in Seq(S)
           /\ Len(Before(s, m) \o After(s, n)) = m + Len(s) - n
           /\ \A e \in S :
                /\ Before(s, m) \o <<e>> \o After(s, n) \in Seq(S)
                /\ Len(Before(s, m) \o <<e>> \o After(s, n)) = m + 1 + Len(s) - n
<1>1. /\ Before(s, m) \in Seq(S) /\ Len(Before(s, m)) = m
      /\ After(s, n) \in Seq(S) /\ Len(After(s, n)) = Len(s) - n
  BY Parts
<1> QED BY <1>1

\* splitOnSelect returns three parts of any text for any selection that runs
\* forwards, whatever part of it is in the text.
LEMMA SplitForwards ==
    ASSUME NEW S, NEW s \in Seq(S), NEW from \in Int, NEW to \in Int, from <= to
    PROVE  SplitHolds(s, from, to)
<1> DEFINE n == Len(s)
           presel  == IF from >= 0 THEN Before(s, Min({from, n})) ELSE <<>>
           sel     == IF from < n /\ to > 0
                      THEN SubSeq(s, Max({from, 0}) + 1, Min({to, n}))
                      ELSE <<>>
           postsel == After(s, Max({to, 0}))
           a == IF from < 0 THEN 0 ELSE IF from <= n THEN from ELSE n
           b == IF to < 0 THEN 0 ELSE IF to <= n THEN to ELSE n
<1>1. n \in Nat /\ a \in 0 .. n /\ b \in 0 .. n /\ a <= b
  OBVIOUS
<1>2. /\ from >= 0 => Min({from, n}) = a
      /\ from < 0 => a = 0
      /\ from < n /\ to > 0 => Max({from, 0}) = a /\ Min({to, n}) = b
      /\ ~(from < n /\ to > 0) => b < a + 1
      /\ to <= n => Max({to, 0}) = b
      /\ to > n => Max({to, 0}) = to /\ b = n
  BY <1>1, MaxOfTwo, MinOfTwo
<1> HIDE DEF a, b
<1>3. presel = SubSeq(s, 1, a)
  <2>1. CASE from >= 0
    BY <1>2, <2>1 DEF Before
  <2>2. CASE from < 0
    BY <1>2, <2>2, SubSeqEmpty
  <2>3. from >= 0 \/ from < 0
    OBVIOUS
  <2> QED BY <2>1, <2>2, <2>3, Zenon
<1>4. sel = SubSeq(s, a + 1, b)
  <2>1. CASE from < n /\ to > 0
    BY <1>2, <2>1
  <2>2. CASE ~(from < n /\ to > 0)
    <3>1. a + 1 \in Int /\ b \in Int /\ b < a + 1
      BY <1>1, <1>2, <2>2
    <3>2. SubSeq(s, a + 1, b) = <<>>
      BY <3>1, SubSeqEmpty, Zenon
    <3> QED BY <2>2, <3>2
  <2> QED BY <2>1, <2>2
<1>5. postsel = SubSeq(s, b + 1, n)
  <2>1. CASE to <= n
    BY <1>2, <2>1 DEF After
  <2>2. CASE to > n
    <3>1. {to + 1, b + 1, n} \subseteq Int /\ n < to + 1 /\ n < b + 1
      BY <1>1, <1>2, <2>2
    <3>2. SubSeq(s, to + 1, n) = <<>> /\ SubSeq(s, b + 1, n) = <<>>
      BY <3>1, SubSeqEmpty, Zenon
    <3> QED BY <1>2, <2>2, <3>2 DEF After
  <2>3. to <= n \/ to > n
    BY <1>1
  <2> QED BY <2>1, <2>2, <2>3, Zenon
<1>6. SubSeq(s, 1, a) \o SubSeq(s, a + 1, b) = SubSeq(s, 1, b)
  BY <1>1, ConcatAdjacentSubSeq
<1>7. SubSeq(s, 1, b) \o SubSeq(s, b + 1, n) = SubSeq(s, 1, n)
  <2>1. 1 \in 1 .. Len(s) + 1 /\ b \in 1 - 1 .. Len(s) /\ n \in b .. Len(s)
    BY <1>1
  <2> QED BY <2>1, ConcatAdjacentSubSeq, Zenon
<1>8. SubSeq(s, 1, n) = s
  BY SubSeqFull
<1> HIDE DEF presel, sel, postsel
<1>9. s = presel \o sel \o postsel
  BY <1>3, <1>4, <1>5, <1>6, <1>7, <1>8
<1> QED BY <1>9 DEF SplitHolds, presel, sel, postsel

-----------------------------------------------------------------------------
(* The lines of a multiline value.                                         *)

LEMMA WrapsForwards ==
    ASSUME value \in Seq(Character), NEW o \in 0 .. Len(value)
    PROVE  WrapAt(o) \in o + 1 .. Len(value) + 1
<1> DEFINE L == Len(value)
           ends   == {i \in o .. L : i = L \/ value[i + 1] = Newline}
           blanks == {i \in (o + 1) .. (o + WrapWidth - 1) : value[i + 1] = Blank}
           eol    == Min(ends)
<1>1. L \in Nat /\ WrapWidth \in Nat \ {0}
  BY WidthAssumption
<1>2. ends \in SUBSET Nat /\ L \in ends /\ ends \subseteq o .. L
  BY <1>1
<1>3. blanks \in SUBSET (0 .. o + WrapWidth) /\ blanks \subseteq (o + 1) .. (o + WrapWidth - 1)
  BY <1>1
<1>4. o + WrapWidth \in Nat
  BY <1>1
<1> HIDE DEF L, ends, blanks
<1>5. eol \in o .. L
  BY <1>2, LeastElement
<1>6. blanks # {} => Max(blanks) \in (o + 1) .. (o + WrapWidth - 1)
  BY <1>3, <1>4, GreatestElement
<1> HIDE DEF eol
<1>7. WrapAt(o) = IF eol - o <= WrapWidth THEN eol + 1
                  ELSE IF blanks # {} THEN Max(blanks) + 1
                  ELSE o + WrapWidth
  BY DEF WrapAt, L, ends, blanks, eol
<1>8. WrapAt(o) \in o + 1 .. L + 1
  BY <1>1, <1>5, <1>6, <1>7
<1> QED BY <1>8 DEF L

\* The function of which Offsets is the range, on its first arguments.
Enumerates(f, n) ==
    f = [i \in 0 .. n |-> IF i = 0 THEN 0
                          ELSE IF f[i - 1] > Len(value) THEN f[i - 1]
                          ELSE WrapAt(f[i - 1])]

LEMMA EnumeratesNext ==
    ASSUME NEW n \in Nat, NEW f, Enumerates(f, n)
    PROVE  \E g : Enumerates(g, n + 1)
<1> DEFINE last == IF f[n] > Len(value) THEN f[n] ELSE WrapAt(f[n])
           g == [i \in 0 .. n + 1 |-> IF i = n + 1 THEN last ELSE f[i]]
<1>1. \A i \in 0 .. n : f[i] = IF i = 0 THEN 0
                               ELSE IF f[i - 1] > Len(value) THEN f[i - 1]
                               ELSE WrapAt(f[i - 1])
  BY DEF Enumerates
<1>2. \A i \in 0 .. n : g[i] = f[i]
  OBVIOUS
<1>3. g[n + 1] = last
  OBVIOUS
<1>4. \A i \in 0 .. n + 1 : i = 0 \/ i - 1 \in 0 .. n
  OBVIOUS
<1> HIDE DEF g
<1>5. \A i \in 0 .. n + 1 : g[i] = IF i = 0 THEN 0
                                   ELSE IF g[i - 1] > Len(value) THEN g[i - 1]
                                   ELSE WrapAt(g[i - 1])
  <2> TAKE i \in 0 .. n + 1
  <2>1. CASE i = n + 1
    <3>1. i # 0 /\ i - 1 = n /\ n \in 0 .. n
      BY <2>1
    <3> QED BY <2>1, <3>1, <1>2, <1>3, Zenon
  <2>2. CASE i # n + 1
    <3>1. i \in 0 .. n /\ (i = 0 \/ i - 1 \in 0 .. n)
      BY <2>2
    <3> QED BY <3>1, <1>1, <1>2, Zenon
  <2> QED BY <2>1, <2>2
<1>6. g = [i \in 0 .. n + 1 |-> g[i]]
  BY DEF g
<1>7. [i \in 0 .. n + 1 |-> g[i]] =
        [i \in 0 .. n + 1 |-> IF i = 0 THEN 0
                              ELSE IF g[i - 1] > Len(value) THEN g[i - 1]
                              ELSE WrapAt(g[i - 1])]
  BY <1>5, Zenon
<1> QED BY <1>6, <1>7 DEF Enumerates

LEMMA EnumeratesAll ==
    ASSUME NEW n \in Nat
    PROVE  \E f : Enumerates(f, n)
<1> DEFINE Missing == {m \in Nat : ~ \E f : Enumerates(f, m)}
<1>1. SUFFICES ASSUME Missing # {} PROVE FALSE
  BY Zenon
<1>2. PICK m \in Missing : \A k \in Missing : m <= k
  BY <1>1, Least
<1>3. CASE m = 0
  <2>1. Enumerates([i \in 0 .. 0 |-> 0], 0)
    BY DEF Enumerates
  <2> QED BY <1>3, <2>1
<1>4. CASE m # 0
  <2>1. m - 1 \in Nat /\ ~(m <= m - 1) /\ (m - 1) + 1 = m
    BY <1>4
  <2>2. PICK f : Enumerates(f, m - 1)
    BY <1>2, <2>1
  <2>3. \E g : Enumerates(g, (m - 1) + 1)
    BY <2>1, <2>2, EnumeratesNext, Zenon
  <2> QED BY <2>1, <2>3
<1> QED BY <1>3, <1>4

LEMMA OffsetsInText ==
    ASSUME value \in Seq(Character)
    PROVE  Offsets \subseteq 0 .. Len(value) + 1 /\ {0, Len(value) + 1} \subseteq Offsets
<1> DEFINE L == Len(value)
           f == CHOOSE g : Enumerates(g, L + 1)
           Wrong == {m \in Nat : m <= L + 1 /\ ~(f[m] \in 0 .. L + 1 /\ (f[m] >= m \/ f[m] = L + 1))}
<1>1. L \in Nat
  OBVIOUS
<1>2. Enumerates(f, L + 1)
  BY <1>1, EnumeratesAll
<1>3. Offsets = {f[n] : n \in DOMAIN f}
  BY DEF Offsets, Enumerates
<1> HIDE DEF f
<1>4. DOMAIN f = 0 .. L + 1
  BY <1>2 DEF Enumerates
<1>5. \A i \in 0 .. L + 1 : f[i] = IF i = 0 THEN 0
                                   ELSE IF f[i - 1] > L THEN f[i - 1]
                                   ELSE WrapAt(f[i - 1])
  BY <1>2 DEF Enumerates
<1>6. \A o \in 0 .. L : WrapAt(o) \in o + 1 .. L + 1
  BY WrapsForwards
<1> HIDE DEF L
<1>7. ASSUME Wrong # {} PROVE FALSE
  <2>1. PICK m \in Wrong : \A k \in Wrong : m <= k
    BY <1>7, Least
  <2>2. CASE m = 0
    BY <1>1, <1>5, <2>1, <2>2
  <2>3. CASE m # 0
    <3>1. m - 1 \in Nat /\ m - 1 <= L + 1 /\ ~(m <= m - 1)
      BY <1>1, <2>1, <2>3
    <3>2. f[m - 1] \in 0 .. L + 1 /\ (f[m - 1] >= m - 1 \/ f[m - 1] = L + 1)
      BY <2>1, <3>1
    <3>3. f[m] = IF f[m - 1] > L THEN f[m - 1] ELSE WrapAt(f[m - 1])
      BY <1>1, <1>5, <2>1, <2>3
    <3>4. f[m] \in 0 .. L + 1 /\ (f[m] >= m \/ f[m] = L + 1)
      BY <1>1, <1>6, <2>1, <3>2, <3>3
    <3> QED BY <2>1, <3>4
  <2> QED BY <2>2, <2>3
<1>8. \A m \in 0 .. L + 1 : f[m] \in 0 .. L + 1 /\ (f[m] >= m \/ f[m] = L + 1)
  BY <1>1, <1>7
<1>9. f[0] = 0 /\ f[L + 1] = L + 1
  BY <1>1, <1>5, <1>8
<1>10. 0 \in 0 .. L + 1 /\ L + 1 \in 0 .. L + 1
  BY <1>1
<1>11. Offsets \subseteq 0 .. L + 1 /\ {0, L + 1} \subseteq Offsets
  BY <1>3, <1>4, <1>8, <1>9, <1>10
<1> QED BY <1>11 DEF L

LEMMA LineBounds ==
    ASSUME value \in Seq(Character), NEW o \in Nat
    PROVE  /\ LineAt(o) \in 0 .. Len(value) /\ LineAt(o) <= o
           /\ NextLine(o) \in 1 .. Len(value) + 1
           /\ o <= Len(value) => NextLine(o) > o
<1> DEFINE L == Len(value)
           place == Min({o, L})
           upTo  == {l \in Offsets \ {L + 1} : l <= o}
           above == {l \in Offsets : l > place}
<1>1. Offsets \subseteq 0 .. L + 1 /\ 0 \in Offsets /\ L + 1 \in Offsets /\ L \in Nat
  BY OffsetsInText
<1>2. place = IF o <= L THEN o ELSE L
  BY <1>1, MinOfTwo
<1> HIDE DEF place, L
<1>3. upTo \in SUBSET (0 .. o) /\ upTo # {} /\ upTo \subseteq 0 .. L
  <2>1. \A l \in upTo : l \in 0 .. o /\ l \in 0 .. L
    BY <1>1
  <2>2. 0 \in upTo
    BY <1>1
  <2> QED BY <2>1, <2>2
<1>4. above \in SUBSET Nat /\ above # {} /\ above \subseteq place + 1 .. L + 1
  <2>1. \A l \in above : l \in Nat /\ l \in place + 1 .. L + 1
    BY <1>1, <1>2
  <2>2. L + 1 \in above
    BY <1>1, <1>2
  <2> QED BY <2>1, <2>2
<1>5. LineAt(o) = Max(upTo) /\ NextLine(o) = Min(above)
  BY DEF LineAt, NextLine, upTo, above, place, L
<1> HIDE DEF upTo, above
<1>6. Max(upTo) \in upTo
  BY <1>3, GreatestElement
<1>7. Min(above) \in above
  BY <1>4, LeastElement
<1>8. LineAt(o) \in 0 .. L /\ LineAt(o) \in 0 .. o
  BY <1>3, <1>5, <1>6
<1>9. NextLine(o) \in place + 1 .. L + 1
  BY <1>4, <1>5, <1>7
<1>10. NextLine(o) \in 1 .. L + 1 /\ (o <= L => NextLine(o) > o)
  BY <1>1, <1>2, <1>9
<1> QED BY <1>8, <1>10 DEF L

LEMMA LineTextTyped ==
    ASSUME value \in Seq(Character), NEW o \in Offsets \ {Len(value) + 1}
    PROVE  LineText(o) \in Seq(Character)
<1>1. o \in 0 .. Len(value)
  BY OffsetsInText
<1>2. NextLine(o) \in o + 1 .. Len(value) + 1
  BY <1>1, LineBounds
<1> QED BY <1>1, <1>2 DEF LineText

\* Wherever the cursor is that a value can be drawn with, the keys that move by
\* lines have a place to lead to.
LEMMA LinePlaces ==
    ASSUME value \in Seq(Character), cursor \in Int, mode = "multiline" => cursor >= 0
    PROVE  /\ StartOfLine \in Int /\ EndOfLine \in 0 .. Len(value)
           /\ mode = "multiline" => LineBelow \in Int /\ LineAbove \in Int
<1> DEFINE L == Len(value)
           next == NextLine(cursor)
           line == LineAt(cursor)
<1>1. L \in Nat
  OBVIOUS
<1>2. CASE mode = "multiline"
  <2>0. cursor \in Nat
    BY <1>2
  <2>1. line \in 0 .. L /\ next \in 1 .. L + 1
    BY <2>0, LineBounds
  <2>2. NextLine(next) \in 1 .. L + 1
    <3>1. next \in Nat
      BY <2>1
    <3> HIDE DEF next
    <3> QED BY <3>1, LineBounds
  <2>3. line # 0 => LineAt(line - 1) \in 0 .. L
    <3>1. line # 0 => line - 1 \in Nat
      BY <2>1
    <3> HIDE DEF line
    <3> QED BY <3>1, LineBounds
  <2>4. Min({next, L}) = IF next <= L THEN next ELSE L
    BY <1>1, <2>1, MinOfTwo
  <2>5. Min({cursor + next - line, NextLine(next) - 1}) \in Int
    BY <1>2, <2>1, <2>2, MinOfTwo
  <2>6. line # 0 => Min({cursor - (line - LineAt(line - 1)), line - 1}) \in Int
    BY <1>2, <2>1, <2>3, MinOfTwo
  <2>7. StartOfLine = line
    BY <1>2 DEF StartOfLine
  <2>8. EndOfLine = LET end == Min({next, L})
                    IN  IF end > 0 /\ value[end] = Newline THEN end - 1 ELSE end
    BY <1>2 DEF EndOfLine
  <2>9. LineBelow = IF next > L THEN L ELSE Min({cursor + next - line, NextLine(next) - 1})
    BY DEF LineBelow, IsLastLine
  <2>10. LineAbove = IF line = 0 THEN 0
                     ELSE Min({cursor - (line - LineAt(line - 1)), line - 1})
    BY DEF LineAbove
  <2> HIDE DEF L, next, line
  <2>11. StartOfLine \in Int /\ EndOfLine \in 0 .. L
    BY <1>1, <2>1, <2>4, <2>7, <2>8
  <2>12. LineBelow \in Int /\ LineAbove \in Int
    BY <1>1, <2>5, <2>6, <2>9, <2>10
  <2> QED BY <2>11, <2>12 DEF L
<1>3. CASE mode # "multiline"
  BY <1>1, <1>3 DEF StartOfLine, EndOfLine
<1> QED BY <1>2, <1>3

\* Where the keys lead that move by lines.
LEMMA LineKeys ==
    ASSUME value \in Seq(Character), cursor \in 0 .. Len(value)
    PROVE  /\ StartOfLine \in 0 .. cursor
           /\ EndOfLine \in 0 .. Len(value)
           /\ EndOfLine >= cursor \/ (cursor = Len(value) /\ EndOfLine = cursor - 1 /\ mode = "multiline")
           /\ LineBelow \in cursor .. Len(value)
           /\ LineAbove \in 0 .. cursor
<1> DEFINE L == Len(value)
           next == NextLine(cursor)
           line == LineAt(cursor)
<1>1. L \in Nat /\ cursor \in 0 .. L
  OBVIOUS
<1>2. line \in 0 .. cursor /\ next \in cursor + 1 .. L + 1
  <2>1. cursor \in Nat
    OBVIOUS
  <2> QED BY <2>1, LineBounds
<1>3. next <= L => NextLine(next) \in next + 1 .. L + 1
  <2>1. next \in Nat
    BY <1>1, <1>2
  <2> HIDE DEF next
  <2> QED BY <2>1, LineBounds
<1>4. line # 0 => LineAt(line - 1) \in 0 .. line - 1
  <2>1. line # 0 => line - 1 \in Nat
    BY <1>1, <1>2
  <2> HIDE DEF line
  <2> QED BY <2>1, LineBounds
<1>5. Min({next, L}) = IF next <= L THEN next ELSE L
  BY <1>1, <1>2, MinOfTwo
<1>6. next <= L => Min({cursor + next - line, NextLine(next) - 1}) =
                      IF cursor + next - line <= NextLine(next) - 1
                      THEN cursor + next - line ELSE NextLine(next) - 1
  BY <1>1, <1>2, <1>3, MinOfTwo
<1>7. line # 0 => Min({cursor - (line - LineAt(line - 1)), line - 1}) =
                     IF cursor - (line - LineAt(line - 1)) <= line - 1
                     THEN cursor - (line - LineAt(line - 1)) ELSE line - 1
  BY <1>1, <1>2, <1>4, MinOfTwo
<1>8. StartOfLine = IF mode = "multiline" THEN line ELSE 0
  BY DEF StartOfLine
<1>9. EndOfLine = LET end == Min({next, L})
                  IN  IF mode # "multiline" THEN L
                      ELSE IF end > 0 /\ value[end] = Newline THEN end - 1
                      ELSE end
  BY DEF EndOfLine
<1>10. LineBelow = IF next > L THEN L ELSE Min({cursor + next - line, NextLine(next) - 1})
  BY DEF LineBelow, IsLastLine
<1>11. LineAbove = IF line = 0 THEN 0
                   ELSE Min({cursor - (line - LineAt(line - 1)), line - 1})
  BY DEF LineAbove
<1> HIDE DEF L, next, line
<1>12. StartOfLine \in 0 .. cursor
  BY <1>1, <1>2, <1>8
<1>13. EndOfLine \in 0 .. L /\ (EndOfLine >= cursor \/ (cursor = L /\ EndOfLine = cursor - 1 /\ mode = "multiline"))
  BY <1>1, <1>2, <1>5, <1>9
<1>14. LineBelow \in cursor .. L
  BY <1>1, <1>2, <1>3, <1>6, <1>10
<1>15. LineAbove \in 0 .. cursor
  BY <1>1, <1>2, <1>4, <1>7, <1>11
<1> QED BY <1>12, <1>13, <1>14, <1>15 DEF L

-----------------------------------------------------------------------------
(* The choices of a field.                                                 *)

LEMMA FoldedAlike ==
    ASSUME NEW r, NEW s, NEW t, EqualFold(r, s), EqualFold(r, t)
    PROVE  EqualFold(s, t)
BY Zenon DEF EqualFold

\* A text that another begins with has the same beginnings.
LEMMA BeginsAlike ==
    ASSUME NEW p \in Seq(Character), NEW t \in Seq(Character), IsPrefix(p, t),
           NEW n \in Nat, n <= Len(p)
    PROVE  Before(p, n) = Before(t, n)
<1>1. Len(p) <= Len(t) /\ p = SubSeq(t, 1, Len(p))
  <2>1. SubSeq(p, 1, Len(p)) = p
    BY SubSeqFull
  <2> QED BY <2>1 DEF IsPrefix
<1>2. \A i \in 1 .. n : p[i] = t[i]
  BY <1>1
<1>3. n \in 0 .. Len(p) /\ n \in 0 .. Len(t)
  BY <1>1
<1>4. /\ Before(p, n) \in Seq(Character) /\ Len(Before(p, n)) = n
      /\ Before(t, n) \in Seq(Character) /\ Len(Before(t, n)) = n
      /\ \A i \in 1 .. n : Before(p, n)[i] = Before(t, n)[i]
  BY <1>2, <1>3, Parts
<1> DEFINE a == Before(p, n)
           b == Before(t, n)
<1> HIDE DEF a, b
<1>5. a = [i \in 1 .. n |-> a[i]] /\ b = [i \in 1 .. n |-> b[i]]
  BY <1>4 DEF a, b
<1> QED BY <1>4, <1>5 DEF a, b

\* What two texts begin with alike: as much as any text that both begin with.
LEMMA CommonBeginning ==
    ASSUME NEW a \in Seq(Character), NEW b \in Seq(Character)
    PROVE  LET p == LongestCommonPrefix({a, b})
           IN  /\ p \in Seq(Character) /\ IsPrefix(p, a) /\ IsPrefix(p, b)
               /\ \A n \in 0 .. Len(a) :
                      n <= Len(b) /\ Before(a, n) = Before(b, n) => n <= Len(p)
<1> DEFINE C == CommonPrefixes({a, b})
           longest == LongestCommonPrefix({a, b})
<1>1. \A p \in C : p \in Seq(Character) /\ Len(p) \in 0 .. Len(a) /\ IsPrefix(p, a) /\ IsPrefix(p, b)
  <2> SUFFICES ASSUME NEW p \in C
               PROVE  p \in Seq(Character) /\ Len(p) \in 0 .. Len(a) /\ IsPrefix(p, a) /\ IsPrefix(p, b)
    OBVIOUS
  <2>1. PICK d \in {a, b} : p \in Prefixes(d)
    BY DEF CommonPrefixes
  <2>2. PICK l \in 0 .. Len(d) : p = SubSeq(d, 1, l)
    BY <2>1 DEF Prefixes
  <2>3. p \in Seq(Character)
    BY <2>1, <2>2
  <2>4. IsPrefix(p, a) /\ IsPrefix(p, b)
    BY DEF CommonPrefixes
  <2>5. Len(p) <= Len(a)
    BY <2>4 DEF IsPrefix
  <2> QED BY <2>3, <2>4, <2>5
<1>2. \A n \in 0 .. Len(a) :
        n <= Len(b) /\ Before(a, n) = Before(b, n) => Before(a, n) \in C /\ Len(Before(a, n)) = n
  <2> SUFFICES ASSUME NEW n \in 0 .. Len(a), n <= Len(b), Before(a, n) = Before(b, n)
               PROVE  Before(a, n) \in C /\ Len(Before(a, n)) = n
    OBVIOUS
  <2> DEFINE q == Before(a, n)
  <2>1. q \in Seq(Character) /\ Len(q) = n /\ q = SubSeq(a, 1, n) /\ q = SubSeq(b, 1, n)
    BY Parts DEF Before
  <2> HIDE DEF q
  <2>2. SubSeq(q, 1, Len(q)) = q
    BY <2>1, SubSeqFull
  <2>3. IsPrefix(q, a) /\ IsPrefix(q, b)
    BY <2>1, <2>2 DEF IsPrefix
  <2>4. q \in Prefixes(a)
    BY <2>1 DEF Prefixes
  <2>5. q \in C
    BY <2>3, <2>4 DEF CommonPrefixes
  <2> QED BY <2>1, <2>5 DEF q
<1>3. C # {}
  <2>1. 0 \in 0 .. Len(a) /\ 0 <= Len(b) /\ Before(a, 0) = Before(b, 0)
    BY DEF Before
  <2> QED BY <1>2, <2>1
<1> HIDE DEF C
<1> DEFINE lengths == {Len(p) : p \in C}
<1>4. lengths \in SUBSET (0 .. Len(a)) /\ lengths # {} /\ Len(a) \in Nat
  <2>1. \A k \in lengths : k \in 0 .. Len(a)
    BY <1>1, Zenon
  <2>2. Len(a) \in Nat
    OBVIOUS
  <2> QED BY <1>3, <2>1, <2>2, Zenon
<1>5. PICK most \in lengths : \A k \in lengths : most >= k
  BY <1>4, GreatestElement, Zenon
<1>6. \E p \in C : \A other \in C : Len(other) <= Len(p)
  <2>1. PICK p \in C : most = Len(p)
    BY <1>5
  <2>2. \A other \in C : Len(other) \in lengths
    OBVIOUS
  <2> HIDE DEF lengths
  <2>3. \A other \in C : Len(other) <= Len(p)
    BY <1>1, <1>5, <2>1, <2>2
  <2> QED BY <2>3
<1>7. longest = CHOOSE p \in C : \A other \in C : Len(other) <= Len(p)
  BY DEF LongestCommonPrefix, C
<1> HIDE DEF longest
<1>8. longest \in C /\ \A other \in C : Len(other) <= Len(longest)
  BY <1>6, <1>7
<1>9. \A n \in 0 .. Len(a) : n <= Len(b) /\ Before(a, n) = Before(b, n) => n <= Len(longest)
  BY <1>2, <1>8
<1> QED BY <1>1, <1>8, <1>9 DEF longest

\* The function that Matches is, on its first arguments.
MatchAfter(s, k, match) ==
    IF ~Continues(k, s) THEN match
    ELSE IF match = <<>> THEN choices[k]
    ELSE LongestCommonPrefix({choices[k], match})

Matching(f, s, n) ==
    f = [k \in 0 .. n |-> IF k = 0 THEN <<>> ELSE MatchAfter(s, k, f[k - 1])]

LEMMA MatchingNext ==
    ASSUME NEW s, NEW n \in Nat, NEW f, Matching(f, s, n)
    PROVE  \E g : Matching(g, s, n + 1)
<1> DEFINE last == MatchAfter(s, n + 1, f[n])
           g == [k \in 0 .. n + 1 |-> IF k = n + 1 THEN last ELSE f[k]]
<1>1. \A k \in 0 .. n : f[k] = IF k = 0 THEN <<>> ELSE MatchAfter(s, k, f[k - 1])
  BY DEF Matching
<1>2. \A k \in 0 .. n : g[k] = f[k]
  OBVIOUS
<1>3. g[n + 1] = last
  OBVIOUS
<1> HIDE DEF g
<1>4. \A k \in 0 .. n + 1 : g[k] = IF k = 0 THEN <<>> ELSE MatchAfter(s, k, g[k - 1])
  <2> TAKE k \in 0 .. n + 1
  <2>1. CASE k = n + 1
    <3>1. k # 0 /\ k - 1 = n /\ n \in 0 .. n
      BY <2>1
    <3> QED BY <2>1, <3>1, <1>2, <1>3, Zenon
  <2>2. CASE k # n + 1
    <3>1. k \in 0 .. n /\ (k = 0 \/ k - 1 \in 0 .. n)
      BY <2>2
    <3> QED BY <3>1, <1>1, <1>2, Zenon
  <2> QED BY <2>1, <2>2
<1>5. g = [k \in 0 .. n + 1 |-> g[k]]
  BY DEF g
<1>6. [k \in 0 .. n + 1 |-> g[k]] =
        [k \in 0 .. n + 1 |-> IF k = 0 THEN <<>> ELSE MatchAfter(s, k, g[k - 1])]
  BY <1>4, Zenon
<1> QED BY <1>5, <1>6 DEF Matching

LEMMA MatchingAll ==
    ASSUME NEW s, NEW n \in Nat
    PROVE  \E f : Matching(f, s, n)
<1> DEFINE Missing == {m \in Nat : ~ \E f : Matching(f, s, m)}
<1>1. SUFFICES ASSUME Missing # {} PROVE FALSE
  BY Zenon
<1>2. PICK m \in Missing : \A k \in Missing : m <= k
  BY <1>1, Least
<1>3. CASE m = 0
  <2>1. Matching([k \in 0 .. 0 |-> <<>>], s, 0)
    BY DEF Matching
  <2> QED BY <1>3, <2>1
<1>4. CASE m # 0
  <2>1. m - 1 \in Nat /\ ~(m <= m - 1) /\ (m - 1) + 1 = m
    BY <1>4
  <2>2. PICK f : Matching(f, s, m - 1)
    BY <1>2, <2>1
  <2>3. \E g : Matching(g, s, (m - 1) + 1)
    BY <2>1, <2>2, MatchingNext, Zenon
  <2> QED BY <2>1, <2>3
<1> QED BY <1>3, <1>4

LEMMA MatchesFound ==
    ASSUME NEW S, choices \in Seq(S), NEW s
    PROVE  \A k \in 0 .. Len(choices) :
               Matches(s)[k] = IF k = 0 THEN <<>> ELSE MatchAfter(s, k, Matches(s)[k - 1])
<1> DEFINE f == CHOOSE g : Matching(g, s, Len(choices))
<1>1. Matching(f, s, Len(choices))
  BY MatchingAll
<1>2. Matches(s) = f
  BY DEF Matches, Matching, MatchAfter
<1> HIDE DEF f
<1> QED BY <1>1, <1>2 DEF Matching

\* The match after some of the choices is none, or what one of them begins with.
\* Where choices that begin alike agree in case it is as long as what was typed.
Begun(s, k, j) ==
    LET match == Matches(s)[k]
    IN  /\ IsPrefix(match, choices[j])
        /\ CasesAgree => /\ Len(match) >= Len(s)
                         /\ Before(match, Len(s)) = Before(choices[j], Len(s))

MatchRight(s, k) ==
    LET match == Matches(s)[k]
    IN  \/ match = <<>>
        \/ match \in Seq(Character) /\ \E j \in 1 .. k : Continues(j, s) /\ Begun(s, k, j)

LEMMA MatchesBegin ==
    ASSUME choices \in Seq(Seq(Character)), NEW s \in Seq(Character),
           NEW k \in 0 .. Len(choices)
    PROVE  MatchRight(s, k)
<1> DEFINE Wrong == {m \in Nat : m <= Len(choices) /\ ~MatchRight(s, m)}
<1>1. SUFFICES ASSUME Wrong # {} PROVE FALSE
  <2>1. k \in Nat /\ k <= Len(choices)
    OBVIOUS
  <2> QED BY <2>1, Zenon
<1>2. PICK m \in Wrong : \A i \in Wrong : m <= i
  BY <1>1, Least
<1>3. \A i \in 0 .. Len(choices) :
        Matches(s)[i] = IF i = 0 THEN <<>> ELSE MatchAfter(s, i, Matches(s)[i - 1])
  BY MatchesFound
<1>4. m \in Nat /\ m <= Len(choices) /\ Len(choices) \in Nat /\ ~MatchRight(s, m)
  BY <1>2
<1>5. m # 0
  BY <1>3, <1>4 DEF MatchRight
<1>6. m - 1 \in Nat /\ m - 1 <= Len(choices) /\ ~(m <= m - 1) /\ m \in 1 .. Len(choices)
  BY <1>4, <1>5
<1>7. MatchRight(s, m - 1)
  BY <1>2, <1>6
<1> DEFINE before == Matches(s)[m - 1]
           after  == Matches(s)[m]
           c      == choices[m]
           n      == Len(s)
<1>8. after = MatchAfter(s, m, before)
  BY <1>3, <1>6
<1>9. c \in Seq(Character) /\ n \in Nat
  BY <1>6
<1>10. CASE ~Continues(m, s)
  <2>1. after = before
    BY <1>8, <1>10 DEF MatchAfter
  <2>2. \A j \in 1 .. m - 1 : j \in 1 .. m /\ (Begun(s, m - 1, j) => Begun(s, m, j))
    BY <1>6, <2>1 DEF Begun
  <2>3. MatchRight(s, m)
    BY <1>7, <2>1, <2>2 DEF MatchRight
  <2> QED BY <1>4, <2>3
<1>11. CASE Continues(m, s) /\ before = <<>>
  <2>1. after = c
    BY <1>8, <1>11 DEF MatchAfter
  <2>2. IsPrefix(c, c) /\ Len(c) >= n
    BY <1>9, <1>11 DEF IsPrefix, Continues
  <2>3. Begun(s, m, m)
    BY <2>1, <2>2 DEF Begun
  <2>4. MatchRight(s, m)
    BY <1>6, <1>9, <1>11, <2>1, <2>3 DEF MatchRight
  <2> QED BY <1>4, <2>4
<1>12. CASE Continues(m, s) /\ before # <<>>
  <2>1. PICK j \in 1 .. m - 1 : before \in Seq(Character) /\ Continues(j, s) /\ Begun(s, m - 1, j)
    BY <1>7, <1>12 DEF MatchRight
  <2>2. after = LongestCommonPrefix({c, before})
    BY <1>8, <1>12 DEF MatchAfter
  <2>3. /\ after \in Seq(Character) /\ IsPrefix(after, c)
        /\ \A i \in 0 .. Len(c) : i <= Len(before) /\ Before(c, i) = Before(before, i) => i <= Len(after)
    BY <1>9, <2>1, <2>2, CommonBeginning
  <2>4. ASSUME CasesAgree PROVE Len(after) >= n /\ Before(after, n) = Before(c, n)
    <3>1. j \in 1 .. Len(choices) /\ choices[j] \in Seq(Character)
      BY <1>6, <2>1
    <3>2. Len(c) > n /\ Len(choices[j]) > n
      BY <1>12, <2>1 DEF Continues
    <3>3. EqualFold(Before(c, n), Before(choices[j], n))
      BY <1>12, <2>1, FoldedAlike DEF Continues
    <3>4. Min({Len(c), Len(choices[j])}) = IF Len(c) <= Len(choices[j]) THEN Len(c) ELSE Len(choices[j])
      <4>1. Len(c) \in Int /\ Len(choices[j]) \in Int
        BY <1>9, <3>1
      <4> QED BY <4>1, MinOfTwo, Zenon
    <3>5. n \in 0 .. Min({Len(c), Len(choices[j])})
      BY <1>9, <3>1, <3>2, <3>4
    <3>6. c \in Range(choices) /\ choices[j] \in Range(choices)
      BY <1>6, <3>1 DEF Range
    <3>7. Before(c, n) = Before(choices[j], n)
      BY <2>4, <3>3, <3>5, <3>6 DEF CasesAgree
    <3>8. Len(before) >= n /\ Before(before, n) = Before(choices[j], n)
      BY <2>1, <2>4 DEF Begun
    <3>9. n \in 0 .. Len(c)
      BY <1>9, <3>2
    <3>10. Len(after) >= n
      BY <1>9, <2>1, <2>3, <3>7, <3>8, <3>9
    <3>11. Before(after, n) = Before(c, n)
      BY <1>9, <2>3, <3>10, BeginsAlike
    <3> QED BY <3>10, <3>11
  <2>5. Begun(s, m, m)
    BY <2>3, <2>4 DEF Begun
  <2>6. MatchRight(s, m)
    BY <1>6, <1>12, <2>3, <2>5 DEF MatchRight
  <2> QED BY <1>4, <2>6
<1> QED BY <1>10, <1>11, <1>12

\* What is completed is a text; where choices agree in case, no shorter than s.
LEMMA CompletionContinues ==
    ASSUME choices \in Seq(Seq(Character)), NEW s \in Seq(Character), Autocomplete(s) # <<>>
    PROVE  /\ Autocomplete(s) \in Seq(Character)
           /\ CasesAgree => Len(Autocomplete(s)) >= Len(s)
<1>1. Len(choices) \in 0 .. Len(choices)
  OBVIOUS
<1>2. MatchRight(s, Len(choices)) /\ Autocomplete(s) = Matches(s)[Len(choices)]
  BY <1>1, MatchesBegin DEF Autocomplete
<1> QED BY <1>2 DEF MatchRight, Begun

\* With the shorter of two choices first there always is a place to cut.
LEMMA ShorterFirstCompletes ==
    ASSUME choices \in Seq(Seq(Character)), NEW s \in Seq(Character), ShorterFirst
    PROVE  Completable(s)
<1> SUFFICES ASSUME NEW k \in 1 .. Len(choices), Continues(k, s), Matches(s)[k - 1] = choices[k]
             PROVE  FALSE
  BY DEF Completable
<1>1. k - 1 \in 0 .. Len(choices)
  OBVIOUS
<1>2. choices[k] # <<>>
  BY DEF Continues
<1>3. PICK j \in 1 .. k - 1 : Begun(s, k - 1, j)
  BY <1>1, <1>2, MatchesBegin DEF MatchRight
<1>4. IsPrefix(choices[k], choices[j]) /\ j \in 1 .. Len(choices) /\ j < k
  BY <1>3 DEF Begun
<1> QED BY <1>4 DEF ShorterFirst

\* What a place in the grid of choices may hold, and that every line has some.
Choosable == {<<>>} \cup Range(choices)

Grid(g) ==
    /\ g \in Seq(Seq(Choosable))
    /\ Len(g) >= 1
    /\ \A i \in 1 .. Len(g) : Len(g[i]) >= 1

\* The last choice of a row is one.
LEMMA RowInRange ==
    ASSUME NEW n \in Nat, NEW rows \in 1 .. n, NEW r \in 1 .. rows,
           NEW k \in 1 .. ((n - r) \div rows + 1)
    PROVE  (k - 1) * rows + r \in 1 .. n
<1> DEFINE q == (n - r) \div rows
<1>1. n - r \in Nat /\ rows \in Nat \ {0}
  OBVIOUS
<1>2. \A a \in Nat : \A d \in Nat \ {0} : a \div d \in Nat /\ (a \div d) * d <= a
  OBVIOUS
<1>3. q \in Nat /\ q * rows <= n - r
  BY <1>1, <1>2
<1> HIDE DEF q
<1>4. k - 1 \in Nat /\ q - (k - 1) \in Nat
  BY <1>3 DEF q
<1>5. \A a, b, d \in Nat : b - a \in Nat => a * d \in Nat /\ a * d <= b * d
  <2> TAKE a, b, d \in Nat
  <2> HAVE b - a \in Nat
  <2>1. (b - a) * d \in Nat /\ a * d \in Nat
    OBVIOUS
  <2>2. b * d = a * d + (b - a) * d
    OBVIOUS
  <2> QED BY <2>1, <2>2
<1>6. (k - 1) * rows \in Nat /\ (k - 1) * rows <= q * rows
  BY <1>1, <1>3, <1>4, <1>5
<1>7. q * rows \in Nat
  BY <1>1, <1>3
<1> DEFINE a == (k - 1) * rows
           b == q * rows
<1>8. a \in Nat /\ a <= b /\ b <= n - r /\ b \in Nat
  BY <1>3, <1>6, <1>7
<1> HIDE DEF a, b
<1>9. a + r \in 1 .. n
  BY <1>8
<1> QED BY <1>9 DEF a

LEMMA LayoutGrid ==
    ASSUME NEW S, choices \in Seq(S), NEW rows \in 0 .. Len(choices)
    PROVE  Grid(Layout(rows))
<1>1. \A i \in 1 .. Len(choices) : choices[i] \in Choosable
  BY DEF Choosable, Range
<1>2. choices \in Seq(Choosable) /\ <<>> \in Choosable
  <2>1. choices = [i \in 1 .. Len(choices) |-> choices[i]] /\ Len(choices) \in Nat
    OBVIOUS
  <2> QED BY <1>1, <2>1 DEF Choosable
<1>3. CASE rows = 0
  <2>1. << <<(<<>>)>> \o choices >> \in Seq(Seq(Choosable))
    BY <1>2
  <2>2. Len(<<(<<>>)>> \o choices) >= 1
    BY <1>2
  <2> QED BY <1>3, <2>1, <2>2 DEF Layout, Grid
<1>4. CASE rows # 0
  <2> DEFINE n(r) == (Len(choices) - r) \div rows + 1
             row(r) == [k \in 1 .. n(r) |-> choices[(k - 1) * rows + r]]
             head == << <<(<<>>)>> >>
             body == [r \in 1 .. rows |-> row(r)]
  <2>1. \A r \in 1 .. rows : row(r) \in Seq(Choosable) /\ Len(row(r)) >= 1
    <3> TAKE r \in 1 .. rows
    <3>1. \A k \in 1 .. n(r) : choices[(k - 1) * rows + r] \in Choosable
      BY <1>1, <1>4, RowInRange
    <3>2. n(r) \in Nat /\ n(r) >= 1
      BY <1>4
    <3> HIDE DEF n
    <3>3. row(r) \in [1 .. n(r) -> Choosable]
      BY <3>1
    <3> HIDE DEF row
    <3> QED BY <3>2, <3>3
  <2> HIDE DEF row
  <2>2. body \in Seq(Seq(Choosable)) /\ Len(body) = rows
    <3>1. body \in [1 .. rows -> Seq(Choosable)] /\ rows \in Nat
      BY <2>1
    <3> HIDE DEF body
    <3> QED BY <3>1
  <2>3. \A r \in 1 .. rows : Len(body[r]) >= 1
    BY <2>1
  <2> HIDE DEF body
  <2>4. head \in Seq(Seq(Choosable)) /\ Len(head) = 1 /\ Len(head[1]) = 1
    BY <1>2
  <2> HIDE DEF head
  <2>5. head \o body \in Seq(Seq(Choosable)) /\ Len(head \o body) = 1 + rows
    BY <2>2, <2>4, ConcatProperties
  <2>6. \A i \in 1 .. 1 + rows : Len((head \o body)[i]) >= 1
    <3> TAKE i \in 1 .. 1 + rows
    <3>0. (head \o body)[i] = IF i <= 1 THEN head[i] ELSE body[i - 1]
      BY <2>2, <2>4, <2>5, ConcatProperties
    <3>1. CASE i = 1
      <4>1. (head \o body)[i] = head[1]
        BY <3>0, <3>1
      <4>2. Len((head \o body)[i]) = 1
        BY <2>4, <4>1, Zenon
      <4> QED BY <4>2
    <3>2. CASE i # 1
      <4>1. i - 1 \in 1 .. rows
        BY <3>2
      <4>2. (head \o body)[i] = body[i - 1]
        BY <3>0, <3>2
      <4> QED BY <2>3, <4>1, <4>2
    <3> QED BY <3>1, <3>2
  <2>7. Layout(rows) = head \o body
    BY <1>4 DEF Layout, head, body, row, n
  <2> QED BY <2>5, <2>6, <2>7 DEF Grid
<1> QED BY <1>3, <1>4

LEMMA ClampedInGrid ==
    ASSUME NEW g, Grid(g), NEW l \in Int, NEW c \in Int
    PROVE  LET p == Clamped(g, l, c) IN g[p[1]][p[2]] \in Choosable
<1> DEFINE line == Max({1, Min({l, Len(g)})})
           column == Max({1, Min({c, Len(g[line])})})
<1>1. Len(g) \in Nat \ {0} /\ \A i \in 1 .. Len(g) : g[i] \in Seq(Choosable) /\ Len(g[i]) >= 1
  BY DEF Grid
<1>2. \A n \in Nat \ {0}, k \in Int : Max({1, Min({k, n})}) \in 1 .. n
  <2> TAKE n \in Nat \ {0}, k \in Int
  <2>1. Min({k, n}) = IF k <= n THEN k ELSE n
    BY MinOfTwo
  <2> DEFINE m == Min({k, n})
  <2>2. m \in Int /\ m <= n
    BY <2>1
  <2> HIDE DEF m
  <2>3. Max({1, m}) = IF 1 >= m THEN 1 ELSE m
    BY <2>2, MaxOfTwo
  <2>4. Max({1, m}) \in 1 .. n
    BY <2>2, <2>3
  <2> QED BY <2>4 DEF m
<1>3. line \in 1 .. Len(g)
  BY <1>1, <1>2
<1> HIDE DEF line
<1>4. g[line] \in Seq(Choosable) /\ Len(g[line]) \in Nat \ {0}
  BY <1>1, <1>3
<1>5. column \in 1 .. Len(g[line])
  BY <1>2, <1>4
<1> HIDE DEF column
<1>6. g[line][column] \in Choosable
  BY <1>4, <1>5
<1>7. Clamped(g, l, c) = <<line, column>>
  BY DEF Clamped, line, column
<1> QED BY <1>6, <1>7

\* Every key among the choices leads to one of them or to the entry area.
LEMMA ChooseChoosable ==
    ASSUME NEW S, choices \in Seq(S), Choose
    PROVE  value' \in Choosable
<1>1. PICK rows \in 0 .. Len(choices) :
        LET grid == Layout(rows)
            at   == Selected(grid)
        IN  \E to \in {<<at[1] - 1, at[2]>>, <<at[1] + 1, at[2]>>,
                       <<at[1], at[2] - 1>>, <<at[1], at[2] + 1>>,
                       <<at[1], 1>>, <<at[1], Len(choices) + 2>>, <<1, 1>>} :
                LET p == Clamped(grid, to[1], to[2])
                IN  p # at /\ Edited(grid[p[1]][p[2]])
  BY DEF Choose
<1> DEFINE grid == Layout(rows)
           at   == Selected(grid)
<1>2. Grid(grid)
  BY LayoutGrid
<1> HIDE DEF grid
<1>3. at \in Int \X Int
  <2>1. Positions(grid) \subseteq Int \X Int
    BY DEF Positions
  <2> QED BY <2>1 DEF Selected
<1> HIDE DEF at
<1>4. PICK to \in {<<at[1] - 1, at[2]>>, <<at[1] + 1, at[2]>>,
                   <<at[1], at[2] - 1>>, <<at[1], at[2] + 1>>,
                   <<at[1], 1>>, <<at[1], Len(choices) + 2>>, <<1, 1>>} :
           LET p == Clamped(grid, to[1], to[2]) IN Edited(grid[p[1]][p[2]])
  BY <1>1 DEF grid, at
<1>5. to[1] \in Int /\ to[2] \in Int
  <2>1. at[1] \in Int /\ at[2] \in Int /\ Len(choices) \in Int
    BY <1>3
  <2> QED BY <1>4, <2>1
<1>6. \E v \in Choosable : Edited(v)
  BY <1>2, <1>4, <1>5, ClampedInGrid
<1> QED BY <1>6 DEF Edited

-----------------------------------------------------------------------------
(* The selection.                                                          *)

\* The selection of a field runs forwards in its text, with the cursor at one of
\* its ends; or, among several lines, backwards from the end of the text to the
\* cursor, which is then before the end: ShiftEnd after a trailing newline.
Forward ==
    /\ 0 <= sels /\ sels <= sele /\ sele <= Len(value)
    /\ cursor \in {sels, sele}

Turned ==
    /\ mode = "multiline"
    /\ sels = Len(value) /\ sele = cursor
    /\ -1 <= cursor /\ cursor < Len(value)

\* At the command line the selection may lie out of the text or run backwards,
\* but not so that a key moves the cursor out of the text.
CommandPlaced ==
    /\ cursor <= Len(value) /\ sels <= cursor
    /\ sele <= cursor \/ (sels = cursor /\ sele <= Len(value))

CommandInv ==
    /\ CommandPlaced /\ scroll <= cursor
    /\ scroll = Len(value) => sels = cursor /\ sele = cursor

EditorInv ==
    /\ TypeOK
    /\ mode \in FieldModes /\ CasesAgree => Forward \/ Turned
    /\ mode = "command" => CommandInv

LEMMA ChoicesTyped ==
    ASSUME TypeOK
    PROVE  choices \in Seq(Seq(Character))
<1>1. \A S : <<>> \in Seq(S)
  OBVIOUS
<1>2. choices \in {<<>>} \cup ChoiceLists
  BY DEF TypeOK
<1> QED BY <1>1, <1>2, ValuesAssumption, Zenon

LEMMA TypedCharacters == Typed \cup {Blank} \subseteq Character
BY LettersAssumption DEF Character

LEMMA ChoicesAgreeing ==
    ASSUME choices' = choices
    PROVE  CasesAgree' = CasesAgree
BY DEF CasesAgree, EqualFold

\* A character typed on one line leaves the cursor after it, and selects what was
\* completed.
LEMMA TypedForward ==
    ASSUME choices \in Seq(Seq(Character)), NEW v \in Seq(Character),
           NEW s \in 0 .. Len(v), NEW e \in 0 .. Len(v), NEW ch \in Character,
           TypeOneline(v, s, e, ch)
    PROVE  /\ value' \in Seq(Character)
           /\ {cursor', sels', sele'} \subseteq Int
           /\ mode' \in FieldModes
           /\ CasesAgree => Forward'
<1> DEFINE new      == Replaced(v, s, e, ch)
           complete == Completed(v, s, e, ch)
<1>1. new \in Seq(Character) /\ Len(new) = s + 1 + Len(v) - e
  BY Joined DEF Replaced
<1>2. /\ value' = IF complete # <<>> THEN complete ELSE new
      /\ cursor' = s + 1 /\ sels' = s + 1
      /\ sele' = IF complete # <<>> THEN Len(complete) ELSE s + 1
      /\ mode' = IF Len(value') >= Room THEN "multiline" ELSE "oneline"
  BY DEF TypeOneline, Edited
<1>3. complete = IF s + 1 = Len(new) THEN Autocomplete(new) ELSE <<>>
  BY DEF Completed
<1> HIDE DEF new, complete
<1>4. complete # <<>> => /\ complete \in Seq(Character) /\ s + 1 = Len(new)
                         /\ CasesAgree => Len(complete) >= Len(new)
  BY <1>1, <1>3, CompletionContinues
<1>5. mode' \in FieldModes
  BY <1>2 DEF FieldModes
<1>6. s + 1 \in Nat /\ s + 1 <= Len(new) /\ Len(new) \in Nat
  BY <1>1
<1>7. CASE complete # <<>>
  <2>1. value' = complete /\ sele' = Len(complete)
    BY <1>2, <1>7
  <2>2. complete \in Seq(Character) /\ Len(complete) \in Nat
    BY <1>4, <1>7
  <2>3. CasesAgree => s + 1 <= Len(complete)
    BY <1>4, <1>6, <1>7, <2>2
  <2> QED BY <1>2, <1>5, <1>6, <2>1, <2>2, <2>3 DEF Forward
<1>8. CASE complete = <<>>
  BY <1>1, <1>2, <1>5, <1>6, <1>8 DEF Forward
<1> QED BY <1>7, <1>8

\* A key that selects nothing leaves the cursor in the text.
CaretInText ==
    /\ value' \in Seq(Character) /\ cursor' \in 0 .. Len(value')
    /\ sels' = cursor' /\ sele' = cursor'

LEMMA CaretPlaces ==
    ASSUME CaretInText
    PROVE  Forward' /\ CommandPlaced' /\ {cursor', sels', sele'} \subseteq Int
BY DEF CaretInText, Forward, CommandPlaced

\* A character or newline in the place of the selection.
LEMMA ReplacedCaret ==
    ASSUME value \in Seq(Character), Sliceable, NEW ch \in Character,
           Edited(WithSelectionReplaced(ch)), Caret(sels + 1)
    PROVE  CaretInText
<1>1. sels \in 0 .. Len(value) /\ sele \in 0 .. Len(value)
  BY DEF Sliceable
<1>2. /\ WithSelectionReplaced(ch) \in Seq(Character)
      /\ Len(WithSelectionReplaced(ch)) = sels + 1 + Len(value) - sele
  BY <1>1, Joined DEF WithSelectionReplaced, Replaced
<1>3. value' = WithSelectionReplaced(ch) /\ cursor' = sels + 1 /\ sels' = sels + 1 /\ sele' = sels + 1
  BY DEF Edited, Caret
<1> QED BY <1>1, <1>2, <1>3 DEF CaretInText

\* The keys that take characters away.
LEMMA DeletedCaret ==
    ASSUME value \in Seq(Character), cursor \in 0 .. Len(value), {sels, sele} \subseteq Int,
           Delete \/ Backspace \/ KillLine \/ KillAll
    PROVE  CaretInText
<1> DEFINE L == Len(value)
<1>1. L \in Nat
  OBVIOUS
<1>2. SUFFICES ASSUME NEW n \in Int, Caret(n), value' \in Seq(Character), n \in 0 .. Len(value')
               PROVE  CaretInText
  <2>1. CASE Delete
    <3>1. CASE cursor < L
      <4>1. value' = Before(value, cursor) \o After(value, cursor + 1)
        BY <2>1, <3>1 DEF Delete, Edited
      <4>2. cursor + 1 \in 0 .. Len(value)
        BY <3>1
      <4>3. value' \in Seq(Character) /\ Len(value') = cursor + L - (cursor + 1)
        BY <4>1, <4>2, Joined
      <4>4. cursor \in 0 .. Len(value')
        BY <3>1, <4>3
      <4> QED BY <1>2, <2>1, <4>3, <4>4 DEF Delete
    <3>2. CASE ~(cursor < L)
      BY <1>2, <2>1, <3>2 DEF Delete
    <3> QED BY <3>1, <3>2
  <2>2. CASE Backspace
    <3>1. CASE sels # sele /\ Sliceable
      <4>1. sels \in 0 .. L /\ sele \in 0 .. L
        BY <3>1 DEF Sliceable
      <4>2. value' = Before(value, sels) \o After(value, sele) /\ Caret(sels)
        BY <2>2, <3>1 DEF Backspace, Edited
      <4>3. value' \in Seq(Character) /\ Len(value') = sels + L - sele
        BY <4>1, <4>2, Joined
      <4>4. sels \in 0 .. Len(value')
        BY <1>1, <4>1, <4>3
      <4> QED BY <1>2, <4>2, <4>3, <4>4
    <3>2. CASE sels = sele /\ cursor > 0
      <4>1. cursor - 1 \in 0 .. L
        BY <3>2
      <4>2. value' = Before(value, cursor - 1) \o After(value, cursor) /\ Caret(cursor - 1)
        BY <2>2, <3>2 DEF Backspace, Edited
      <4>3. value' \in Seq(Character) /\ Len(value') = (cursor - 1) + L - cursor
        BY <4>1, <4>2, Joined
      <4>4. cursor - 1 \in 0 .. Len(value')
        BY <4>1, <4>3
      <4> QED BY <1>2, <4>2, <4>3, <4>4
    <3>3. CASE sels = sele /\ cursor = 0
      BY <1>2, <2>2, <3>3 DEF Backspace
    <3> QED BY <2>2, <3>1, <3>2, <3>3 DEF Backspace
  <2>3. CASE KillLine
    <3>1. CASE cursor # EndOfLine
      <4>1. value' = Before(value, cursor) \o After(value, EndOfLine)
        BY <2>3, <3>1 DEF KillLine, Edited
      <4>2. EndOfLine \in 0 .. L
        BY LineKeys
      <4>3. value' \in Seq(Character) /\ Len(value') = cursor + L - EndOfLine
        BY <4>1, <4>2, Joined
      <4>4. cursor \in 0 .. Len(value')
        BY <4>2, <4>3
      <4> QED BY <1>2, <2>3, <4>3, <4>4 DEF KillLine
    <3>2. CASE cursor = EndOfLine
      BY <1>2, <2>3, <3>2 DEF KillLine
    <3> QED BY <3>1, <3>2
  <2>4. CASE KillAll
    <3>1. value' = <<>>
      BY <2>4 DEF KillAll, Edited
    <3>2. value' \in Seq(Character) /\ 0 \in 0 .. Len(value')
      BY <3>1
    <3> QED BY <1>2, <2>4, <3>2 DEF KillAll
  <2> QED BY <2>1, <2>2, <2>3, <2>4
<1> QED BY <1>2 DEF Caret, CaretInText

\* The keys that move the cursor in a field.
LEMMA MovedInField ==
    ASSUME value \in Seq(Character), cursor \in 0 .. Len(value), {sels, sele} \subseteq Int,
           mode \in FieldModes, Forward \/ Turned,
           \/ Home \/ ShiftHome \/ End \/ ShiftEnd
           \/ Left \/ ShiftLeft \/ Right \/ ShiftRight
           \/ Down \/ ShiftDown \/ Up \/ ShiftUp \/ Redraw
    PROVE  /\ value' \in Seq(Character) /\ (Forward' \/ Turned')
           /\ {cursor', sels', sele'} \subseteq Int
<1> DEFINE L == Len(value)
<1>1. L \in Nat /\ mode # "command"
  BY DEF FieldModes
<1>2. value' = value /\ mode' = mode /\ Len(value') = L
  BY DEF Home, ShiftHome, End, ShiftEnd, Left, ShiftLeft, Right, ShiftRight,
         Down, ShiftDown, Up, ShiftUp, Redraw, Moved, Remain
<1>3. /\ StartOfLine \in 0 .. cursor
      /\ EndOfLine \in 0 .. L
      /\ EndOfLine >= cursor \/ (cursor = L /\ EndOfLine = cursor - 1 /\ mode = "multiline")
      /\ LineBelow \in cursor .. L
      /\ LineAbove \in 0 .. cursor
  BY LineKeys
<1> HIDE DEF L
<1>4. \/ 0 <= sels /\ sels <= sele /\ sele <= L /\ cursor \in {sels, sele}
      \/ mode = "multiline" /\ sels = L /\ sele = cursor /\ -1 <= cursor /\ cursor < L
  BY DEF Forward, Turned, L
<1>5. SUFFICES /\ {cursor', sels', sele'} \subseteq Int
               /\ \/ 0 <= sels' /\ sels' <= sele' /\ sele' <= L /\ cursor' \in {sels', sele'}
                  \/ /\ mode = "multiline" /\ sels' = L /\ sele' = cursor'
                     /\ -1 <= cursor' /\ cursor' < L
  BY <1>2 DEF Forward, Turned
<1>6. CASE Home \/ End \/ Left \/ Right \/ Down \/ Up
  <2>1. \E c \in 0 .. L : Caret(c)
    BY <1>1, <1>3, <1>6 DEF Home, End, Left, Right, Down, Up, Caret, L
  <2>2. PICK c \in 0 .. L : cursor' = c /\ sels' = c /\ sele' = c
    BY <2>1 DEF Caret
  <2> QED BY <1>1, <2>2
<1>7. CASE ShiftHome
  BY <1>1, <1>3, <1>4, <1>7 DEF ShiftHome
<1>8. CASE ShiftEnd
  BY <1>1, <1>3, <1>4, <1>8 DEF ShiftEnd
<1>9. CASE ShiftLeft
  BY <1>1, <1>4, <1>9 DEF ShiftLeft
<1>10. CASE ShiftRight
  BY <1>1, <1>4, <1>10 DEF ShiftRight, L
<1>11. CASE ShiftDown
  BY <1>1, <1>3, <1>4, <1>11 DEF ShiftDown
<1>12. CASE ShiftUp
  BY <1>1, <1>3, <1>4, <1>12 DEF ShiftUp
<1>13. CASE Redraw
  BY <1>1, <1>4, <1>13 DEF Redraw, selection
<1> QED BY <1>6, <1>7, <1>8, <1>9, <1>10, <1>11, <1>12, <1>13

\* A command line is not drawn with its cursor after the end of the text and the
\* selection backwards from there: splitOnSelect would return too much.
LEMMA DrawnBeforeEnd ==
    ASSUME mode = "command", value \in Seq(Character), {cursor, sels, sele, scroll} \subseteq Int,
           CommandInv, Drawable, sels # sele, sels = cursor
    PROVE  cursor < Len(value)
<1> DEFINE L == Len(value)
           s == After(value, scroll)
           to == sele - scroll
<1>1. SUFFICES ASSUME cursor = L PROVE FALSE
  BY DEF CommandInv, CommandPlaced
<1>2. L \in Nat /\ scroll \in 0 .. L /\ SplitHolds(s, sels - scroll, to)
  BY DEF Drawable
<1>3. scroll < L /\ sele < L
  BY <1>1, <1>2 DEF CommandInv, CommandPlaced
<1>4. s \in Seq(Character) /\ Len(s) = L - scroll
  BY <1>2, Parts
<1> DEFINE n == Len(s)
           m == Max({to, 0})
<1>5. n \in Nat /\ n = sels - scroll /\ to < n /\ 0 < n /\ to \in Int
  BY <1>1, <1>2, <1>3, <1>4
<1>6. Min({n, n}) = n /\ m = (IF to >= 0 THEN to ELSE 0)
  BY <1>5, MinOfTwo, MaxOfTwo
<1> HIDE DEF s, to, n, m
<1>7. s = Before(s, n) \o <<>> \o After(s, m)
  <2>1. SplitHolds(s, n, to)
    BY <1>2, <1>5
  <2>2. n >= 0 /\ ~(n < n) /\ n # to
    BY <1>5
  <2> QED BY <1>6, <2>1, <2>2 DEF SplitHolds, n, m
<1>8. m \in 0 .. n - 1
  BY <1>5, <1>6
<1>9. Before(s, n) \o <<>> = Before(s, n)
  BY <1>4, <1>5, Parts, ConcatEmptySeq DEF n
<1>10. Len(Before(s, n) \o After(s, m)) = n + n - m
  <2>1. n \in 0 .. Len(s) /\ m \in 0 .. Len(s)
    BY <1>5, <1>8 DEF n
  <2> QED BY <1>4, <2>1, Joined DEF n
<1>11. n = n + n - m
  BY <1>7, <1>9, <1>10 DEF n
<1> QED BY <1>5, <1>8, <1>11

\* With the cursor at the end of what is in view nothing is selected.
CommandLanded ==
    /\ CommandPlaced'
    /\ scroll >= Len(value') /\ cursor' = Len(value') => sels' = cursor' /\ sele' = cursor'

LEMMA MovedAtCommand ==
    ASSUME mode = "command", value \in Seq(Character), {cursor, sels, sele, scroll} \subseteq Int,
           CommandInv, Drawable,
           Home \/ ShiftHome \/ End \/ ShiftEnd \/ Left \/ ShiftLeft \/ Right \/ ShiftRight
    PROVE  /\ value' \in Seq(Character) /\ CommandLanded
           /\ {cursor', sels', sele'} \subseteq Int
<1> DEFINE L == Len(value)
<1>1. L \in Nat /\ value' = value /\ Len(value') = L
  BY DEF Home, ShiftHome, End, ShiftEnd, Left, ShiftLeft, Right, ShiftRight, Moved
<1>2. StartOfLine = 0 /\ EndOfLine = L
  BY DEF StartOfLine, EndOfLine
<1>3. scroll \in 0 .. L /\ scroll <= cursor
  BY DEF Drawable, CommandInv
<1>4. /\ cursor <= L /\ sels <= cursor
      /\ sele <= cursor \/ (sels = cursor /\ sele <= L)
      /\ scroll = L => sels = cursor /\ sele = cursor
  BY DEF CommandInv, CommandPlaced
<1>5. sels # sele /\ sels = cursor => cursor < L
  BY DrawnBeforeEnd
<1> HIDE DEF L
<1>6. SUFFICES /\ {cursor', sels', sele'} \subseteq Int
               /\ cursor' <= L /\ sels' <= cursor'
               /\ sele' <= cursor' \/ (sels' = cursor' /\ sele' <= L)
               /\ scroll >= L /\ cursor' = L => sels' = cursor' /\ sele' = cursor'
  BY <1>1 DEF CommandLanded, CommandPlaced
<1>7. CASE Home \/ End \/ Left \/ Right
  <2>1. \E c \in 0 .. L : Caret(c)
    BY <1>1, <1>2, <1>3, <1>4, <1>7 DEF Home, End, Left, Right, L
  <2>2. PICK c \in 0 .. L : cursor' = c /\ sels' = c /\ sele' = c
    BY <2>1 DEF Caret
  <2> QED BY <1>1, <2>2
<1>8. CASE ShiftHome
  BY <1>1, <1>2, <1>3, <1>4, <1>8 DEF ShiftHome
<1>9. CASE ShiftEnd
  BY <1>1, <1>2, <1>3, <1>4, <1>9 DEF ShiftEnd
<1>10. CASE ShiftLeft
  BY <1>1, <1>3, <1>4, <1>10 DEF ShiftLeft
<1>11. CASE ShiftRight
  BY <1>1, <1>3, <1>4, <1>5, <1>11 DEF ShiftRight, L
<1> QED BY <1>7, <1>8, <1>9, <1>10, <1>11

\* The command line after a key: what is in view ends before the cursor, or with it.
LEMMA Scrolled ==
    ASSUME scroll \in Int, cursor' \in Int,
           scroll' = Max({Min({scroll, cursor'}), cursor' - CommandWidth})
    PROVE  scroll' \in Int /\ scroll' <= cursor' /\ (scroll' = cursor' => scroll >= cursor')
<1> DEFINE a == Min({scroll, cursor'})
           b == cursor' - CommandWidth
<1>1. CommandWidth \in Nat \ {0}
  BY WidthAssumption
<1>2. a = IF scroll <= cursor' THEN scroll ELSE cursor'
  BY MinOfTwo
<1>3. b \in Int /\ b < cursor'
  <2>1. \A c \in Int, w \in Nat \ {0} : c - w \in Int /\ c - w < c
    OBVIOUS
  <2> QED BY <1>1, <2>1, Zenon
<1> HIDE DEF a, b
<1>4. a \in Int
  BY <1>2
<1>5. Max({a, b}) = IF a >= b THEN a ELSE b
  BY <1>3, <1>4, MaxOfTwo
<1>6. scroll' = Max({a, b})
  BY DEF a, b
<1> QED BY <1>2, <1>3, <1>4, <1>5, <1>6

\* Any key leaves a text, and numbers for the cursor and the selection, even with
\* the cursor out of the text.
LEMMA FieldKeyTypes ==
    ASSUME value \in Seq(Character), {cursor, sels, sele} \subseteq Int,
           mode \in FieldModes, Drawable,
           \/ Home \/ ShiftHome \/ End \/ ShiftEnd
           \/ Left \/ ShiftLeft \/ Right \/ ShiftRight
           \/ Down \/ ShiftDown \/ Up \/ ShiftUp \/ Redraw
           \/ Delete \/ Backspace \/ KillLine \/ KillAll
    PROVE  value' \in Seq(Character) /\ {cursor', sels', sele'} \subseteq Int
<1>1. mode = "multiline" => cursor >= 0
  BY DEF Drawable
<1>2. /\ StartOfLine \in Int /\ EndOfLine \in 0 .. Len(value)
      /\ mode = "multiline" => LineBelow \in Int /\ LineAbove \in Int
  BY <1>1, LinePlaces
<1>3. CASE Home \/ End \/ Left \/ Right \/ Down \/ Up
  <2>1. \E c \in Int : Caret(c)
    BY <1>2, <1>3 DEF Home, End, Left, Right, Down, Up, In
  <2>2. value' = value
    BY <1>3 DEF Home, End, Left, Right, Down, Up, Moved
  <2> QED BY <2>1, <2>2 DEF Caret
<1>4. CASE ShiftHome \/ ShiftEnd \/ ShiftDown \/ ShiftUp
  BY <1>2, <1>4 DEF ShiftHome, ShiftEnd, ShiftDown, ShiftUp, Moved, In
<1>5. CASE ShiftLeft \/ ShiftRight
  BY <1>5 DEF ShiftLeft, ShiftRight, Moved
<1>6. CASE Redraw
  BY <1>6 DEF Redraw, Moved, selection
<1>7. CASE Delete \/ Backspace \/ KillLine \/ KillAll
  <2>1. CASE cursor \in 0 .. Len(value)
    <3>1. CaretInText
      BY <1>7, <2>1, DeletedCaret
    <3> QED BY <3>1 DEF CaretInText
  <2>2. CASE cursor \notin 0 .. Len(value)
    <3>1. ~Backspace
      BY <2>2 DEF Backspace, Sliceable
    <3>2. CASE Delete \/ KillLine
      BY <2>2, <3>2 DEF Delete, KillLine, Caret
    <3>3. CASE KillAll
      <4>1. value' = <<>> \/ value' = value
        BY <3>3 DEF KillAll, Edited
      <4>2. value' \in Seq(Character)
        <5>1. <<>> \in Seq(Character)
          OBVIOUS
        <5> QED BY <4>1, <5>1
      <4> QED BY <3>3, <4>2 DEF KillAll, Caret
    <3> QED BY <1>7, <3>1, <3>2, <3>3
  <2> QED BY <2>1, <2>2
<1> QED BY <1>3, <1>4, <1>5, <1>6, <1>7

\* Where a key leaves the cursor and the selection of a field, ...
LEMMA FieldKeyPlaces ==
    ASSUME EditorInv, Key, mode \in FieldModes
    PROVE  /\ value' \in Seq(Character) /\ {cursor', sels', sele'} \subseteq Int
           /\ mode' \in FieldModes /\ CasesAgree => Forward' \/ Turned'
<1>1. /\ value \in Seq(Character) /\ {cursor, sels, sele} \subseteq Int
      /\ CasesAgree => Forward \/ Turned
  BY DEF EditorInv, TypeOK, selection
<1>2. mode \notin {"command", "choices", "done"}
  BY DEF FieldModes
<1>3. ASSUME Drawable, CasesAgree PROVE cursor \in 0 .. Len(value)
  BY <1>1, <1>2, <1>3 DEF Drawable, Forward, Turned
<1>4. CASE Home \/ ShiftHome \/ End \/ ShiftEnd \/ Left \/ ShiftLeft \/ Right \/ ShiftRight
           \/ Down \/ ShiftDown \/ Up \/ ShiftUp \/ Redraw
  <2>1. Drawable
    BY <1>4 DEF Home, ShiftHome, End, ShiftEnd, Left, ShiftLeft, Right, ShiftRight,
                Down, ShiftDown, Up, ShiftUp, Redraw, In
  <2>2. value' \in Seq(Character) /\ {cursor', sels', sele'} \subseteq Int
    BY <1>1, <1>4, <2>1, FieldKeyTypes
  <2>3. CasesAgree => Forward' \/ Turned'
    BY <1>1, <1>3, <1>4, <2>1, MovedInField
  <2> QED BY <2>2, <2>3
<1>5. CASE Delete \/ Backspace \/ KillLine \/ KillAll
  <2>1. Drawable
    BY <1>5 DEF Delete, Backspace, KillLine, KillAll, In
  <2>2. value' \in Seq(Character) /\ {cursor', sels', sele'} \subseteq Int
    BY <1>1, <1>5, <2>1, FieldKeyTypes
  <2>3. CasesAgree => CaretInText
    BY <1>1, <1>3, <1>5, <2>1, DeletedCaret
  <2> QED BY <2>2, <2>3, CaretPlaces
<1>6. CASE \E ch \in Typed \cup {Blank} : Type(ch)
  <2>1. PICK ch \in Character : Type(ch)
    BY <1>6, TypedCharacters
  <2>2. CaretInText
    BY <1>1, <2>1, ReplacedCaret DEF Type
  <2> QED BY <2>2, CaretPlaces DEF CaretInText
<1>7. CASE \E ch \in Typed \cup {Blank} : TypeHere(ch)
  <2>1. PICK ch \in Character : TypeHere(ch)
    BY <1>7, TypedCharacters
  <2>2. sels \in 0 .. Len(value) /\ sele \in 0 .. Len(value) /\ TypeOneline(value, sels, sele, ch)
    BY <2>1 DEF TypeHere, Sliceable
  <2>3. choices \in Seq(Seq(Character))
    BY ChoicesTyped DEF EditorInv
  <2> QED BY <1>1, <2>1, <2>2, <2>3, TypedForward
<1>8. CASE EnterOneline \/ EnterMultiline
  <2>1. CASE InsertNewline
    <3>1. Newline \in Character
      BY DEF Character
    <3>2. CaretInText
      BY <1>1, <2>1, <3>1, ReplacedCaret DEF InsertNewline
    <3> QED BY <3>2, CaretPlaces DEF CaretInText
  <2>2. CASE Finish("next")
    BY <1>1, <2>2 DEF Finish, selection, FieldModes
  <2> QED BY <1>8, <2>1, <2>2 DEF EnterOneline, EnterMultiline
<1>9. CASE Leave
  BY <1>1, <1>9 DEF Leave, Finish, selection, FieldModes
<1>10. ASSUME \/ EnterCommand \/ Interrupt \/ RecallPrevious \/ RecallNext \/ Choose
              \/ \E ch \in Typed \cup {Blank} : TypeInsteadOfChoice(ch)
       PROVE  FALSE
  BY <1>2, <1>10 DEF EnterCommand, Interrupt, RecallPrevious, RecallNext, Choose,
                     TypeInsteadOfChoice, In
<1> QED BY <1>4, <1>5, <1>6, <1>7, <1>8, <1>9, <1>10 DEF Key

\* ... one among the choices, ...
LEMMA ChoiceKeyPlaces ==
    ASSUME EditorInv, Key, mode = "choices"
    PROVE  /\ value' \in Seq(Character) /\ {cursor', sels', sele'} \subseteq Int
           /\ mode' \in FieldModes /\ CasesAgree => Forward'
           /\ mode' = "choices" => value' \in Choosable
<1>1. /\ value \in Seq(Character) /\ {cursor, sels, sele} \subseteq Int
      /\ choices \in Seq(Seq(Character))
  BY ChoicesTyped DEF EditorInv, TypeOK, selection
<1>2. CASE \E ch \in Typed \cup {Blank} : TypeInsteadOfChoice(ch)
  <2>1. PICK ch \in Character : TypeOneline(<<>>, 0, 0, ch)
    BY <1>2, TypedCharacters DEF TypeInsteadOfChoice
  <2>2. <<>> \in Seq(Character) /\ 0 \in 0 .. Len(<<>>)
    OBVIOUS
  <2>3. /\ value' \in Seq(Character) /\ {cursor', sels', sele'} \subseteq Int
        /\ mode' \in FieldModes /\ (CasesAgree => Forward')
    BY <1>1, <2>1, <2>2, TypedForward, Zenon
  <2> QED BY <2>3 DEF FieldModes
<1>3. CASE Choose
  <2>1. value' \in Choosable
    BY <1>1, <1>3, ChooseChoosable
  <2>2. value' \in Seq(Character)
    <3>1. \A c \in Range(choices) : c \in Seq(Character)
      BY <1>1 DEF Range
    <3>2. <<>> \in Seq(Character)
      OBVIOUS
    <3> QED BY <2>1, <3>1, <3>2, Zenon DEF Choosable
  <2>3. sels' = Len(value') /\ sele' = Len(value') /\ cursor' = cursor /\ mode' = mode
    BY <1>3 DEF Choose, Remain
  <2> QED BY <1>1, <2>1, <2>2, <2>3 DEF FieldModes
<1>4. CASE Leave
  BY <1>1, <1>4 DEF Leave, Finish, selection, FieldModes
<1>5. ASSUME ~ Choose, ~ Leave, ~ \E ch \in Typed \cup {Blank} : TypeInsteadOfChoice(ch)
      PROVE  FALSE
  <2>1. ~ In(TextModes) /\ ~ In({"multiline"}) /\ ~ In({"oneline"}) /\ ~ In({"command"})
        /\ ~ In(FieldModes) /\ ~ In({"command", "multiline"})
    BY DEF In, TextModes, FieldModes
  <2> QED BY <1>5, <2>1 DEF Key, Home, ShiftHome, End, ShiftEnd, Left, ShiftLeft, Right, ShiftRight,
                Down, ShiftDown, Up, ShiftUp, Redraw, Delete, Backspace, KillLine, KillAll,
                Type, TypeHere, EnterOneline, EnterMultiline, EnterCommand, Interrupt,
                RecallPrevious, RecallNext
<1> QED BY <1>2, <1>3, <1>4, <1>5

\* ... and one at the command line.
LEMMA CommandKeyPlaces ==
    ASSUME EditorInv, Key, mode = "command"
    PROVE  /\ value' \in Seq(Character) /\ {cursor', sels', sele'} \subseteq Int
           /\ mode' = "command" => CommandLanded
<1>1. /\ value \in Seq(Character) /\ {cursor, sels, sele, scroll} \subseteq Int
      /\ CommandInv
  BY DEF EditorInv, TypeOK, selection
<1>2. ASSUME Drawable PROVE cursor \in 0 .. Len(value)
  BY <1>1, <1>2 DEF Drawable, CommandInv, CommandPlaced
<1>3. ASSUME CaretInText PROVE CommandLanded /\ {cursor', sels', sele'} \subseteq Int
  BY <1>3, CaretPlaces DEF CaretInText, CommandLanded
<1>4. CASE Home \/ ShiftHome \/ End \/ ShiftEnd \/ Left \/ ShiftLeft \/ Right \/ ShiftRight
  <2>1. Drawable
    BY <1>4 DEF Home, ShiftHome, End, ShiftEnd, Left, ShiftLeft, Right, ShiftRight, In
  <2> QED BY <1>1, <1>4, <2>1, MovedAtCommand
<1>5. CASE Delete \/ Backspace \/ KillLine \/ KillAll
  <2>1. Drawable
    BY <1>5 DEF Delete, Backspace, KillLine, KillAll, In
  <2>2. CaretInText
    BY <1>1, <1>2, <1>5, <2>1, DeletedCaret
  <2> QED BY <1>3, <2>2 DEF CaretInText
<1>6. CASE \E ch \in Typed \cup {Blank} : Type(ch)
  <2>1. PICK ch \in Character : Type(ch)
    BY <1>6, TypedCharacters
  <2>2. CaretInText
    BY <1>1, <2>1, ReplacedCaret DEF Type
  <2> QED BY <1>3, <2>2 DEF CaretInText
<1>7. CASE EnterCommand \/ Interrupt
  BY <1>1, <1>7 DEF EnterCommand, Interrupt, Finish, selection
<1>8. CASE RecallPrevious \/ RecallNext
  <2>1. history \in Seq(Seq(Character)) /\ historyIndex \in 0 .. Len(history)
    BY DEF EditorInv, TypeOK
  <2>2. PICK i \in 1 .. Len(history) : history' \in Seq(Seq(Character)) /\ Len(history') = Len(history) /\ Recall(i)
    <3>1. CASE RecallPrevious
      <4>1. history' \in Seq(Seq(Character)) /\ Len(history') = Len(history)
        BY <1>1, <2>1, <3>1, ReplacedElement DEF RecallPrevious
      <4>2. historyIndex - 1 \in 1 .. Len(history)
        BY <2>1, <3>1 DEF RecallPrevious
      <4> QED BY <3>1, <4>1, <4>2 DEF RecallPrevious
    <3>2. CASE RecallNext
      <4>1. historyIndex + 1 \in 1 .. Len(history)
        BY <2>1, <3>2 DEF RecallNext
      <4> QED BY <2>1, <3>2, <4>1 DEF RecallNext
    <3> QED BY <1>8, <3>1, <3>2
  <2>3. value' \in Seq(Character) /\ Caret(Len(value'))
    BY <2>2 DEF Recall
  <2>4. CaretInText
    BY <2>3 DEF Caret, CaretInText
  <2> QED BY <1>3, <2>4 DEF CaretInText
<1>9. ASSUME \/ Down \/ ShiftDown \/ Up \/ ShiftUp \/ Redraw \/ Choose
             \/ EnterOneline \/ EnterMultiline \/ Leave
             \/ \E ch \in Typed \cup {Blank} : TypeHere(ch) \/ TypeInsteadOfChoice(ch)
      PROVE  FALSE
  BY <1>9 DEF Down, ShiftDown, Up, ShiftUp, Redraw, Choose, EnterOneline, EnterMultiline,
              Leave, TypeHere, TypeInsteadOfChoice, In, FieldModes
<1> QED BY <1>4, <1>5, <1>6, <1>7, <1>8, <1>9 DEF Key

Modes == TextModes \cup {"shell", "choices", "done", "panicked"}

\* The rest of the state after a key.
LEMMA KeyTypes ==
    ASSUME EditorInv, Key
    PROVE  /\ mode' \in Modes /\ result' \in Results /\ changed' \in BOOLEAN
           /\ history' \in Seq(Seq(Character)) /\ historyIndex' \in 0 .. Len(history')
           /\ mode' = "choices" => mode = "choices"
           /\ mode' = "command" => mode = "command"
<1>1. /\ mode \in Modes /\ result \in Results /\ changed \in BOOLEAN
      /\ value \in Seq(Character)
      /\ history \in Seq(Seq(Character)) /\ historyIndex \in 0 .. Len(history)
  BY DEF EditorInv, TypeOK, Modes
<1>2. ASSUME NEW v, Edited(v) PROVE changed' \in BOOLEAN
  BY <1>1, <1>2 DEF Edited
<1>3. CASE Home \/ ShiftHome \/ End \/ ShiftEnd \/ Left \/ ShiftLeft \/ Right \/ ShiftRight
           \/ Down \/ ShiftDown \/ Up \/ ShiftUp \/ Redraw
  <2>1. Moved
    BY <1>3 DEF Home, ShiftHome, End, ShiftEnd, Left, ShiftLeft, Right, ShiftRight,
                Down, ShiftDown, Up, ShiftUp, Redraw
  <2> QED BY <1>1, <2>1 DEF Moved, Remain, prompt
<1>4. CASE Delete \/ Backspace \/ KillLine \/ KillAll \/ Choose
           \/ \E ch \in Typed \cup {Blank} : Type(ch)
  <2>1. Remain
    BY <1>4 DEF Delete, Backspace, KillLine, KillAll, Choose, Type
  <2>2. (\E v : Edited(v)) \/ changed' = changed
    BY <1>4, Zenon DEF Delete, Backspace, KillLine, KillAll, Choose, Type
  <2>3. changed' \in BOOLEAN
    BY <1>1, <1>2, <2>2
  <2> QED BY <1>1, <2>1, <2>3 DEF Remain, prompt
<1>5. CASE \E ch \in Typed \cup {Blank} : TypeHere(ch) \/ TypeInsteadOfChoice(ch)
  <2>1. \E v : Edited(v)
    BY <1>5, Zenon DEF TypeHere, TypeInsteadOfChoice, TypeOneline
  <2>2. mode' \in FieldModes /\ UNCHANGED <<result, prompt>>
    BY <1>5 DEF TypeHere, TypeInsteadOfChoice, TypeOneline, FieldModes
  <2> QED BY <1>1, <1>2, <2>1, <2>2 DEF prompt, FieldModes, Modes, TextModes
<1>6. CASE EnterOneline \/ EnterMultiline \/ Leave \/ Interrupt
  <2>1. InsertNewline \/ \E r \in Results : Finish(r)
    BY <1>6 DEF EnterOneline, EnterMultiline, Leave, Interrupt, Results
  <2>2. CASE InsertNewline
    BY <1>1, <1>2, <2>2 DEF InsertNewline, prompt, Modes, TextModes
  <2>3. CASE \E r \in Results : Finish(r)
    BY <1>1, <2>3 DEF Finish, prompt, Modes
  <2> QED BY <2>1, <2>2, <2>3
<1>7. ASSUME NEW i
      PROVE  LET h == [history EXCEPT ![i] = value]
             IN  h \in Seq(Seq(Character)) /\ Len(h) = Len(history)
  <2>1. [history EXCEPT ![i] = value] \in Seq(Seq(Character))
    BY <1>1, ReplacedElement
  <2> QED BY <1>1, <2>1
<1>8. CASE EnterCommand
  BY <1>1, <1>7, <1>8 DEF EnterCommand, Modes
<1>9. CASE RecallPrevious
  <2>1. /\ history' \in Seq(Seq(Character)) /\ Len(history') = Len(history)
        /\ historyIndex > 1 /\ historyIndex' = historyIndex - 1
        /\ mode' = mode /\ result' = result /\ changed' = changed
    BY <1>1, <1>7, <1>9 DEF RecallPrevious, Recall
  <2> QED BY <1>1, <2>1
<1>10. CASE RecallNext
  <2>1. /\ history' = history
        /\ historyIndex < Len(history) /\ historyIndex' = historyIndex + 1
        /\ mode' = mode /\ result' = result /\ changed' = changed
    BY <1>10 DEF RecallNext, Recall
  <2> QED BY <1>1, <2>1
<1> QED BY <1>3, <1>4, <1>5, <1>6, <1>8, <1>9, <1>10 DEF Key

LEMMA KeyStepKeeps ==
    ASSUME EditorInv, KeyStep
    PROVE  EditorInv'
<1>1. Key /\ verbatim' = FALSE /\ UNCHANGED field
  BY DEF KeyStep
<1>2. /\ mode' \in Modes /\ result' \in Results /\ changed' \in BOOLEAN
      /\ history' \in Seq(Seq(Character)) /\ historyIndex' \in 0 .. Len(history')
      /\ mode' = "choices" => mode = "choices"
      /\ mode' = "command" => mode = "command"
  BY <1>1, KeyTypes
<1>3. mode \in FieldModes \cup {"choices", "command"}
  BY <1>1 DEF Key, In, TextModes, FieldModes, Home, ShiftHome, End, ShiftEnd,
              Left, ShiftLeft, Right, ShiftRight, Down, ShiftDown, Up, ShiftUp, Redraw,
              Delete, Backspace, KillLine, KillAll, Choose, Type, TypeHere,
              TypeInsteadOfChoice, EnterOneline, EnterMultiline, EnterCommand, Leave,
              Interrupt, RecallPrevious, RecallNext
<1>4. /\ value' \in Seq(Character) /\ {cursor', sels', sele'} \subseteq Int
      /\ mode' \in FieldModes /\ CasesAgree => Forward' \/ Turned'
      /\ mode' = "choices" => value' \in Choosable
      /\ mode' = "command" => CommandLanded
  <2>1. CASE mode \in FieldModes
    BY <1>1, <1>2, <2>1, FieldKeyPlaces DEF FieldModes
  <2>2. CASE mode = "choices"
    BY <1>1, <1>2, <2>2, ChoiceKeyPlaces DEF FieldModes
  <2>3. CASE mode = "command"
    <3>1. mode' \notin FieldModes
      BY <1>1, <2>3, CommandKey DEF FieldModes
    <3> QED BY <1>1, <1>2, <2>3, <3>1, CommandKeyPlaces
  <2> QED BY <1>3, <2>1, <2>2, <2>3
<1>5. scroll' \in Int /\ (mode' = "command" => CommandInv')
  <2>1. CASE mode' = "command"
    <3>1. scroll \in Int
      BY DEF EditorInv, TypeOK
    <3>2. scroll' = Max({Min({scroll, cursor'}), cursor' - CommandWidth})
      BY <2>1 DEF KeyStep
    <3>3. scroll' \in Int /\ scroll' <= cursor' /\ (scroll' = cursor' => scroll >= cursor')
      BY <1>4, <3>1, <3>2, Scrolled
    <3>4. CommandLanded /\ Len(value') \in Nat /\ cursor' \in Int
      BY <1>4, <2>1
    <3>5. ASSUME scroll' = Len(value') PROVE sels' = cursor' /\ sele' = cursor'
      <4>1. cursor' <= Len(value')
        BY <3>4 DEF CommandLanded, CommandPlaced
      <4>2. cursor' = Len(value') /\ scroll >= Len(value')
        BY <3>3, <3>4, <3>5, <4>1
      <4> QED BY <3>4, <4>2 DEF CommandLanded
    <3> QED BY <3>3, <3>4, <3>5 DEF CommandInv, CommandLanded
  <2>2. CASE mode' # "command"
    BY <2>2 DEF KeyStep, EditorInv, TypeOK
  <2> QED BY <2>1, <2>2
<1>6. /\ multiline' \in BOOLEAN /\ choices' \in {<<>>} \cup ChoiceLists /\ choices' = choices
      /\ initial' \in Seq(Character)
  BY <1>1 DEF field, EditorInv, TypeOK
<1>7. TypeOK'
  BY <1>1, <1>2, <1>4, <1>5, <1>6 DEF TypeOK, Modes, selection, Choosable
<1>8. CasesAgree' = CasesAgree
  BY <1>6, ChoicesAgreeing
<1> QED BY <1>4, <1>5, <1>7, <1>8 DEF EditorInv

LEMMA EditorInit == Init => EditorInv
<1> SUFFICES ASSUME Init PROVE EditorInv
  OBVIOUS
<1>1. \A S : <<>> \in Seq(S)
  OBVIOUS
<1>2. value \in Seq(Character) /\ cursor = Len(value) /\ sels = 0 /\ sele = Len(value)
  BY <1>1, ValuesAssumption DEF Init, InitField, InitShell
<1>3. Forward /\ {cursor, sels, sele} \subseteq Int
  BY <1>2 DEF Forward
<1>4. mode \in Modes /\ mode # "command" /\ (mode = "choices" => value \in Choosable)
  BY DEF Init, InitField, InitShell, Modes, TextModes, Choosable
<1>5. /\ multiline \in BOOLEAN /\ choices \in {<<>>} \cup ChoiceLists /\ initial = value
      /\ result = "none" /\ changed = FALSE /\ verbatim = FALSE
      /\ history = <<>> /\ historyIndex = 0 /\ scroll = 0
  BY DEF Init, InitField, InitShell
<1>6. history \in Seq(Seq(Character)) /\ historyIndex \in 0 .. Len(history)
  BY <1>5
<1>7. TypeOK
  BY <1>2, <1>3, <1>4, <1>5, <1>6 DEF TypeOK, Modes, selection, Results, Choosable
<1> QED BY <1>3, <1>4, <1>7 DEF EditorInv

LEMMA EditorStep ==
    ASSUME EditorInv, [Next]_vars
    PROVE  EditorInv'
<1>1. CASE KeyStep
  BY <1>1, KeyStepKeeps
<1>2. CASE ReadCommand
  <2>1. /\ history \in Seq(Seq(Character))
        /\ history' = Append(history, <<>>) /\ historyIndex' = Len(history) + 1
    BY <1>2 DEF ReadCommand, EditorInv, TypeOK
  <2>2. history' \in Seq(Seq(Character)) /\ historyIndex' \in 0 .. Len(history')
    <3>1. <<>> \in Seq(Character)
      OBVIOUS
    <3>2. history' \in Seq(Seq(Character)) /\ Len(history') = Len(history) + 1
      BY <2>1, <3>1, AppendProperties
    <3> QED BY <2>1, <3>2
  <2>3. /\ mode' = "command" /\ value' = <<>> /\ value' \in Seq(Character) /\ Len(value') = 0
        /\ cursor' = 0 /\ sels' = 0 /\ sele' = 0 /\ scroll' = 0
        /\ UNCHANGED <<result, changed, verbatim, multiline, choices, initial>>
    BY <1>2 DEF ReadCommand, Caret, field
  <2>4. TypeOK'
    BY <2>2, <2>3 DEF TypeOK, EditorInv, TextModes, selection
  <2> QED BY <2>3, <2>4 DEF EditorInv, FieldModes, CommandInv, CommandPlaced
<1>3. CASE Verbatim \/ UNCHANGED vars
  <2>1. UNCHANGED <<mode, result, value, cursor, sels, sele, changed, multiline, choices,
                    history, historyIndex, scroll, initial>> /\ verbatim' \in BOOLEAN
    BY <1>3 DEF Verbatim, vars, selection, field, prompt, EditorInv, TypeOK
  <2>2. CasesAgree' = CasesAgree
    BY <2>1, ChoicesAgreeing
  <2> QED BY <2>1, <2>2
          DEF EditorInv, TypeOK, selection, Forward, Turned, CommandInv, CommandPlaced
<1>4. CASE Panic
  <2>1. UNCHANGED <<result, value, cursor, sels, sele, changed, verbatim, multiline, choices,
                    history, historyIndex, scroll, initial>> /\ mode' = "panicked"
    BY <1>4 DEF Panic, selection, field, prompt
  <2> QED BY <2>1 DEF EditorInv, TypeOK, selection, FieldModes, TextModes
<1> QED BY <1>1, <1>2, <1>3, <1>4 DEF Next

LEMMA EditorKept == Spec => []EditorInv
<1>1. Init => EditorInv
  BY EditorInit
<1>2. EditorInv /\ [Next]_vars => EditorInv'
  BY EditorStep
<1> QED BY <1>1, <1>2, PTL DEF Spec

\* For any text, choices and widths, any number of keys and command lines: the
\* editors' state keeps its type, and what is chosen is one of the choices.
THEOREM TypeCorrect == Spec => []TypeOK
<1>1. EditorInv => TypeOK
  BY DEF EditorInv
<1> QED BY <1>1, EditorKept, PTL

\* For any text and widths, and any choices that agree in case as far as they
\* begin alike: the selection of a field that runs forwards lies in the text with
\* the cursor at one of its ends, and on one line it always does.
THEOREM SelectionKept == Spec => []SelectionInText
<1>1. EditorInv => SelectionInText
  <2> SUFFICES ASSUME EditorInv, CasesAgree PROVE SelectionInText
    BY DEF SelectionInText
  <2>1. mode \in FieldModes => Forward \/ Turned
    BY DEF EditorInv
  <2>2. ASSUME Turned PROVE ~(sels <= sele) /\ mode # "oneline"
    <3>1. value \in Seq(Character) /\ cursor \in Int
      BY DEF EditorInv, TypeOK, selection
    <3> QED BY <2>2, <3>1 DEF Turned
  <2>3. mode = "oneline" => mode \in FieldModes
    BY DEF FieldModes
  <2> QED BY <2>1, <2>2, <2>3 DEF SelectionInText, Forward
<1> QED BY <1>1, EditorKept, PTL

\* Where choices agree in case and none is listed after one that begins with it,
\* the editor of a field stops the program only when its selection runs backwards:
\* never on one line and never among the choices.
BackwardsWhenStopped ==
    [][mode' = "panicked" /\ mode \in EditorModes /\ CasesAgree /\ ShorterFirst =>
           mode = "multiline" /\ sele < sels]_vars

\* With a selection that runs forwards everything can be drawn and sliced.
LEMMA ForwardsDrawable ==
    ASSUME TypeOK, Forward, mode \in FieldModes
    PROVE  Drawable /\ Sliceable
<1>1. value \in Seq(Character) /\ {cursor, sels, sele} \subseteq Int
  BY DEF TypeOK, selection
<1>2. Sliceable /\ cursor >= 0
  BY <1>1 DEF Forward, Sliceable
<1>3. SplitHolds(value, sels, sele)
  BY <1>1, SplitForwards DEF Forward
<1>4. ASSUME NEW o \in Offsets \ {Len(value) + 1}
      PROVE  SplitHolds(LineText(o), sels - o, sele - o)
  <2>1. LineText(o) \in Seq(Character)
    BY <1>1, LineTextTyped
  <2>2. o \in Int
    BY <1>1, OffsetsInText
  <2>3. sels - o \in Int /\ sele - o \in Int /\ sels - o <= sele - o
    BY <1>1, <2>2 DEF Forward
  <2> QED BY <2>1, <2>3, SplitForwards
<1> QED BY <1>2, <1>3, <1>4 DEF Drawable, FieldModes

\* With the shorter of two choices first every character can be completed.
LEMMA CompletionSucceeds ==
    ASSUME TypeOK, ShorterFirst
    PROVE  ~CompletionFails
<1>1. choices \in Seq(Seq(Character)) /\ value \in Seq(Character)
  BY ChoicesTyped DEF TypeOK
<1>2. ASSUME NEW v \in Seq(Character), NEW s \in 0 .. Len(v), NEW e \in 0 .. Len(v),
             NEW ch \in Typed \cup {Blank}, Uncompletable(v, s, e, ch)
      PROVE  FALSE
  <2>1. ch \in Character
    BY TypedCharacters
  <2>2. Replaced(v, s, e, ch) \in Seq(Character)
    BY <2>1, Joined DEF Replaced
  <2>3. Completable(Replaced(v, s, e, ch))
    BY <1>1, <2>2, ShorterFirstCompletes
  <2> QED BY <1>2, <2>3 DEF Uncompletable
<1>3. ASSUME NEW ch \in Typed \cup {Blank}, Sliceable, Uncompletable(value, sels, sele, ch)
      PROVE  FALSE
  BY <1>1, <1>2, <1>3 DEF Sliceable
<1>4. ASSUME NEW ch \in Typed \cup {Blank}, Uncompletable(<<>>, 0, 0, ch)
      PROVE  FALSE
  <2>1. <<>> \in Seq(Character) /\ 0 \in 0 .. Len(<<>>)
    OBVIOUS
  <2> QED BY <1>2, <1>4, <2>1
<1> QED BY <1>3, <1>4 DEF CompletionFails

\* For any text and widths, and any choices of those: as long as its selection runs
\* forwards, no sequence of keys stops the program in the editor of a field.
THEOREM StopsOnlyBackwards == Spec => BackwardsWhenStopped
<1>1. EditorInv /\ [Next]_vars =>
        [mode' = "panicked" /\ mode \in EditorModes /\ CasesAgree /\ ShorterFirst =>
             mode = "multiline" /\ sele < sels]_vars
  <2> SUFFICES ASSUME EditorInv, [Next]_vars, mode' = "panicked", mode \in EditorModes,
                      CasesAgree, ShorterFirst
               PROVE  mode = "multiline" /\ sele < sels
    OBVIOUS
  <2>1. Panic
    <3>1. ASSUME KeyStep PROVE FALSE
      <4>1. mode' = mode \/ mode' \in FieldModes \/ mode' = "done"
        BY <3>1, FieldKey DEF KeyStep, Staying, Kept, Turning, Ending, EditorModes, FieldModes
      <4> QED BY <4>1 DEF EditorModes, FieldModes
    <3> QED BY <3>1 DEF Next, ReadCommand, Verbatim, vars, EditorModes, FieldModes
  <2>2. mode \in FieldModes /\ (~Drawable \/ ~Sliceable)
    <3>1. ~CompletionFails
      BY CompletionSucceeds DEF EditorInv
    <3> QED BY <2>1, <3>1 DEF Panic, TextModes, EditorModes, FieldModes
  <2>3. ~ Forward
    BY <2>2, ForwardsDrawable DEF EditorInv
  <2>4. Turned /\ value \in Seq(Character) /\ cursor \in Int
    BY <2>2, <2>3 DEF EditorInv, TypeOK, selection
  <2> QED BY <2>4 DEF Turned
<1> QED BY <1>1, EditorKept, PTL DEF Spec, BackwardsWhenStopped

=============================================================================
