----------------------------- MODULE LineEditor ------------------------------
(***************************************************************************)
(* The key-by-key editors of package cio: the command line                 *)
(* (src/cio/cmdline.go) and the three modes of the field editor, a choice  *)
(* among values (ed-choices.go), one line (ed-oneline.go) and several      *)
(* lines (ed-multiline.go).  A behaviour is either the command lines of a  *)
(* shell or the editing of one field, until a key ends it.                 *)
(*                                                                         *)
(* Offsets are those of the code: 0 is before the first character.  The    *)
(* screen is drawn before each key is read; what is drawn is left out,     *)
(* except that drawing can fail: splitOnSelect asserts that it has split   *)
(* its text into three, and a negative index stops the program.            *)
(***************************************************************************)
EXTENDS Integers, Sequences, SequencesExt

CONSTANTS
    Letters,        \* printable characters other than the blank
    Uncased,        \* what a letter is regardless of case
    Typed,          \* bound: the letters that are typed
    ChoiceLists,    \* the recommended values a field may have, lists of sequences
    InitialValues,  \* the values a field may have before it is edited
    Room,           \* columns for a value that is on the line of its label
    RoomUnaligned,  \* what editField takes for Room when labelWidth is 0
    WrapWidth,      \* columns of a line of a multiline value (Width-5)
    CommandWidth,   \* columns of the command line, less one (Width-9)
    MaxLength,      \* bound on the length of the value of a field
    MaxCommand,     \* bound on the length of a command line
    MaxHistory,     \* bound on the number of command lines
    MaxDrift        \* bound on how far a selection may get out of the text

ASSUME WidthAssumption ==
    /\ {Room, RoomUnaligned, WrapWidth, CommandWidth} \subseteq Nat \ {0}
    /\ {MaxLength, MaxCommand, MaxHistory, MaxDrift} \subseteq Nat
ASSUME LettersAssumption == Uncased \in [Letters -> Letters] /\ Typed \subseteq Letters
ASSUME ChoicesAssumption ==
    \A list \in ChoiceLists : \A i, j \in 1 .. Len(list) :
        /\ list[i] # <<>>
        /\ list[i] = list[j] => i = j

VARIABLES
    mode,           \* "shell" between command lines; "done"; "panicked"; or an editor
    result,         \* how the editing ended
    value,          \* e.value, line
    cursor,         \* the offset of the cursor
    sels, sele,     \* the offsets of the selection (selstart, selend)
    changed,        \* e.changed
    verbatim,       \* Ctrl-V was the last key
    multiline,      \* field.Multiline
    choices,        \* e.choices
    history,        \* the command lines
    historyIndex,   \* the one that is shown
    scroll,         \* the offset of the leftmost column of the command line
    initial         \* the value before the editing

selection == <<cursor, sels, sele>>
field     == <<multiline, choices, initial>>
prompt    == <<history, historyIndex>>
vars == <<mode, result, value, selection, changed, verbatim, prompt, scroll, field>>

-----------------------------------------------------------------------------

Blank == " "
Newline == "\n"
Character == Letters \cup {Blank, Newline}

\* The values of a field, and those that are recommended, are strings.
ASSUME ValuesAssumption ==
    InitialValues \subseteq Seq(Character) /\ ChoiceLists \subseteq Seq(Seq(Character))

Results == {"none", "done", "next", "previous", "interrupted"}
TextModes == {"command", "oneline", "multiline"}
FieldModes == {"oneline", "multiline"}

\* s[:n] and s[n:]
Before(s, n) == SubSeq(s, 1, n)
After(s, n) == SubSeq(s, n + 1, Len(s))

\* splitOnSelect(s, from, to) returns three parts of s, or its assertion fails.
SplitHolds(s, from, to) ==
    LET presel  == IF from >= 0 THEN Before(s, Min({from, Len(s)})) ELSE <<>>
        sel     == IF from < Len(s) /\ to > 0
                   THEN SubSeq(s, Max({from, 0}) + 1, Min({to, Len(s)}))
                   ELSE <<>>
        postsel == After(s, Max({to, 0}))
    IN  from # to => s = presel \o sel \o postsel

-----------------------------------------------------------------------------
(* The lines of a multiline value.                                         *)

\* wrap: the offset of the line that follows the one at offset o.
WrapAt(o) ==
    LET eol    == Min({i \in o .. Len(value) : i = Len(value) \/ value[i + 1] = Newline})
        blanks == {i \in (o + 1) .. (o + WrapWidth - 1) : value[i + 1] = Blank}
    IN  IF eol - o <= WrapWidth THEN eol + 1
        ELSE IF blanks # {} THEN Max(blanks) + 1
        ELSE o + WrapWidth

\* The offsets wrap returns: those of the lines, and one past the end.
Offsets ==
    LET offset[n \in 0 .. (Len(value) + 1)] ==
            IF n = 0 THEN 0
            ELSE IF offset[n - 1] > Len(value) THEN offset[n - 1]
            ELSE WrapAt(offset[n - 1])
    IN  {offset[n] : n \in DOMAIN offset}

\* lineContaining: the line that holds an offset, by its own offset; the last
\* line for an offset that is beyond the text.
LineAt(o) == Max({l \in Offsets \ {Len(value) + 1} : l <= o})

NextLine(o) ==
    LET place == Min({o, Len(value)})
    IN  Min({l \in Offsets : l > place})

IsLastLine(o) == NextLine(o) > Len(value)

\* The text of the line at offset o, without its newline.
LineText(o) ==
    LET next == NextLine(o)
    IN  SubSeq(value, o + 1,
               IF next > Len(value) \/ value[next] = Newline THEN next - 1 ELSE next)

\* Where Home and End lead.
StartOfLine == IF mode = "multiline" THEN LineAt(cursor) ELSE 0

EndOfLine ==
    LET end == Min({NextLine(cursor), Len(value)})
    IN  IF mode # "multiline" THEN Len(value)
        ELSE IF end > 0 /\ value[end] = Newline THEN end - 1
        ELSE end

\* Where the up and down keys lead in a multiline value.
\* Mutant: a cursor beyond the end of the shorter line below stays there.
LineBelowUnclamped ==
    IF IsLastLine(cursor) THEN Len(value)
    ELSE cursor + NextLine(cursor) - LineAt(cursor)

LineBelow ==
    LET next == NextLine(cursor)
    IN  IF IsLastLine(cursor) THEN Len(value)
        ELSE Min({cursor + next - LineAt(cursor), NextLine(next) - 1})

LineAbove ==
    LET line == LineAt(cursor)
    IN  IF line = 0 THEN 0
        ELSE Min({cursor - (line - LineAt(line - 1)), line - 1})

-----------------------------------------------------------------------------
(* The choices.                                                            *)

\* choicesLayout: the empty entry area, with the choices beside it (rows = 0)
\* or in columns of that many rows below it.
Layout(rows) ==
    LET row(r) == [k \in 1 .. ((Len(choices) - r) \div rows + 1) |->
                       choices[(k - 1) * rows + r]]
    IN  IF rows = 0 THEN << <<(<<>>)>> \o choices >>
        ELSE << <<(<<>>)>> >> \o [r \in 1 .. rows |-> row(r)]

Positions(grid) == {p \in (1 .. Len(grid)) \X (1 .. (Len(choices) + 1)) :
                        p[2] <= Len(grid[p[1]])}

\* The place of the value; the entry area when it is not a choice.
Selected(grid) ==
    IF \E p \in Positions(grid) : grid[p[1]][p[2]] = value
    THEN CHOOSE p \in Positions(grid) : grid[p[1]][p[2]] = value
    ELSE <<1, 1>>

Clamped(grid, l, c) ==
    LET line == Max({1, Min({l, Len(grid)})})
    IN  <<line, Max({1, Min({c, Len(grid[line])})})>>

\* Whether the k-th choice is longer than s and begins with it, but for case.
EqualFold(s, t) ==
    LET fold(r) == [i \in 1 .. Len(r) |-> IF r[i] \in Letters THEN Uncased[r[i]] ELSE r[i]]
    IN  fold(s) = fold(t)

Continues(k, s) == Len(choices[k]) > Len(s) /\ EqualFold(s, Before(choices[k], Len(s)))

\* autocomplete: the match after each of the choices.  It is the first that
\* continues s, then cut where another that does differs from it, in case too.
Matches(s) ==
    LET match[k \in 0 .. Len(choices)] ==
            IF k = 0 THEN <<>>
            ELSE IF ~Continues(k, s) THEN match[k - 1]
            ELSE IF match[k - 1] = <<>> THEN choices[k]
            ELSE LongestCommonPrefix({choices[k], match[k - 1]})
    IN  match

Autocomplete(s) == Matches(s)[Len(choices)]

\* The index of the first difference, which autocomplete cuts at, is out of all
\* bounds when there is none.
Completable(s) ==
    \A k \in 1 .. Len(choices) : Continues(k, s) => Matches(s)[k - 1] # choices[k]

\* Choices that begin alike but for case begin alike, and none is the beginning
\* of one that is listed before it.
CasesAgree ==
    \A c, d \in Range(choices) : \A n \in 0 .. Min({Len(c), Len(d)}) :
        EqualFold(Before(c, n), Before(d, n)) => Before(c, n) = Before(d, n)

ShorterFirst ==
    \A i, j \in 1 .. Len(choices) : i < j => ~IsPrefix(choices[j], choices[i])

-----------------------------------------------------------------------------

TypeOK ==
    /\ mode \in TextModes \cup {"shell", "choices", "done", "panicked"}
    /\ result \in Results
    /\ value \in Seq(Character)
    /\ selection \in Int \X Int \X Int
    /\ changed \in BOOLEAN
    /\ verbatim \in BOOLEAN
    /\ multiline \in BOOLEAN
    /\ choices \in {<<>>} \cup ChoiceLists
    /\ history \in Seq(Seq(Character))
    /\ historyIndex \in 0 .. Len(history)
    /\ scroll \in Int
    /\ initial \in Seq(Character)
    /\ mode = "choices" => value \in {<<>>} \cup Range(choices)

\* The editors are entered with the cursor after the value, all selected.
InitField ==
    /\ multiline \in BOOLEAN
    /\ choices \in {<<>>} \cup ChoiceLists
    /\ value \in InitialValues
    /\ \E room \in {Room, RoomUnaligned} :
           mode = IF choices # <<>> /\ value \in {<<>>} \cup Range(choices) THEN "choices"
                  ELSE IF Len(value) >= room \/ Newline \in Range(value) THEN "multiline"
                  ELSE "oneline"
    /\ cursor = Len(value) /\ sels = 0 /\ sele = Len(value)

InitShell ==
    /\ multiline = FALSE /\ choices = <<>>
    /\ value = <<>> /\ mode = "shell"
    /\ cursor = 0 /\ sels = 0 /\ sele = 0

Init ==
    /\ InitField \/ InitShell
    /\ initial = value
    /\ result = "none"
    /\ changed = FALSE /\ verbatim = FALSE
    /\ history = <<>> /\ historyIndex = 0 /\ scroll = 0

-----------------------------------------------------------------------------

\* Drawing the screen does not stop the program.
Drawable ==
    \/ mode = "oneline" /\ SplitHolds(value, sels, sele)
    \/ /\ mode = "command"
       /\ scroll \in 0 .. Len(value)
       /\ SplitHolds(After(value, scroll), sels - scroll, sele - scroll)
    \/ /\ mode = "multiline"
       /\ cursor >= 0
       /\ \A o \in Offsets \ {Len(value) + 1} : SplitHolds(LineText(o), sels - o, sele - o)

\* Slicing the value at the selection or the cursor does not stop the program.
Sliceable == {sels, sele, cursor} \subseteq 0 .. Len(value)

\* One of these modes reads a key.
In(modes) ==
    /\ mode \in modes
    /\ Drawable
    /\ {sels, sele} \subseteq (0 - MaxDrift) .. (Len(value) + MaxDrift)

Caret(c) == cursor' = c /\ sels' = c /\ sele' = c

\* Mutant: a deletion does not count as a change.
EditedWithoutMark(v) ==
    /\ Len(v) <= IF mode = "command" THEN MaxCommand ELSE MaxLength
    /\ value' = v
    /\ changed' = (changed \/ Len(v) > Len(value))

Edited(v) ==
    /\ Len(v) <= IF mode = "command" THEN MaxCommand ELSE MaxLength
    /\ value' = v
    /\ changed' = (changed \/ mode # "command")

Remain == UNCHANGED <<mode, result, prompt>>

Moved == Remain /\ UNCHANGED <<value, changed>>

\* Moving the cursor.
Home == In(TextModes) /\ Caret(StartOfLine) /\ Moved

ShiftHome ==
    /\ In(TextModes)
    /\ cursor' = StartOfLine
    /\ sels' = StartOfLine
    /\ UNCHANGED sele
    /\ Moved

End == In(TextModes) /\ Caret(EndOfLine) /\ Moved

ShiftEnd ==
    /\ In(TextModes)
    /\ cursor' = EndOfLine
    /\ sele' = EndOfLine
    /\ UNCHANGED sels
    /\ Moved

Left == In(TextModes) /\ Caret(IF cursor > 0 THEN cursor - 1 ELSE cursor) /\ Moved

Right == In(TextModes) /\ Caret(IF cursor < Len(value) THEN cursor + 1 ELSE cursor) /\ Moved

ShiftLeft ==
    /\ In(TextModes)
    /\ \/ /\ sels # sele /\ sele = cursor
          /\ sele' = (IF mode = "command" THEN sels ELSE sele) - 1
          /\ UNCHANGED sels
       \/ /\ ~(sels # sele /\ sele = cursor) /\ cursor > 0
          /\ sels' = sels - 1
          /\ UNCHANGED sele
    /\ cursor' = cursor - 1
    /\ Moved

ShiftRight ==
    /\ In(TextModes)
    /\ \/ /\ sels # sele /\ sels = cursor
          /\ sels' = sels + 1
          /\ UNCHANGED sele
       \/ /\ ~(sels # sele /\ sels = cursor) /\ cursor < Len(value)
          /\ sele' = sele + 1
          /\ UNCHANGED sels
    /\ cursor' = cursor + 1
    /\ Moved

Down == In({"multiline"}) /\ Caret(LineBelow) /\ Moved

ShiftDown ==
    /\ In({"multiline"})
    /\ cursor' = LineBelow /\ sele' = LineBelow
    /\ UNCHANGED sels
    /\ Moved

Up == In({"multiline"}) /\ Caret(LineAbove) /\ Moved

ShiftUp ==
    /\ In({"multiline"})
    /\ cursor' = LineAbove /\ sels' = LineAbove
    /\ UNCHANGED sele
    /\ Moved

-----------------------------------------------------------------------------
(* Changing the text.                                                      *)

Delete ==
    /\ In(TextModes)
    /\ \/ /\ cursor \in 0 .. Len(value) - 1
          /\ Edited(Before(value, cursor) \o After(value, cursor + 1))
       \/ cursor >= Len(value) /\ UNCHANGED <<value, changed>>
    /\ Caret(cursor)
    /\ Remain

Backspace ==
    /\ In(TextModes)
    /\ \/ /\ sels # sele /\ Sliceable
          /\ Edited(Before(value, sels) \o After(value, sele))
          /\ Caret(sels)
       \/ /\ sels = sele /\ cursor \in 1 .. Len(value)
          /\ Edited(Before(value, cursor - 1) \o After(value, cursor))
          /\ Caret(cursor - 1)
       \/ /\ sels = sele /\ cursor = 0
          /\ Caret(cursor)
          /\ UNCHANGED <<value, changed>>
    /\ Remain

\* Ctrl-K, which on one line tells a cursor beyond the text.
KillLine ==
    /\ In(TextModes)
    /\ \/ /\ cursor # EndOfLine /\ cursor \in 0 .. Len(value)
          /\ Edited(Before(value, cursor) \o After(value, EndOfLine))
       \/ /\ cursor = EndOfLine \/ (mode = "oneline" /\ cursor > Len(value))
          /\ UNCHANGED <<value, changed>>
    /\ Caret(cursor)
    /\ Remain

\* Ctrl-U
KillAll ==
    /\ In(TextModes)
    /\ IF value # <<>> THEN Edited(<<>>) ELSE UNCHANGED <<value, changed>>
    /\ Caret(0)
    /\ Remain

\* s with a character in the place of what is between two offsets.
Replaced(s, from, to, ch) == Before(s, from) \o <<ch>> \o After(s, to)

WithSelectionReplaced(ch) == Replaced(value, sels, sele, ch)

Type(ch) ==
    /\ In({"command", "multiline"})
    /\ Sliceable
    /\ Edited(WithSelectionReplaced(ch))
    /\ Caret(sels + 1)
    /\ Remain

\* A character that becomes the last one is completed from the choices.
Completed(v, s, e, ch) ==
    LET new == Replaced(v, s, e, ch)
    IN  IF s + 1 = Len(new) THEN Autocomplete(new) ELSE <<>>

\* ... which stops the program when no place is found to cut a choice at.
Uncompletable(v, s, e, ch) ==
    LET new == Replaced(v, s, e, ch)
    IN  s + 1 = Len(new) /\ ~Completable(new)

\* Mutant: the mode of choices is not left.
TypeOnelineInMode(v, s, e, ch) ==
    LET complete == Completed(v, s, e, ch)
    IN  /\ ~Uncompletable(v, s, e, ch)
        /\ Edited(IF complete # <<>> THEN complete ELSE Replaced(v, s, e, ch))
        /\ cursor' = s + 1
        /\ sels' = s + 1
        /\ sele' = IF complete # <<>> THEN Len(complete) ELSE s + 1
        /\ mode' = IF Len(value') >= Room THEN "multiline" ELSE mode
        /\ UNCHANGED <<result, prompt>>

\* A character typed on one line, of text v with selection [s, e): the value
\* is completed from the choices, and moves to several lines when it is wide.
TypeOneline(v, s, e, ch) ==
    LET complete == Completed(v, s, e, ch)
    IN  /\ ~Uncompletable(v, s, e, ch)
        /\ Edited(IF complete # <<>> THEN complete ELSE Replaced(v, s, e, ch))
        /\ cursor' = s + 1
        /\ sels' = s + 1
        /\ sele' = IF complete # <<>> THEN Len(complete) ELSE s + 1
        /\ mode' = IF Len(value') >= Room THEN "multiline" ELSE "oneline"
        /\ UNCHANGED <<result, prompt>>

TypeHere(ch) == In({"oneline"}) /\ Sliceable /\ TypeOneline(value, sels, sele, ch)

\* A printable character starts the value anew in the one-line mode.
TypeInsteadOfChoice(ch) == mode = "choices" /\ TypeOneline(<<>>, 0, 0, ch)

\* A key that moves among the choices: one line or column away, to the ends of
\* the line, or (Delete, Backspace) to the entry area.  How many rows there are
\* is up to the width of the screen.
Choose ==
    /\ mode = "choices"
    /\ \E rows \in 0 .. Len(choices) :
           LET grid == Layout(rows)
               at   == Selected(grid)
           IN  \E to \in {<<at[1] - 1, at[2]>>, <<at[1] + 1, at[2]>>,
                          <<at[1], at[2] - 1>>, <<at[1], at[2] + 1>>,
                          <<at[1], 1>>, <<at[1], Len(choices) + 2>>, <<1, 1>>} :
                   LET p == Clamped(grid, to[1], to[2])
                   IN  p # at /\ Edited(grid[p[1]][p[2]])
    /\ sels' = Len(value') /\ sele' = Len(value')
    /\ UNCHANGED cursor
    /\ Remain

-----------------------------------------------------------------------------
(* Enter, and the keys that end the editing.                               *)

WholeSelected == cursor = Len(value) /\ cursor # 0 /\ cursor = sele /\ sels = 0

Finish(r) ==
    /\ mode' = "done"
    /\ result' = r
    /\ UNCHANGED <<value, selection, changed, prompt>>

InsertNewline ==
    /\ Sliceable
    /\ Edited(WithSelectionReplaced(Newline))
    /\ Caret(sels + 1)
    /\ mode' = "multiline"
    /\ UNCHANGED <<result, prompt>>

EnterOneline ==
    /\ In({"oneline"})
    /\ LET skip   == ~verbatim /\ WholeSelected
           insert == ~skip /\ (verbatim \/ (cursor # 0 /\ multiline))
       IN  IF insert THEN InsertNewline ELSE Finish("next")

\* The third Enter in a row, or one with all selected, leaves the field.
EnterMultiline ==
    /\ In({"multiline"})
    /\ cursor # 0 \/ value # <<>>
    /\ LET third == /\ cursor = Len(value) /\ cursor > 1
                    /\ value[cursor] = Newline /\ value[cursor - 1] = Newline
       IN  IF WholeSelected \/ third THEN Finish("next") ELSE InsertNewline

EnterCommand ==
    /\ In({"command"})
    /\ history' = [history EXCEPT ![Len(history)] = value]
    /\ mode' = "shell"
    /\ UNCHANGED <<result, value, selection, changed, historyIndex>>

Leave ==
    /\ In(FieldModes) \/ mode = "choices"
    /\ \E r \in {"next", "previous", "done", "interrupted"} : Finish(r)

Interrupt == In({"command"}) /\ Finish("interrupted")

\* Ctrl-L and F1 start the mode again.
Redraw ==
    /\ In(FieldModes)
    /\ UNCHANGED selection
    /\ Moved

-----------------------------------------------------------------------------
(* The history of the command line.                                        *)

Recall(i) ==
    /\ historyIndex' = i
    /\ value' = history'[i]
    /\ Caret(Len(value'))
    /\ UNCHANGED <<mode, result, changed>>

\* Mutant: the line being left is stored over the one it was recalled from.
RecallPreviousStoring ==
    /\ In({"command"})
    /\ historyIndex > 1
    /\ history' = [history EXCEPT ![historyIndex] = value]
    /\ Recall(historyIndex - 1)

\* A new line is put aside when an older one is recalled.
RecallPrevious ==
    /\ In({"command"})
    /\ historyIndex > 1
    /\ history' = IF historyIndex = Len(history)
                  THEN [history EXCEPT ![historyIndex] = value]
                  ELSE history
    /\ Recall(historyIndex - 1)

RecallNext ==
    /\ In({"command"})
    /\ historyIndex < Len(history)
    /\ history' = history
    /\ Recall(historyIndex + 1)

\* The shell reads another command line.
ReadCommand ==
    /\ mode = "shell"
    /\ Len(history) < MaxHistory
    /\ history' = Append(history, <<>>)
    /\ historyIndex' = Len(history) + 1
    /\ mode' = "command"
    /\ value' = <<>> /\ Caret(0) /\ scroll' = 0
    /\ UNCHANGED <<result, changed, verbatim, field>>

-----------------------------------------------------------------------------

Key ==
    \/ Home \/ ShiftHome \/ End \/ ShiftEnd
    \/ Left \/ ShiftLeft \/ Right \/ ShiftRight
    \/ Down \/ ShiftDown \/ Up \/ ShiftUp
    \/ Delete \/ Backspace \/ KillLine \/ KillAll
    \/ \E ch \in Typed \cup {Blank} : Type(ch) \/ TypeHere(ch) \/ TypeInsteadOfChoice(ch)
    \/ Choose
    \/ EnterOneline \/ EnterMultiline \/ EnterCommand
    \/ Leave \/ Interrupt \/ Redraw
    \/ RecallPrevious \/ RecallNext

\* The cursor of the command line is kept in view after each key.
KeyStep ==
    /\ Key
    /\ verbatim' = FALSE
    /\ scroll' = IF mode' = "command"
                 THEN Max({Min({scroll, cursor'}), cursor' - CommandWidth})
                 ELSE scroll
    /\ UNCHANGED field

\* Ctrl-V
Verbatim ==
    /\ In({"oneline"})
    /\ verbatim' = TRUE
    /\ UNCHANGED <<mode, result, value, selection, changed, prompt, scroll, field>>

\* A character is typed that cannot be completed.
CompletionFails ==
    \E ch \in Typed \cup {Blank} :
        \/ mode = "oneline" /\ Sliceable /\ Uncompletable(value, sels, sele, ch)
        \/ mode = "choices" /\ Uncompletable(<<>>, 0, 0, ch)

\* The program stops: in drawing, in taking a slice of the value, or of a choice.
Panic ==
    /\ \/ mode \in TextModes /\ (~Drawable \/ ~Sliceable)
       \/ CompletionFails
    /\ mode' = "panicked"
    /\ UNCHANGED <<result, value, selection, changed, verbatim, prompt, scroll, field>>

Next == ReadCommand \/ KeyStep \/ Verbatim \/ Panic

Spec == Init /\ [][Next]_vars

-----------------------------------------------------------------------------
(* Properties.                                                             *)

\* As long as the selection of a field runs forwards, it lies within the text
\* and the cursor is at one of its ends, through all the arithmetic of lines of
\* different lengths (ed-multiline.go:160-203): what every slice of the value
\* and every Shift key rest on.  On one line it always runs forwards, whatever
\* the keys (ed-oneline.go).  Both rest on choices whose common beginnings agree
\* in case: the completion of others may be shorter than what was typed.
SelectionInText ==
    \/ /\ mode \in FieldModes /\ sels <= sele =>
              /\ 0 <= sels /\ sele <= Len(value)
              /\ cursor \in {sels, sele}
       /\ mode = "oneline" => sels <= sele
    \/ ~CasesAgree

\* A field whose value is not the one it had counts as changed: editField asks
\* again for an invalid value only until it comes back unchanged
\* (editfield.go:109).
ChangedIfDifferent ==
    mode \in FieldModes \cup {"choices"} \/ result \in {"done", "next", "previous"} =>
        (value # initial => changed)

\* The command lines that were entered stay in the history as they were
\* entered, whatever is recalled, edited and abandoned (cmdline.go:134-150).
HistoryKept ==
    [][\A i \in 1 .. Len(history) :
           (i = Len(history) /\ mode = "command") \/ history'[i] = history[i]]_vars

\* splitOnSelect's assertion (cio.go:93-95) holds, and no index is negative:
\* no sequence of keys stops the program.
NeverPanics == mode # "panicked"

\* One may type instead of choosing, and the entry is completed from the choices
\* (edit.go:51): it is not cut short behind the cursor, which is after what was
\* typed.
EntryKept == mode \in FieldModes => cursor <= Len(value)
=============================================================================
