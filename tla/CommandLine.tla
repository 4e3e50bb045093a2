------------------------------ MODULE CommandLine -----------------------------
(***************************************************************************)
(* What the shell makes of a line that is typed (src/cmd/cmd.go): the      *)
(* words, the redirections, and the field a field name stands for.  A line *)
(* is a sequence of characters, each a string of its own; "L" and "Q" are  *)
(* the capitals of "l" and "q".                                            *)
(***************************************************************************)
EXTENDS Naturals, Sequences, FiniteSets

Capitals == {"L", "Q"}
Letters  == {"l", "q", "c", "e", "p"} \cup Capitals
Quotes   == {"'", "\""}
Angles   == {"<", ">"}
Chars    == Letters \cup Quotes \cup Angles \cup {" "}

\* The place of the first of some characters in a line; 0 if there is none.
IndexAny(line, S) ==
    IF \E i \in DOMAIN line : line[i] \in S
    THEN CHOOSE i \in DOMAIN line :
            line[i] \in S /\ \A j \in 1 .. i - 1 : line[j] \notin S
    ELSE 0

From(line, i) == SubSeq(line, i, Len(line))

Pending == [line : Seq(Chars), partial : Seq(Chars), quoted : BOOLEAN]

\* The loop of tokenizeLine: the words in what is left of the line, the first of
\* which has begun with partial.  What stands before < or > and is not quoted is
\* dropped (only partial is appended there).
words[p \in Pending] ==
    LET Word(w) == IF w # <<>> \/ p.quoted THEN <<w>> ELSE <<>>
        idx     == IndexAny(p.line, Quotes \cup Angles \cup {" "})
        rest    == From(p.line, idx + 1)
        before  == p.partial \o SubSeq(p.line, 1, idx - 1)
        Go(l, w, q) == words[[line |-> l, partial |-> w, quoted |-> q]]
    IN  IF p.line = <<>> THEN Word(p.partial)
        ELSE IF idx = 0 THEN <<p.partial \o p.line>>
        ELSE IF p.line[idx] \in Quotes
        THEN LET end == IndexAny(rest, {p.line[idx]})
             IN  IF end = 0 THEN <<before \o rest>>
                 ELSE Go(From(rest, end + 1), before \o SubSeq(rest, 1, end - 1), TRUE)
        ELSE IF p.line[idx] = " " THEN Word(before) \o Go(rest, <<>>, FALSE)
        ELSE IF p.line[idx] = ">" /\ rest # <<>> /\ rest[1] = ">"
        THEN Word(p.partial) \o << <<">", ">">> >> \o Go(Tail(rest), <<>>, FALSE)
        ELSE Word(p.partial) \o << <<p.line[idx]>> >> \o Go(rest, <<>>, FALSE)

\* Mutant: whether a word was quoted is not remembered.
tokenizeLineUnquoted(line) ==
    SelectSeq(words[[line |-> line, partial |-> <<>>, quoted |-> FALSE]],
              LAMBDA w : w # <<>>)

tokenizeLine(line) == words[[line |-> line, partial |-> <<>>, quoted |-> FALSE]]

Redirects == {<<"<">>, <<">">>, <<">", ">">>}

Parsed == [args : Seq(Seq(Chars)), in : BOOLEAN, out : BOOLEAN, ok : BOOLEAN]

\* parseCommandLine, from its argument i on.  A quoted < or > is a redirection
\* too; a file that is opened stays so when the line is refused later on.
parse[i \in Nat, p \in Parsed] ==
    IF ~p.ok \/ i > Len(p.args) THEN p
    ELSE IF p.args[i] \notin Redirects THEN parse[i + 1, p]
    ELSE LET input == p.args[i] = <<"<">>
             ok    == /\ IF input THEN ~p.in ELSE ~p.out
                      /\ i < Len(p.args)
                      /\ p.args[i + 1] \notin Redirects
         IN  IF ~ok THEN [p EXCEPT !.ok = FALSE]
             ELSE parse[i, [args |-> SubSeq(p.args, 1, i - 1) \o From(p.args, i + 2),
                            in |-> p.in \/ input, out |-> p.out \/ ~input, ok |-> TRUE]]

parseCommandLine(line) ==
    parse[1, [args |-> tokenizeLine(line), in |-> FALSE, out |-> FALSE, ok |-> TRUE]]

-----------------------------------------------------------------------------
(* Field names.                                                            *)

Lower(c) == CASE c = "L" -> "l" [] c = "Q" -> "q" [] OTHER -> c

\* Names are compared with their capitals when the input has one.
Sensitive(in) == IndexAny(in, Capitals) # 0

Alike(a, b, in) ==
    \/ a = b
    \/ ~Sensitive(in) /\ [i \in DOMAIN a |-> Lower(a[i])] = [i \in DOMAIN b |-> Lower(b[i])]

SameChar(a, b, sensitive) == a = b \/ (~sensitive /\ Lower(a) = Lower(b))

Unspaced(s) == SelectSeq(s, LAMBDA c : c # " ")

Capital(c) == IF c \in Capitals THEN 1 ELSE 0

NoMatch == [ok |-> FALSE, uc |-> 0, ch |-> 0]

Better(a, b) == a.uc < b.uc \/ (a.uc = b.uc /\ a.ch < b.ch)

Matching == [name : Seq(Chars), in : Seq(Chars), sensitive : BOOLEAN]

\* For a mutant: a letter that can be matched is.
matchGreedy[p \in Matching] ==
    IF p.name = <<>> THEN [NoMatch EXCEPT !.ok = p.in = <<>>]
    ELSE IF p.in # <<>> /\ SameChar(p.name[1], p.in[1], p.sensitive)
    THEN matchGreedy[[p EXCEPT !.name = Tail(@), !.in = Tail(@)]]
    ELSE LET m == matchGreedy[[p EXCEPT !.name = Tail(@)]]
         IN  IF m.ok THEN [m EXCEPT !.uc = @ + Capital(p.name[1]), !.ch = @ + 1] ELSE NoMatch

\* The recursion of matchFieldName: whether a name can be shortened to the input, and what has to
\* be left out for that, in capitals and in characters.
match[p \in Matching] ==
    IF p.name = <<>> THEN [NoMatch EXCEPT !.ok = p.in = <<>>]
    ELSE LET same == p.in # <<>> /\ SameChar(p.name[1], p.in[1], p.sensitive)
             m1 == IF same THEN match[[p EXCEPT !.name = Tail(@), !.in = Tail(@)]] ELSE NoMatch
             m  == match[[p EXCEPT !.name = Tail(@)]]
             m2 == [m EXCEPT !.uc = @ + Capital(p.name[1]), !.ch = @ + 1]
         IN  IF m1.ok /\ (~m.ok \/ Better(m1, m2)) THEN m1
             ELSE IF m.ok THEN m2 ELSE NoMatch

matchFieldNameGreedy(name, in, sensitive) ==
    matchGreedy[[name |-> name, in |-> in, sensitive |-> sensitive]]

matchFieldName(name, in, sensitive) ==
    match[[name |-> name, in |-> in, sensitive |-> sensitive]]

First(S) == IF S = {} THEN 0 ELSE CHOOSE i \in S : \A j \in S : i <= j

\* expandFieldName: the index of the field that a name stands for; 0 for none.
expandFieldName(fields, in, loose) ==
    LET Matches(i) == matchFieldName(fields[i].label, in, Sensitive(in))
        byTag      == {i \in DOMAIN fields : fields[i].tag = in}
        byLabel    == {i \in DOMAIN fields : Alike(fields[i].label, in, in)}
        byUnspaced == {i \in DOMAIN fields :
                         IndexAny(in, {" "}) = 0 /\ Alike(Unspaced(fields[i].label), in, in)}
        shortened  == {i \in DOMAIN fields : loose /\ Matches(i).ok}
        best       == {i \in shortened :
                         \A j \in shortened : ~Better(Matches(j), Matches(i))}
    IN  IF byTag # {} THEN First(byTag)
        ELSE IF byLabel # {} THEN First(byLabel)
        ELSE IF byUnspaced # {} THEN First(byUnspaced)
        ELSE First(best)

-----------------------------------------------------------------------------
(* The words of a line and the field for a name by other definitions than  *)
(* those of the code.                                                      *)

\* A line read one character at a time: words done, the one begun, and the quote
\* one is in, or "none"; new tells < and > from words, so that > > is two.
Unread == [words |-> <<>>, word |-> <<>>, begun |-> FALSE, quote |-> "none", new |-> FALSE]

Done(s) == IF s.begun THEN Append(s.words, s.word) ELSE s.words

Scan(s, c) ==
    LET Rest(w) == [Unread EXCEPT !.words = w]
    IN  IF s.quote = c THEN [s EXCEPT !.quote = "none"]
        ELSE IF s.quote # "none" THEN [s EXCEPT !.word = Append(@, c)]
        ELSE IF c \in Quotes THEN [s EXCEPT !.quote = c, !.begun = TRUE, !.new = FALSE]
        ELSE IF c = " " THEN Rest(Done(s))
        ELSE IF c = ">" /\ s.new
        THEN Rest([s.words EXCEPT ![Len(s.words)] = <<">", ">">>])
        ELSE IF c \in Angles THEN [Rest(Append(Done(s), <<c>>)) EXCEPT !.new = c = ">"]
        ELSE [s EXCEPT !.word = Append(@, c), !.begun = TRUE, !.new = FALSE]

Words(l) ==
    LET read[i \in 0 .. Len(l)] == IF i = 0 THEN Unread ELSE Scan(read[i - 1], l[i])
    IN  Done(read[Len(l)])

\* Every < and > stands at the start of a word or after a quote.
Spaced(l) ==
    \A i \in 2 .. Len(l) :
        l[i] \in Angles => l[i - 1] \in Quotes \cup Angles \cup {" "}

\* The ways to leave letters out of a label that result in the input: the places
\* of the letters that are kept.
Shortenings(label, in) ==
    {kept \in [1 .. Len(in) -> 1 .. Len(label)] :
        /\ \A j, k \in 1 .. Len(in) : j < k => kept[j] < kept[k]
        /\ \A k \in 1 .. Len(in) :
              \/ label[kept[k]] = in[k]
              \/ ~Sensitive(in) /\ Lower(label[kept[k]]) = in[k]}

\* The capitals that are left out, and the letters.
Cost(label, kept) ==
    LET out == (1 .. Len(label)) \ {kept[k] : k \in DOMAIN kept}
    IN  <<Cardinality({i \in out : label[i] \in Capitals}), Cardinality(out)>>

Less(a, b) == a[1] < b[1] \/ (a[1] = b[1] /\ a[2] < b[2])

\* Field f is the first of those that take least to be shortened to the input.
IsLeast(fields, in, f) ==
    /\ f \in DOMAIN fields
    /\ \E kept \in Shortenings(fields[f].label, in) :
           \A i \in DOMAIN fields : \A other \in Shortenings(fields[i].label, in) :
               /\ ~Less(Cost(fields[i].label, other), Cost(fields[f].label, kept))
               /\ i < f => Less(Cost(fields[f].label, kept), Cost(fields[i].label, other))

=============================================================================
