------------------------------ MODULE ShellProofs -----------------------------
(***************************************************************************)
(* Proofs about the packet shell.                                          *)
(*                                                                         *)
(* The reading of lines and field names: that words and match, which are   *)
(* recursive, satisfy their equations; that of a line whose < and > stand  *)
(* where words may begin tokenizeLine makes the words that reading it one  *)
(* character at a time gives; and that expandFieldName finds the first of  *)
(* the fields whose labels take least to be shortened to the name.  An     *)
(* induction is an argument about a least counterexample.                  *)
(*                                                                         *)
(* The listing of messages, for any number of commands and rows and any    *)
(* size of the buffer of the CSV writer.                                   *)
(***************************************************************************)
EXTENDS Shell, SequenceTheorems, FiniteSetTheorems, WellFoundedInduction, TLAPS

-----------------------------------------------------------------------------
(* Numbers and sequences.                                                  *)

HasMin(R, S) == \E x \in S : \A y \in S : ~(<<y, x>> \in R)

LEMMA WellFoundedMin ==
    ASSUME NEW R, NEW A, IsWellFoundedOn(R, A), NEW S, S \subseteq A, S # {}
    PROVE  HasMin(R, S)
BY WFMin DEF HasMin

LEMMA LeastByRelation ==
    ASSUME NEW S \in SUBSET Nat, S # {},
           NEW R, IsWellFoundedOn(R, Nat), \A i, j \in Nat : i < j => <<i, j>> \in R
    PROVE  \E n \in S : \A k \in S : n <= k
<1>1. S \subseteq Nat
  OBVIOUS
<1>2. HasMin(R, S)
  BY <1>1, WellFoundedMin, Zenon
<1>3. PICK n \in S : \A k \in S : ~(<<k, n>> \in R)
  BY <1>2 DEF HasMin
<1>4. \A k \in S : ~(k < n)
  BY <1>1, <1>3, Zenon
<1>5. \A k \in S : n <= k
  BY <1>1, <1>4
<1> QED BY <1>5

\* The least-number principle; what follows by induction is shown by it.
LEMMA Least ==
    ASSUME NEW S \in SUBSET Nat, S # {}
    PROVE  \E n \in S : \A k \in S : n <= k
<1>1. \A i, j \in Nat : i < j => <<i, j>> \in OpToRel(<, Nat)
  BY DEF OpToRel
<1> QED BY LeastByRelation, <1>1, NatLessThanWellFounded, Zenon

LEMMA FromParts ==
    ASSUME NEW S, NEW s \in Seq(S), NEW i \in 1 .. Len(s) + 1
    PROVE  /\ From(s, i) \in Seq(S) /\ Len(From(s, i)) = Len(s) + 1 - i
           /\ \A j \in 1 .. Len(s) + 1 - i : From(s, i)[j] = s[i + j - 1]
           /\ From(s, i) = <<>> <=> i = Len(s) + 1
<1>1. /\ From(s, i) \in Seq(S) /\ Len(From(s, i)) = Len(s) + 1 - i
      /\ \A j \in 1 .. Len(s) + 1 - i : From(s, i)[j] = s[i + j - 1]
  BY DEF From
<1>2. From(s, i) = <<>> <=> Len(From(s, i)) = 0
  BY <1>1
<1>3. Len(s) + 1 - i = 0 <=> i = Len(s) + 1
  OBVIOUS
<1> QED BY <1>1, <1>2, <1>3

LEMMA FromFrom ==
    ASSUME NEW S, NEW s \in Seq(S), NEW i \in 1 .. Len(s) + 1,
           NEW j \in 1 .. Len(s) + 2 - i
    PROVE  From(From(s, i), j) = From(s, i + j - 1)
<1>1. /\ From(s, i) \in Seq(S) /\ Len(From(s, i)) = Len(s) + 1 - i
      /\ \A k \in 1 .. Len(s) + 1 - i : From(s, i)[k] = s[i + k - 1]
  BY FromParts
<1>2. i + j - 1 \in 1 .. Len(s) + 1 /\ j \in 1 .. Len(From(s, i)) + 1
  BY <1>1
<1> DEFINE a == From(From(s, i), j)
           b == From(s, i + j - 1)
<1>3. /\ a \in Seq(S) /\ Len(a) = Len(From(s, i)) + 1 - j
      /\ \A k \in 1 .. Len(From(s, i)) + 1 - j : a[k] = From(s, i)[j + k - 1]
  BY <1>1, <1>2, FromParts
<1>4. /\ b \in Seq(S) /\ Len(b) = Len(s) + 1 - (i + j - 1)
      /\ \A k \in 1 .. Len(s) + 1 - (i + j - 1) : b[k] = s[i + j - 1 + k - 1]
  BY <1>2, FromParts
<1> HIDE DEF a, b
<1>5. Len(a) = Len(b)
  BY <1>1, <1>3, <1>4
<1>6. \A k \in 1 .. Len(a) : a[k] = b[k]
  <2> TAKE k \in 1 .. Len(a)
  <2>1. j + k - 1 \in 1 .. Len(s) + 1 - i
    BY <1>1, <1>3
  <2>2. a[k] = s[i + (j + k - 1) - 1]
    BY <1>1, <1>3, <2>1
  <2>3. b[k] = s[i + j - 1 + k - 1]
    BY <1>4, <1>5
  <2>4. i + (j + k - 1) - 1 = i + j - 1 + k - 1
    BY <1>3
  <2> QED BY <2>2, <2>3, <2>4
<1>7. a = b
  BY <1>3, <1>4, <1>5, <1>6, SeqEqual
<1> QED BY <1>7 DEF a, b

LEMMA TailFrom ==
    ASSUME NEW S, NEW s \in Seq(S), s # <<>>
    PROVE  Tail(s) = From(s, 2)
BY DEF From

LEMMA FromAll ==
    ASSUME NEW S, NEW s \in Seq(S)
    PROVE  From(s, 1) = s
BY SubSeqFull DEF From

\* The first place of some characters, if there is one.
LEMMA IndexAnyFirst ==
    ASSUME NEW S, NEW s \in Seq(S), NEW C
    PROVE  /\ IndexAny(s, C) \in 0 .. Len(s)
           /\ IndexAny(s, C) = 0 => \A i \in 1 .. Len(s) : s[i] \notin C
           /\ IndexAny(s, C) # 0 =>
                /\ s[IndexAny(s, C)] \in C
                /\ \A j \in 1 .. IndexAny(s, C) - 1 : s[j] \notin C
<1> DEFINE P == {i \in DOMAIN s : s[i] \in C}
           k == CHOOSE i \in DOMAIN s : s[i] \in C /\ \A j \in 1 .. i - 1 : s[j] \notin C
<1>1. DOMAIN s = 1 .. Len(s) /\ Len(s) \in Nat
  OBVIOUS
<1>2. CASE P = {}
  BY <1>1, <1>2 DEF IndexAny
<1>3. CASE P # {}
  <2>1. P \in SUBSET Nat
    BY <1>1
  <2>2. PICK i \in P : \A j \in P : i <= j
    BY <1>3, <2>1, Least
  <2>3. i \in DOMAIN s /\ s[i] \in C /\ \A j \in 1 .. i - 1 : s[j] \notin C
    BY <1>1, <2>1, <2>2
  <2>4. k \in DOMAIN s /\ s[k] \in C /\ \A j \in 1 .. k - 1 : s[j] \notin C
    BY <2>3, Zenon
  <2>5. IndexAny(s, C) = k
    BY <2>3 DEF IndexAny
  <2> HIDE DEF k
  <2> QED BY <1>1, <2>4, <2>5
<1> QED BY <1>2, <1>3

-----------------------------------------------------------------------------
(* The recursion of tokenizeLine.                                          *)

Special == Quotes \cup Angles \cup {" "}

Item(l, w, q) == [line |-> l, partial |-> w, quoted |-> q]

\* The parts of what is left of a line.
Idx(p)    == IndexAny(p.line, Special)
Rest(p)   == From(p.line, Idx(p) + 1)
Before(p) == p.partial \o SubSeq(p.line, 1, Idx(p) - 1)
Ending(p) == IndexAny(Rest(p), {p.line[Idx(p)]})
Word(p, w) == IF w # <<>> \/ p.quoted THEN <<w>> ELSE <<>>

\* The words of p, when f gives those of shorter lines.
WordsBy(f, p) ==
    IF p.line = <<>> THEN Word(p, p.partial)
    ELSE IF Idx(p) = 0 THEN <<p.partial \o p.line>>
    ELSE IF p.line[Idx(p)] \in Quotes
    THEN IF Ending(p) = 0 THEN <<Before(p) \o Rest(p)>>
         ELSE f[Item(From(Rest(p), Ending(p) + 1),
                     Before(p) \o SubSeq(Rest(p), 1, Ending(p) - 1), TRUE)]
    ELSE IF p.line[Idx(p)] = " " THEN Word(p, Before(p)) \o f[Item(Rest(p), <<>>, FALSE)]
    ELSE IF p.line[Idx(p)] = ">" /\ Rest(p) # <<>> /\ Rest(p)[1] = ">"
    THEN Word(p, p.partial) \o << <<">", ">">> >> \o f[Item(Tail(Rest(p)), <<>>, FALSE)]
    ELSE Word(p, p.partial) \o << <<p.line[Idx(p)]>> >> \o f[Item(Rest(p), <<>>, FALSE)]

LEMMA WordsIs == words = CHOOSE f : f = [p \in Pending |-> WordsBy(f, p)]
BY DEF words, WordsBy, Word, Ending, Before, Rest, Idx, Special, Item

LEMMA ItemPending ==
    ASSUME NEW l \in Seq(Chars), NEW w \in Seq(Chars), NEW q \in BOOLEAN
    PROVE  /\ Item(l, w, q) \in Pending
           /\ Item(l, w, q).line = l /\ Item(l, w, q).partial = w /\ Item(l, w, q).quoted = q
BY DEF Item, Pending

\* The parts are parts, and what is left gets shorter.
LEMMA PendingParts ==
    ASSUME NEW p \in Pending
    PROVE  /\ p.line \in Seq(Chars) /\ p.partial \in Seq(Chars) /\ p.quoted \in BOOLEAN
           /\ Idx(p) \in 0 .. Len(p.line)
           /\ Idx(p) = 0 => \A i \in 1 .. Len(p.line) : p.line[i] \notin Special
           /\ Idx(p) # 0 =>
                /\ p.line[Idx(p)] \in Special
                /\ \A i \in 1 .. Idx(p) - 1 : p.line[i] \notin Special
                /\ Rest(p) \in Seq(Chars) /\ Len(Rest(p)) = Len(p.line) - Idx(p)
                /\ Before(p) \in Seq(Chars)
                /\ Ending(p) \in 0 .. Len(Rest(p))
                /\ Ending(p) = 0 => \A i \in 1 .. Len(Rest(p)) : Rest(p)[i] # p.line[Idx(p)]
                /\ Ending(p) # 0 =>
                     /\ Rest(p)[Ending(p)] = p.line[Idx(p)]
                     /\ \A i \in 1 .. Ending(p) - 1 : Rest(p)[i] # p.line[Idx(p)]
                     /\ From(Rest(p), Ending(p) + 1) \in Seq(Chars)
                     /\ Len(From(Rest(p), Ending(p) + 1)) = Len(Rest(p)) - Ending(p)
                     /\ Before(p) \o SubSeq(Rest(p), 1, Ending(p) - 1) \in Seq(Chars)
                /\ Rest(p) # <<>> =>
                     Tail(Rest(p)) \in Seq(Chars) /\ Len(Tail(Rest(p))) = Len(Rest(p)) - 1
<1>1. p.line \in Seq(Chars) /\ p.partial \in Seq(Chars) /\ p.quoted \in BOOLEAN
  BY DEF Pending
<1>2. /\ Idx(p) \in 0 .. Len(p.line)
      /\ Idx(p) = 0 => \A i \in 1 .. Len(p.line) : p.line[i] \notin Special
      /\ Idx(p) # 0 => p.line[Idx(p)] \in Special /\ \A i \in 1 .. Idx(p) - 1 : p.line[i] \notin Special
  BY <1>1, IndexAnyFirst DEF Idx
<1>3. SUFFICES ASSUME Idx(p) # 0
      PROVE  /\ Rest(p) \in Seq(Chars) /\ Len(Rest(p)) = Len(p.line) - Idx(p)
             /\ Before(p) \in Seq(Chars)
             /\ Ending(p) \in 0 .. Len(Rest(p))
             /\ Ending(p) = 0 => \A i \in 1 .. Len(Rest(p)) : Rest(p)[i] # p.line[Idx(p)]
             /\ Ending(p) # 0 =>
                  /\ Rest(p)[Ending(p)] = p.line[Idx(p)]
                  /\ \A i \in 1 .. Ending(p) - 1 : Rest(p)[i] # p.line[Idx(p)]
                  /\ From(Rest(p), Ending(p) + 1) \in Seq(Chars)
                  /\ Len(From(Rest(p), Ending(p) + 1)) = Len(Rest(p)) - Ending(p)
                  /\ Before(p) \o SubSeq(Rest(p), 1, Ending(p) - 1) \in Seq(Chars)
             /\ Rest(p) # <<>> =>
                  Tail(Rest(p)) \in Seq(Chars) /\ Len(Tail(Rest(p))) = Len(Rest(p)) - 1
  BY <1>1, <1>2, Zenon
<1>4. Idx(p) + 1 \in 1 .. Len(p.line) + 1
  BY <1>1, <1>2
<1>5. Rest(p) \in Seq(Chars) /\ Len(Rest(p)) = Len(p.line) + 1 - (Idx(p) + 1)
  BY <1>1, <1>4, FromParts DEF Rest
<1>6. Len(Rest(p)) = Len(p.line) - Idx(p)
  BY <1>1, <1>2, <1>5
<1>7. SubSeq(p.line, 1, Idx(p) - 1) \in Seq(Chars)
  BY <1>1, <1>2
<1>8. Before(p) \in Seq(Chars)
  BY <1>1, <1>7, ConcatProperties DEF Before
<1>9. /\ Ending(p) \in 0 .. Len(Rest(p))
      /\ Ending(p) = 0 => \A i \in 1 .. Len(Rest(p)) : Rest(p)[i] # p.line[Idx(p)]
      /\ Ending(p) # 0 =>
           /\ Rest(p)[Ending(p)] = p.line[Idx(p)]
           /\ \A i \in 1 .. Ending(p) - 1 : Rest(p)[i] # p.line[Idx(p)]
  <2> DEFINE C == {p.line[Idx(p)]}
  <2>1. \A x : x \in C <=> x = p.line[Idx(p)]
    OBVIOUS
  <2>2. Ending(p) = IndexAny(Rest(p), C)
    BY DEF Ending
  <2> HIDE DEF C
  <2> QED BY <1>5, <2>1, <2>2, IndexAnyFirst
<1>10. ASSUME Ending(p) # 0
       PROVE  /\ From(Rest(p), Ending(p) + 1) \in Seq(Chars)
              /\ Len(From(Rest(p), Ending(p) + 1)) = Len(Rest(p)) - Ending(p)
              /\ Before(p) \o SubSeq(Rest(p), 1, Ending(p) - 1) \in Seq(Chars)
  <2>1. Ending(p) + 1 \in 1 .. Len(Rest(p)) + 1
    BY <1>5, <1>9
  <2>2. /\ From(Rest(p), Ending(p) + 1) \in Seq(Chars)
        /\ Len(From(Rest(p), Ending(p) + 1)) = Len(Rest(p)) + 1 - (Ending(p) + 1)
    BY <1>5, <2>1, FromParts
  <2>3. SubSeq(Rest(p), 1, Ending(p) - 1) \in Seq(Chars)
    BY <1>5, <1>9
  <2> QED BY <1>5, <1>8, <1>9, <2>2, <2>3, ConcatProperties
<1>11. ASSUME Rest(p) # <<>>
       PROVE  Tail(Rest(p)) \in Seq(Chars) /\ Len(Tail(Rest(p))) = Len(Rest(p)) - 1
  BY <1>5, <1>11
<1> QED BY <1>5, <1>6, <1>8, <1>9, <1>10, <1>11

\* The words of shorter lines are all that is used, and they are words.
LEMMA WordsByShorter ==
    ASSUME NEW p \in Pending, NEW f, NEW g,
           \A q \in Pending : Len(q.line) < Len(p.line) => f[q] = g[q]
    PROVE  WordsBy(f, p) = WordsBy(g, p)
<1> DEFINE quotedPart == Item(From(Rest(p), Ending(p) + 1),
                              Before(p) \o SubSeq(Rest(p), 1, Ending(p) - 1), TRUE)
           plainPart == Item(Rest(p), <<>>, FALSE)
           tailPart  == Item(Tail(Rest(p)), <<>>, FALSE)
<1>0. <<>> \in Seq(Chars) /\ {TRUE, FALSE} \subseteq BOOLEAN
  OBVIOUS
<1>1. Idx(p) # 0 /\ Ending(p) # 0 => f[quotedPart] = g[quotedPart]
  <2> SUFFICES ASSUME Idx(p) # 0, Ending(p) # 0 PROVE f[quotedPart] = g[quotedPart]
    OBVIOUS
  <2>1. quotedPart \in Pending /\ quotedPart.line = From(Rest(p), Ending(p) + 1)
    <3>1. /\ From(Rest(p), Ending(p) + 1) \in Seq(Chars) /\ TRUE \in BOOLEAN
          /\ Before(p) \o SubSeq(Rest(p), 1, Ending(p) - 1) \in Seq(Chars)
      BY PendingParts
    <3> QED BY <3>1, ItemPending, Zenon
  <2>2. Len(From(Rest(p), Ending(p) + 1)) < Len(p.line)
    BY PendingParts
  <2> QED BY <2>1, <2>2, Zenon
<1>2. Idx(p) # 0 => f[plainPart] = g[plainPart]
  <2> SUFFICES ASSUME Idx(p) # 0 PROVE f[plainPart] = g[plainPart]
    OBVIOUS
  <2>1. plainPart \in Pending /\ plainPart.line = Rest(p)
    BY PendingParts, ItemPending, <1>0
  <2>2. Len(Rest(p)) < Len(p.line)
    BY PendingParts
  <2> QED BY <2>1, <2>2, Zenon
<1>3. Idx(p) # 0 /\ Rest(p) # <<>> => f[tailPart] = g[tailPart]
  <2> SUFFICES ASSUME Idx(p) # 0, Rest(p) # <<>> PROVE f[tailPart] = g[tailPart]
    OBVIOUS
  <2>1. tailPart \in Pending /\ tailPart.line = Tail(Rest(p))
    BY PendingParts, ItemPending, <1>0
  <2>2. Len(Tail(Rest(p))) < Len(p.line)
    BY PendingParts
  <2> QED BY <2>1, <2>2, Zenon
<1> HIDE DEF quotedPart, plainPart, tailPart
<1> QED BY <1>1, <1>2, <1>3 DEF WordsBy, quotedPart, plainPart, tailPart

\* Functions that give the words of all lines up to a length.
Short(n) == {p \in Pending : Len(p.line) <= n}

GivesWords(f, n) == f = [p \in Short(n) |-> WordsBy(f, p)]

LEMMA GivesWordsSame ==
    ASSUME NEW m \in Nat, NEW n \in Nat, NEW f, NEW g, GivesWords(f, m), GivesWords(g, n),
           NEW p \in Short(m), p \in Short(n)
    PROVE  f[p] = g[p]
<1> DEFINE Bad == {k \in Nat : \E q \in Short(m) \cap Short(n) : Len(q.line) = k /\ f[q] # g[q]}
<1>1. \A q \in Pending : Len(q.line) \in Nat
  BY DEF Pending
<1>2. SUFFICES ASSUME Bad # {} PROVE FALSE
  BY <1>1 DEF Short
<1>3. PICK k \in Bad : \A j \in Bad : k <= j
  BY <1>2, Least
<1>4. PICK q \in Short(m) \cap Short(n) : Len(q.line) = k /\ f[q] # g[q]
  BY <1>3
<1>5. ASSUME NEW r \in Pending, Len(r.line) < Len(q.line) PROVE f[r] = g[r]
  <2>1. Len(r.line) \in Nat /\ ~(k <= Len(r.line)) /\ Len(r.line) <= m /\ Len(r.line) <= n
    BY <1>1, <1>4, <1>5 DEF Short
  <2>2. r \in Short(m) \cap Short(n)
    BY <1>5, <2>1 DEF Short
  <2>3. Len(r.line) \notin Bad
    BY <1>3, <2>1
  <2> QED BY <2>1, <2>2, <2>3
<1>6. q \in Pending
  BY <1>4 DEF Short
<1>7. WordsBy(f, q) = WordsBy(g, q)
  BY <1>5, <1>6, WordsByShorter
<1>8. f[q] = WordsBy(f, q) /\ g[q] = WordsBy(g, q)
  BY <1>4 DEF GivesWords
<1> QED BY <1>4, <1>7, <1>8

LEMMA GivesWordsNext ==
    ASSUME NEW n \in Nat, NEW f, GivesWords(f, n)
    PROVE  \E g : GivesWords(g, n + 1)
<1> DEFINE g == [p \in Short(n + 1) |-> WordsBy(f, p)]
<1>1. \A p \in Pending : Len(p.line) \in Nat
  BY DEF Pending
<1>2. ASSUME NEW p \in Short(n + 1) PROVE WordsBy(f, p) = WordsBy(g, p)
  <2>1. p \in Pending
    BY DEF Short
  <2>2. ASSUME NEW q \in Pending, Len(q.line) < Len(p.line) PROVE f[q] = g[q]
    <3>1. q \in Short(n) /\ q \in Short(n + 1)
      BY <1>1, <2>1, <2>2 DEF Short
    <3>2. f[q] = WordsBy(f, q)
      BY <3>1 DEF GivesWords
    <3> QED BY <3>1, <3>2
  <2> HIDE DEF g
  <2> QED BY <2>1, <2>2, WordsByShorter
<1>3. g = [p \in Short(n + 1) |-> WordsBy(g, p)]
  <2> DEFINE h == [p \in Short(n + 1) |-> WordsBy(g, p)]
  <2>1. \A p \in Short(n + 1) : g[p] = h[p]
    BY <1>2, Zenon
  <2>2. DOMAIN g = Short(n + 1) /\ DOMAIN h = Short(n + 1)
    BY Zenon
  <2>3. g = [p \in Short(n + 1) |-> g[p]] /\ h = [p \in Short(n + 1) |-> h[p]]
    BY Zenon
  <2> HIDE DEF g, h
  <2>4. g = h
    BY <2>1, <2>2, <2>3, Zenon
  <2> QED BY <2>4 DEF h
<1> HIDE DEF g
<1> QED BY <1>3 DEF GivesWords

LEMMA GivesWordsAll ==
    ASSUME NEW n \in Nat
    PROVE  \E f : GivesWords(f, n)
<1> DEFINE Missing == {m \in Nat : ~ \E f : GivesWords(f, m)}
<1>1. SUFFICES ASSUME Missing # {} PROVE FALSE
  BY Zenon
<1>2. PICK m \in Missing : \A k \in Missing : m <= k
  BY <1>1, Least
<1>3. CASE m = 0
  <2> DEFINE g == [p \in Short(0) |-> WordsBy(<<>>, p)]
  <2>1. ASSUME NEW p \in Short(0) PROVE WordsBy(<<>>, p) = WordsBy(g, p)
    <3>1. p.line = <<>>
      BY DEF Short, Pending
    <3> QED BY <3>1 DEF WordsBy
  <2>2. GivesWords(g, 0)
    <3> DEFINE h == [p \in Short(0) |-> WordsBy(g, p)]
    <3>1. \A p \in Short(0) : g[p] = h[p]
      BY <2>1, Zenon
    <3>2. DOMAIN g = Short(0) /\ DOMAIN h = Short(0)
      BY Zenon
    <3>3. g = [p \in Short(0) |-> g[p]] /\ h = [p \in Short(0) |-> h[p]]
      BY Zenon
    <3> HIDE DEF g, h
    <3>4. g = h
      BY <3>1, <3>2, <3>3, Zenon
    <3> QED BY <3>4 DEF h, GivesWords
  <2> QED BY <1>2, <1>3, <2>2
<1>4. CASE m # 0
  <2>1. m - 1 \in Nat /\ ~(m <= m - 1) /\ (m - 1) + 1 = m
    BY <1>4
  <2>2. PICK f : GivesWords(f, m - 1)
    BY <1>2, <2>1
  <2>3. \E g : GivesWords(g, (m - 1) + 1)
    BY <2>1, <2>2, GivesWordsNext, Zenon
  <2> QED BY <2>1, <2>3
<1> QED BY <1>3, <1>4

LEMMA WordsRecursion ==
    ASSUME NEW p \in Pending
    PROVE  words[p] = WordsBy(words, p)
<1> DEFINE G(n) == CHOOSE f : GivesWords(f, n)
           g == [q \in Pending |-> G(Len(q.line))[q]]
<1>1. \A n \in Nat : GivesWords(G(n), n)
  BY GivesWordsAll
<1>2. \A q \in Pending : Len(q.line) \in Nat /\ q \in Short(Len(q.line))
  BY DEF Pending, Short
<1> HIDE DEF G
<1>3. ASSUME NEW q \in Pending PROVE WordsBy(g, q) = g[q]
  <2> DEFINE n == Len(q.line)
  <2>1. n \in Nat /\ q \in Short(n)
    BY <1>2
  <2>2. ASSUME NEW r \in Pending, Len(r.line) < n PROVE g[r] = G(n)[r]
    <3>1. Len(r.line) \in Nat /\ r \in Short(Len(r.line)) /\ r \in Short(n)
      BY <1>2, <2>1, <2>2 DEF Short
    <3>2. G(Len(r.line))[r] = G(n)[r]
      BY <1>1, <2>1, <3>1, GivesWordsSame
    <3> QED BY <3>2
  <2> HIDE DEF g
  <2>3. WordsBy(g, q) = WordsBy(G(n), q)
    BY <2>2, WordsByShorter
  <2>4. G(n)[q] = WordsBy(G(n), q)
    <3>1. GivesWords(G(n), n)
      BY <1>1, <2>1
    <3> QED BY <2>1, <3>1 DEF GivesWords
  <2> QED BY <2>3, <2>4 DEF g
<1>4. g = [q \in Pending |-> WordsBy(g, q)]
  <2> DEFINE h == [q \in Pending |-> WordsBy(g, q)]
  <2>1. \A q \in Pending : g[q] = h[q]
    BY <1>3, Zenon
  <2>2. DOMAIN g = Pending /\ DOMAIN h = Pending
    BY Zenon
  <2>3. g = [q \in Pending |-> g[q]] /\ h = [q \in Pending |-> h[q]]
    BY Zenon
  <2> HIDE DEF g, h
  <2>4. g = h
    BY <2>1, <2>2, <2>3, Zenon
  <2> QED BY <2>4 DEF h
<1> HIDE DEF g
<1>5. words = [q \in Pending |-> WordsBy(words, q)]
  BY <1>4, WordsIs, Zenon
<1> QED BY <1>5, Zenon

LEMMA WordsTyped ==
    ASSUME NEW p \in Pending
    PROVE  words[p] \in Seq(Seq(Chars))
<1> DEFINE Bad == {n \in Nat : \E q \in Pending : Len(q.line) = n /\ words[q] \notin Seq(Seq(Chars))}
<1>1. \A q \in Pending : Len(q.line) \in Nat
  BY DEF Pending
<1>2. SUFFICES ASSUME Bad # {} PROVE FALSE
  BY <1>1
<1>3. PICK n \in Bad : \A k \in Bad : n <= k
  BY <1>2, Least
<1>4. PICK q \in Pending : Len(q.line) = n /\ words[q] \notin Seq(Seq(Chars))
  BY <1>3
<1>5. ASSUME NEW r \in Pending, Len(r.line) < Len(q.line) PROVE words[r] \in Seq(Seq(Chars))
  <2>1. Len(r.line) \in Nat /\ ~(n <= Len(r.line))
    BY <1>1, <1>3, <1>4, <1>5
  <2>2. Len(r.line) \notin Bad
    BY <1>3, <2>1
  <2> QED BY <2>1, <2>2
<1> HIDE DEF Bad
<1>6. <<>> \in Seq(Chars) /\ {TRUE, FALSE} \subseteq BOOLEAN /\ <<">", ">">> \in Seq(Chars)
  BY DEF Chars, Angles
<1>7. \A w \in Seq(Chars) : Word(q, w) \in Seq(Seq(Chars)) /\ <<w>> \in Seq(Seq(Chars))
  BY DEF Word
<1>8. \A a, b \in Seq(Seq(Chars)) : a \o b \in Seq(Seq(Chars))
  BY ConcatProperties
<1>9. /\ q.line \in Seq(Chars) /\ q.partial \in Seq(Chars)
      /\ q.partial \o q.line \in Seq(Chars)
  BY PendingParts, ConcatProperties
<1>10. words[q] = WordsBy(words, q)
  BY WordsRecursion
<1>11. CASE q.line = <<>>
  BY <1>4, <1>7, <1>9, <1>10, <1>11 DEF WordsBy
<1>12. CASE q.line # <<>> /\ Idx(q) = 0
  BY <1>4, <1>7, <1>9, <1>10, <1>12 DEF WordsBy
<1>13. CASE q.line # <<>> /\ Idx(q) # 0
  <2>1. /\ q.line[Idx(q)] \in Chars /\ Len(Rest(q)) < Len(q.line)
        /\ Rest(q) \in Seq(Chars) /\ Before(q) \in Seq(Chars)
        /\ Before(q) \o Rest(q) \in Seq(Chars)
        /\ Rest(q) # <<>> => Tail(Rest(q)) \in Seq(Chars) /\ Len(Tail(Rest(q))) < Len(q.line)
    BY <1>13, PendingParts, ConcatProperties
  <2>2. words[Item(Rest(q), <<>>, FALSE)] \in Seq(Seq(Chars))
    <3> DEFINE r == Item(Rest(q), <<>>, FALSE)
    <3>1. r \in Pending /\ r.line = Rest(q)
      BY <1>6, <2>1, ItemPending
    <3> HIDE DEF r
    <3>2. words[r] \in Seq(Seq(Chars))
      BY <1>5, <2>1, <3>1
    <3> QED BY <3>2 DEF r
  <2>3. ASSUME Rest(q) # <<>> PROVE words[Item(Tail(Rest(q)), <<>>, FALSE)] \in Seq(Seq(Chars))
    <3> DEFINE r == Item(Tail(Rest(q)), <<>>, FALSE)
    <3>1. r \in Pending /\ r.line = Tail(Rest(q))
      BY <1>6, <2>1, <2>3, ItemPending
    <3> HIDE DEF r
    <3>2. words[r] \in Seq(Seq(Chars))
      BY <1>5, <2>1, <2>3, <3>1
    <3> QED BY <3>2 DEF r
  <2>4. CASE q.line[Idx(q)] \in Quotes
    <3>1. CASE Ending(q) = 0
      BY <1>4, <1>7, <1>10, <1>13, <2>1, <2>4, <3>1 DEF WordsBy
    <3>2. CASE Ending(q) # 0
      <4> DEFINE l == From(Rest(q), Ending(q) + 1)
                 w == Before(q) \o SubSeq(Rest(q), 1, Ending(q) - 1)
      <4>1. l \in Seq(Chars) /\ w \in Seq(Chars) /\ Len(l) < Len(q.line)
        BY <1>13, <3>2, PendingParts
      <4> HIDE DEF l, w
      <4>2. words[Item(l, w, TRUE)] \in Seq(Seq(Chars))
        BY <1>5, <1>6, <4>1, ItemPending
      <4>3. words[q] = words[Item(l, w, TRUE)]
        BY <1>10, <1>13, <2>4, <3>2 DEF WordsBy, l, w
      <4> QED BY <1>4, <4>2, <4>3
    <3> QED BY <3>1, <3>2
  <2>5. CASE q.line[Idx(q)] \notin Quotes /\ q.line[Idx(q)] = " "
    <3>1. words[q] = Word(q, Before(q)) \o words[Item(Rest(q), <<>>, FALSE)]
      BY <1>10, <1>13, <2>5 DEF WordsBy
    <3> QED BY <1>4, <1>7, <1>8, <2>1, <2>2, <3>1
  <2>6. CASE /\ q.line[Idx(q)] \notin Quotes /\ q.line[Idx(q)] # " "
             /\ q.line[Idx(q)] = ">" /\ Rest(q) # <<>> /\ Rest(q)[1] = ">"
    <3>1. words[q] = Word(q, q.partial) \o << <<">", ">">> >> \o words[Item(Tail(Rest(q)), <<>>, FALSE)]
      BY <1>10, <1>13, <2>6 DEF WordsBy
    <3>2. << <<">", ">">> >> \in Seq(Seq(Chars)) /\ Word(q, q.partial) \in Seq(Seq(Chars))
      BY <1>6, <1>7, <1>9, Zenon
    <3>3. words[Item(Tail(Rest(q)), <<>>, FALSE)] \in Seq(Seq(Chars))
      BY <2>3, <2>6, Zenon
    <3> QED BY <1>4, <1>8, <3>1, <3>2, <3>3, Zenon
  <2>7. CASE /\ q.line[Idx(q)] \notin Quotes /\ q.line[Idx(q)] # " "
             /\ ~(q.line[Idx(q)] = ">" /\ Rest(q) # <<>> /\ Rest(q)[1] = ">")
    <3>1. words[q] = Word(q, q.partial) \o << <<q.line[Idx(q)]>> >> \o words[Item(Rest(q), <<>>, FALSE)]
      BY <1>10, <1>13, <2>7 DEF WordsBy
    <3>2. <<q.line[Idx(q)]>> \in Seq(Chars)
      BY <2>1
    <3>3. << <<q.line[Idx(q)]>> >> \in Seq(Seq(Chars)) /\ Word(q, q.partial) \in Seq(Seq(Chars))
      BY <1>7, <1>9, <3>2, Zenon
    <3> QED BY <1>4, <1>8, <2>2, <3>1, <3>3, Zenon
  <2> QED BY <2>4, <2>5, <2>6, <2>7
<1> QED BY <1>11, <1>12, <1>13

-----------------------------------------------------------------------------
(* The reading of a line one character at a time.                          *)

\* The states of the reading, before the line and after each character.
Reading(r, l) ==
    /\ r[0] = Unread
    /\ \A i \in 1 .. Len(l) : r[i] = Scan(r[i - 1], l[i])

ReadsUpTo(f, l, n) == f = [i \in 0 .. n |-> IF i = 0 THEN Unread ELSE Scan(f[i - 1], l[i])]

LEMMA ReadsNext ==
    ASSUME NEW l, NEW n \in Nat, NEW f, ReadsUpTo(f, l, n)
    PROVE  \E g : ReadsUpTo(g, l, n + 1)
<1> DEFINE last == Scan(f[n], l[n + 1])
           g == [i \in 0 .. n + 1 |-> IF i = n + 1 THEN last ELSE f[i]]
<1>1. \A i \in 0 .. n : f[i] = IF i = 0 THEN Unread ELSE Scan(f[i - 1], l[i])
  BY Zenon DEF ReadsUpTo
<1>2. \A i \in 0 .. n : g[i] = f[i]
  OBVIOUS
<1>3. g[n + 1] = last
  OBVIOUS
<1>4. \A i \in 0 .. n + 1 : i = 0 \/ i - 1 \in 0 .. n
  OBVIOUS
<1> HIDE DEF g
<1>5. \A i \in 0 .. n + 1 : g[i] = IF i = 0 THEN Unread ELSE Scan(g[i - 1], l[i])
  <2> TAKE i \in 0 .. n + 1
  <2>1. CASE i = n + 1
    <3>1. i # 0 /\ i - 1 = n /\ n \in 0 .. n
      BY <2>1
    <3> QED BY <2>1, <3>1, <1>2, <1>3, Zenon
  <2>2. CASE i # n + 1
    <3>1. i \in 0 .. n /\ (i = 0 \/ i - 1 \in 0 .. n)
      BY <2>2
    <3> QED BY <3>1, <1>1, <1>2, Zenon
  <2> QED BY <2>1, <2>2
<1>6. g = [i \in 0 .. n + 1 |-> g[i]]
  BY Zenon DEF g
<1>7. [i \in 0 .. n + 1 |-> g[i]] =
        [i \in 0 .. n + 1 |-> IF i = 0 THEN Unread ELSE Scan(g[i - 1], l[i])]
  BY <1>5, Zenon
<1> QED BY <1>6, <1>7 DEF ReadsUpTo

LEMMA ReadsAll ==
    ASSUME NEW l, NEW n \in Nat
    PROVE  \E f : ReadsUpTo(f, l, n)
<1> DEFINE Missing == {m \in Nat : ~ \E f : ReadsUpTo(f, l, m)}
<1>1. SUFFICES ASSUME Missing # {} PROVE FALSE
  BY Zenon
<1>2. PICK m \in Missing : \A k \in Missing : m <= k
  BY <1>1, Least
<1>3. CASE m = 0
  <2>1. ReadsUpTo([i \in 0 .. 0 |-> Unread], l, 0)
    BY DEF ReadsUpTo
  <2> QED BY <1>3, <2>1
<1>4. CASE m # 0
  <2>1. m - 1 \in Nat /\ ~(m <= m - 1) /\ (m - 1) + 1 = m
    BY <1>4
  <2>2. PICK f : ReadsUpTo(f, l, m - 1)
    BY <1>2, <2>1
  <2>3. \E g : ReadsUpTo(g, l, (m - 1) + 1)
    BY <2>1, <2>2, ReadsNext, Zenon
  <2> QED BY <2>1, <2>3
<1> QED BY <1>3, <1>4

LEMMA WordsRead ==
    ASSUME NEW l \in Seq(Chars)
    PROVE  \E r : Reading(r, l) /\ Words(l) = Done(r[Len(l)])
<1> DEFINE r == CHOOSE f : ReadsUpTo(f, l, Len(l))
<1>1. ReadsUpTo(r, l, Len(l))
  BY ReadsAll
<1>2. Words(l) = Done(r[Len(l)])
  BY DEF Words, ReadsUpTo
<1> HIDE DEF r
<1>3. \A i \in 0 .. Len(l) : r[i] = IF i = 0 THEN Unread ELSE Scan(r[i - 1], l[i])
  BY <1>1, Zenon DEF ReadsUpTo
<1>4. 0 \in 0 .. Len(l) /\ \A i \in 1 .. Len(l) : i \in 0 .. Len(l) /\ i # 0
  OBVIOUS
<1>5. Reading(r, l)
  BY <1>3, <1>4, Zenon DEF Reading
<1> QED BY <1>2, <1>5

State(W, w, b, q, n) == [words |-> W, word |-> w, begun |-> b, quote |-> q, new |-> n]

DoneWith(W, w, b) == IF b THEN Append(W, w) ELSE W

LEMMA CharsApart ==
    /\ "none" \notin Chars
    /\ \A c \in Chars \ Special : c \notin Quotes /\ c \notin Angles /\ c # " "
    /\ \A c \in Angles : c \notin Quotes /\ c # " " /\ c \in Chars
    /\ \A c \in Quotes : c # " " /\ c \in Chars
    /\ " " \in Chars /\ ">" \in Angles
BY DEF Chars, Letters, Capitals, Quotes, Angles, Special

LEMMA ScanPlain ==
    ASSUME NEW W, NEW w, NEW b \in BOOLEAN, NEW n \in BOOLEAN, NEW c \in Chars, c \notin Special
    PROVE  Scan(State(W, w, b, "none", n), c) = State(W, Append(w, c), TRUE, "none", FALSE)
<1>1. c # "none" /\ c \notin Quotes /\ c \notin Angles /\ c # " " /\ c # ">"
  BY CharsApart
<1> QED BY <1>1 DEF Scan, State

LEMMA ScanQuote ==
    ASSUME NEW W, NEW w, NEW b \in BOOLEAN, NEW n \in BOOLEAN, NEW c \in Quotes
    PROVE  Scan(State(W, w, b, "none", n), c) = State(W, w, TRUE, c, FALSE)
<1>1. c # "none"
  BY CharsApart
<1> QED BY <1>1 DEF Scan, State

LEMMA ScanSpace ==
    ASSUME NEW W, NEW w, NEW b \in BOOLEAN, NEW n \in BOOLEAN
    PROVE  Scan(State(W, w, b, "none", n), " ") =
             State(DoneWith(W, w, b), <<>>, FALSE, "none", FALSE)
<1>1. " " \notin Quotes
  BY CharsApart
<1> QED BY <1>1 DEF Scan, State, Done, DoneWith, Unread

Scans(s, c, t) == Scan(s, c) = t

LEMMA ScanAngle ==
    ASSUME NEW W, NEW w, NEW b \in BOOLEAN, NEW n \in BOOLEAN, NEW c \in Angles, ~(c = ">" /\ n)
    PROVE  Scans(State(W, w, b, "none", n), c,
                 State(Append(DoneWith(W, w, b), <<c>>), <<>>, FALSE, "none", c = ">"))
<1>1. c # "none" /\ c \notin Quotes /\ c # " "
  BY CharsApart
<1> QED BY <1>1 DEF Scans, Scan, State, Done, DoneWith, Unread

LEMMA ScanSecond ==
    ASSUME NEW W, NEW w, NEW b \in BOOLEAN
    PROVE  Scans(State(W, w, b, "none", TRUE), ">",
                 State([W EXCEPT ![Len(W)] = <<">", ">">>], <<>>, FALSE, "none", FALSE))
<1>1. ">" \notin Quotes
  BY CharsApart
<1> QED BY <1>1 DEF Scans, Scan, State, Done, DoneWith, Unread

LEMMA ScanInside ==
    ASSUME NEW W, NEW w, NEW b, NEW n, NEW q, NEW c, q # "none", c # q
    PROVE  Scan(State(W, w, b, q, n), c) = State(W, Append(w, c), b, q, n)
BY DEF Scan, State

LEMMA ScanClosed ==
    ASSUME NEW W, NEW w, NEW b, NEW n, NEW q, q # "none"
    PROVE  Scan(State(W, w, b, q, n), q) = State(W, w, b, "none", n)
BY DEF Scan, State

LEMMA RunNext ==
    ASSUME NEW l \in Seq(Chars), NEW w \in Seq(Chars), NEW i \in Nat, NEW k \in Nat,
           i + k + 1 <= Len(l)
    PROVE  /\ l[i + k + 1] \in Chars /\ w \o SubSeq(l, i + 1, i + k) \in Seq(Chars)
           /\ Append(w \o SubSeq(l, i + 1, i + k), l[i + k + 1]) = w \o SubSeq(l, i + 1, i + k + 1)
<1> DEFINE s == SubSeq(l, i + 1, i + k)
           c == l[i + k + 1]
<1>1. c \in Chars
  BY ElementOfSeq
<1>2. s \in Seq(Chars) /\ <<c>> \in Seq(Chars)
  BY <1>1
<1>3. SubSeq(l, i + 1, i + k + 1) = s \o <<c>>
  <2>1. i + 1 \in 1 .. Len(l) /\ i + k + 1 \in i + 1 .. Len(l) /\ (i + k + 1) - 1 = i + k
    OBVIOUS
  <2> QED BY <2>1, SubSeqRecursiveSecond
<1> HIDE DEF s, c
<1>4. w \o s \in Seq(Chars)
  BY <1>2, ConcatProperties
<1>5. Append(w \o s, c) = (w \o s) \o <<c>>
  BY <1>1, <1>4, AppendIsConcat
<1>6. (w \o s) \o <<c>> = w \o (s \o <<c>>)
  BY <1>2, ConcatAssociative
<1> QED BY <1>1, <1>3, <1>4, <1>5, <1>6 DEF s, c

\* What is shown for a sequence of states one step at a time.
IsAt(r, i, s) == r[i] = s

Agree(r, f, i, k) == r[i + k] = f[k]

AgreeOn(r, f, i, k) == \A j \in Nat : j < k /\ Agree(r, f, i, j) => Agree(r, f, i, j + 1)

LEMMA Stepwise ==
    ASSUME NEW r, NEW f, NEW i \in Nat, NEW k \in Nat, Agree(r, f, i, 0), AgreeOn(r, f, i, k)
    PROVE  Agree(r, f, i, k)
<1> DEFINE Bad == {j \in Nat : j <= k /\ ~Agree(r, f, i, j)}
<1>0. Bad \in SUBSET Nat
  BY Zenon
<1>1. SUFFICES ASSUME Bad # {} PROVE FALSE
  OBVIOUS
<1>2. PICK j \in Bad : \A m \in Bad : j <= m
  <2> HIDE DEF Bad
  <2> QED BY <1>0, <1>1, Least, Zenon
<1>3. CASE j = 0
  BY <1>2, <1>3
<1>4. CASE j # 0
  <2>1. j - 1 \in Nat /\ j - 1 < k /\ ~(j <= j - 1) /\ (j - 1) + 1 = j /\ j - 1 <= k
    BY <1>2, <1>4
  <2>2. Agree(r, f, i, j - 1)
    BY <1>2, <2>1
  <2>3. Agree(r, f, i, (j - 1) + 1)
    BY <2>1, <2>2, Zenon DEF AgreeOn
  <2> QED BY <1>2, <2>1, <2>3
<1> QED BY <1>3, <1>4

AfterPlain(l, i, W, w, b, n, k) ==
    State(W, w \o SubSeq(l, i + 1, i + k), b \/ k > 0, "none", n /\ k = 0)

AfterQuoted(l, i, W, w, q, k) == State(W, w \o SubSeq(l, i + 1, i + k), TRUE, q, FALSE)

LEMMA RunNone ==
    ASSUME NEW l \in Seq(Chars), NEW w \in Seq(Chars), NEW i \in Nat
    PROVE  w \o SubSeq(l, i + 1, i + 0) = w
BY SubSeqEmpty, ConcatEmptySeq

LEMMA PlainNone ==
    ASSUME NEW l \in Seq(Chars), NEW w \in Seq(Chars), NEW i \in Nat,
           NEW W, NEW b \in BOOLEAN, NEW n \in BOOLEAN
    PROVE  AfterPlain(l, i, W, w, b, n, 0) = State(W, w, b, "none", n)
<1>1. ~(0 > 0)
  OBVIOUS
<1>2. (b \/ 0 > 0) = b /\ (n /\ 0 = 0) = n
  BY <1>1, Zenon
<1> QED BY <1>2, RunNone, Zenon DEF AfterPlain

LEMMA PlainNext ==
    ASSUME NEW l \in Seq(Chars), NEW w \in Seq(Chars), NEW i \in Nat, NEW k \in Nat,
           NEW W, NEW b \in BOOLEAN, NEW n \in BOOLEAN,
           i + k + 1 <= Len(l), l[i + k + 1] \notin Special
    PROVE  Scan(AfterPlain(l, i, W, w, b, n, k), l[i + k + 1]) = AfterPlain(l, i, W, w, b, n, k + 1)
<1> DEFINE v == w \o SubSeq(l, i + 1, i + k)
           B == b \/ k > 0
           N == n /\ k = 0
<1>1. l[i + k + 1] \in Chars /\ Append(v, l[i + k + 1]) = w \o SubSeq(l, i + 1, i + k + 1)
  BY RunNext, Zenon
<1>2. B \in BOOLEAN /\ N \in BOOLEAN
  BY Zenon
<1>3. AfterPlain(l, i, W, w, b, n, k) = State(W, v, B, "none", N)
  BY Zenon DEF AfterPlain
<1>4. i + (k + 1) = i + k + 1 /\ k + 1 > 0 /\ k + 1 # 0
  OBVIOUS
<1>5. (b \/ k + 1 > 0) = TRUE /\ (n /\ k + 1 = 0) = FALSE
  BY <1>4, Zenon
<1>6. AfterPlain(l, i, W, w, b, n, k + 1) =
        State(W, w \o SubSeq(l, i + 1, i + k + 1), TRUE, "none", FALSE)
  BY <1>4, <1>5, Zenon DEF AfterPlain
<1> HIDE DEF v, B, N
<1>7. ASSUME NEW c \in Chars, c \notin Special
      PROVE  Scan(State(W, v, B, "none", N), c) = State(W, Append(v, c), TRUE, "none", FALSE)
  BY <1>2, <1>7, CharsApart DEF Scan, State
<1> QED BY <1>1, <1>3, <1>6, <1>7, Zenon

LEMMA QuotedNext ==
    ASSUME NEW l \in Seq(Chars), NEW w \in Seq(Chars), NEW i \in Nat, NEW k \in Nat,
           NEW W, NEW q, q # "none",
           i + k + 1 <= Len(l), l[i + k + 1] # q
    PROVE  Scan(AfterQuoted(l, i, W, w, q, k), l[i + k + 1]) = AfterQuoted(l, i, W, w, q, k + 1)
<1> DEFINE v == w \o SubSeq(l, i + 1, i + k)
<1>1. Append(v, l[i + k + 1]) = w \o SubSeq(l, i + 1, i + k + 1)
  BY RunNext, Zenon
<1>2. AfterQuoted(l, i, W, w, q, k) = State(W, v, TRUE, q, FALSE)
  BY Zenon DEF AfterQuoted
<1>3. i + (k + 1) = i + k + 1
  OBVIOUS
<1>4. AfterQuoted(l, i, W, w, q, k + 1) = State(W, w \o SubSeq(l, i + 1, i + k + 1), TRUE, q, FALSE)
  BY <1>3, Zenon DEF AfterQuoted
<1> HIDE DEF v
<1>5. ASSUME NEW c, c # q
      PROVE  Scan(State(W, v, TRUE, q, FALSE), c) = State(W, Append(v, c), TRUE, q, FALSE)
  BY <1>5 DEF Scan, State
<1> QED BY <1>1, <1>2, <1>4, <1>5, Zenon

LEMMA ReadingNext ==
    ASSUME NEW l \in Seq(Chars), NEW r, Reading(r, l), NEW i \in Nat, NEW j \in Nat, i + j < Len(l)
    PROVE  r[i + (j + 1)] = Scan(r[i + j], l[i + j + 1])
<1>1. i + j + 1 \in 1 .. Len(l) /\ (i + j + 1) - 1 = i + j /\ i + (j + 1) = i + j + 1
  OBVIOUS
<1>2. r[i + j + 1] = Scan(r[(i + j + 1) - 1], l[i + j + 1])
  BY <1>1, Zenon DEF Reading
<1> QED BY <1>1, <1>2, Zenon

\* Characters that are not special are put on the word.
LEMMA PlainRun ==
    ASSUME NEW l \in Seq(Chars), NEW r, Reading(r, l), NEW i \in Nat,
           NEW W, NEW w \in Seq(Chars), NEW b \in BOOLEAN, NEW n \in BOOLEAN,
           IsAt(r, i, State(W, w, b, "none", n)),
           NEW k \in Nat, i + k <= Len(l), \A j \in 1 .. k : l[i + j] \notin Special
    PROVE  IsAt(r, i + k, AfterPlain(l, i, W, w, b, n, k))
<1> DEFINE f == [j \in Nat |-> AfterPlain(l, i, W, w, b, n, j)]
<1>1. r[i] = f[0]
  <2>1. 0 \in Nat
    OBVIOUS
  <2>2. f[0] = AfterPlain(l, i, W, w, b, n, 0)
    BY <2>1, Zenon
  <2> QED BY <2>2, PlainNone DEF IsAt
<1>2. ASSUME NEW j \in Nat, j < k, r[i + j] = f[j] PROVE r[i + (j + 1)] = f[j + 1]
  <2>1. /\ j + 1 \in Nat /\ i + j < Len(l) /\ i + j + 1 <= Len(l)
        /\ j + 1 \in 1 .. k /\ i + (j + 1) = i + j + 1
    BY <1>2
  <2>2. l[i + j + 1] \notin Special
    BY <2>1, Zenon
  <2>3. r[i + (j + 1)] = Scan(r[i + j], l[i + j + 1])
    BY <2>1, ReadingNext
  <2>4. f[j] = AfterPlain(l, i, W, w, b, n, j) /\ f[j + 1] = AfterPlain(l, i, W, w, b, n, j + 1)
    BY <2>1, Zenon
  <2>5. Scan(AfterPlain(l, i, W, w, b, n, j), l[i + j + 1]) = AfterPlain(l, i, W, w, b, n, j + 1)
    BY <2>1, <2>2, PlainNext
  <2> QED BY <1>2, <2>3, <2>4, <2>5, Zenon
<1>3. f[k] = AfterPlain(l, i, W, w, b, n, k)
  BY Zenon
<1> HIDE DEF f
<1>4. AgreeOn(r, f, i, k)
  BY <1>2, Zenon DEF AgreeOn, Agree
<1>5. i + 0 = i
  OBVIOUS
<1>6. Agree(r, f, i, 0)
  BY <1>1, <1>5, Zenon DEF Agree
<1>7. r[i + k] = f[k]
  BY <1>4, <1>6, Stepwise, Zenon DEF Agree
<1> QED BY <1>3, <1>7, Zenon DEF IsAt

\* So are all characters inside quotes that are not the quote.
LEMMA QuotedRun ==
    ASSUME NEW l \in Seq(Chars), NEW r, Reading(r, l), NEW i \in Nat,
           NEW W, NEW w \in Seq(Chars), NEW q, q # "none", IsAt(r, i, State(W, w, TRUE, q, FALSE)),
           NEW k \in Nat, i + k <= Len(l), \A j \in 1 .. k : l[i + j] # q
    PROVE  IsAt(r, i + k, AfterQuoted(l, i, W, w, q, k))
<1> DEFINE f == [j \in Nat |-> AfterQuoted(l, i, W, w, q, j)]
<1>1. r[i] = f[0]
  <2>1. 0 \in Nat
    OBVIOUS
  <2>2. f[0] = AfterQuoted(l, i, W, w, q, 0)
    BY <2>1, Zenon
  <2> QED BY <2>2, RunNone, Zenon DEF AfterQuoted, IsAt
<1>2. ASSUME NEW j \in Nat, j < k, r[i + j] = f[j] PROVE r[i + (j + 1)] = f[j + 1]
  <2>1. /\ j + 1 \in Nat /\ i + j < Len(l) /\ i + j + 1 <= Len(l)
        /\ j + 1 \in 1 .. k /\ i + (j + 1) = i + j + 1
    BY <1>2
  <2>2. l[i + j + 1] # q
    BY <2>1, Zenon
  <2>3. r[i + (j + 1)] = Scan(r[i + j], l[i + j + 1])
    BY <2>1, ReadingNext
  <2>4. f[j] = AfterQuoted(l, i, W, w, q, j) /\ f[j + 1] = AfterQuoted(l, i, W, w, q, j + 1)
    BY <2>1, Zenon
  <2>5. Scan(AfterQuoted(l, i, W, w, q, j), l[i + j + 1]) = AfterQuoted(l, i, W, w, q, j + 1)
    BY <2>1, <2>2, QuotedNext
  <2> QED BY <1>2, <2>3, <2>4, <2>5, Zenon
<1>3. f[k] = AfterQuoted(l, i, W, w, q, k)
  BY Zenon
<1> HIDE DEF f
<1>4. AgreeOn(r, f, i, k)
  BY <1>2, Zenon DEF AgreeOn, Agree
<1>5. i + 0 = i
  OBVIOUS
<1>6. Agree(r, f, i, 0)
  BY <1>1, <1>5, Zenon DEF Agree
<1>7. r[i + k] = f[k]
  BY <1>4, <1>6, Stepwise, Zenon DEF Agree
<1> QED BY <1>3, <1>7, Zenon DEF IsAt

LEMMA SubSeqFrom ==
    ASSUME NEW S, NEW s \in Seq(S), NEW i \in Nat, NEW k \in Nat, i + k <= Len(s)
    PROVE  SubSeq(From(s, i + 1), 1, k) = SubSeq(s, i + 1, i + k)
<1> DEFINE f == From(s, i + 1)
           a == SubSeq(f, 1, k)
           b == SubSeq(s, i + 1, i + k)
<1>1. i + 1 \in 1 .. Len(s) + 1 /\ Len(s) \in Nat
  OBVIOUS
<1>2. /\ f \in Seq(S) /\ Len(f) = Len(s) + 1 - (i + 1)
      /\ \A j \in 1 .. Len(s) + 1 - (i + 1) : f[j] = s[(i + 1) + j - 1]
  BY <1>1, FromParts
<1> HIDE DEF f
<1>3. \A j \in 1 .. k : f[j] \in S /\ f[j] = s[i + j]
  <2> TAKE j \in 1 .. k
  <2>1. j \in 1 .. Len(f) /\ j \in 1 .. Len(s) + 1 - (i + 1) /\ (i + 1) + j - 1 = i + j
    BY <1>1, <1>2
  <2> QED BY <1>2, <2>1, ElementOfSeq
<1>4. /\ a \in Seq(S) /\ Len(a) = IF 1 <= k THEN k - 1 + 1 ELSE 0
      /\ \A j \in 1 .. k - 1 + 1 : a[j] = f[1 + j - 1]
  BY <1>3, SubSeqProperties
<1>5. \A j \in i + 1 .. i + k : s[j] \in S
  <2> TAKE j \in i + 1 .. i + k
  <2>1. j \in 1 .. Len(s)
    OBVIOUS
  <2> QED BY <2>1, ElementOfSeq
<1>6. /\ b \in Seq(S) /\ Len(b) = IF i + 1 <= i + k THEN (i + k) - (i + 1) + 1 ELSE 0
      /\ \A j \in 1 .. (i + k) - (i + 1) + 1 : b[j] = s[(i + 1) + j - 1]
  BY <1>5, SubSeqProperties
<1> HIDE DEF a, b
<1>7. Len(a) = k /\ Len(b) = k
  BY <1>4, <1>6
<1>8. \A j \in 1 .. Len(a) : a[j] = b[j]
  <2> TAKE j \in 1 .. Len(a)
  <2>1. /\ j \in 1 .. k /\ j \in 1 .. k - 1 + 1 /\ j \in 1 .. (i + k) - (i + 1) + 1
        /\ 1 + j - 1 = j /\ (i + 1) + j - 1 = i + j
    BY <1>7
  <2>2. a[j] = s[i + j]
    BY <1>3, <1>4, <2>1
  <2>3. b[j] = s[i + j]
    BY <1>6, <2>1
  <2> QED BY <2>2, <2>3
<1>9. a \in Seq(S) /\ b \in Seq(S) /\ Len(a) = Len(b)
  BY <1>4, <1>6, <1>7
<1>10. a = b
  BY <1>8, <1>9, SeqEqual, Zenon
<1> QED BY <1>10 DEF a, b, f

LEMMA LastReplaced ==
    ASSUME NEW S, NEW s \in Seq(S), NEW a \in S, NEW b \in S
    PROVE  [Append(s, a) EXCEPT ![Len(Append(s, a))] = b] = Append(s, b)
<1> DEFINE t == Append(s, a)
           u == [t EXCEPT ![Len(t)] = b]
           v == Append(s, b)
<1>1. /\ t \in Seq(S) /\ Len(t) = Len(s) + 1 /\ \A i \in 1 .. Len(s) : t[i] = s[i]
      /\ v \in Seq(S) /\ Len(v) = Len(s) + 1 /\ \A i \in 1 .. Len(s) : v[i] = s[i]
      /\ v[Len(s) + 1] = b /\ Len(s) \in Nat
  BY AppendProperties
<1> HIDE DEF t, v
<1>2. /\ u \in Seq(S) /\ Len(u) = Len(t)
      /\ \A j \in 1 .. Len(t) : u[j] = IF j = Len(t) THEN b ELSE t[j]
  BY <1>1, ExceptSeq
<1> HIDE DEF u
<1>3. \A j \in 1 .. Len(u) : u[j] = v[j]
  <2> TAKE j \in 1 .. Len(u)
  <2>1. CASE j = Len(t)
    BY <1>1, <1>2, <2>1
  <2>2. CASE j # Len(t)
    BY <1>1, <1>2, <2>2
  <2> QED BY <2>1, <2>2
<1>4. u = v
  BY <1>1, <1>2, <1>3, SeqEqual
<1> QED BY <1>4 DEF t, u, v

LEMMA DoneIs ==
    ASSUME NEW W, NEW w, NEW b, NEW q, NEW n
    PROVE  Done(State(W, w, b, q, n)) = DoneWith(W, w, b)
BY DEF Done, DoneWith, State

\* The word that is pending, if it has begun.
Begun(p, w) == w # <<>> \/ p.quoted

LEMMA WordDone ==
    ASSUME NEW p, NEW W \in Seq(Seq(Chars)), NEW w \in Seq(Chars)
    PROVE  /\ DoneWith(W, w, Begun(p, w)) = W \o Word(p, w)
           /\ DoneWith(W, w, TRUE) = W \o <<w>>
           /\ Word(p, w) \in Seq(Seq(Chars))
<1>1. Append(W, w) = W \o <<w>> /\ W \o <<>> = W
  BY AppendIsConcat, ConcatEmptySeq
<1> QED BY <1>1 DEF DoneWith, Word, Begun

\* What has been read of a line is the words W and what p begins with; what is
\* left is p's line.
Stands(l, r, i, W, p, n) ==
    /\ p.line = From(l, i + 1)
    /\ IsAt(r, i, State(W, p.partial, Begun(p, p.partial), "none", n))
    /\ n => i = Len(l) \/ l[i + 1] # ">"

AtEnd(l, r, W, p) == Done(r[Len(l)]) = W \o words[p]

Carried(l, r, i) ==
    \A W \in Seq(Seq(Chars)), p \in Pending, n \in BOOLEAN :
        Stands(l, r, i, W, p, n) => AtEnd(l, r, W, p)

LEMMA CarriedAt ==
    ASSUME NEW l, NEW r, NEW i, Carried(l, r, i), NEW W \in Seq(Seq(Chars)), NEW p \in Pending,
           NEW n \in BOOLEAN, Stands(l, r, i, W, p, n)
    PROVE  AtEnd(l, r, W, p)
BY Zenon DEF Carried

LEMMA StandsPlain ==
    ASSUME NEW l \in Seq(Chars), NEW r, Reading(r, l), NEW i \in 0 .. Len(l),
           NEW W \in Seq(Seq(Chars)), NEW p \in Pending, NEW n \in BOOLEAN,
           Stands(l, r, i, W, p, n), NEW k \in Nat, i + k <= Len(l),
           \A j \in 1 .. k : p.line[j] \notin Special
    PROVE  IsAt(r, i + k, State(W, p.partial \o SubSeq(p.line, 1, k),
                                Begun(p, p.partial \o SubSeq(p.line, 1, k)), "none", n /\ k = 0))
<1> DEFINE b == Begun(p, p.partial)
           w == p.partial \o SubSeq(p.line, 1, k)
<1>1. p.partial \in Seq(Chars) /\ p.line \in Seq(Chars) /\ p.quoted \in BOOLEAN
  BY DEF Pending
<1>2. p.line = From(l, i + 1) /\ IsAt(r, i, State(W, p.partial, b, "none", n))
  BY Zenon DEF Stands
<1>3. /\ Len(p.line) = Len(l) + 1 - (i + 1)
      /\ \A j \in 1 .. Len(l) + 1 - (i + 1) : p.line[j] = l[(i + 1) + j - 1]
  <2>1. i + 1 \in 1 .. Len(l) + 1
    OBVIOUS
  <2>2. /\ Len(From(l, i + 1)) = Len(l) + 1 - (i + 1)
        /\ \A j \in 1 .. Len(l) + 1 - (i + 1) : From(l, i + 1)[j] = l[(i + 1) + j - 1]
    BY <2>1, FromParts, Zenon
  <2> QED BY <1>2, <2>2, Zenon
<1>4. \A j \in 1 .. k : l[i + j] \notin Special
  <2> TAKE j \in 1 .. k
  <2>1. j \in 1 .. Len(l) + 1 - (i + 1) /\ (i + 1) + j - 1 = i + j
    OBVIOUS
  <2> QED BY <1>3, <2>1
<1>5. b \in BOOLEAN /\ i \in Nat
  <2>1. i \in Nat
    OBVIOUS
  <2> QED BY <1>1, <2>1, Zenon DEF Begun
<1>6. IsAt(r, i + k, AfterPlain(l, i, W, p.partial, b, n, k))
  <2> HIDE DEF b
  <2> QED BY <1>1, <1>2, <1>4, <1>5, PlainRun, Zenon
<1>7. SubSeq(l, i + 1, i + k) = SubSeq(p.line, 1, k)
  BY <1>2, <1>5, SubSeqFrom
<1>8. IsAt(r, i + k, State(W, w, b \/ k > 0, "none", n /\ k = 0))
  BY <1>6, <1>7, Zenon DEF AfterPlain
<1>9. (b \/ k > 0) = Begun(p, w)
  <2> DEFINE s == SubSeq(p.line, 1, k)
  <2>1. \A j \in 1 .. k : p.line[j] \in Chars
    <3> TAKE j \in 1 .. k
    <3>1. j \in 1 .. Len(p.line)
      BY <1>3
    <3> QED BY <1>1, <3>1, ElementOfSeq
  <2>2. s \in Seq(Chars) /\ Len(s) = k
    BY <2>1, SubSeqProperties
  <2> HIDE DEF s
  <2>3. w \in Seq(Chars) /\ Len(w) = Len(p.partial) + k
    <3>1. p.partial \o s \in Seq(Chars) /\ Len(p.partial \o s) = Len(p.partial) + Len(s)
      BY <1>1, <2>2, ConcatProperties, Zenon
    <3> QED BY <2>2, <3>1 DEF s
  <2> HIDE DEF w
  <2>4. (w # <<>>) = (p.partial # <<>> \/ k > 0)
    <3>1. \A s1 \in Seq(Chars) : s1 # <<>> <=> Len(s1) > 0
      OBVIOUS
    <3>2. Len(p.partial) \in Nat
      BY <1>1
    <3>3. Len(w) > 0 <=> Len(p.partial) > 0 \/ k > 0
      BY <2>3, <3>2
    <3> QED BY <1>1, <2>3, <3>1, <3>3, Zenon
  <2> QED BY <1>1, <2>4 DEF Begun
<1> QED BY <1>8, <1>9, Zenon

\* The first special character that is left, and what is read before it.
Parts(l, r, i, W, p, n) ==
    /\ Idx(p) \in Nat /\ i + Idx(p) \in 1 .. Len(l) /\ l[i + Idx(p)] = p.line[Idx(p)]
    /\ Rest(p) = From(l, i + Idx(p) + 1)
    /\ \A j \in 1 .. Len(l) - i : p.line[j] = l[i + j]
    /\ r[i + Idx(p)] =
         Scan(State(W, Before(p), Begun(p, Before(p)), "none", n /\ Idx(p) = 1), l[i + Idx(p)])

LEMMA StandsParts ==
    ASSUME NEW l \in Seq(Chars), NEW r, Reading(r, l), NEW i \in 0 .. Len(l),
           NEW W \in Seq(Seq(Chars)), NEW p \in Pending, NEW n \in BOOLEAN,
           Stands(l, r, i, W, p, n), Idx(p) # 0
    PROVE  Parts(l, r, i, W, p, n)
<1> DEFINE x == Idx(p)
<1>1. p.line = From(l, i + 1)
  BY Zenon DEF Stands
<1>2. /\ Len(p.line) = Len(l) + 1 - (i + 1)
      /\ \A j \in 1 .. Len(l) + 1 - (i + 1) : p.line[j] = l[(i + 1) + j - 1]
  <2>1. i + 1 \in 1 .. Len(l) + 1
    OBVIOUS
  <2>2. /\ Len(From(l, i + 1)) = Len(l) + 1 - (i + 1)
        /\ \A j \in 1 .. Len(l) + 1 - (i + 1) : From(l, i + 1)[j] = l[(i + 1) + j - 1]
    BY <2>1, FromParts, Zenon
  <2> QED BY <1>1, <2>2, Zenon
<1>3. \A j \in 1 .. Len(l) - i : p.line[j] = l[i + j]
  <2> TAKE j \in 1 .. Len(l) - i
  <2>1. j \in 1 .. Len(l) + 1 - (i + 1) /\ (i + 1) + j - 1 = i + j
    OBVIOUS
  <2> QED BY <1>2, <2>1
<1>4. x \in 0 .. Len(p.line) /\ x # 0 /\ \A j \in 1 .. x - 1 : p.line[j] \notin Special
  BY PendingParts
<1> HIDE DEF x
<1>5. /\ x \in Nat /\ x \in 1 .. Len(l) - i /\ i + x \in 1 .. Len(l) /\ x - 1 \in Nat
      /\ i + (x - 1) <= Len(l) /\ (i + x) - 1 = i + (x - 1)
  BY <1>2, <1>4
<1>6. l[i + x] = p.line[x]
  BY <1>3, <1>5
<1>7. Rest(p) = From(l, i + x + 1)
  <2>1. i + 1 \in 1 .. Len(l) + 1 /\ x + 1 \in 1 .. Len(l) + 2 - (i + 1)
        /\ (i + 1) + (x + 1) - 1 = i + x + 1
    BY <1>5
  <2>2. From(From(l, i + 1), x + 1) = From(l, (i + 1) + (x + 1) - 1)
    BY <2>1, FromFrom
  <2> QED BY <1>1, <2>1, <2>2 DEF Rest, x
<1>8. IsAt(r, i + (x - 1), State(W, Before(p), Begun(p, Before(p)), "none", n /\ x - 1 = 0))
  <2>1. Before(p) = p.partial \o SubSeq(p.line, 1, x - 1)
    BY DEF Before, x
  <2>2. IsAt(r, i + (x - 1), State(W, p.partial \o SubSeq(p.line, 1, x - 1),
            Begun(p, p.partial \o SubSeq(p.line, 1, x - 1)), "none", n /\ x - 1 = 0))
    BY <1>4, <1>5, StandsPlain, Zenon
  <2> QED BY <2>1, <2>2, Zenon
<1>9. (n /\ x - 1 = 0) = (n /\ x = 1)
  <2>1. x - 1 = 0 <=> x = 1
    BY <1>5
  <2> QED BY <2>1, Zenon
<1>10. r[i + x] = Scan(r[(i + x) - 1], l[i + x])
  BY <1>5, Zenon DEF Reading
<1>11. r[i + x] = Scan(State(W, Before(p), Begun(p, Before(p)), "none", n /\ x = 1), l[i + x])
  BY <1>5, <1>8, <1>9, <1>10, Zenon DEF IsAt
<1> QED BY <1>3, <1>5, <1>6, <1>7, <1>11, Zenon DEF x, Parts

Blank   == " "
Greater == ">"

LEMMA Associative ==
    ASSUME NEW S, NEW a \in Seq(S), NEW b \in Seq(S), NEW c \in Seq(S)
    PROVE  (a \o b) \o c = a \o (b \o c)
BY ConcatAssociative

LEMMA ListsAssociative ==
    ASSUME NEW a \in Seq(Seq(Chars)), NEW b \in Seq(Seq(Chars)), NEW c \in Seq(Seq(Chars))
    PROVE  (a \o b) \o c = a \o (b \o c)
BY Associative

\* A step of tokenizeLine that leaves words V done and the item q.
LEMMA CarriedOn ==
    ASSUME NEW l \in Seq(Chars), NEW r, NEW i \in 0 .. Len(l), Carried(l, r, i),
           NEW W \in Seq(Seq(Chars)), NEW V \in Seq(Seq(Chars)), NEW p \in Pending,
           NEW w \in Seq(Chars), NEW t \in BOOLEAN, NEW n \in BOOLEAN,
           Stands(l, r, i, W \o V, Item(From(l, i + 1), w, t), n),
           words[p] = V \o words[Item(From(l, i + 1), w, t)]
    PROVE  AtEnd(l, r, W, p)
<1> DEFINE q == Item(From(l, i + 1), w, t)
<1>1. From(l, i + 1) \in Seq(Chars)
  <2>1. i + 1 \in 1 .. Len(l) + 1
    OBVIOUS
  <2> QED BY <2>1, FromParts, Zenon
<1>2. q \in Pending
  BY <1>1, ItemPending, Zenon
<1>3. W \o V \in Seq(Seq(Chars))
  BY ConcatProperties, Zenon
<1>4. words[q] \in Seq(Seq(Chars)) /\ words[p] = V \o words[q] /\ Stands(l, r, i, W \o V, q, n)
  BY <1>2, WordsTyped, Zenon
<1> HIDE DEF q
<1>5. AtEnd(l, r, W \o V, q)
  BY <1>2, <1>3, <1>4, CarriedAt, Zenon
<1>6. ASSUME NEW x \in Seq(Seq(Chars)) PROVE (W \o V) \o x = W \o (V \o x)
  BY ListsAssociative, Zenon
<1> QED BY <1>4, <1>5, <1>6, Zenon DEF AtEnd

\* The cases of tokenizeLine: the line is at its end, ...
LEMMA StandsAtEnd ==
    ASSUME NEW l \in Seq(Chars), NEW r, Reading(r, l), NEW i \in 0 .. Len(l),
           NEW W \in Seq(Seq(Chars)), NEW p \in Pending, NEW n \in BOOLEAN,
           Stands(l, r, i, W, p, n), p.line = <<>>
    PROVE  AtEnd(l, r, W, p)
<1>1. i = Len(l)
  <2>1. i + 1 \in 1 .. Len(l) + 1
    OBVIOUS
  <2>2. From(l, i + 1) = <<>> <=> i + 1 = Len(l) + 1
    BY <2>1, FromParts, Zenon
  <2>3. i + 1 = Len(l) + 1
    BY <2>2, Zenon DEF Stands
  <2> QED BY <2>3
<1>2. r[Len(l)] = State(W, p.partial, Begun(p, p.partial), "none", n)
  BY <1>1, Zenon DEF Stands, IsAt
<1>3. words[p] = Word(p, p.partial)
  BY WordsRecursion, Zenon DEF WordsBy
<1>4. p.partial \in Seq(Chars)
  BY DEF Pending
<1>5. DoneWith(W, p.partial, Begun(p, p.partial)) = W \o Word(p, p.partial)
  BY <1>4, WordDone, Zenon
<1>6. Done(r[Len(l)]) = DoneWith(W, p.partial, Begun(p, p.partial))
  BY <1>2, DoneIs, Zenon
<1> QED BY <1>3, <1>5, <1>6, Zenon DEF AtEnd

\* ... has nothing special, ...
LEMMA StandsAtLast ==
    ASSUME NEW l \in Seq(Chars), NEW r, Reading(r, l), NEW i \in 0 .. Len(l),
           NEW W \in Seq(Seq(Chars)), NEW p \in Pending, NEW n \in BOOLEAN,
           Stands(l, r, i, W, p, n), p.line # <<>>, Idx(p) = 0
    PROVE  AtEnd(l, r, W, p)
<1> DEFINE k == Len(p.line)
           w == p.partial \o p.line
<1>1. p.partial \in Seq(Chars) /\ p.line \in Seq(Chars) /\ p.quoted \in BOOLEAN
  BY DEF Pending
<1>2. k = Len(l) - i
  <2>1. i + 1 \in 1 .. Len(l) + 1
    OBVIOUS
  <2>2. Len(From(l, i + 1)) = Len(l) + 1 - (i + 1)
    BY <2>1, FromParts, Zenon
  <2>3. p.line = From(l, i + 1)
    BY Zenon DEF Stands
  <2> QED BY <2>2, <2>3
<1>3. k \in Nat /\ i + k = Len(l) /\ i + k <= Len(l)
  BY <1>1, <1>2
<1>4. \A j \in 1 .. k : p.line[j] \notin Special
  BY PendingParts, Zenon
<1>5. SubSeq(p.line, 1, k) = p.line
  BY <1>1, SubSeqFull, Zenon
<1> HIDE DEF k
<1>6. IsAt(r, i + k, State(W, p.partial \o SubSeq(p.line, 1, k),
                           Begun(p, p.partial \o SubSeq(p.line, 1, k)), "none", n /\ k = 0))
  BY <1>3, <1>4, StandsPlain, Zenon
<1>7. r[Len(l)] = State(W, w, Begun(p, w), "none", n /\ k = 0)
  BY <1>3, <1>5, <1>6, Zenon DEF IsAt
<1>8. w \in Seq(Chars) /\ w # <<>>
  BY <1>1, ConcatProperties, ConcatEqualIffEmpty
<1>9. words[p] = <<w>>
  BY WordsRecursion, Zenon DEF WordsBy
<1> HIDE DEF w
<1>10. Begun(p, w) = TRUE
  BY <1>8, Zenon DEF Begun
<1>11. Done(r[Len(l)]) = DoneWith(W, w, Begun(p, w))
  BY <1>7, DoneIs, Zenon
<1>12. DoneWith(W, w, TRUE) = W \o <<w>>
  BY <1>8, WordDone, Zenon
<1> QED BY <1>9, <1>10, <1>11, <1>12, Zenon DEF AtEnd

\* ... has a space next, ...
LEMMA StandsAtSpace ==
    ASSUME NEW l \in Seq(Chars), NEW r, Reading(r, l), NEW i \in 0 .. Len(l),
           NEW W \in Seq(Seq(Chars)), NEW p \in Pending, NEW n \in BOOLEAN,
           Stands(l, r, i, W, p, n), p.line # <<>>, Idx(p) # 0, p.line[Idx(p)] = Blank,
           Carried(l, r, i + Idx(p))
    PROVE  AtEnd(l, r, W, p)
<1> DEFINE j == i + Idx(p)
           V == Word(p, Before(p))
           m == n /\ Idx(p) = 1
<1>0. Parts(l, r, i, W, p, n)
  BY StandsParts, Zenon
<1>1. /\ j \in 1 .. Len(l) /\ l[j] = p.line[Idx(p)]
      /\ Rest(p) = From(l, j + 1)
      /\ r[j] = Scan(State(W, Before(p), Begun(p, Before(p)), "none", m), l[j])
  BY <1>0, Zenon DEF Parts
<1>2. Before(p) \in Seq(Chars) /\ p.quoted \in BOOLEAN
  BY PendingParts, Zenon
<1>3. j \in 0 .. Len(l)
  BY <1>1
<1>4. Blank \notin Quotes
  BY CharsApart, Zenon DEF Blank
<1>5. words[p] = V \o words[Item(Rest(p), <<>>, FALSE)]
  BY <1>4, WordsRecursion, Zenon DEF WordsBy, Blank
<1>6. Begun(p, Before(p)) \in BOOLEAN /\ m \in BOOLEAN
  BY <1>2, Zenon DEF Begun
<1> HIDE DEF j, m
<1>7. IsAt(r, j, State(DoneWith(W, Before(p), Begun(p, Before(p))), <<>>, FALSE, "none", FALSE))
  BY <1>1, <1>6, ScanSpace, Zenon DEF IsAt, Blank
<1>8. DoneWith(W, Before(p), Begun(p, Before(p))) = W \o V /\ V \in Seq(Seq(Chars))
  BY <1>2, WordDone, Zenon
<1> DEFINE q == Item(From(l, j + 1), <<>>, FALSE)
<1>9. q.line = From(l, j + 1) /\ q.partial = <<>> /\ q.quoted = FALSE
  BY DEF Item
<1> HIDE DEF q
<1>10. Begun(q, q.partial) = FALSE
  BY <1>9, Zenon DEF Begun
<1>11. Stands(l, r, j, W \o V, q, FALSE)
  BY <1>7, <1>8, <1>9, <1>10, Zenon DEF Stands
<1>12. Carried(l, r, j) /\ words[p] = V \o words[q]
  BY <1>1, <1>5, Zenon DEF j, q
<1>13. <<>> \in Seq(Chars) /\ FALSE \in BOOLEAN
  OBVIOUS
<1> HIDE DEF V
<1> QED BY <1>3, <1>8, <1>11, <1>12, <1>13, CarriedOn, Zenon DEF q

FromIs(l, j) ==
    /\ From(l, j + 1) \in Seq(Chars) /\ Len(From(l, j + 1)) = Len(l) + 1 - (j + 1)
    /\ \A t \in 1 .. Len(l) + 1 - (j + 1) : From(l, j + 1)[t] = l[(j + 1) + t - 1]

LEMMA FromAt ==
    ASSUME NEW l \in Seq(Chars), NEW j \in 0 .. Len(l)
    PROVE  FromIs(l, j)
<1>1. j + 1 \in 1 .. Len(l) + 1
  OBVIOUS
<1> QED BY <1>1, FromParts, Zenon DEF FromIs

\* ... has a quote next that is not closed, ...
LEMMA StandsAtOpenQuote ==
    ASSUME NEW l \in Seq(Chars), NEW r, Reading(r, l), NEW i \in 0 .. Len(l),
           NEW W \in Seq(Seq(Chars)), NEW p \in Pending, NEW n \in BOOLEAN,
           Stands(l, r, i, W, p, n), p.line # <<>>, Idx(p) # 0, p.line[Idx(p)] \in Quotes,
           Ending(p) = 0
    PROVE  AtEnd(l, r, W, p)
<1> DEFINE j == i + Idx(p)
           c == p.line[Idx(p)]
           m == n /\ Idx(p) = 1
           w == Before(p) \o Rest(p)
           k == Len(l) - j
<1>0. Parts(l, r, i, W, p, n)
  BY StandsParts, Zenon
<1>1. /\ j \in 1 .. Len(l) /\ l[j] = c
      /\ Rest(p) = From(l, j + 1)
      /\ r[j] = Scan(State(W, Before(p), Begun(p, Before(p)), "none", m), l[j])
  BY <1>0, Zenon DEF Parts
<1>2. /\ Before(p) \in Seq(Chars) /\ Rest(p) \in Seq(Chars) /\ p.quoted \in BOOLEAN
      /\ \A t \in 1 .. Len(Rest(p)) : Rest(p)[t] # c
  BY PendingParts, Zenon
<1>3. Begun(p, Before(p)) \in BOOLEAN /\ m \in BOOLEAN
  BY <1>2, Zenon DEF Begun
<1>4. words[p] = <<w>>
  BY WordsRecursion, Zenon DEF WordsBy
<1> HIDE DEF j, m, c
<1>5. c \in Quotes /\ c \in Chars /\ c # "none"
  BY CharsApart, Zenon DEF c
<1>6. IsAt(r, j, State(W, Before(p), TRUE, c, FALSE))
  BY <1>1, <1>3, <1>5, ScanQuote, Zenon DEF IsAt
<1>7. j \in Nat /\ k \in Nat /\ j + k = Len(l) /\ j + k <= Len(l) /\ j + 1 \in 1 .. Len(l) + 1
  BY <1>1
<1>8. \A t \in 1 .. k : l[j + t] # c
  <2>1. /\ Len(Rest(p)) = Len(l) + 1 - (j + 1)
        /\ \A t \in 1 .. Len(l) + 1 - (j + 1) : Rest(p)[t] = l[(j + 1) + t - 1]
    <3>1. /\ Len(From(l, j + 1)) = Len(l) + 1 - (j + 1)
          /\ \A t \in 1 .. Len(l) + 1 - (j + 1) : From(l, j + 1)[t] = l[(j + 1) + t - 1]
      <4>1. j \in 0 .. Len(l)
        BY <1>7
      <4>2. FromIs(l, j)
        BY <4>1, FromAt, Zenon
      <4> QED BY <4>2, Zenon DEF FromIs
    <3> QED BY <1>1, <3>1, Zenon
  <2>2. ASSUME NEW t \in 1 .. k
        PROVE  /\ t \in 1 .. Len(l) + 1 - (j + 1) /\ (j + 1) + t - 1 = j + t
               /\ t \in 1 .. Len(Rest(p))
    BY <1>7, <2>1
  <2> QED BY <1>2, <2>1, <2>2, Zenon
<1>9. SubSeq(l, j + 1, j + k) = Rest(p)
  BY <1>1, <1>7, Zenon DEF From
<1> HIDE DEF k
<1>10. IsAt(r, j + k, AfterQuoted(l, j, W, Before(p), c, k))
  BY <1>2, <1>5, <1>6, <1>7, <1>8, QuotedRun, Zenon
<1>11. r[Len(l)] = State(W, w, TRUE, c, FALSE)
  BY <1>7, <1>9, <1>10, Zenon DEF IsAt, AfterQuoted
<1>12. w \in Seq(Chars)
  BY <1>2, ConcatProperties, Zenon
<1> HIDE DEF w
<1>13. Done(r[Len(l)]) = DoneWith(W, w, TRUE)
  BY <1>11, DoneIs, Zenon
<1>14. DoneWith(W, w, TRUE) = W \o <<w>>
  BY <1>12, WordDone, Zenon
<1> QED BY <1>4, <1>13, <1>14, Zenon DEF AtEnd

\* ... or is, ...
LEMMA StandsAtQuote ==
    ASSUME NEW l \in Seq(Chars), NEW r, Reading(r, l), NEW i \in 0 .. Len(l),
           NEW W \in Seq(Seq(Chars)), NEW p \in Pending, NEW n \in BOOLEAN,
           Stands(l, r, i, W, p, n), p.line # <<>>, Idx(p) # 0, p.line[Idx(p)] \in Quotes,
           Ending(p) # 0, Carried(l, r, i + Idx(p) + Ending(p))
    PROVE  AtEnd(l, r, W, p)
<1> DEFINE j == i + Idx(p)
           c == p.line[Idx(p)]
           m == n /\ Idx(p) = 1
           e == Ending(p)
           k == e - 1
           h == j + e
           w == Before(p) \o SubSeq(Rest(p), 1, k)
           q == Item(From(l, h + 1), w, TRUE)
<1>0. Parts(l, r, i, W, p, n)
  BY StandsParts, Zenon
<1>1. /\ j \in 1 .. Len(l) /\ l[j] = c
      /\ Rest(p) = From(l, j + 1)
      /\ r[j] = Scan(State(W, Before(p), Begun(p, Before(p)), "none", m), l[j])
  BY <1>0, Zenon DEF Parts
<1>2. /\ Before(p) \in Seq(Chars) /\ Rest(p) \in Seq(Chars) /\ p.quoted \in BOOLEAN
      /\ e \in 0 .. Len(Rest(p)) /\ e # 0 /\ Rest(p)[e] = c
      /\ \A t \in 1 .. k : Rest(p)[t] # c
      /\ w \in Seq(Chars)
  BY PendingParts, Zenon
<1>3. Begun(p, Before(p)) \in BOOLEAN /\ m \in BOOLEAN
  BY <1>2, Zenon DEF Begun
<1>4. words[p] = words[Item(From(Rest(p), e + 1), w, TRUE)]
  BY WordsRecursion, Zenon DEF WordsBy
<1>5. Carried(l, r, h)
  OBVIOUS
<1> HIDE DEF j, m, c, e
<1>6. c \in Quotes /\ c \in Chars /\ c # "none"
  BY CharsApart, Zenon DEF c
<1>7. IsAt(r, j, State(W, Before(p), TRUE, c, FALSE))
  BY <1>1, <1>3, <1>6, ScanQuote, Zenon DEF IsAt
<1>8. j \in Nat /\ j + 1 \in 1 .. Len(l) + 1
  BY <1>1
<1>9. /\ Len(Rest(p)) = Len(l) + 1 - (j + 1)
      /\ \A t \in 1 .. Len(l) + 1 - (j + 1) : Rest(p)[t] = l[(j + 1) + t - 1]
  BY <1>1, <1>8, FromParts, Zenon
<1>10. /\ k \in Nat /\ j + k + 1 = h /\ j + k <= Len(l) /\ h \in 1 .. Len(l) /\ h \in 0 .. Len(l)
       /\ h - 1 = j + k /\ e \in 1 .. Len(l) + 1 - (j + 1) /\ (j + 1) + e - 1 = h
       /\ e + 1 \in 1 .. Len(l) + 2 - (j + 1) /\ (j + 1) + (e + 1) - 1 = h + 1
  BY <1>2, <1>8, <1>9
<1>11. \A t \in 1 .. k : l[j + t] # c
  <2>1. ASSUME NEW t \in 1 .. k
        PROVE  t \in 1 .. Len(l) + 1 - (j + 1) /\ (j + 1) + t - 1 = j + t
    BY <1>8, <1>10
  <2> QED BY <1>2, <1>9, <2>1, Zenon
<1>12. l[h] = c
  BY <1>2, <1>9, <1>10, Zenon
<1>13. SubSeq(l, j + 1, j + k) = SubSeq(Rest(p), 1, k)
  BY <1>1, <1>8, <1>10, SubSeqFrom
<1>14. From(Rest(p), e + 1) = From(l, h + 1)
  <2>1. From(From(l, j + 1), e + 1) = From(l, (j + 1) + (e + 1) - 1)
    BY <1>8, <1>10, FromFrom
  <2> QED BY <1>1, <1>10, <2>1, Zenon
<1> HIDE DEF k, h
<1>15. IsAt(r, j + k, AfterQuoted(l, j, W, Before(p), c, k))
  BY <1>2, <1>6, <1>7, <1>8, <1>10, <1>11, QuotedRun, Zenon
<1>16. r[j + k] = State(W, w, TRUE, c, FALSE)
  BY <1>13, <1>15, Zenon DEF IsAt, AfterQuoted
<1> HIDE DEF w
<1>17. r[h] = Scan(r[j + k], c)
  <2>1. r[h] = Scan(r[h - 1], l[h])
    BY <1>10, Zenon DEF Reading
  <2> QED BY <1>10, <1>12, <2>1, Zenon
<1>18. IsAt(r, h, State(W, w, TRUE, "none", FALSE))
  <2>1. Scan(State(W, w, TRUE, c, FALSE), c) = State(W, w, TRUE, "none", FALSE)
    BY <1>6 DEF Scan, State
  <2> QED BY <1>16, <1>17, <2>1, Zenon DEF IsAt
<1>19. q.line = From(l, h + 1) /\ q.partial = w /\ q.quoted = TRUE
  BY DEF Item
<1>20. words[p] = words[q]
  BY <1>4, <1>14, Zenon
<1>21. q \in Pending
  <2>1. h + 1 \in 1 .. Len(l) + 1
    BY <1>10
  <2>2. From(l, h + 1) \in Seq(Chars) /\ TRUE \in BOOLEAN
    BY <2>1, FromParts, Zenon
  <2> QED BY <1>2, <2>2, ItemPending, Zenon
<1> HIDE DEF q
<1>22. Begun(q, q.partial) = TRUE
  BY <1>19, Zenon DEF Begun
<1>23. Stands(l, r, h, W, q, FALSE) /\ FALSE \in BOOLEAN
  BY <1>18, <1>19, <1>22, Zenon DEF Stands
<1>24. AtEnd(l, r, W, q)
  BY <1>5, <1>21, <1>23, CarriedAt, Zenon
<1> QED BY <1>20, <1>24, Zenon DEF AtEnd

\* ... has < or > next, which starts a word as the line is spaced, ...
LEMMA AngleFirst ==
    ASSUME NEW l \in Seq(Chars), Spaced(l), NEW r, Reading(r, l), NEW i \in 0 .. Len(l),
           NEW W \in Seq(Seq(Chars)), NEW p \in Pending, NEW n \in BOOLEAN,
           Stands(l, r, i, W, p, n), Idx(p) # 0, p.line[Idx(p)] \in Angles
    PROVE  Idx(p) = 1 /\ Before(p) = p.partial
<1> DEFINE x == Idx(p)
<1>0. Parts(l, r, i, W, p, n)
  BY StandsParts, Zenon
<1>1. /\ x \in Nat /\ i + x \in 1 .. Len(l) /\ l[i + x] = p.line[x]
      /\ \A j \in 1 .. Len(l) - i : p.line[j] = l[i + j]
  BY <1>0, Zenon DEF Parts
<1>2. x \in 1 .. Len(p.line) /\ \A j \in 1 .. x - 1 : p.line[j] \notin Special
  <2>1. x \in 0 .. Len(p.line) /\ x # 0 /\ \A j \in 1 .. x - 1 : p.line[j] \notin Special
    BY PendingParts, Zenon
  <2> QED BY <2>1
<1>3. l[i + x] \in Angles
  BY <1>1, Zenon
<1> HIDE DEF x
<1>4. CASE x > 1
  <2>1. i + x \in 2 .. Len(l) /\ x - 1 \in 1 .. Len(l) - i /\ x - 1 \in 1 .. x - 1
        /\ i + (x - 1) = (i + x) - 1
    BY <1>1, <1>4
  <2>2. l[(i + x) - 1] \in Special
    BY <1>3, <2>1, Zenon DEF Spaced, Special
  <2>3. p.line[x - 1] \notin Special /\ p.line[x - 1] = l[i + (x - 1)]
    BY <1>1, <1>2, <2>1, Zenon
  <2> QED BY <2>1, <2>2, <2>3, Zenon
<1>5. CASE ~(x > 1)
  <2>1. x = 1
    BY <1>2, <1>5
  <2>2. SubSeq(p.line, 1, x - 1) = <<>>
    BY <2>1, SubSeqEmpty
  <2>3. p.partial \o <<>> = p.partial
    BY ConcatEmptySeq DEF Pending
  <2> QED BY <2>1, <2>2, <2>3, Zenon DEF x, Before
<1> QED BY <1>4, <1>5

\* The state after < or >.
LEMMA AngleRead ==
    ASSUME NEW l \in Seq(Chars), Spaced(l), NEW r, Reading(r, l), NEW i \in 0 .. Len(l),
           NEW W \in Seq(Seq(Chars)), NEW p \in Pending, NEW n \in BOOLEAN,
           Stands(l, r, i, W, p, n), Idx(p) # 0, p.line[Idx(p)] \in Angles
    PROVE  /\ i + 1 \in 1 .. Len(l) /\ l[i + 1] \in Angles /\ p.line[Idx(p)] = l[i + 1]
           /\ Rest(p) = From(l, i + 1 + 1)
           /\ Word(p, p.partial) \in Seq(Seq(Chars))
           /\ IsAt(r, i + 1, State(Append(W \o Word(p, p.partial), <<l[i + 1]>>), <<>>, FALSE, "none",
                                   l[i + 1] = Greater))
<1>0. Parts(l, r, i, W, p, n)
  BY StandsParts, Zenon
<1>1. Idx(p) = 1 /\ Before(p) = p.partial
  BY AngleFirst, Zenon
<1> DEFINE c == l[i + 1]
           b == Begun(p, p.partial)
           m == n /\ Idx(p) = 1
<1>2. /\ i + 1 \in 1 .. Len(l) /\ c = p.line[Idx(p)] /\ Rest(p) = From(l, i + 1 + 1)
      /\ r[i + 1] = Scan(State(W, p.partial, b, "none", m), c)
  BY <1>0, <1>1, Zenon DEF Parts
<1>3. c \in Angles
  BY <1>2, Zenon
<1>4. p.partial \in Seq(Chars) /\ p.quoted \in BOOLEAN
  BY DEF Pending
<1>5. b \in BOOLEAN /\ m \in BOOLEAN
  BY <1>4, Zenon DEF Begun
<1>6. ~(c = Greater /\ m)
  <2>1. i # Len(l)
    BY <1>2
  <2> QED BY <2>1, Zenon DEF Stands, Greater
<1>7. DoneWith(W, p.partial, b) = W \o Word(p, p.partial) /\ Word(p, p.partial) \in Seq(Seq(Chars))
  BY <1>4, WordDone, Zenon
<1> HIDE DEF c, b, m
<1>8. IsAt(r, i + 1, State(Append(DoneWith(W, p.partial, b), <<c>>), <<>>, FALSE, "none", c = Greater))
  <2>1. ~(c = ">" /\ m)
    BY <1>6, Zenon DEF Greater
  <2>2. Scans(State(W, p.partial, b, "none", m), c,
              State(Append(DoneWith(W, p.partial, b), <<c>>), <<>>, FALSE, "none", c = ">"))
    BY <1>3, <1>5, <2>1, ScanAngle, Zenon
  <2> QED BY <1>2, <2>2, Zenon DEF IsAt, Greater, Scans
<1> QED BY <1>2, <1>3, <1>7, <1>8, Zenon DEF c

LEMMA StandsAtAngle ==
    ASSUME NEW l \in Seq(Chars), Spaced(l), NEW r, Reading(r, l), NEW i \in 0 .. Len(l),
           NEW W \in Seq(Seq(Chars)), NEW p \in Pending, NEW n \in BOOLEAN,
           Stands(l, r, i, W, p, n), p.line # <<>>, Idx(p) # 0, p.line[Idx(p)] \in Angles,
           ~(p.line[Idx(p)] = Greater /\ Rest(p) # <<>> /\ Rest(p)[1] = Greater),
           Carried(l, r, i + 1)
    PROVE  AtEnd(l, r, W, p)
<1> DEFINE j == i + 1
           c == l[j]
           V == Word(p, p.partial) \o << <<c>> >>
           q == Item(From(l, j + 1), <<>>, FALSE)
           g == c = Greater
<1>1. /\ j \in 1 .. Len(l) /\ c \in Angles /\ p.line[Idx(p)] = c
      /\ Rest(p) = From(l, j + 1) /\ Word(p, p.partial) \in Seq(Seq(Chars))
      /\ IsAt(r, j, State(Append(W \o Word(p, p.partial), <<c>>), <<>>, FALSE, "none", g))
  BY AngleRead, Zenon
<1>2. p.line[Idx(p)] \notin Quotes /\ p.line[Idx(p)] # Blank /\ c \in Chars
  BY <1>1, CharsApart, Zenon DEF Blank
<1>3. words[p] = V \o words[q]
  BY <1>1, <1>2, WordsRecursion, Zenon DEF WordsBy, Blank, Greater
<1>4. j \in 0 .. Len(l)
  BY <1>1
<1>5. g => j = Len(l) \/ l[j + 1] # Greater
  <2> SUFFICES ASSUME g, j # Len(l) PROVE l[j + 1] # Greater
    BY Zenon
  <2>1. FromIs(l, j)
    BY <1>4, FromAt, Zenon
  <2>2. /\ Len(From(l, j + 1)) = Len(l) + 1 - (j + 1) /\ From(l, j + 1) \in Seq(Chars)
        /\ \A t \in 1 .. Len(l) + 1 - (j + 1) : From(l, j + 1)[t] = l[(j + 1) + t - 1]
    BY <2>1, Zenon DEF FromIs
  <2>3. 1 \in 1 .. Len(l) + 1 - (j + 1) /\ (j + 1) + 1 - 1 = j + 1
    BY <1>4
  <2>4. From(l, j + 1) # <<>>
    BY <2>2, <2>3
  <2>5. Rest(p)[1] # Greater
    BY <1>1, <2>4, Zenon
  <2>6. From(l, j + 1)[1] = l[j + 1]
    BY <2>2, <2>3, Zenon
  <2> QED BY <1>1, <2>5, <2>6, Zenon
<1>6. <<c>> \in Seq(Chars) /\ << <<c>> >> \in Seq(Seq(Chars))
  BY <1>2
<1>7. V \in Seq(Seq(Chars))
  BY <1>1, <1>6, ConcatProperties, Zenon
<1>8. Append(W \o Word(p, p.partial), <<c>>) = W \o V
  <2> DEFINE X == Word(p, p.partial)
  <2>1. X \in Seq(Seq(Chars))
    BY <1>1, Zenon
  <2> HIDE DEF X, c
  <2>2. W \o X \in Seq(Seq(Chars))
    BY <2>1, ConcatProperties
  <2>3. Append(W \o X, <<c>>) = (W \o X) \o << <<c>> >>
    BY <1>6, <2>2, AppendIsConcat
  <2>4. (W \o X) \o << <<c>> >> = W \o (X \o << <<c>> >>)
    BY <1>6, <2>1, ConcatAssociative
  <2> QED BY <2>3, <2>4 DEF X
<1>9. q.line = From(l, j + 1) /\ q.partial = <<>> /\ q.quoted = FALSE
  BY DEF Item
<1>10. Carried(l, r, j) /\ g \in BOOLEAN
  BY Zenon
<1> HIDE DEF q, V, g, c, j
<1>11. Begun(q, q.partial) = FALSE
  BY <1>9, Zenon DEF Begun
<1>12. Stands(l, r, j, W \o V, q, g)
  BY <1>1, <1>5, <1>8, <1>9, <1>11, Zenon DEF Stands, Greater
<1>13. <<>> \in Seq(Chars) /\ FALSE \in BOOLEAN
  OBVIOUS
<1> QED BY <1>3, <1>4, <1>7, <1>10, <1>12, <1>13, CarriedOn, Zenon DEF q

\* ... or has > > next.
LEMMA StandsAtTwo ==
    ASSUME NEW l \in Seq(Chars), Spaced(l), NEW r, Reading(r, l), NEW i \in 0 .. Len(l),
           NEW W \in Seq(Seq(Chars)), NEW p \in Pending, NEW n \in BOOLEAN,
           Stands(l, r, i, W, p, n), p.line # <<>>, Idx(p) # 0, p.line[Idx(p)] \in Angles,
           p.line[Idx(p)] = Greater, Rest(p) # <<>>, Rest(p)[1] = Greater,
           Carried(l, r, i + 2)
    PROVE  AtEnd(l, r, W, p)
<1> DEFINE j == i + 1
           h == j + 1
           X == Word(p, p.partial)
           one == <<Greater>>
           two == <<Greater, Greater>>
           V == X \o <<two>>
           q == Item(From(l, h + 1), <<>>, FALSE)
<1>1. /\ j \in 1 .. Len(l) /\ l[j] \in Angles /\ p.line[Idx(p)] = l[j]
      /\ Rest(p) = From(l, h) /\ X \in Seq(Seq(Chars))
      /\ IsAt(r, j, State(Append(W \o X, <<l[j]>>), <<>>, FALSE, "none", l[j] = Greater))
  BY AngleRead, ZenonT(40)
<1>2. l[j] = Greater
  BY <1>1, Zenon
<1>3. /\ p.line[Idx(p)] \notin Quotes /\ p.line[Idx(p)] # Blank
      /\ Greater \in Chars /\ Greater \in Angles
  BY <1>1, CharsApart, Zenon DEF Blank, Greater
<1>4. words[p] = V \o words[Item(Tail(Rest(p)), <<>>, FALSE)]
  BY <1>1, <1>3, WordsRecursion, Zenon DEF WordsBy, Blank, Greater
<1> HIDE DEF X
<1>5. h \in 1 .. Len(l) /\ h \in 0 .. Len(l) /\ h - 1 = j /\ l[h] = Greater
  <2>0. j \in 0 .. Len(l)
    BY <1>1
  <2>1. FromIs(l, j)
    BY <2>0, FromAt, Zenon
  <2>2. /\ Len(From(l, h)) = Len(l) + 1 - h /\ From(l, h) \in Seq(Chars)
        /\ \A t \in 1 .. Len(l) + 1 - h : From(l, h)[t] = l[h + t - 1]
    BY <2>1, Zenon DEF FromIs
  <2>3. From(l, h) # <<>> /\ From(l, h)[1] = Greater
    BY <1>1, Zenon
  <2> HIDE DEF h
  <2>4. Len(From(l, h)) # 0
    BY <2>2, <2>3
  <2>5. 1 \in 1 .. Len(l) + 1 - h /\ h + 1 - 1 = h /\ h = j + 1
    BY <2>0, <2>2, <2>4 DEF h
  <2>6. l[h] = Greater
    BY <2>2, <2>3, <2>5, Zenon
  <2> QED BY <2>0, <2>5, <2>6
<1>6. Tail(Rest(p)) = From(l, h + 1)
  <2>1. Tail(From(l, h)) = From(From(l, h), 2)
    <3>0. j \in 0 .. Len(l)
      BY <1>1
    <3>1. FromIs(l, j)
      BY <3>0, FromAt, Zenon
    <3>2. From(l, h) \in Seq(Chars) /\ From(l, h) # <<>>
      BY <1>1, <3>1, Zenon DEF FromIs
    <3> HIDE DEF h
    <3> QED BY <3>2, TailFrom
  <2>2. From(From(l, h), 2) = From(l, h + 2 - 1)
    <3>1. h \in 1 .. Len(l) + 1 /\ 2 \in 1 .. Len(l) + 2 - h
      BY <1>5
    <3> QED BY <3>1, FromFrom
  <2>3. h + 2 - 1 = h + 1
    BY <1>5
  <2> QED BY <1>1, <2>1, <2>2, <2>3, Zenon
<1> HIDE DEF j
<1>7. r[j] = State(Append(W \o X, one), <<>>, FALSE, "none", TRUE)
  <2>1. (l[j] = Greater) = TRUE
    BY <1>2, Zenon
  <2> QED BY <1>1, <1>2, <2>1, Zenon DEF IsAt
<1>8. r[h] = Scan(r[j], Greater)
  <2>1. r[h] = Scan(r[h - 1], l[h])
    BY <1>5, Zenon DEF Reading
  <2> QED BY <1>5, <2>1, Zenon
<1>9. one \in Seq(Chars) /\ two \in Seq(Chars) /\ <<two>> \in Seq(Seq(Chars))
  BY <1>3
<1> HIDE DEF h, one, two
<1>10. W \o X \in Seq(Seq(Chars))
  BY <1>1, ConcatProperties
<1> DEFINE A == Append(W \o X, one)
<1>11. [A EXCEPT ![Len(A)] = two] = W \o V
  <2>1. [A EXCEPT ![Len(A)] = two] = Append(W \o X, two)
    <3> DEFINE Y == W \o X
    <3>1. Y \in Seq(Seq(Chars))
      BY <1>10
    <3> HIDE DEF Y
    <3>2. [Append(Y, one) EXCEPT ![Len(Append(Y, one))] = two] = Append(Y, two)
      BY <1>9, <3>1, LastReplaced
    <3> QED BY <3>2 DEF Y
  <2>2. Append(W \o X, two) = (W \o X) \o <<two>>
    BY <1>9, <1>10, AppendIsConcat
  <2>3. (W \o X) \o <<two>> = W \o V
    <3> DEFINE Y == <<two>>
    <3>1. Y \in Seq(Seq(Chars))
      BY <1>9
    <3> HIDE DEF Y
    <3>2. (W \o X) \o Y = W \o (X \o Y)
      <4>1. X \in Seq(Seq(Chars))
        BY <1>1, Zenon
      <4> HIDE DEF X
      <4> QED BY <3>1, <4>1, ListsAssociative
    <3> QED BY <3>2 DEF Y
  <2> QED BY <2>1, <2>2, <2>3
<1>12. V \in Seq(Seq(Chars))
  BY <1>1, <1>9, ConcatProperties
<1> HIDE DEF A, V
<1>13. Scans(State(A, <<>>, FALSE, "none", TRUE), ">",
             State([A EXCEPT ![Len(A)] = <<">", ">">>], <<>>, FALSE, "none", FALSE))
  <2>1. FALSE \in BOOLEAN
    OBVIOUS
  <2> QED BY <2>1, ScanSecond, Zenon
<1>14. IsAt(r, h, State(W \o V, <<>>, FALSE, "none", FALSE))
  BY <1>7, <1>8, <1>11, <1>13, Zenon DEF Scans, IsAt, Greater, two, A
<1>15. q.line = From(l, h + 1) /\ q.partial = <<>> /\ q.quoted = FALSE
  BY DEF Item
<1>16. words[p] = V \o words[q]
  BY <1>4, <1>6, Zenon
<1> HIDE DEF q
<1>17. Begun(q, q.partial) = FALSE
  BY <1>15, Zenon DEF Begun
<1>18. Stands(l, r, h, W \o V, q, FALSE)
  BY <1>14, <1>15, <1>17, Zenon DEF Stands
<1>19. Carried(l, r, h)
  <2>1. i + 2 = (i + 1) + 1
    OBVIOUS
  <2> QED BY <2>1, Zenon DEF h, j
<1>20. <<>> \in Seq(Chars) /\ FALSE \in BOOLEAN
  OBVIOUS
<1> QED BY <1>5, <1>12, <1>16, <1>18, <1>19, <1>20, CarriedOn, Zenon DEF q

LEMMA CarriedHere ==
    ASSUME NEW l \in Seq(Chars), Spaced(l), NEW r, Reading(r, l), NEW i \in 0 .. Len(l),
           \A j \in i + 1 .. Len(l) : Carried(l, r, j)
    PROVE  Carried(l, r, i)
<1> SUFFICES ASSUME NEW W \in Seq(Seq(Chars)), NEW p \in Pending, NEW n \in BOOLEAN,
                    Stands(l, r, i, W, p, n)
             PROVE  AtEnd(l, r, W, p)
  BY Zenon DEF Carried
<1>1. CASE p.line = <<>>
  BY <1>1, StandsAtEnd, Zenon
<1>2. CASE p.line # <<>> /\ Idx(p) = 0
  BY <1>2, StandsAtLast, Zenon
<1>3. CASE p.line # <<>> /\ Idx(p) # 0
  <2> DEFINE x == Idx(p)
  <2>1. Parts(l, r, i, W, p, n)
    BY <1>3, StandsParts, Zenon
  <2>2. x \in Nat /\ i + x \in 1 .. Len(l) /\ Rest(p) = From(l, i + x + 1)
    BY <2>1, Zenon DEF Parts
  <2>3. x # 0 /\ p.line[x] \in Special /\ Ending(p) \in 0 .. Len(Rest(p)) /\ Rest(p) \in Seq(Chars)
    BY <1>3, PendingParts, Zenon
  <2> HIDE DEF x
  <2>4. Len(Rest(p)) = Len(l) - (i + x)
    <3>1. i + x \in 0 .. Len(l)
      BY <2>2
    <3>2. FromIs(l, i + x)
      BY <3>1, FromAt, Zenon
    <3>3. Len(Rest(p)) = Len(l) + 1 - (i + x + 1)
      BY <2>2, <3>2, Zenon DEF FromIs
    <3> QED BY <2>2, <3>3
  <2>5. Carried(l, r, i + x) /\ Carried(l, r, i + 1)
    <3>1. i + x \in i + 1 .. Len(l) /\ i + 1 \in i + 1 .. Len(l)
      BY <2>2, <2>3
    <3> QED BY <3>1, Zenon
  <2>6. CASE p.line[x] \in Quotes /\ Ending(p) = 0
    BY <1>3, <2>6, StandsAtOpenQuote, Zenon DEF x
  <2>7. CASE p.line[x] \in Quotes /\ Ending(p) # 0
    <3>1. i + x + Ending(p) \in i + 1 .. Len(l)
      BY <2>2, <2>3, <2>4, <2>7
    <3>2. Carried(l, r, i + x + Ending(p))
      BY <3>1, Zenon
    <3> QED BY <1>3, <2>7, <3>2, StandsAtQuote, Zenon DEF x
  <2>8. CASE p.line[x] = Blank
    BY <1>3, <2>5, <2>8, StandsAtSpace, Zenon DEF x
  <2>9. CASE p.line[x] \in Angles /\ ~(p.line[x] = Greater /\ Rest(p) # <<>> /\ Rest(p)[1] = Greater)
    BY <1>3, <2>5, <2>9, StandsAtAngle, Zenon DEF x
  <2>10. CASE p.line[x] \in Angles /\ p.line[x] = Greater /\ Rest(p) # <<>> /\ Rest(p)[1] = Greater
    <3>1. i + 2 \in i + 1 .. Len(l)
      <4>1. Len(Rest(p)) # 0
        BY <2>3, <2>10
      <4> QED BY <2>2, <2>3, <2>4, <4>1
    <3>2. Carried(l, r, i + 2)
      BY <3>1, Zenon
    <3> QED BY <1>3, <2>10, <3>2, StandsAtTwo, Zenon DEF x
  <2>11. p.line[x] \in Quotes \/ p.line[x] \in Angles \/ p.line[x] = Blank
    BY <2>3, Zenon DEF Special, Blank
  <2> QED BY <2>6, <2>7, <2>8, <2>9, <2>10, <2>11, Zenon
<1> QED BY <1>1, <1>2, <1>3, Zenon

LEMMA CarriedAll ==
    ASSUME NEW l \in Seq(Chars), Spaced(l), NEW r, Reading(r, l)
    PROVE  Carried(l, r, 0)
<1> DEFINE Bad == {k \in Nat : k <= Len(l) /\ ~Carried(l, r, Len(l) - k)}
<1>0. Bad \in SUBSET Nat
  BY Zenon
<1>1. CASE Bad = {}
  <2>1. Len(l) \in Nat /\ Len(l) <= Len(l) /\ Len(l) - Len(l) = 0
    OBVIOUS
  <2> QED BY <1>1, <2>1, Zenon
<1>2. CASE Bad # {}
  <2> HIDE DEF Bad
  <2>1. PICK k \in Bad : \A m \in Bad : k <= m
    BY <1>0, <1>2, Least, Zenon
  <2>2. k \in Nat /\ k <= Len(l) /\ ~Carried(l, r, Len(l) - k)
    BY <2>1, Zenon DEF Bad
  <2>3. Len(l) - k \in 0 .. Len(l)
    BY <2>2
  <2>4. ASSUME NEW j \in (Len(l) - k) + 1 .. Len(l) PROVE Carried(l, r, j)
    <3>1. Len(l) - j \in Nat /\ Len(l) - j <= Len(l) /\ ~(k <= Len(l) - j) /\ Len(l) - (Len(l) - j) = j
      BY <2>2
    <3>2. Len(l) - j \notin Bad
      BY <2>1, <3>1, Zenon
    <3> QED BY <3>1, <3>2, Zenon DEF Bad
  <2>5. Carried(l, r, Len(l) - k)
    BY <2>3, <2>4, CarriedHere, Zenon
  <2> QED BY <2>2, <2>5, Zenon
<1> QED BY <1>1, <1>2

\* Of a spaced line, tokenizeLine makes the words that are read from it.
THEOREM SpacedWords ==
    ASSUME NEW l \in Seq(Chars), Spaced(l)
    PROVE  tokenizeLine(l) = Words(l)
<1>1. PICK r : Reading(r, l) /\ Words(l) = Done(r[Len(l)])
  BY WordsRead
<1> DEFINE p == Item(l, <<>>, FALSE)
<1>2. <<>> \in Seq(Chars) /\ FALSE \in BOOLEAN /\ 0 \in 0 .. Len(l) /\ 0 + 1 = 1
  OBVIOUS
<1>3. p \in Pending
  BY <1>2, ItemPending, Zenon
<1>4. p.line = From(l, 0 + 1) /\ p.partial = <<>> /\ p.quoted = FALSE
  <2>1. From(l, 1) = l
    BY FromAll
  <2> QED BY <1>2, <2>1 DEF Item
<1>5. tokenizeLine(l) = words[p]
  BY Zenon DEF tokenizeLine, Item
<1> HIDE DEF p
<1>6. Begun(p, p.partial) = FALSE
  BY <1>4, Zenon DEF Begun
<1>7. IsAt(r, 0, State(<<>>, <<>>, FALSE, "none", FALSE))
  BY <1>1, Zenon DEF IsAt, Reading, Unread, State
<1>8. Stands(l, r, 0, <<>>, p, FALSE)
  BY <1>4, <1>6, <1>7, Zenon DEF Stands
<1>9. <<>> \in Seq(Seq(Chars))
  OBVIOUS
<1>10. Carried(l, r, 0)
  BY <1>1, CarriedAll, Zenon
<1>11. AtEnd(l, r, <<>>, p)
  BY <1>2, <1>3, <1>8, <1>9, <1>10, CarriedAt, Zenon
<1>12. words[p] \in Seq(Seq(Chars))
  BY <1>3, WordsTyped
<1>13. <<>> \o words[p] = words[p]
  BY <1>12, ConcatEmptySeq
<1> QED BY <1>1, <1>5, <1>11, <1>13, Zenon DEF AtEnd

-----------------------------------------------------------------------------
(* The recursion of matchFieldName.                                        *)

Try(a, b, s) == [name |-> a, in |-> b, sensitive |-> s]

LEMMA TryMatching ==
    ASSUME NEW a \in Seq(Chars), NEW b \in Seq(Chars), NEW s \in BOOLEAN
    PROVE  /\ Try(a, b, s) \in Matching
           /\ Try(a, b, s).name = a /\ Try(a, b, s).in = b /\ Try(a, b, s).sensitive = s
BY DEF Try, Matching

\* The letter is kept, or left out.
Same(p) == p.in # <<>> /\ SameChar(p.name[1], p.in[1], p.sensitive)
Took(f, p) ==
    IF Same(p) THEN f[Try(Tail(p.name), Tail(p.in), p.sensitive)] ELSE NoMatch
Skipped(f, p) == f[Try(Tail(p.name), p.in, p.sensitive)]
Plus(m, c) == [m EXCEPT !.uc = @ + c, !.ch = @ + 1]

MatchBy(f, p) ==
    IF p.name = <<>> THEN [NoMatch EXCEPT !.ok = p.in = <<>>]
    ELSE IF /\ Took(f, p).ok
            /\ \/ ~Skipped(f, p).ok
               \/ Better(Took(f, p), Plus(Skipped(f, p), Capital(p.name[1])))
         THEN Took(f, p)
         ELSE IF Skipped(f, p).ok THEN Plus(Skipped(f, p), Capital(p.name[1])) ELSE NoMatch

LEMMA MatchIs == match = CHOOSE f : f = [p \in Matching |-> MatchBy(f, p)]
<1>1. \A p \in Matching :
        /\ [p EXCEPT !.name = Tail(@), !.in = Tail(@)] = Try(Tail(p.name), Tail(p.in), p.sensitive)
        /\ [p EXCEPT !.name = Tail(@)] = Try(Tail(p.name), p.in, p.sensitive)
  <2> TAKE p \in Matching
  <2>1. PICK a \in Seq(Chars), b \in Seq(Chars), s \in BOOLEAN :
          p = [name |-> a, in |-> b, sensitive |-> s]
    BY DEF Matching
  <2>2. p.name = a /\ p.in = b /\ p.sensitive = s
    BY <2>1
  <2>3. \A x : [p EXCEPT !.name = x] = [name |-> x, in |-> b, sensitive |-> s]
    BY <2>1
  <2>4. ASSUME NEW x, NEW y
        PROVE  [p EXCEPT !.name = x, !.in = y] = [name |-> x, in |-> y, sensitive |-> s]
    <3> DEFINE u == [name |-> x, in |-> b, sensitive |-> s]
    <3>1. [u EXCEPT !.in = y] = [name |-> x, in |-> y, sensitive |-> s]
      OBVIOUS
    <3>2. [p EXCEPT !.name = x] = u
      BY <2>3
    <3> HIDE DEF u
    <3>3. [[p EXCEPT !.name = x] EXCEPT !.in = y] = [u EXCEPT !.in = y]
      BY <3>2, Zenon
    <3> QED BY <3>1, <3>3, Zenon
  <2> QED BY <2>2, <2>3, <2>4, Zenon DEF Try
<1> DEFINE M(f, p) ==
      IF p.name = <<>> THEN [NoMatch EXCEPT !.ok = p.in = <<>>]
      ELSE LET same == p.in # <<>> /\ SameChar(p.name[1], p.in[1], p.sensitive)
               m1 == IF same THEN f[[p EXCEPT !.name = Tail(@), !.in = Tail(@)]] ELSE NoMatch
               m  == f[[p EXCEPT !.name = Tail(@)]]
               m2 == [m EXCEPT !.uc = @ + Capital(p.name[1]), !.ch = @ + 1]
           IN  IF m1.ok /\ (~m.ok \/ Better(m1, m2)) THEN m1
               ELSE IF m.ok THEN m2 ELSE NoMatch
<1>2. match = CHOOSE f : f = [p \in Matching |-> M(f, p)]
  BY DEF match
<1>3. ASSUME NEW f, NEW p \in Matching PROVE M(f, p) = MatchBy(f, p)
  BY <1>1, Zenon DEF MatchBy, Took, Skipped, Same, Plus
<1> HIDE DEF M
<1>4. ASSUME NEW f PROVE [p \in Matching |-> M(f, p)] = [p \in Matching |-> MatchBy(f, p)]
  BY <1>3, Zenon
<1> QED BY <1>2, <1>4, Zenon

LEMMA MatchingParts ==
    ASSUME NEW p \in Matching
    PROVE  /\ p.name \in Seq(Chars) /\ p.in \in Seq(Chars) /\ p.sensitive \in BOOLEAN
           /\ Len(p.name) \in Nat
           /\ p = Try(p.name, p.in, p.sensitive)
           /\ p.name # <<>> =>
                /\ Len(Tail(p.name)) < Len(p.name)
                /\ Try(Tail(p.name), p.in, p.sensitive) \in Matching
                /\ Try(Tail(p.name), p.in, p.sensitive).name = Tail(p.name)
                /\ p.in # <<>> =>
                     /\ Try(Tail(p.name), Tail(p.in), p.sensitive) \in Matching
                     /\ Try(Tail(p.name), Tail(p.in), p.sensitive).name = Tail(p.name)
<1>1. p.name \in Seq(Chars) /\ p.in \in Seq(Chars) /\ p.sensitive \in BOOLEAN
      /\ p = Try(p.name, p.in, p.sensitive)
  BY DEF Matching, Try
<1>2. p.name # <<>> => Tail(p.name) \in Seq(Chars) /\ Len(Tail(p.name)) < Len(p.name)
  BY <1>1
<1>3. p.in # <<>> => Tail(p.in) \in Seq(Chars)
  BY <1>1
<1>4. Len(p.name) \in Nat
  BY <1>1
<1>5. ASSUME p.name # <<>>
      PROVE  /\ Try(Tail(p.name), p.in, p.sensitive) \in Matching
             /\ Try(Tail(p.name), p.in, p.sensitive).name = Tail(p.name)
  BY <1>1, <1>2, <1>5, TryMatching, Zenon
<1>6. ASSUME p.name # <<>>, p.in # <<>>
      PROVE  /\ Try(Tail(p.name), Tail(p.in), p.sensitive) \in Matching
             /\ Try(Tail(p.name), Tail(p.in), p.sensitive).name = Tail(p.name)
  BY <1>1, <1>2, <1>3, <1>6, TryMatching, Zenon
<1> QED BY <1>1, <1>2, <1>4, <1>5, <1>6, Zenon

LEMMA MatchByShorter ==
    ASSUME NEW p \in Matching, NEW f, NEW g,
           \A q \in Matching : Len(q.name) < Len(p.name) => f[q] = g[q]
    PROVE  MatchBy(f, p) = MatchBy(g, p)
<1>1. CASE p.name = <<>>
  BY <1>1 DEF MatchBy
<1>2. CASE p.name # <<>>
  <2>1. Skipped(f, p) = Skipped(g, p)
    BY <1>2, MatchingParts, Zenon DEF Skipped
  <2>2. Took(f, p) = Took(g, p)
    <3>1. CASE Same(p)
      <4>1. p.in # <<>>
        BY <3>1, Zenon DEF Same
      <4>2. f[Try(Tail(p.name), Tail(p.in), p.sensitive)] = g[Try(Tail(p.name), Tail(p.in), p.sensitive)]
        BY <1>2, <4>1, MatchingParts, Zenon
      <4> QED BY <3>1, <4>2, Zenon DEF Took
    <3>2. CASE ~Same(p)
      BY <3>2, Zenon DEF Took
    <3> QED BY <3>1, <3>2
  <2> QED BY <1>2, <2>1, <2>2, Zenon DEF MatchBy
<1> QED BY <1>1, <1>2

Brief(n) == {p \in Matching : Len(p.name) <= n}

GivesMatch(f, n) == f = [p \in Brief(n) |-> MatchBy(f, p)]

LEMMA GivesMatchSame ==
    ASSUME NEW m \in Nat, NEW n \in Nat, NEW f, NEW g, GivesMatch(f, m), GivesMatch(g, n),
           NEW p \in Brief(m), p \in Brief(n)
    PROVE  f[p] = g[p]
<1> DEFINE Bad == {k \in Nat : \E q \in Brief(m) \cap Brief(n) : Len(q.name) = k /\ f[q] # g[q]}
<1>1. \A q \in Matching : Len(q.name) \in Nat
  BY MatchingParts
<1>2. SUFFICES ASSUME Bad # {} PROVE FALSE
  BY <1>1 DEF Brief
<1>3. PICK k \in Bad : \A j \in Bad : k <= j
  BY <1>2, Least
<1>4. PICK q \in Brief(m) \cap Brief(n) : Len(q.name) = k /\ f[q] # g[q]
  BY <1>3
<1>5. ASSUME NEW r \in Matching, Len(r.name) < Len(q.name) PROVE f[r] = g[r]
  <2>1. Len(r.name) \in Nat /\ ~(k <= Len(r.name)) /\ Len(r.name) <= m /\ Len(r.name) <= n
    BY <1>1, <1>4, <1>5 DEF Brief
  <2>2. r \in Brief(m) \cap Brief(n)
    BY <1>5, <2>1 DEF Brief
  <2>3. Len(r.name) \notin Bad
    BY <1>3, <2>1
  <2> QED BY <2>1, <2>2, <2>3
<1>6. q \in Matching
  BY <1>4 DEF Brief
<1>7. MatchBy(f, q) = MatchBy(g, q)
  BY <1>5, <1>6, MatchByShorter
<1>8. f[q] = MatchBy(f, q) /\ g[q] = MatchBy(g, q)
  BY <1>4 DEF GivesMatch
<1> QED BY <1>4, <1>7, <1>8

LEMMA GivesMatchNext ==
    ASSUME NEW n \in Nat, NEW f, GivesMatch(f, n)
    PROVE  \E g : GivesMatch(g, n + 1)
<1> DEFINE g == [p \in Brief(n + 1) |-> MatchBy(f, p)]
<1>1. \A p \in Matching : Len(p.name) \in Nat
  BY MatchingParts
<1>2. ASSUME NEW p \in Brief(n + 1) PROVE MatchBy(f, p) = MatchBy(g, p)
  <2>1. p \in Matching
    BY DEF Brief
  <2>2. ASSUME NEW q \in Matching, Len(q.name) < Len(p.name) PROVE f[q] = g[q]
    <3>1. q \in Brief(n) /\ q \in Brief(n + 1)
      BY <1>1, <2>1, <2>2 DEF Brief
    <3>2. f[q] = MatchBy(f, q)
      BY <3>1 DEF GivesMatch
    <3> QED BY <3>1, <3>2
  <2> HIDE DEF g
  <2> QED BY <2>1, <2>2, MatchByShorter
<1>3. g = [p \in Brief(n + 1) |-> MatchBy(g, p)]
  <2> DEFINE h == [p \in Brief(n + 1) |-> MatchBy(g, p)]
  <2>1. \A p \in Brief(n + 1) : g[p] = h[p]
    BY <1>2, Zenon
  <2>2. DOMAIN g = Brief(n + 1) /\ DOMAIN h = Brief(n + 1)
    BY Zenon
  <2>3. g = [p \in Brief(n + 1) |-> g[p]] /\ h = [p \in Brief(n + 1) |-> h[p]]
    BY Zenon
  <2> HIDE DEF g, h
  <2>4. g = h
    BY <2>1, <2>2, <2>3, Zenon
  <2> QED BY <2>4 DEF h
<1> HIDE DEF g
<1> QED BY <1>3 DEF GivesMatch

LEMMA GivesMatchAll ==
    ASSUME NEW n \in Nat
    PROVE  \E f : GivesMatch(f, n)
<1> DEFINE Missing == {m \in Nat : ~ \E f : GivesMatch(f, m)}
<1>1. SUFFICES ASSUME Missing # {} PROVE FALSE
  BY Zenon
<1>2. PICK m \in Missing : \A k \in Missing : m <= k
  BY <1>1, Least
<1>3. CASE m = 0
  <2> DEFINE g == [p \in Brief(0) |-> MatchBy(<<>>, p)]
  <2>1. ASSUME NEW p \in Brief(0) PROVE MatchBy(<<>>, p) = MatchBy(g, p)
    <3>1. p.name = <<>>
      BY DEF Brief, Matching
    <3> QED BY <3>1 DEF MatchBy
  <2>2. GivesMatch(g, 0)
    <3> DEFINE h == [p \in Brief(0) |-> MatchBy(g, p)]
    <3>1. \A p \in Brief(0) : g[p] = h[p]
      BY <2>1, Zenon
    <3>2. DOMAIN g = Brief(0) /\ DOMAIN h = Brief(0)
      BY Zenon
    <3>3. g = [p \in Brief(0) |-> g[p]] /\ h = [p \in Brief(0) |-> h[p]]
      BY Zenon
    <3> HIDE DEF g, h
    <3>4. g = h
      BY <3>1, <3>2, <3>3, Zenon
    <3> QED BY <3>4 DEF h, GivesMatch
  <2> QED BY <1>2, <1>3, <2>2
<1>4. CASE m # 0
  <2>1. m - 1 \in Nat /\ ~(m <= m - 1) /\ (m - 1) + 1 = m
    BY <1>4
  <2>2. PICK f : GivesMatch(f, m - 1)
    BY <1>2, <2>1
  <2>3. \E g : GivesMatch(g, (m - 1) + 1)
    BY <2>1, <2>2, GivesMatchNext, Zenon
  <2> QED BY <2>1, <2>3
<1> QED BY <1>3, <1>4

LEMMA MatchRecursion ==
    ASSUME NEW p \in Matching
    PROVE  match[p] = MatchBy(match, p)
<1> DEFINE G(n) == CHOOSE f : GivesMatch(f, n)
           g == [q \in Matching |-> G(Len(q.name))[q]]
<1>1. \A n \in Nat : GivesMatch(G(n), n)
  BY GivesMatchAll
<1>2. \A q \in Matching : Len(q.name) \in Nat /\ q \in Brief(Len(q.name))
  BY DEF Matching, Brief
<1> HIDE DEF G
<1>3. ASSUME NEW q \in Matching PROVE MatchBy(g, q) = g[q]
  <2> DEFINE n == Len(q.name)
  <2>1. n \in Nat /\ q \in Brief(n)
    BY <1>2
  <2>2. ASSUME NEW r \in Matching, Len(r.name) < n PROVE g[r] = G(n)[r]
    <3>1. Len(r.name) \in Nat /\ r \in Brief(Len(r.name)) /\ r \in Brief(n)
      BY <1>2, <2>1, <2>2 DEF Brief
    <3>2. G(Len(r.name))[r] = G(n)[r]
      BY <1>1, <2>1, <3>1, GivesMatchSame
    <3> QED BY <3>2
  <2> HIDE DEF g
  <2>3. MatchBy(g, q) = MatchBy(G(n), q)
    BY <2>2, MatchByShorter
  <2>4. G(n)[q] = MatchBy(G(n), q)
    <3>1. GivesMatch(G(n), n)
      BY <1>1, <2>1
    <3> QED BY <2>1, <3>1 DEF GivesMatch
  <2> QED BY <2>3, <2>4 DEF g
<1>4. g = [q \in Matching |-> MatchBy(g, q)]
  <2> DEFINE h == [q \in Matching |-> MatchBy(g, q)]
  <2>1. \A q \in Matching : g[q] = h[q]
    BY <1>3, Zenon
  <2>2. DOMAIN g = Matching /\ DOMAIN h = Matching
    BY Zenon
  <2>3. g = [q \in Matching |-> g[q]] /\ h = [q \in Matching |-> h[q]]
    BY Zenon
  <2> HIDE DEF g, h
  <2>4. g = h
    BY <2>1, <2>2, <2>3, Zenon
  <2> QED BY <2>4 DEF h
<1> HIDE DEF g
<1>5. match = [q \in Matching |-> MatchBy(match, q)]
  BY <1>4, MatchIs, Zenon
<1> QED BY <1>5, Zenon

-----------------------------------------------------------------------------
(* The letters that are kept.                                              *)

Increasing(kept, n) == \A j, k \in 1 .. n : j < k => kept[j] < kept[k]

Fits(a, b, s, kept) == \A k \in 1 .. Len(b) : SameChar(a[kept[k]], b[k], s)

\* As Shortenings, whichever way letters are compared.
Kept(a, b, s) == {kept \in [1 .. Len(b) -> 1 .. Len(a)] : Increasing(kept, Len(b)) /\ Fits(a, b, s, kept)}

Places(kept) == {kept[k] : k \in DOMAIN kept}

\* The letters that are left out, and the capitals among them.
Out(a, R)     == (1 .. Len(a)) \ R
CapsOut(a, R) == {i \in Out(a, R) : a[i] \in Capitals}

CapsCost(a, R) == Cardinality(CapsOut(a, R))
OutCost(a, R)  == Cardinality(Out(a, R))

LEMMA CostIs ==
    ASSUME NEW a, NEW kept
    PROVE  Cost(a, kept)[1] = CapsCost(a, Places(kept)) /\ Cost(a, kept)[2] = OutCost(a, Places(kept))
BY DEF Cost, CapsCost, OutCost, CapsOut, Out, Places

LEMMA OutFinite ==
    ASSUME NEW a \in Seq(Chars), NEW R
    PROVE  /\ IsFiniteSet(Out(a, R)) /\ IsFiniteSet(CapsOut(a, R))
           /\ CapsCost(a, R) \in Nat /\ OutCost(a, R) \in Nat
<1>1. Len(a) \in Nat /\ IsFiniteSet(1 .. Len(a))
  BY FS_Interval
<1>2. Out(a, R) \in SUBSET (1 .. Len(a)) /\ CapsOut(a, R) \in SUBSET (1 .. Len(a))
  BY Zenon DEF Out, CapsOut
<1>3. IsFiniteSet(Out(a, R)) /\ IsFiniteSet(CapsOut(a, R))
  BY <1>1, <1>2, FS_Subset, Zenon
<1> QED BY <1>3, FS_CardinalityType, Zenon DEF CapsCost, OutCost

\* A set and the same set one place further on have as many members.
LEMMA Moved ==
    ASSUME NEW S \in SUBSET Nat, IsFiniteSet(S), NEW T \in SUBSET Nat,
           \A i \in Nat : i \in T <=> i # 0 /\ i - 1 \in S
    PROVE  Cardinality(T) = Cardinality(S) /\ IsFiniteSet(T)
<1> DEFINE f == [i \in S |-> i + 1]
<1>1. \A i \in S : i + 1 \in T
  <2> TAKE i \in S
  <2>1. i \in Nat /\ i + 1 \in Nat /\ i + 1 # 0 /\ (i + 1) - 1 = i
    OBVIOUS
  <2> QED BY <2>1
<1>2. \A j \in T : \E i \in S : i + 1 = j
  <2> TAKE j \in T
  <2>1. j \in Nat /\ j # 0 /\ j - 1 \in S /\ (j - 1) + 1 = j
    OBVIOUS
  <2> QED BY <2>1
<1>3. \A i, j \in S : i + 1 = j + 1 => i = j
  OBVIOUS
<1>4. f \in Bijection(S, T)
  BY <1>1, <1>2, <1>3 DEF Bijection, Injection, Surjection, IsInjective
<1>5. ExistsBijection(S, T)
  BY <1>4 DEF ExistsBijection
<1> QED BY <1>5, FS_Bijection, Zenon

\* R and Q are the places kept of a name and of what is left of it.
Follows(a, R, Q) == \A i \in Nat : i \in 1 .. Len(a) - 1 => (i + 1 \in R <=> i \in Q)

LEMMA MovedOut ==
    ASSUME NEW a \in Seq(Chars), a # <<>>, NEW R, NEW Q, Follows(a, R, Q)
    PROVE  /\ OutCost(a, R) = OutCost(Tail(a), Q) + (IF 1 \in R THEN 0 ELSE 1)
           /\ CapsCost(a, R) = CapsCost(Tail(a), Q) + (IF 1 \in R THEN 0 ELSE Capital(a[1]))
<1> DEFINE b == Tail(a)
           T == Out(a, R) \ {1}
           U == CapsOut(a, R) \ {1}
<1>1. b \in Seq(Chars) /\ Len(b) = Len(a) - 1 /\ \A i \in 1 .. Len(b) : b[i] = a[i + 1]
  BY HeadTailProperties
<1>2. Len(a) \in Nat /\ Len(a) >= 1 /\ 1 \in 1 .. Len(a)
  BY <1>1
<1> HIDE DEF b
<1>3. Out(a, R) \subseteq Nat /\ CapsOut(a, R) \subseteq Nat /\ Out(b, Q) \in SUBSET Nat /\ CapsOut(b, Q) \in SUBSET Nat
  BY <1>1, <1>2 DEF Out, CapsOut
<1>4. ASSUME NEW i \in Nat
      PROVE  /\ i \in T <=> i # 0 /\ i - 1 \in Out(b, Q)
             /\ i \in U <=> i # 0 /\ i - 1 \in CapsOut(b, Q)
  <2>1. CASE i \in 2 .. Len(a)
    <3>1. /\ i - 1 \in Nat /\ i - 1 \in 1 .. Len(a) - 1 /\ i - 1 \in 1 .. Len(b) /\ (i - 1) + 1 = i
          /\ i \in 1 .. Len(a) /\ i # 1 /\ i # 0
      BY <1>1, <1>2, <2>1
    <3>2. i \in R <=> i - 1 \in Q
      BY <3>1, Zenon DEF Follows
    <3>3. b[i - 1] = a[i]
      BY <1>1, <3>1, Zenon
    <3> QED BY <3>1, <3>2, <3>3, Zenon DEF Out, CapsOut
  <2>2. CASE i \notin 2 .. Len(a)
    <3>1. ~(i \in 1 .. Len(a) /\ i # 1) /\ ~(i # 0 /\ i - 1 \in 1 .. Len(b))
      BY <1>1, <1>2, <2>2
    <3> QED BY <3>1, Zenon DEF Out, CapsOut
  <2> QED BY <2>1, <2>2
<1>5. T \in SUBSET Nat /\ U \in SUBSET Nat
  BY <1>3, Zenon
<1>6. /\ IsFiniteSet(Out(b, Q)) /\ IsFiniteSet(CapsOut(b, Q))
      /\ CapsCost(b, Q) \in Nat /\ OutCost(b, Q) \in Nat
  BY <1>1, OutFinite, Zenon
<1>7. \A i \in Nat : i \in T <=> i # 0 /\ i - 1 \in Out(b, Q)
  BY <1>4, Zenon
<1>8. \A i \in Nat : i \in U <=> i # 0 /\ i - 1 \in CapsOut(b, Q)
  BY <1>4, Zenon
<1> HIDE DEF T, U
<1>9. Cardinality(T) = OutCost(b, Q) /\ IsFiniteSet(T)
  BY <1>3, <1>5, <1>6, <1>7, Moved, Zenon DEF OutCost
<1>10. Cardinality(U) = CapsCost(b, Q) /\ IsFiniteSet(U)
  BY <1>3, <1>5, <1>6, <1>8, Moved, Zenon DEF CapsCost
<1>11. OutCost(a, R) = OutCost(b, Q) + (IF 1 \in R THEN 0 ELSE 1)
  <2>1. CASE 1 \in R
    <3>1. Out(a, R) = T
      BY <2>1, Zenon DEF Out, T
    <3> QED BY <1>6, <1>9, <2>1, <3>1 DEF OutCost
  <2>2. CASE 1 \notin R
    <3>1. Out(a, R) = T \cup {1} /\ 1 \notin T
      BY <1>2, <2>2 DEF Out, T
    <3>2. Cardinality(T \cup {1}) = Cardinality(T) + 1
      BY <1>9, <3>1, FS_AddElement
    <3> QED BY <1>6, <1>9, <2>2, <3>1, <3>2 DEF OutCost
  <2> QED BY <2>1, <2>2
<1>12. CapsCost(a, R) = CapsCost(b, Q) + (IF 1 \in R THEN 0 ELSE Capital(a[1]))
  <2>1. CASE 1 \in R \/ a[1] \notin Capitals
    <3>1. CapsOut(a, R) = U
      BY <2>1, Zenon DEF Out, CapsOut, U
    <3>2. 1 \in R \/ Capital(a[1]) = 0
      BY <2>1, Zenon DEF Capital
    <3> QED BY <1>6, <1>10, <2>1, <3>1, <3>2 DEF CapsCost
  <2>2. CASE 1 \notin R /\ a[1] \in Capitals
    <3>1. CapsOut(a, R) = U \cup {1} /\ 1 \notin U
      BY <1>2, <2>2, Zenon DEF Out, CapsOut, U
    <3>2. Cardinality(U \cup {1}) = Cardinality(U) + 1
      BY <1>10, <3>1, FS_AddElement
    <3>3. Capital(a[1]) = 1
      BY <2>2, Zenon DEF Capital
    <3> QED BY <1>6, <1>10, <2>2, <3>1, <3>2, <3>3 DEF CapsCost
  <2> QED BY <2>1, <2>2
<1> QED BY <1>11, <1>12, Zenon DEF b

LEMMA KeptParts ==
    ASSUME NEW a \in Seq(Chars), NEW b \in Seq(Chars), NEW s \in BOOLEAN, NEW kept \in Kept(a, b, s)
    PROVE  /\ kept \in [1 .. Len(b) -> 1 .. Len(a)] /\ DOMAIN kept = 1 .. Len(b)
           /\ Len(a) \in Nat /\ Len(b) \in Nat
           /\ \A k \in 1 .. Len(b) : kept[k] \in 1 .. Len(a) /\ SameChar(a[kept[k]], b[k], s)
           /\ \A j, k \in 1 .. Len(b) : j < k => kept[j] < kept[k]
<1>1. kept \in [1 .. Len(b) -> 1 .. Len(a)] /\ Increasing(kept, Len(b)) /\ Fits(a, b, s, kept)
  BY Zenon DEF Kept
<1>2. DOMAIN kept = 1 .. Len(b) /\ \A k \in 1 .. Len(b) : kept[k] \in 1 .. Len(a)
  BY <1>1, Zenon
<1>3. Len(a) \in Nat /\ Len(b) \in Nat
  OBVIOUS
<1> QED BY <1>1, <1>2, <1>3, Zenon DEF Increasing, Fits

LEMMA TailParts ==
    ASSUME NEW a \in Seq(Chars), a # <<>>
    PROVE  /\ Tail(a) \in Seq(Chars) /\ Len(Tail(a)) = Len(a) - 1 /\ Len(a) \in Nat /\ Len(a) >= 1
           /\ \A i \in 1 .. Len(a) - 1 : Tail(a)[i] = a[i + 1]
BY HeadTailProperties

\* The first letter of the name is kept: the rest of the input is what is left
\* of the rest of the name.
LEMMA TakeDown ==
    ASSUME NEW a \in Seq(Chars), NEW b \in Seq(Chars), NEW s \in BOOLEAN, a # <<>>,
           NEW kept \in Kept(a, b, s), 1 \in Places(kept)
    PROVE  /\ b # <<>> /\ SameChar(a[1], b[1], s)
           /\ \E below \in Kept(Tail(a), Tail(b), s) : Follows(a, Places(kept), Places(below))
<1>1. /\ DOMAIN kept = 1 .. Len(b) /\ Len(a) \in Nat /\ Len(b) \in Nat
      /\ \A k \in 1 .. Len(b) : kept[k] \in 1 .. Len(a) /\ SameChar(a[kept[k]], b[k], s)
      /\ \A j, k \in 1 .. Len(b) : j < k => kept[j] < kept[k]
  BY KeptParts, Zenon
<1>2. PICK k0 \in 1 .. Len(b) : kept[k0] = 1
  BY <1>1, Zenon DEF Places
<1>3. Len(b) >= 1 /\ 1 \in 1 .. Len(b) /\ b # <<>>
  BY <1>1, <1>2
<1>4. kept[1] = 1
  <2>1. CASE k0 = 1
    BY <1>2, <2>1
  <2>2. CASE k0 # 1
    <3>1. 1 < k0 /\ kept[1] \in 1 .. Len(a)
      BY <1>1, <1>2, <1>3, <2>2
    <3>2. kept[1] < kept[k0]
      BY <1>1, <1>2, <1>3, <3>1, Zenon
    <3> QED BY <1>1, <1>2, <3>1, <3>2
  <2> QED BY <2>1, <2>2
<1>5. SameChar(a[1], b[1], s)
  BY <1>1, <1>3, <1>4, Zenon
<1>6. /\ Tail(a) \in Seq(Chars) /\ Len(Tail(a)) = Len(a) - 1
      /\ \A i \in 1 .. Len(a) - 1 : Tail(a)[i] = a[i + 1]
  BY TailParts, Zenon
<1>7. /\ Tail(b) \in Seq(Chars) /\ Len(Tail(b)) = Len(b) - 1
      /\ \A i \in 1 .. Len(b) - 1 : Tail(b)[i] = b[i + 1]
  BY <1>3, TailParts, Zenon
<1> DEFINE below == [k \in 1 .. Len(b) - 1 |-> kept[k + 1] - 1]
<1>8. \A k \in 1 .. Len(b) - 1 :
        /\ k + 1 \in 1 .. Len(b) /\ kept[k + 1] - 1 \in 1 .. Len(a) - 1 /\ (kept[k + 1] - 1) + 1 = kept[k + 1]
        /\ below[k] = kept[k + 1] - 1
  <2> TAKE k \in 1 .. Len(b) - 1
  <2>1. k + 1 \in 1 .. Len(b) /\ 1 < k + 1
    BY <1>1
  <2>2. kept[1] < kept[k + 1] /\ kept[k + 1] \in 1 .. Len(a)
    BY <1>1, <1>3, <2>1, Zenon
  <2> QED BY <1>1, <1>4, <2>1, <2>2
<1>9. DOMAIN below = 1 .. Len(b) - 1 /\ below \in [1 .. Len(b) - 1 -> 1 .. Len(a) - 1]
  BY <1>8, Zenon
<1> HIDE DEF below
<1>10. Increasing(below, Len(Tail(b)))
  <2> SUFFICES ASSUME NEW j \in 1 .. Len(b) - 1, NEW k \in 1 .. Len(b) - 1, j < k
               PROVE  below[j] < below[k]
    BY <1>7, Zenon DEF Increasing
  <2>1. j + 1 < k + 1 /\ j + 1 \in 1 .. Len(b) /\ k + 1 \in 1 .. Len(b)
    BY <1>1
  <2>2. kept[j + 1] < kept[k + 1] /\ kept[j + 1] \in 1 .. Len(a) /\ kept[k + 1] \in 1 .. Len(a)
    BY <1>1, <2>1, Zenon
  <2>3. below[j] = kept[j + 1] - 1 /\ below[k] = kept[k + 1] - 1
    BY <1>8, Zenon
  <2> QED BY <1>1, <2>2, <2>3
<1>11. Fits(Tail(a), Tail(b), s, below)
  <2> SUFFICES ASSUME NEW k \in 1 .. Len(b) - 1
               PROVE  SameChar(Tail(a)[below[k]], Tail(b)[k], s)
    BY <1>7, Zenon DEF Fits
  <2>1. Tail(a)[below[k]] = a[kept[k + 1]] /\ Tail(b)[k] = b[k + 1] /\ k + 1 \in 1 .. Len(b)
    BY <1>6, <1>7, <1>8, Zenon
  <2>2. SameChar(a[kept[k + 1]], b[k + 1], s)
    BY <1>1, <2>1, Zenon
  <2> QED BY <2>1, <2>2, Zenon
<1>12. below \in Kept(Tail(a), Tail(b), s)
  BY <1>6, <1>7, <1>9, <1>10, <1>11, Zenon DEF Kept
<1>13. Follows(a, Places(kept), Places(below))
  <2> SUFFICES ASSUME NEW i \in Nat, i \in 1 .. Len(a) - 1
               PROVE  i + 1 \in Places(kept) <=> i \in Places(below)
    BY Zenon DEF Follows
  <2>1. ASSUME NEW k \in 1 .. Len(b), kept[k] = i + 1 PROVE \E m \in 1 .. Len(b) - 1 : below[m] = i
    <3>1. k # 1
      BY <1>4, <2>1
    <3>2. k - 1 \in 1 .. Len(b) - 1 /\ (k - 1) + 1 = k
      BY <1>1, <3>1
    <3>3. below[k - 1] = kept[(k - 1) + 1] - 1
      BY <1>8, <3>2, Zenon
    <3>4. below[k - 1] = i
      BY <2>1, <3>2, <3>3
    <3> QED BY <3>2, <3>4
  <2>2. ASSUME NEW m \in 1 .. Len(b) - 1, below[m] = i PROVE \E k \in 1 .. Len(b) : kept[k] = i + 1
    <3>1. m + 1 \in 1 .. Len(b) /\ kept[m + 1] = i + 1
      BY <1>8, <2>2, Zenon
    <3> QED BY <3>1
  <2> QED BY <1>1, <1>9, <2>1, <2>2, Zenon DEF Places
<1> QED BY <1>3, <1>5, <1>12, <1>13, Zenon

LEMMA SkipDown ==
    ASSUME NEW a \in Seq(Chars), NEW b \in Seq(Chars), NEW s \in BOOLEAN, a # <<>>,
           NEW kept \in Kept(a, b, s), 1 \notin Places(kept)
    PROVE  \E below \in Kept(Tail(a), b, s) : Follows(a, Places(kept), Places(below))
<1>1. /\ DOMAIN kept = 1 .. Len(b) /\ Len(a) \in Nat /\ Len(b) \in Nat
      /\ \A k \in 1 .. Len(b) : kept[k] \in 1 .. Len(a) /\ SameChar(a[kept[k]], b[k], s)
      /\ \A j, k \in 1 .. Len(b) : j < k => kept[j] < kept[k]
  BY KeptParts, Zenon
<1>2. \A k \in 1 .. Len(b) : kept[k] # 1
  BY <1>1, Zenon DEF Places
<1>3. /\ Tail(a) \in Seq(Chars) /\ Len(Tail(a)) = Len(a) - 1
      /\ \A i \in 1 .. Len(a) - 1 : Tail(a)[i] = a[i + 1]
  BY TailParts, Zenon
<1> DEFINE below == [k \in 1 .. Len(b) |-> kept[k] - 1]
<1>4. \A k \in 1 .. Len(b) :
        kept[k] - 1 \in 1 .. Len(a) - 1 /\ (kept[k] - 1) + 1 = kept[k] /\ below[k] = kept[k] - 1
  BY <1>1, <1>2
<1>5. DOMAIN below = 1 .. Len(b) /\ below \in [1 .. Len(b) -> 1 .. Len(a) - 1]
  BY <1>4, Zenon
<1> HIDE DEF below
<1>6. Increasing(below, Len(b))
  <2> SUFFICES ASSUME NEW j \in 1 .. Len(b), NEW k \in 1 .. Len(b), j < k
               PROVE  below[j] < below[k]
    BY Zenon DEF Increasing
  <2>1. kept[j] < kept[k] /\ kept[j] \in 1 .. Len(a) /\ kept[k] \in 1 .. Len(a)
    BY <1>1, Zenon
  <2>2. below[j] = kept[j] - 1 /\ below[k] = kept[k] - 1
    BY <1>4, Zenon
  <2> QED BY <1>1, <2>1, <2>2
<1>7. Fits(Tail(a), b, s, below)
  <2> SUFFICES ASSUME NEW k \in 1 .. Len(b) PROVE SameChar(Tail(a)[below[k]], b[k], s)
    BY Zenon DEF Fits
  <2>1. Tail(a)[below[k]] = a[kept[k]]
    BY <1>3, <1>4, Zenon
  <2>2. SameChar(a[kept[k]], b[k], s)
    BY <1>1, Zenon
  <2> QED BY <2>1, <2>2, Zenon
<1>8. below \in Kept(Tail(a), b, s)
  BY <1>3, <1>5, <1>6, <1>7, Zenon DEF Kept
<1>9. Follows(a, Places(kept), Places(below))
  <2> SUFFICES ASSUME NEW i \in Nat, i \in 1 .. Len(a) - 1
               PROVE  i + 1 \in Places(kept) <=> i \in Places(below)
    BY Zenon DEF Follows
  <2>1. \A k \in 1 .. Len(b) : kept[k] = i + 1 <=> below[k] = i
    BY <1>1, <1>4
  <2> QED BY <1>1, <1>5, <2>1, Zenon DEF Places
<1> QED BY <1>8, <1>9, Zenon

LEMMA TakeUp ==
    ASSUME NEW a \in Seq(Chars), NEW b \in Seq(Chars), NEW s \in BOOLEAN, a # <<>>, b # <<>>,
           SameChar(a[1], b[1], s), NEW below \in Kept(Tail(a), Tail(b), s)
    PROVE  \E kept \in Kept(a, b, s) :
               1 \in Places(kept) /\ Follows(a, Places(kept), Places(below))
<1>1. /\ Tail(a) \in Seq(Chars) /\ Len(Tail(a)) = Len(a) - 1 /\ Len(a) \in Nat /\ Len(a) >= 1
      /\ \A i \in 1 .. Len(a) - 1 : Tail(a)[i] = a[i + 1]
  BY TailParts, Zenon
<1>2. /\ Tail(b) \in Seq(Chars) /\ Len(Tail(b)) = Len(b) - 1 /\ Len(b) \in Nat /\ Len(b) >= 1
      /\ \A i \in 1 .. Len(b) - 1 : Tail(b)[i] = b[i + 1]
  BY TailParts, Zenon
<1>3. /\ DOMAIN below = 1 .. Len(b) - 1
      /\ \A k \in 1 .. Len(b) - 1 :
           below[k] \in 1 .. Len(a) - 1 /\ SameChar(Tail(a)[below[k]], Tail(b)[k], s)
      /\ \A j, k \in 1 .. Len(b) - 1 : j < k => below[j] < below[k]
  <2> DEFINE c == Tail(a)
  <2> DEFINE d == Tail(b)
  <2>1. c \in Seq(Chars) /\ d \in Seq(Chars) /\ below \in Kept(c, d, s)
    BY <1>1, <1>2
  <2>2. Len(c) = Len(a) - 1 /\ Len(d) = Len(b) - 1
    BY <1>1, <1>2
  <2> HIDE DEF c, d
  <2>3. /\ DOMAIN below = 1 .. Len(d)
        /\ \A k \in 1 .. Len(d) : below[k] \in 1 .. Len(c) /\ SameChar(c[below[k]], d[k], s)
        /\ \A j, k \in 1 .. Len(d) : j < k => below[j] < below[k]
    BY <2>1, KeptParts, Zenon
  <2> QED BY <2>2, <2>3, Zenon DEF c, d
<1> DEFINE kept == [k \in 1 .. Len(b) |-> IF k = 1 THEN 1 ELSE below[k - 1] + 1]
<1>4. \A k \in 1 .. Len(b) :
        IF k = 1 THEN kept[k] = 1
        ELSE k - 1 \in 1 .. Len(b) - 1 /\ (k - 1) + 1 = k /\ kept[k] = below[k - 1] + 1
  BY <1>2
<1>5. \A k \in 1 .. Len(b) : kept[k] \in 1 .. Len(a)
  BY <1>1, <1>3, <1>4
<1>6. DOMAIN kept = 1 .. Len(b) /\ kept \in [1 .. Len(b) -> 1 .. Len(a)]
  <2>1. kept = [k \in 1 .. Len(b) |-> kept[k]]
    BY Zenon
  <2> HIDE DEF kept
  <2> QED BY <1>5, <2>1, Zenon
<1> HIDE DEF kept
<1>7. Increasing(kept, Len(b))
  <2> SUFFICES ASSUME NEW j \in 1 .. Len(b), NEW k \in 1 .. Len(b), j < k
               PROVE  kept[j] < kept[k]
    BY Zenon DEF Increasing
  <2>1. k # 1
    BY <1>2
  <2>2. k - 1 \in 1 .. Len(b) - 1 /\ kept[k] = below[k - 1] + 1
    BY <1>4, <2>1, Zenon
  <2>3. below[k - 1] \in 1 .. Len(a) - 1
    BY <1>3, <2>2, Zenon
  <2>4. CASE j = 1
    <3>1. kept[j] = 1
      BY <1>4, <2>4, Zenon
    <3> QED BY <1>1, <2>2, <2>3, <3>1
  <2>5. CASE j # 1
    <3>1. j - 1 \in 1 .. Len(b) - 1 /\ kept[j] = below[j - 1] + 1
      BY <1>4, <2>5, Zenon
    <3>2. j - 1 < k - 1
      BY <1>2
    <3>3. below[j - 1] < below[k - 1] /\ below[j - 1] \in 1 .. Len(a) - 1
      BY <1>3, <2>2, <3>1, <3>2, Zenon
    <3> QED BY <1>1, <2>2, <2>3, <3>1, <3>3
  <2> QED BY <2>4, <2>5
<1>8. Fits(a, b, s, kept)
  <2> SUFFICES ASSUME NEW k \in 1 .. Len(b) PROVE SameChar(a[kept[k]], b[k], s)
    BY Zenon DEF Fits
  <2>1. CASE k = 1
    <3>1. kept[k] = 1
      BY <1>4, <2>1, Zenon
    <3> QED BY <2>1, <3>1, Zenon
  <2>2. CASE k # 1
    <3>1. k - 1 \in 1 .. Len(b) - 1 /\ (k - 1) + 1 = k /\ kept[k] = below[k - 1] + 1
      BY <1>4, <2>2, Zenon
    <3>2. below[k - 1] \in 1 .. Len(a) - 1 /\ SameChar(Tail(a)[below[k - 1]], Tail(b)[k - 1], s)
      BY <1>3, <3>1, Zenon
    <3>3. Tail(a)[below[k - 1]] = a[kept[k]] /\ Tail(b)[k - 1] = b[k]
      BY <1>1, <1>2, <3>1, <3>2, Zenon
    <3> QED BY <3>2, <3>3, Zenon
  <2> QED BY <2>1, <2>2
<1>9. kept \in Kept(a, b, s)
  BY <1>6, <1>7, <1>8, Zenon DEF Kept
<1>10. 1 \in Places(kept)
  <2>1. 1 \in 1 .. Len(b)
    BY <1>2
  <2>2. kept[1] = 1
    BY <1>4, <2>1, Zenon
  <2> QED BY <1>6, <2>1, <2>2, Zenon DEF Places
<1>11. Follows(a, Places(kept), Places(below))
  <2> SUFFICES ASSUME NEW i \in Nat, i \in 1 .. Len(a) - 1
               PROVE  i + 1 \in Places(kept) <=> i \in Places(below)
    BY Zenon DEF Follows
  <2>1. ASSUME NEW k \in 1 .. Len(b), kept[k] = i + 1 PROVE \E m \in 1 .. Len(b) - 1 : below[m] = i
    <3>1. k # 1
      <4>1. i + 1 # 1
        OBVIOUS
      <4> QED BY <1>4, <2>1, <4>1, Zenon
    <3>2. k - 1 \in 1 .. Len(b) - 1 /\ kept[k] = below[k - 1] + 1
      BY <1>4, <3>1, Zenon
    <3>3. below[k - 1] \in 1 .. Len(a) - 1
      BY <1>3, <3>2, Zenon
    <3>4. below[k - 1] = i
      BY <1>1, <2>1, <3>2, <3>3
    <3> QED BY <3>2, <3>4
  <2>2. ASSUME NEW m \in 1 .. Len(b) - 1, below[m] = i PROVE \E k \in 1 .. Len(b) : kept[k] = i + 1
    <3>1. m + 1 \in 1 .. Len(b) /\ m + 1 # 1 /\ (m + 1) - 1 = m
      BY <1>2
    <3>2. kept[m + 1] = below[(m + 1) - 1] + 1
      BY <1>4, <3>1, Zenon
    <3>3. kept[m + 1] = i + 1
      BY <2>2, <3>1, <3>2, Zenon
    <3> QED BY <3>1, <3>3
  <2> QED BY <1>3, <1>6, <2>1, <2>2, Zenon DEF Places
<1> QED BY <1>9, <1>10, <1>11, Zenon

LEMMA SkipUp ==
    ASSUME NEW a \in Seq(Chars), NEW b \in Seq(Chars), NEW s \in BOOLEAN, a # <<>>,
           NEW below \in Kept(Tail(a), b, s)
    PROVE  \E kept \in Kept(a, b, s) :
               1 \notin Places(kept) /\ Follows(a, Places(kept), Places(below))
<1>1. /\ Tail(a) \in Seq(Chars) /\ Len(Tail(a)) = Len(a) - 1 /\ Len(a) \in Nat /\ Len(a) >= 1
      /\ \A i \in 1 .. Len(a) - 1 : Tail(a)[i] = a[i + 1]
  BY TailParts, Zenon
<1>2. /\ DOMAIN below = 1 .. Len(b) /\ Len(b) \in Nat
      /\ \A k \in 1 .. Len(b) : below[k] \in 1 .. Len(a) - 1 /\ SameChar(Tail(a)[below[k]], b[k], s)
      /\ \A j, k \in 1 .. Len(b) : j < k => below[j] < below[k]
  BY <1>1, KeptParts, Zenon
<1> DEFINE kept == [k \in 1 .. Len(b) |-> below[k] + 1]
<1>3. \A k \in 1 .. Len(b) : kept[k] = below[k] + 1 /\ below[k] + 1 \in 1 .. Len(a) /\ kept[k] # 1
  BY <1>1, <1>2
<1>4. DOMAIN kept = 1 .. Len(b) /\ kept \in [1 .. Len(b) -> 1 .. Len(a)]
  BY <1>3, Zenon
<1> HIDE DEF kept
<1>5. Increasing(kept, Len(b))
  <2> SUFFICES ASSUME NEW j \in 1 .. Len(b), NEW k \in 1 .. Len(b), j < k
               PROVE  kept[j] < kept[k]
    BY Zenon DEF Increasing
  <2>1. below[j] < below[k] /\ below[j] \in 1 .. Len(a) - 1 /\ below[k] \in 1 .. Len(a) - 1
    BY <1>2, Zenon
  <2>2. kept[j] = below[j] + 1 /\ kept[k] = below[k] + 1
    BY <1>3, Zenon
  <2> QED BY <1>1, <2>1, <2>2
<1>6. Fits(a, b, s, kept)
  <2> SUFFICES ASSUME NEW k \in 1 .. Len(b) PROVE SameChar(a[kept[k]], b[k], s)
    BY Zenon DEF Fits
  <2>1. below[k] \in 1 .. Len(a) - 1 /\ SameChar(Tail(a)[below[k]], b[k], s) /\ kept[k] = below[k] + 1
    BY <1>2, <1>3, Zenon
  <2>2. Tail(a)[below[k]] = a[kept[k]]
    BY <1>1, <2>1, Zenon
  <2> QED BY <2>1, <2>2, Zenon
<1>7. kept \in Kept(a, b, s)
  BY <1>4, <1>5, <1>6, Zenon DEF Kept
<1>8. 1 \notin Places(kept)
  BY <1>3, <1>4, Zenon DEF Places
<1>9. Follows(a, Places(kept), Places(below))
  <2> SUFFICES ASSUME NEW i \in Nat, i \in 1 .. Len(a) - 1
               PROVE  i + 1 \in Places(kept) <=> i \in Places(below)
    BY Zenon DEF Follows
  <2>1. \A k \in 1 .. Len(b) : kept[k] = i + 1 <=> below[k] = i
    BY <1>1, <1>2, <1>3
  <2> QED BY <1>2, <1>4, <2>1, Zenon DEF Places
<1> QED BY <1>7, <1>8, <1>9, Zenon

-----------------------------------------------------------------------------
(* What matchFieldName finds.                                              *)

Results == [ok : BOOLEAN, uc : Nat, ch : Nat]

\* A way to keep letters, as a result.
Worth(a, kept) == [ok |-> TRUE, uc |-> CapsCost(a, Places(kept)), ch |-> OutCost(a, Places(kept))]

LEMMA WorthResult ==
    ASSUME NEW a \in Seq(Chars), NEW kept
    PROVE  Worth(a, kept) \in Results /\ Worth(a, kept).ok
BY OutFinite DEF Worth, Results

LEMMA PlusResult ==
    ASSUME NEW m \in Results, NEW c \in Nat
    PROVE  /\ Plus(m, c) = [ok |-> m.ok, uc |-> m.uc + c, ch |-> m.ch + 1]
           /\ Plus(m, c) \in Results /\ Plus(m, c).ok = m.ok
<1>1. PICK o \in BOOLEAN, u \in Nat, h \in Nat : m = [ok |-> o, uc |-> u, ch |-> h]
  BY DEF Results
<1>2. m.ok = o /\ m.uc = u /\ m.ch = h
  BY <1>1
<1>3. [m EXCEPT !.uc = m.uc + c] = [ok |-> o, uc |-> u + c, ch |-> h]
  BY <1>1
<1>4. [[ok |-> o, uc |-> u + c, ch |-> h] EXCEPT !.ch = m.ch + 1] =
        [ok |-> o, uc |-> u + c, ch |-> h + 1]
  BY <1>2
<1>5. Plus(m, c) = [ok |-> o, uc |-> u + c, ch |-> h + 1]
  BY <1>3, <1>4, Zenon DEF Plus
<1>6. u + c \in Nat /\ h + 1 \in Nat
  OBVIOUS
<1> QED BY <1>2, <1>5, <1>6 DEF Results

LEMMA BetterPlus ==
    ASSUME NEW x \in Results, NEW y \in Results, NEW c \in Nat
    PROVE  Better(Plus(x, c), Plus(y, c)) <=> Better(x, y)
<1>1. /\ Plus(x, c).uc = x.uc + c /\ Plus(x, c).ch = x.ch + 1
      /\ Plus(y, c).uc = y.uc + c /\ Plus(y, c).ch = y.ch + 1
  BY PlusResult
<1>2. x.uc \in Nat /\ x.ch \in Nat /\ y.uc \in Nat /\ y.ch \in Nat
  BY DEF Results
<1> QED BY <1>1, <1>2 DEF Better

LEMMA BetterOrder ==
    ASSUME NEW x \in Results, NEW y \in Results, NEW z \in Results, ~Better(z, y)
    PROVE  /\ Better(x, y) => ~Better(z, x)
           /\ ~Better(y, x) => ~Better(z, x)
<1>1. x.uc \in Nat /\ x.ch \in Nat /\ y.uc \in Nat /\ y.ch \in Nat /\ z.uc \in Nat /\ z.ch \in Nat
  BY DEF Results
<1> QED BY <1>1 DEF Better

LEMMA WorthMoved ==
    ASSUME NEW a \in Seq(Chars), a # <<>>, NEW kept, NEW below,
           Follows(a, Places(kept), Places(below))
    PROVE  /\ 1 \in Places(kept) => Worth(a, kept) = Worth(Tail(a), below)
           /\ 1 \notin Places(kept) => Worth(a, kept) = Plus(Worth(Tail(a), below), Capital(a[1]))
<1> DEFINE R == Places(kept)
           Q == Places(below)
<1>1. /\ OutCost(a, R) = OutCost(Tail(a), Q) + (IF 1 \in R THEN 0 ELSE 1)
      /\ CapsCost(a, R) = CapsCost(Tail(a), Q) + (IF 1 \in R THEN 0 ELSE Capital(a[1]))
  BY MovedOut, Zenon
<1>2. Tail(a) \in Seq(Chars)
  BY TailParts
<1>3. OutCost(Tail(a), Q) \in Nat /\ CapsCost(Tail(a), Q) \in Nat
  BY <1>2, OutFinite, Zenon
<1>4. Capital(a[1]) \in Nat
  BY DEF Capital
<1>5. Worth(Tail(a), below) \in Results
  BY <1>2, WorthResult, Zenon
<1> HIDE DEF R, Q
<1>6. 1 \in R => Worth(a, kept) = Worth(Tail(a), below)
  <2>1. 1 \in R => OutCost(a, R) = OutCost(Tail(a), Q) /\ CapsCost(a, R) = CapsCost(Tail(a), Q)
    BY <1>1, <1>3
  <2> QED BY <2>1, Zenon DEF Worth, R, Q
<1>7. 1 \notin R => Worth(a, kept) = Plus(Worth(Tail(a), below), Capital(a[1]))
  <2>1. 1 \notin R => /\ OutCost(a, R) = OutCost(Tail(a), Q) + 1
                      /\ CapsCost(a, R) = CapsCost(Tail(a), Q) + Capital(a[1])
    BY <1>1, <1>3
  <2>2. Plus(Worth(Tail(a), below), Capital(a[1])) =
          [ok |-> TRUE, uc |-> CapsCost(Tail(a), Q) + Capital(a[1]), ch |-> OutCost(Tail(a), Q) + 1]
    <3>1. Plus(Worth(Tail(a), below), Capital(a[1])) =
            [ok |-> Worth(Tail(a), below).ok, uc |-> Worth(Tail(a), below).uc + Capital(a[1]),
             ch |-> Worth(Tail(a), below).ch + 1]
      BY <1>4, <1>5, PlusResult, Zenon
    <3>2. /\ Worth(Tail(a), below).ok = TRUE /\ Worth(Tail(a), below).uc = CapsCost(Tail(a), Q)
          /\ Worth(Tail(a), below).ch = OutCost(Tail(a), Q)
      BY DEF Worth, Q
    <3> QED BY <3>1, <3>2, Zenon
  <2> QED BY <2>1, <2>2, Zenon DEF Worth, R
<1> QED BY <1>6, <1>7, Zenon DEF R

Ways(p) == Kept(p.name, p.in, p.sensitive)

\* A result is that of the way that takes least, if there is a way.
Right(p, m) ==
    /\ m \in Results
    /\ m.ok => \E kept \in Ways(p) : Worth(p.name, kept) = m
    /\ \A kept \in Ways(p) : m.ok /\ ~Better(Worth(p.name, kept), m)

LEMMA RightAtEnd ==
    ASSUME NEW p \in Matching, p.name = <<>>
    PROVE  Right(p, match[p])
<1>1. p.in \in Seq(Chars) /\ p.name \in Seq(Chars) /\ Len(p.name) = 0
  BY DEF Matching
<1>2. match[p] = [NoMatch EXCEPT !.ok = p.in = <<>>]
  BY MatchRecursion, Zenon DEF MatchBy
<1>3. match[p] = [ok |-> p.in = <<>>, uc |-> 0, ch |-> 0]
  BY <1>2 DEF NoMatch
<1>4. match[p] \in Results
  BY <1>3 DEF Results
<1>5. \A kept \in Ways(p) : p.in = <<>>
  <2> TAKE kept \in Ways(p)
  <2>1. kept \in [1 .. Len(p.in) -> 1 .. Len(p.name)]
    BY Zenon DEF Ways, Kept
  <2>2. CASE p.in # <<>>
    <3>1. 1 \in 1 .. Len(p.in)
      BY <1>1, <2>2
    <3>2. kept[1] \in 1 .. Len(p.name)
      BY <2>1, <3>1, Zenon
    <3> QED BY <1>1, <3>2
  <2> QED BY <2>2
<1>6. ASSUME NEW R PROVE CapsCost(p.name, R) = 0 /\ OutCost(p.name, R) = 0
  <2>1. Out(p.name, R) = {}
    BY <1>1 DEF Out
  <2>2. CapsOut(p.name, R) = {}
    BY <2>1, Zenon DEF CapsOut
  <2> QED BY <2>1, <2>2, FS_EmptySet DEF CapsCost, OutCost
<1>7. p.in = <<>> => <<>> \in Ways(p)
  <2> SUFFICES ASSUME p.in = <<>> PROVE <<>> \in Ways(p)
    OBVIOUS
  <2>1. Len(p.in) = 0 /\ 1 .. 0 = {}
    OBVIOUS
  <2>2. <<>> \in [1 .. Len(p.in) -> 1 .. Len(p.name)]
    BY <2>1
  <2>3. \A k \in 1 .. Len(p.in) : FALSE
    BY <2>1
  <2> QED BY <2>2, <2>3, Zenon DEF Ways, Kept, Increasing, Fits
<1>8. \A kept : Worth(p.name, kept) = [ok |-> TRUE, uc |-> 0, ch |-> 0]
  BY <1>6, Zenon DEF Worth
<1>9. ASSUME p.in = <<>> PROVE match[p] = [ok |-> TRUE, uc |-> 0, ch |-> 0]
  BY <1>3, <1>9
<1>10. ASSUME NEW kept \in Ways(p) PROVE match[p].ok /\ ~Better(Worth(p.name, kept), match[p])
  <2>1. match[p] = [ok |-> TRUE, uc |-> 0, ch |-> 0] /\ Worth(p.name, kept) = [ok |-> TRUE, uc |-> 0, ch |-> 0]
    BY <1>5, <1>8, <1>9, Zenon
  <2> QED BY <2>1 DEF Better
<1>11. ASSUME match[p].ok PROVE \E kept \in Ways(p) : Worth(p.name, kept) = match[p]
  <2>1. ASSUME p.in # <<>> PROVE FALSE
    <3>1. match[p] = [ok |-> FALSE, uc |-> 0, ch |-> 0]
      BY <1>3, <2>1
    <3> QED BY <1>11, <3>1
  <2>2. p.in = <<>>
    BY <2>1
  <2> QED BY <1>7, <1>8, <1>9, <2>2, Zenon
<1> QED BY <1>4, <1>10, <1>11, Zenon DEF Right

LEMMA RightHere ==
    ASSUME NEW p \in Matching, p.name # <<>>,
           \A q \in Matching : Len(q.name) < Len(p.name) => Right(q, match[q])
    PROVE  Right(p, match[p])
<1> DEFINE a == p.name
           b == p.in
           s == p.sensitive
           skip == Try(Tail(a), b, s)
           take == Try(Tail(a), Tail(b), s)
           m  == match[skip]
           m1 == Took(match, p)
           c  == Capital(a[1])
           m2 == Plus(m, c)
<1>1. /\ a \in Seq(Chars) /\ b \in Seq(Chars) /\ s \in BOOLEAN /\ a # <<>>
      /\ Len(Tail(a)) < Len(a)
      /\ skip \in Matching /\ skip.name = Tail(a)
      /\ b # <<>> => take \in Matching /\ take.name = Tail(a)
  BY MatchingParts, Zenon
<1>2. Tail(a) \in Seq(Chars)
  BY <1>1, TailParts
<1>3. /\ Right(skip, m)
      /\ b # <<>> => Right(take, match[take])
  BY <1>1, Zenon
<1>4. Ways(skip) = Kept(Tail(a), b, s) /\ Ways(take) = Kept(Tail(a), Tail(b), s)
      /\ Ways(p) = Kept(a, b, s)
  BY DEF Ways, Try
<1>5. c \in Nat
  BY DEF Capital
<1>6. Skipped(match, p) = m
  BY Zenon DEF Skipped
<1>7. match[p] = IF m1.ok /\ (~m.ok \/ Better(m1, m2)) THEN m1 ELSE IF m.ok THEN m2 ELSE NoMatch
  BY <1>6, MatchRecursion, Zenon DEF MatchBy
<1>8. Same(p) <=> b # <<>> /\ SameChar(a[1], b[1], s)
  BY Zenon DEF Same
<1>9. m1 = IF Same(p) THEN match[take] ELSE NoMatch
  BY Zenon DEF Took
<1>10. NoMatch \in Results /\ ~NoMatch.ok
  BY DEF NoMatch, Results
<1> HIDE DEF a, b, s, skip, take, m, m1, c, m2
<1>11. m \in Results /\ m1 \in Results /\ m2 \in Results /\ m2.ok = m.ok
  <2>1. m \in Results
    BY <1>3, Zenon DEF Right
  <2>2. m1 \in Results
    BY <1>3, <1>8, <1>9, <1>10, Zenon DEF Right
  <2> QED BY <1>5, <2>1, <2>2, PlusResult, Zenon DEF m2
<1>12. ASSUME m.ok PROVE \E kept \in Ways(p) : Worth(a, kept) = m2
  <2>1. PICK below \in Ways(skip) : Worth(Tail(a), below) = m
    BY <1>1, <1>3, <1>12, Zenon DEF Right
  <2>2. below \in Kept(Tail(a), b, s)
    BY <1>4, <2>1, Zenon
  <2>3. PICK kept \in Kept(a, b, s) : 1 \notin Places(kept) /\ Follows(a, Places(kept), Places(below))
    BY <1>1, <2>2, SkipUp, Zenon
  <2>4. Worth(a, kept) = Plus(Worth(Tail(a), below), Capital(a[1]))
    BY <1>1, <2>3, WorthMoved, Zenon
  <2> QED BY <1>4, <2>1, <2>3, <2>4, Zenon DEF m2, c
<1>13. ASSUME m1.ok PROVE \E kept \in Ways(p) : Worth(a, kept) = m1
  <2>1. Same(p) /\ m1 = match[take]
    BY <1>9, <1>10, <1>13, Zenon
  <2>2. b # <<>> /\ SameChar(a[1], b[1], s) /\ Right(take, match[take]) /\ take.name = Tail(a)
    BY <1>1, <1>3, <1>8, <2>1, Zenon
  <2>3. PICK below \in Ways(take) : Worth(Tail(a), below) = m1
    BY <1>13, <2>1, <2>2, Zenon DEF Right
  <2>4. below \in Kept(Tail(a), Tail(b), s)
    BY <1>4, <2>3, Zenon
  <2>5. PICK kept \in Kept(a, b, s) : 1 \in Places(kept) /\ Follows(a, Places(kept), Places(below))
    BY <1>1, <2>2, <2>4, TakeUp, Zenon
  <2>6. Worth(a, kept) = Worth(Tail(a), below)
    BY <1>1, <2>5, WorthMoved, Zenon
  <2> QED BY <1>4, <2>3, <2>5, <2>6, Zenon
<1>14. ASSUME NEW kept \in Ways(p)
       PROVE  \/ m1.ok /\ ~Better(Worth(a, kept), m1)
              \/ m.ok /\ ~Better(Worth(a, kept), m2)
  <2>1. kept \in Kept(a, b, s)
    BY <1>4, Zenon
  <2>2. CASE 1 \in Places(kept)
    <3>1. /\ b # <<>> /\ SameChar(a[1], b[1], s)
          /\ \E below \in Kept(Tail(a), Tail(b), s) : Follows(a, Places(kept), Places(below))
      BY <1>1, <2>1, <2>2, TakeDown, Zenon
    <3>2. PICK below \in Kept(Tail(a), Tail(b), s) : Follows(a, Places(kept), Places(below))
      BY <3>1, Zenon
    <3>3. Worth(a, kept) = Worth(Tail(a), below)
      BY <1>1, <2>2, <3>2, WorthMoved, Zenon
    <3>4. m1 = match[take] /\ Right(take, match[take]) /\ take.name = Tail(a)
      BY <1>1, <1>3, <1>8, <1>9, <3>1, Zenon
    <3>5. below \in Ways(take)
      BY <1>4, <3>2, Zenon
    <3> QED BY <3>3, <3>4, <3>5, Zenon DEF Right
  <2>3. CASE 1 \notin Places(kept)
    <3>1. PICK below \in Kept(Tail(a), b, s) : Follows(a, Places(kept), Places(below))
      BY <1>1, <2>1, <2>3, SkipDown, Zenon
    <3>2. Worth(a, kept) = Plus(Worth(Tail(a), below), c)
      BY <1>1, <2>3, <3>1, WorthMoved, Zenon DEF c
    <3>3. below \in Ways(skip)
      BY <1>4, <3>1, Zenon
    <3>4. m.ok /\ ~Better(Worth(Tail(a), below), m)
      BY <1>1, <1>3, <3>3, Zenon DEF Right
    <3>5. Worth(Tail(a), below) \in Results
      BY <1>2, WorthResult, Zenon
    <3>6. ~Better(Plus(Worth(Tail(a), below), c), Plus(m, c))
      BY <1>5, <1>11, <3>4, <3>5, BetterPlus, Zenon
    <3> QED BY <3>2, <3>4, <3>6, Zenon DEF m2
  <2> QED BY <2>2, <2>3, Zenon
<1>15. \A kept : Worth(a, kept) \in Results
  BY <1>1, WorthResult, Zenon
<1>16. CASE m1.ok /\ (~m.ok \/ Better(m1, m2))
  <2>1. match[p] = m1
    BY <1>7, <1>16, Zenon
  <2>2. ASSUME NEW kept \in Ways(p) PROVE ~Better(Worth(a, kept), m1)
    <3>1. CASE ~Better(Worth(a, kept), m1)
      BY <3>1
    <3>2. CASE m.ok /\ ~Better(Worth(a, kept), m2)
      <4>1. Better(m1, m2)
        BY <1>16, <3>2, Zenon
      <4> QED BY <1>11, <1>15, <3>2, <4>1, BetterOrder, Zenon
    <3> QED BY <1>14, <3>1, <3>2, Zenon
  <2> QED BY <1>11, <1>13, <1>16, <2>1, <2>2, Zenon DEF Right, a
<1>17. CASE ~(m1.ok /\ (~m.ok \/ Better(m1, m2))) /\ m.ok
  <2>1. match[p] = m2
    BY <1>7, <1>17, Zenon
  <2>2. ASSUME NEW kept \in Ways(p) PROVE ~Better(Worth(a, kept), m2)
    <3>1. CASE ~Better(Worth(a, kept), m2)
      BY <3>1
    <3>2. CASE m1.ok /\ ~Better(Worth(a, kept), m1)
      <4>1. ~Better(m1, m2)
        BY <1>17, <3>2, Zenon
      <4> QED BY <1>11, <1>15, <3>2, <4>1, BetterOrder, Zenon
    <3> QED BY <1>14, <3>1, <3>2, Zenon
  <2>3. m2.ok
    BY <1>11, <1>17, Zenon
  <2>4. \E kept \in Ways(p) : Worth(a, kept) = m2
    BY <1>12, <1>17, Zenon
  <2> QED BY <1>11, <2>1, <2>2, <2>3, <2>4, Zenon DEF Right, a
<1>18. CASE ~m1.ok /\ ~m.ok
  <2>1. match[p] = NoMatch
    BY <1>7, <1>18, Zenon
  <2>2. \A kept \in Ways(p) : FALSE
    BY <1>14, <1>18, Zenon
  <2> QED BY <1>10, <2>1, <2>2, Zenon DEF Right
<1> QED BY <1>16, <1>17, <1>18, Zenon

LEMMA MatchRight ==
    ASSUME NEW p \in Matching
    PROVE  Right(p, match[p])
<1> DEFINE Bad == {n \in Nat : \E q \in Matching : Len(q.name) = n /\ ~Right(q, match[q])}
<1>1. \A q \in Matching : Len(q.name) \in Nat
  BY MatchingParts
<1>2. SUFFICES ASSUME Bad # {} PROVE FALSE
  BY <1>1
<1>3. PICK n \in Bad : \A k \in Bad : n <= k
  BY <1>2, Least
<1>4. PICK q \in Matching : Len(q.name) = n /\ ~Right(q, match[q])
  BY <1>3
<1>5. ASSUME NEW r \in Matching, Len(r.name) < Len(q.name) PROVE Right(r, match[r])
  <2>1. Len(r.name) \in Nat /\ ~(n <= Len(r.name))
    BY <1>1, <1>3, <1>4, <1>5
  <2>2. Len(r.name) \notin Bad
    BY <1>3, <2>1
  <2> QED BY <2>1, <2>2
<1> HIDE DEF Bad
<1>6. CASE q.name = <<>>
  BY <1>4, <1>6, RightAtEnd, Zenon
<1>7. CASE q.name # <<>>
  BY <1>4, <1>5, <1>7, RightHere, Zenon
<1> QED BY <1>6, <1>7

-----------------------------------------------------------------------------
(* The field that a name stands for.                                       *)

LEMMA LowerSmall ==
    ASSUME NEW c, c \notin Capitals
    PROVE  Lower(c) = c
BY DEF Lower, Capitals

LEMMA SensitiveBoolean ==
    ASSUME NEW in \in Seq(Chars)
    PROVE  /\ Sensitive(in) \in BOOLEAN
           /\ ~Sensitive(in) => \A k \in 1 .. Len(in) : in[k] \notin Capitals
BY IndexAnyFirst, Zenon DEF Sensitive

LEMMA SmallAlike ==
    ASSUME NEW c, NEW d, NEW s, ~s => d \notin Capitals
    PROVE  SameChar(c, d, s) <=> (c = d \/ (~s /\ Lower(c) = d))
<1>1. CASE s
  BY <1>1, Zenon DEF SameChar
<1>2. CASE ~s
  <2>1. Lower(d) = d
    BY <1>2, LowerSmall, Zenon
  <2> QED BY <1>2, <2>1, Zenon DEF SameChar
<1> QED BY <1>1, <1>2, Zenon

LEMMA ShorteningsKept ==
    ASSUME NEW a, NEW in \in Seq(Chars), NEW kept
    PROVE  kept \in Shortenings(a, in) <=> kept \in Kept(a, in, Sensitive(in))
<1>1. \A k \in 1 .. Len(in) :
        SameChar(a[kept[k]], in[k], Sensitive(in)) <=>
          (a[kept[k]] = in[k] \/ (~Sensitive(in) /\ Lower(a[kept[k]]) = in[k]))
  BY SensitiveBoolean, SmallAlike, Zenon
<1> QED BY <1>1, Zenon DEF Shortenings, Kept, Increasing, Fits

LEMMA LessIsBetter ==
    ASSUME NEW a, NEW b, NEW kept, NEW other
    PROVE  Less(Cost(a, kept), Cost(b, other)) <=> Better(Worth(a, kept), Worth(b, other))
<1>1. /\ Worth(a, kept).uc = CapsCost(a, Places(kept)) /\ Worth(a, kept).ch = OutCost(a, Places(kept))
      /\ Worth(b, other).uc = CapsCost(b, Places(other)) /\ Worth(b, other).ch = OutCost(b, Places(other))
  BY DEF Worth
<1> QED BY <1>1, CostIs, Zenon DEF Less, Better

LEMMA FirstIsLeast ==
    ASSUME NEW S \in SUBSET Nat, S # {}
    PROVE  First(S) \in S /\ \A i \in S : First(S) <= i
BY Least DEF First

LEMMA BetterChain ==
    ASSUME NEW x \in Results, NEW y \in Results, NEW z \in Results, ~Better(y, z)
    PROVE  /\ Better(y, x) => Better(z, x)
           /\ ~Better(x, y) => ~Better(x, z)
<1>1. x.uc \in Nat /\ x.ch \in Nat /\ y.uc \in Nat /\ y.ch \in Nat /\ z.uc \in Nat /\ z.ch \in Nat
  BY DEF Results
<1> QED BY <1>1 DEF Better

Leading(m, S) == {i \in S : \A j \in S : ~Better(m[j], m[i])}

LEMMA SomeLead ==
    ASSUME NEW S \in SUBSET Nat, S # {}, NEW m, \A i \in S : m[i] \in Results
    PROVE  Leading(m, S) # {}
<1>1. \A i \in S : m[i].uc \in Nat /\ m[i].ch \in Nat
  BY DEF Results
<1> DEFINE U == {m[i].uc : i \in S}
<1>2. U \in SUBSET Nat /\ U # {}
  BY <1>1
<1>3. PICK u \in U : \A v \in U : u <= v
  BY <1>2, Least, Zenon
<1> DEFINE T == {i \in S : m[i].uc = u}
           H == {m[i].ch : i \in T}
<1>4. H \in SUBSET Nat /\ H # {}
  BY <1>1, <1>3
<1>5. PICK h \in H : \A v \in H : h <= v
  <2> HIDE DEF H
  <2> QED BY <1>4, Least, Zenon
<1>6. PICK i \in S : m[i].uc = u /\ m[i].ch = h
  BY <1>5
<1>7. ASSUME NEW j \in S PROVE ~Better(m[j], m[i])
  <2>1. u <= m[j].uc
    BY <1>3
  <2>2. m[j].uc = u => h <= m[j].ch
    BY <1>5
  <2>3. m[j].uc \in Nat /\ m[j].ch \in Nat /\ m[i].uc \in Nat /\ m[i].ch \in Nat
    BY <1>1
  <2> QED BY <1>6, <2>1, <2>2, <2>3 DEF Better
<1> QED BY <1>6, <1>7, Zenon DEF Leading

LEMMA FirstLeads ==
    ASSUME NEW S \in SUBSET Nat, S # {}, NEW m, \A i \in S : m[i] \in Results
    PROVE  /\ First(Leading(m, S)) \in S
           /\ \A i \in S : /\ ~Better(m[i], m[First(Leading(m, S))])
                           /\ i < First(Leading(m, S)) => Better(m[First(Leading(m, S))], m[i])
<1> DEFINE L == Leading(m, S)
           f == First(L)
<1>1. L # {}
  BY SomeLead, Zenon
<1>2. L \in SUBSET Nat /\ L \subseteq S
  BY Zenon DEF Leading
<1>3. f \in L /\ \A i \in L : f <= i
  <2> HIDE DEF L
  <2> QED BY <1>1, <1>2, FirstIsLeast, Zenon
<1>4. f \in S /\ \A i \in S : ~Better(m[i], m[f])
  BY <1>3, Zenon DEF Leading
<1>5. ASSUME NEW i \in S, i < f PROVE Better(m[f], m[i])
  <2>1. i \notin L
    <3> HIDE DEF L, f
    <3>1. f \in Nat /\ i \in Nat /\ ~(f <= i)
      BY <1>4, <1>5
    <3> QED BY <1>3, <3>1, Zenon
  <2>2. PICK j \in S : Better(m[j], m[i])
    BY <2>1, Zenon DEF Leading
  <2>3. ~Better(m[j], m[f])
    BY <1>4, Zenon
  <2>4. m[i] \in Results /\ m[j] \in Results /\ m[f] \in Results
    BY <1>4, Zenon
  <2> HIDE DEF f
  <2> QED BY <2>2, <2>3, <2>4, BetterChain, Zenon
<1> QED BY <1>4, <1>5, Zenon

Labelled == [tag : Seq(Chars), label : Seq(Chars)]

LEMMA LabelTyped ==
    ASSUME NEW fields \in Seq(Labelled), NEW i \in DOMAIN fields
    PROVE  fields[i].label \in Seq(Chars)
<1>1. fields[i] \in Labelled
  OBVIOUS
<1> DEFINE field == fields[i]
<1> HIDE DEF field
<1>2. field \in Labelled => field.label \in Seq(Chars)
  BY DEF Labelled
<1> QED BY <1>1, <1>2, Zenon DEF field

\* What matchFieldName gives for each field.
Found(fields, in) ==
    [i \in DOMAIN fields |-> matchFieldName(fields[i].label, in, Sensitive(in))]

Shortened(fields, in) == {i \in DOMAIN fields : Found(fields, in)[i].ok}

LEMMA FoundRight ==
    ASSUME NEW fields \in Seq(Labelled), NEW in \in Seq(Chars), NEW i \in DOMAIN fields
    PROVE  /\ Found(fields, in)[i] \in Results
           /\ Found(fields, in)[i].ok =>
                \E kept \in Shortenings(fields[i].label, in) :
                    Worth(fields[i].label, kept) = Found(fields, in)[i]
           /\ \A kept \in Shortenings(fields[i].label, in) :
                /\ Found(fields, in)[i].ok
                /\ ~Better(Worth(fields[i].label, kept), Found(fields, in)[i])
<1> DEFINE a == fields[i].label
           p == Try(a, in, Sensitive(in))
<1>1. a \in Seq(Chars)
  BY LabelTyped, Zenon
<1> HIDE DEF a
<1>2. p \in Matching /\ p.name = a /\ p.in = in /\ p.sensitive = Sensitive(in)
  <2>1. Sensitive(in) \in BOOLEAN
    BY SensitiveBoolean, Zenon
  <2> QED BY <1>1, <2>1, TryMatching, Zenon
<1>3. Right(p, match[p])
  BY <1>2, MatchRight, Zenon
<1>4. Found(fields, in)[i] = match[p]
  BY Zenon DEF Found, matchFieldName, Try, a
<1>5. Ways(p) = Kept(a, in, Sensitive(in))
  BY <1>2, Zenon DEF Ways
<1>6. \A kept : kept \in Shortenings(a, in) <=> kept \in Ways(p)
  BY <1>5, ShorteningsKept, Zenon
<1> HIDE DEF p
<1> QED BY <1>2, <1>3, <1>4, <1>6, Zenon DEF Right, a

LEMMA ExpandIs ==
    ASSUME NEW fields, NEW in,
           \A f \in DOMAIN fields :
               /\ in # fields[f].tag
               /\ ~Alike(fields[f].label, in, in) /\ ~Alike(Unspaced(fields[f].label), in, in)
    PROVE  expandFieldName(fields, in, TRUE) =
             First(Leading(Found(fields, in), Shortened(fields, in)))
<1> DEFINE Matches(i) == matchFieldName(fields[i].label, in, Sensitive(in))
           sh == {i \in DOMAIN fields : TRUE /\ Matches(i).ok}
           best == {i \in sh : \A j \in sh : ~Better(Matches(j), Matches(i))}
<1>1. expandFieldName(fields, in, TRUE) = First(best)
  <2> DEFINE byTag      == {i \in DOMAIN fields : fields[i].tag = in}
             byLabel    == {i \in DOMAIN fields : Alike(fields[i].label, in, in)}
             byUnspaced == {i \in DOMAIN fields :
                              IndexAny(in, {Blank}) = 0 /\ Alike(Unspaced(fields[i].label), in, in)}
  <2>1. byTag = {} /\ byLabel = {} /\ byUnspaced = {}
    BY Zenon
  <2>2. expandFieldName(fields, in, TRUE) =
          IF byTag # {} THEN First(byTag)
          ELSE IF byLabel # {} THEN First(byLabel)
          ELSE IF byUnspaced # {} THEN First(byUnspaced)
          ELSE First(best)
    BY Zenon DEF expandFieldName, Blank
  <2> HIDE DEF byTag, byLabel, byUnspaced, best
  <2> QED BY <2>1, <2>2, Zenon
<1>2. \A i \in DOMAIN fields : Found(fields, in)[i] = Matches(i)
  BY Zenon DEF Found
<1>3. sh = Shortened(fields, in)
  BY <1>2, Zenon DEF Shortened
<1>4. \A i \in Shortened(fields, in) : Found(fields, in)[i] = Matches(i)
  BY <1>2, Zenon DEF Shortened
<1> HIDE DEF sh, Matches
<1>5. best = Leading(Found(fields, in), Shortened(fields, in))
  BY <1>3, <1>4, Zenon DEF Leading
<1> HIDE DEF best
<1> QED BY <1>1, <1>5, Zenon

\* A name that is no tag or label stands for the first of the fields whose labels
\* take least to be shortened to it, if any label can be (cmd.go:212-317).
THEOREM LeastCostField ==
    ASSUME NEW fields \in Seq(Labelled), NEW in \in Seq(Chars),
           \A f \in DOMAIN fields :
               /\ in # fields[f].tag
               /\ ~Alike(fields[f].label, in, in) /\ ~Alike(Unspaced(fields[f].label), in, in)
    PROVE  \/ IsLeast(fields, in, expandFieldName(fields, in, TRUE))
           \/ /\ expandFieldName(fields, in, TRUE) = 0
              /\ \A f \in DOMAIN fields : Shortenings(fields[f].label, in) = {}
<1> DEFINE M == Found(fields, in)
           S == Shortened(fields, in)
           f == First(Leading(M, S))
<1>1. expandFieldName(fields, in, TRUE) = f
  BY ExpandIs, Zenon
<1>2. \A i \in DOMAIN fields :
        /\ M[i] \in Results
        /\ M[i].ok => \E kept \in Shortenings(fields[i].label, in) : Worth(fields[i].label, kept) = M[i]
        /\ \A kept \in Shortenings(fields[i].label, in) :
              M[i].ok /\ ~Better(Worth(fields[i].label, kept), M[i])
  BY FoundRight, Zenon
<1>3. \A i : i \in S <=> i \in DOMAIN fields /\ M[i].ok
  BY Zenon DEF Shortened
<1>4. DOMAIN fields \subseteq Nat /\ S \in SUBSET Nat
  <2>1. DOMAIN fields \subseteq Nat
    OBVIOUS
  <2> QED BY <1>3, <2>1, Zenon
<1> HIDE DEF M, S
<1>5. CASE S = {}
  <2>1. Leading(M, S) = {}
    BY <1>5, Zenon DEF Leading
  <2>2. f = 0
    BY <2>1, Zenon DEF First
  <2>3. \A i \in DOMAIN fields : Shortenings(fields[i].label, in) = {}
    BY <1>2, <1>3, <1>5, Zenon
  <2> HIDE DEF f
  <2> QED BY <1>1, <2>2, <2>3, Zenon
<1>6. CASE S # {}
  <2>1. /\ f \in S
        /\ \A i \in S : ~Better(M[i], M[f]) /\ (i < f => Better(M[f], M[i]))
    <3>1. \A i \in S : M[i] \in Results
      BY <1>2, <1>3, Zenon
    <3> QED BY <1>4, <1>6, <3>1, FirstLeads, Zenon
  <2> HIDE DEF f
  <2>2. f \in DOMAIN fields /\ M[f] \in Results
    BY <1>2, <1>3, <2>1, Zenon
  <2>3. PICK kept \in Shortenings(fields[f].label, in) : Worth(fields[f].label, kept) = M[f]
    BY <1>2, <1>3, <2>1, Zenon
  <2>4. ASSUME NEW i \in DOMAIN fields, NEW other \in Shortenings(fields[i].label, in)
        PROVE  /\ ~Less(Cost(fields[i].label, other), Cost(fields[f].label, kept))
               /\ i < f => Less(Cost(fields[f].label, kept), Cost(fields[i].label, other))
    <3> DEFINE w == Worth(fields[i].label, other)
    <3>1. i \in S /\ ~Better(w, M[i]) /\ M[i] \in Results
      BY <1>2, <1>3, Zenon
    <3>2. w \in Results
      BY LabelTyped, WorthResult, Zenon
    <3>3. ~Better(M[i], M[f]) /\ (i < f => Better(M[f], M[i]))
      BY <2>1, <3>1, Zenon
    <3>4. /\ Less(Cost(fields[i].label, other), Cost(fields[f].label, kept)) <=> Better(w, M[f])
          /\ Less(Cost(fields[f].label, kept), Cost(fields[i].label, other)) <=> Better(M[f], w)
      BY <2>3, LessIsBetter, Zenon
    <3> HIDE DEF w
    <3>5. ~Better(w, M[f])
      BY <2>2, <3>1, <3>2, <3>3, BetterChain, Zenon
    <3>6. i < f => Better(M[f], w)
      BY <2>2, <3>1, <3>2, <3>3, BetterChain, Zenon
    <3> QED BY <3>4, <3>5, <3>6, Zenon
  <2>5. IsLeast(fields, in, f)
    BY <2>2, <2>3, <2>4, Zenon DEF IsLeast
  <2> QED BY <1>1, <2>5, Zenon
<1> QED BY <1>5, <1>6

USE DEF vars, here, alone, history

-----------------------------------------------------------------------------
(* Types.                                                                  *)

Typed(cw, seen, status, out) ==
    IsWriter(cw) /\ seen \in BOOLEAN /\ status \in BOOLEAN /\ out \in Seq(Output)

HereTyped == Typed(listCW, listItemSeen, haveStatus, output)
AloneTyped == Typed(listCW0, listItemSeen0, haveStatus0, output0)

ShellTyped ==
    /\ pc \in Commands \cup {"prompt", "read", "close", "closed"}
    /\ line \in Lines \cup {<<>>}
    /\ rows \in 0 .. MaxRows
    /\ OutputIsTerm \in BOOLEAN
    /\ pc \in {"prompt", "read"} => OutputIsTerm
    /\ commands \in Nat /\ unended \in Nat /\ spoiled \in Nat
    /\ ended \in BOOLEAN

LEMMA TypeParts == TypeOK <=> ShellTyped /\ HereTyped /\ AloneTyped
BY DEF TypeOK, ShellTyped, HereTyped, AloneTyped, Typed

LEMMA NoWriterTyped == IsWriter([to |-> "none", held |-> <<>>])
BY DEF IsWriter

LEMMA PrintedTyped ==
    /\ \A i \in 1 .. MaxRows : <<"row", i>> \in Output
    /\ << <<"header">> >> \in Seq(Output)
    /\ << <<"no messages">> >> \in Seq(Output)
    /\ <<>> \in Seq(Output)
BY DEF Output

LEMMA WriterTyped ==
    ASSUME NEW to \in {"own", "closed"}, NEW held \in Seq(Output), held # <<>>
    PROVE  IsWriter([to |-> to, held |-> held])
<1> DEFINE w == [to |-> to, held |-> held]
<1>1. w \in [to : {"none", "own", "closed"}, held : Seq(Output)]
  OBVIOUS
<1>2. w.to # "none" /\ w.held # <<>>
  OBVIOUS
<1> QED BY <1>1, <1>2 DEF IsWriter

LEMMA HeaderTyped ==
    ASSUME NEW p \in BOOLEAN
    PROVE  Here!HeaderIf(p) \in Seq(Output) /\ Alone!HeaderIf(p) \in Seq(Output)
BY PrintedTyped DEF Here!HeaderIf, Alone!HeaderIf

LEMMA ConcatTyped == \A s, t \in Seq(Output) : s \o t \in Seq(Output)
OBVIOUS

LEMMA ConcatGrouped ==
    \A s, t, u \in Seq(Output) : s \o (t \o u) = (s \o t) \o u
OBVIOUS

LEMMA AddedTyped ==
    ASSUME NEW s \in Seq(Output), NEW h \in Seq(Output), NEW r \in Output
    PROVE  /\ s \o (h \o <<r>>) \in Seq(Output) /\ h \o <<r>> \in Seq(Output)
           /\ h \o <<r>> # <<>> /\ s \o (h \o <<r>>) # <<>>
<1>1. h \o <<r>> \in Seq(Output) /\ Len(h \o <<r>>) = Len(h) + 1
  OBVIOUS
<1>2. s \o (h \o <<r>>) \in Seq(Output) /\ Len(s \o (h \o <<r>>)) = Len(s) + Len(h) + 1
  BY <1>1
<1> QED BY <1>1, <1>2

LEMMA HereRow ==
    ASSUME HereTyped, NEW r \in Output, NEW h \in BOOLEAN, Here!ListMessage(r, h),
           OutputIsTerm \in BOOLEAN
    PROVE  HereTyped'
<1> USE DEF HereTyped, Typed
<1>1. CASE OutputIsTerm
  <2>1. Here!HeaderIf(~listItemSeen /\ h) \in Seq(Output)
    BY HeaderTyped
  <2>2. /\ output' = output \o (Here!HeaderIf(~listItemSeen /\ h) \o <<r>>)
        /\ listItemSeen' = TRUE /\ haveStatus' = FALSE /\ listCW' = listCW
    BY <1>1 DEF Here!ListMessage, Here!listMessageTable, Here!Put
  <2> QED BY <2>1, <2>2, AddedTyped
<1>2. CASE ~OutputIsTerm
  <2> DEFINE new == Here!HeaderIf(listCW = Here!NoWriter /\ h) \o <<r>>
             to  == IF listCW = Here!NoWriter THEN "own" ELSE listCW.to
  <2>1. Here!HeaderIf(listCW = Here!NoWriter /\ h) \in Seq(Output)
    BY HeaderTyped
  <2>2. listCW.held \in Seq(Output) /\ to \in {"own", "closed"}
    BY DEF IsWriter, Here!NoWriter
  <2>3. /\ new \in Seq(Output) /\ new # <<>>
        /\ listCW.held \o new \in Seq(Output) /\ listCW.held \o new # <<>>
    BY <2>1, <2>2, AddedTyped
  <2>4. /\ \/ listCW' = [to |-> to, held |-> new]
           \/ listCW' = [to |-> to, held |-> listCW.held \o new]
        /\ output' = output \o Here!Arriving(listCW.held) \/ output' = output
        /\ UNCHANGED <<listItemSeen, haveStatus>>
    BY <1>2 DEF Here!ListMessage, Here!listMessageCSV, Here!Put
  <2>5. Here!Arriving(listCW.held) \in Seq(Output)
    BY <2>2, PrintedTyped DEF Here!Arriving
  <2> HIDE DEF new, to
  <2>6. IsWriter(listCW')
    BY <2>2, <2>3, <2>4, WriterTyped
  <2>7. output' \in Seq(Output)
    BY <2>4, <2>5, ConcatTyped
  <2> QED BY <2>4, <2>6, <2>7
<1> QED BY <1>1, <1>2

LEMMA HereEnd ==
    ASSUME HereTyped, Here!EndMessageList
    PROVE  HereTyped'
<1> USE DEF HereTyped, Typed
<1>1. CASE Here!EndCSV
  <2>1. listCW.held \in Seq(Output)
    BY DEF IsWriter
  <2>2. Here!Arriving(listCW.held) \in Seq(Output)
    BY <2>1, PrintedTyped DEF Here!Arriving
  <2> QED BY <1>1, <2>2, NoWriterTyped DEF Here!EndCSV, Here!Put, Here!NoWriter
<1>2. CASE Here!EndTable
  <2> DEFINE said == IF listItemSeen THEN <<>> ELSE << <<"no messages">> >>
  <2>1. said \in Seq(Output)
    BY PrintedTyped
  <2>2. /\ output' = output \o said /\ listItemSeen' = FALSE
        /\ haveStatus' = FALSE /\ listCW' = listCW
    BY <1>2 DEF Here!EndTable, Here!Put
  <2> HIDE DEF said
  <2> QED BY <2>1, <2>2, ConcatTyped
<1> QED BY <1>1, <1>2 DEF Here!EndMessageList

LEMMA HereOther ==
    ASSUME HereTyped, OutputIsTerm \in BOOLEAN
    PROVE  /\ \A shown \in BOOLEAN : Here!Status(shown) => HereTyped'
           /\ Here!CloseOutput => HereTyped'
           /\ Here!Restart => HereTyped'
<1> USE DEF HereTyped, Typed
<1>1. ASSUME NEW shown \in BOOLEAN, Here!Status(shown) PROVE HereTyped'
  BY <1>1 DEF Here!Status
<1>2. ASSUME Here!CloseOutput PROVE HereTyped'
  BY <1>2 DEF Here!CloseOutput, IsWriter
<1>3. ASSUME Here!Restart PROVE HereTyped'
  BY <1>3, NoWriterTyped, PrintedTyped DEF Here!Restart, Here!NoWriter
<1> QED BY <1>1, <1>2, <1>3

LEMMA AloneRow ==
    ASSUME AloneTyped, NEW r \in Output, NEW h \in BOOLEAN, Alone!ListMessage(r, h),
           OutputIsTerm \in BOOLEAN
    PROVE  AloneTyped'
<1> USE DEF AloneTyped, Typed
<1>1. CASE OutputIsTerm
  <2>1. Alone!HeaderIf(~listItemSeen0 /\ h) \in Seq(Output)
    BY HeaderTyped
  <2>2. /\ output0' = output0 \o (Alone!HeaderIf(~listItemSeen0 /\ h) \o <<r>>)
        /\ listItemSeen0' = TRUE /\ haveStatus0' = FALSE /\ listCW0' = listCW0
    BY <1>1 DEF Alone!ListMessage, Alone!listMessageTable, Alone!Put
  <2> QED BY <2>1, <2>2, AddedTyped
<1>2. CASE ~OutputIsTerm
  <2> DEFINE new == Alone!HeaderIf(listCW0 = Alone!NoWriter /\ h) \o <<r>>
             to  == IF listCW0 = Alone!NoWriter THEN "own" ELSE listCW0.to
  <2>1. Alone!HeaderIf(listCW0 = Alone!NoWriter /\ h) \in Seq(Output)
    BY HeaderTyped
  <2>2. listCW0.held \in Seq(Output) /\ to \in {"own", "closed"}
    BY DEF IsWriter, Alone!NoWriter
  <2>3. /\ new \in Seq(Output) /\ new # <<>>
        /\ listCW0.held \o new \in Seq(Output) /\ listCW0.held \o new # <<>>
    BY <2>1, <2>2, AddedTyped
  <2>4. /\ \/ listCW0' = [to |-> to, held |-> new]
           \/ listCW0' = [to |-> to, held |-> listCW0.held \o new]
        /\ output0' = output0 \o Alone!Arriving(listCW0.held) \/ output0' = output0
        /\ UNCHANGED <<listItemSeen0, haveStatus0>>
    BY <1>2 DEF Alone!ListMessage, Alone!listMessageCSV, Alone!Put
  <2>5. Alone!Arriving(listCW0.held) \in Seq(Output)
    BY <2>2, PrintedTyped DEF Alone!Arriving
  <2> HIDE DEF new, to
  <2>6. IsWriter(listCW0')
    BY <2>2, <2>3, <2>4, WriterTyped
  <2>7. output0' \in Seq(Output)
    BY <2>4, <2>5, ConcatTyped
  <2> QED BY <2>4, <2>6, <2>7
<1> QED BY <1>1, <1>2

LEMMA AloneEnd ==
    ASSUME AloneTyped, Alone!EndMessageList
    PROVE  AloneTyped'
<1> USE DEF AloneTyped, Typed
<1>1. CASE Alone!EndCSV
  <2>1. listCW0.held \in Seq(Output)
    BY DEF IsWriter
  <2>2. Alone!Arriving(listCW0.held) \in Seq(Output)
    BY <2>1, PrintedTyped DEF Alone!Arriving
  <2> QED BY <1>1, <2>2, NoWriterTyped DEF Alone!EndCSV, Alone!Put, Alone!NoWriter
<1>2. CASE Alone!EndTable
  <2> DEFINE said == IF listItemSeen0 THEN <<>> ELSE << <<"no messages">> >>
  <2>1. said \in Seq(Output)
    BY PrintedTyped
  <2>2. /\ output0' = output0 \o said /\ listItemSeen0' = FALSE
        /\ haveStatus0' = FALSE /\ listCW0' = listCW0
    BY <1>2 DEF Alone!EndTable, Alone!Put
  <2> HIDE DEF said
  <2> QED BY <2>1, <2>2, ConcatTyped
<1> QED BY <1>1, <1>2 DEF Alone!EndMessageList

LEMMA AloneOther ==
    ASSUME AloneTyped, OutputIsTerm \in BOOLEAN
    PROVE  /\ \A shown \in BOOLEAN : Alone!Status(shown) => AloneTyped'
           /\ Alone!CloseOutput => AloneTyped'
           /\ Alone!Restart => AloneTyped'
<1> USE DEF AloneTyped, Typed
<1>1. ASSUME NEW shown \in BOOLEAN, Alone!Status(shown) PROVE AloneTyped'
  BY <1>1 DEF Alone!Status
<1>2. ASSUME Alone!CloseOutput PROVE AloneTyped'
  BY <1>2 DEF Alone!CloseOutput, IsWriter
<1>3. ASSUME Alone!Restart PROVE AloneTyped'
  BY <1>3, NoWriterTyped, PrintedTyped DEF Alone!Restart, Alone!NoWriter
<1> QED BY <1>1, <1>2, <1>3

LEMMA TypeInit == Init => TypeOK
<1> SUFFICES ASSUME Init PROVE ShellTyped /\ HereTyped /\ AloneTyped
  BY TypeParts
<1>1. ShellTyped
  <2>1. line \in Lines \cup {<<>>}
    BY Zenon DEF Init
  <2>2. /\ pc = "prompt" /\ rows = 0 /\ OutputIsTerm = TRUE /\ ended = FALSE
        /\ commands = 0 /\ unended = 0 /\ spoiled = 0
    BY Zenon DEF Init
  <2> HIDE DEF Init
  <2>3. 0 \in 0 .. MaxRows
    BY BoundAssumption
  <2> QED BY <2>1, <2>2, <2>3 DEF ShellTyped, Commands
<1>2. HereTyped /\ AloneTyped
  BY NoWriterTyped, PrintedTyped
  DEF Init, HereTyped, AloneTyped, Typed, Here!Fresh, Alone!Fresh, Here!NoWriter, Alone!NoWriter
<1> QED BY <1>1, <1>2

LEMMA ShellStep == ASSUME ShellTyped, [Next]_vars PROVE ShellTyped'
<1> USE DEF ShellTyped
<1>1. CASE \E l \in Lines : ReadLine(l)
  BY <1>1 DEF ReadLine
<1>2. CASE Pass
  BY <1>2 DEF Pass
<1>3. CASE Begin
  <2>1. ListsMessages => CommandOf[Args[1]] \in Commands
    BY DEF ListsMessages, CommandOf, Commands
  <2>2. OutputIsTerm' \in BOOLEAN
    BY <1>3 DEF Begin
  <2>3. /\ pc' \in Commands /\ line' = <<>> /\ rows' = 0 /\ ended' = FALSE
        /\ UNCHANGED <<commands, unended, spoiled>>
    BY <1>3, <2>1, Zenon DEF Begin
  <2>4. line' \in Lines \cup {<<>>}
    BY <2>3, Zenon
  <2> HIDE DEF ShellTyped
  <2>5. pc' \notin {"prompt", "read"} /\ rows' \in 0 .. MaxRows
    BY <2>3, BoundAssumption DEF Commands
  <2> QED BY <2>2, <2>3, <2>4, <2>5 DEF ShellTyped
<1>4. CASE Row
  BY <1>4, BoundAssumption DEF Row
<1>5. CASE ShowStatus \/ End \/ Close \/ ClearStatus
  BY <1>5 DEF ShowStatus, End, Close, ClearStatus
<1>6. CASE Return
  BY <1>6 DEF Return
<1>7. CASE UNCHANGED vars
  BY <1>7
<1> QED BY <1>1, <1>2, <1>3, <1>4, <1>5, <1>6, <1>7 DEF Next

LEMMA OutputStep ==
    ASSUME ShellTyped, HereTyped, AloneTyped, [Next]_vars
    PROVE  HereTyped' /\ AloneTyped'
<1>1. OutputIsTerm \in BOOLEAN /\ TRUE \in BOOLEAN /\ FALSE \in BOOLEAN
  BY DEF ShellTyped
<1>2. CASE \E l \in Lines : ReadLine(l)
  BY <1>2 DEF ReadLine, HereTyped, AloneTyped, Typed
<1>3. CASE Pass \/ UNCHANGED vars
  BY <1>3 DEF Pass, HereTyped, AloneTyped, Typed
<1>4. CASE Begin
  <2>1. HereTyped'
    BY <1>4, PrintedTyped DEF Begin, HereTyped, Typed
  <2>2. AloneTyped'
    BY <1>1, <1>4, AloneOther DEF Begin
  <2> QED BY <2>1, <2>2
<1>5. CASE Row
  <2>1. PICK r \in Output, h \in BOOLEAN : Here!ListMessage(r, h) /\ Alone!ListMessage(r, h)
    <3>1. rows' \in 1 .. MaxRows /\ (pc # "queue") \in BOOLEAN
      BY <1>5, BoundAssumption DEF Row, ShellTyped
    <3> QED BY <1>5, <3>1, PrintedTyped DEF Row
  <2> QED BY <1>1, <2>1, HereRow, AloneRow
<1>6. CASE End
  BY <1>6, HereEnd, AloneEnd DEF End
<1>7. CASE ShowStatus \/ Close \/ ClearStatus
  BY <1>1, <1>7, HereOther, AloneOther DEF ShowStatus, Close, ClearStatus
<1>8. CASE Return
  BY <1>1, <1>8, HereOther, AloneOther DEF Return
<1> QED BY <1>2, <1>3, <1>4, <1>5, <1>6, <1>7, <1>8 DEF Next

LEMMA TypeStep == TypeOK /\ [Next]_vars => TypeOK'
<1>1. ShellTyped /\ HereTyped /\ AloneTyped /\ [Next]_vars
        => ShellTyped' /\ HereTyped' /\ AloneTyped'
  BY ShellStep, OutputStep
<1>2. TypeOK' <=> ShellTyped' /\ HereTyped' /\ AloneTyped'
  BY TypeParts, PTL
<1> QED BY TypeParts, <1>1, <1>2

\* The variables of the shell and of package cio stay in their types; a CSV
\* writer, when there is one, holds something.
THEOREM TypeCorrect == Spec => []TypeOK
BY TypeInit, TypeStep, PTL DEF Spec

-----------------------------------------------------------------------------
(* What one command leaves behind for the next.                            *)

Bit(b) == IF b THEN 1 ELSE 0

\* A writer to a file that is closed, and a table that was begun.
Writer == Bit(listCW.to = "closed")
Table  == Bit(listItemSeen)

\* Between commands, each of the two is there because of a command that did not
\* end its list, and that has spoiled no output yet.
RestInv ==
    /\ listCW.to # "own"
    /\ spoiled + Writer + Table <= unended

\* While a command lists on a terminal, its output is that of the same command
\* alone unless there was a table before it;
TableInv ==
    /\ listCW.to # "own"
    /\ listCW0.to = "none"
    /\ listItemSeen0 <=> rows > 0
    /\ \/ /\ output = output0
          /\ listItemSeen <=> rows > 0
          /\ spoiled + Writer <= unended
       \/ /\ rows = 0 => output = output0
          /\ listItemSeen
          /\ spoiled + Writer + 1 <= unended

\* and as it lists to a file, unless there was a writer before it.
CSVInv ==
    /\ ~listItemSeen0
    /\ \/ /\ output = output0
          /\ listCW = listCW0 /\ listCW.to # "closed"
          /\ listCW.to = "none" <=> rows = 0
          /\ spoiled + Table <= unended
       \/ /\ rows = 0 => output = output0
          /\ listCW.to = "closed"
          /\ spoiled + Table + 1 <= unended

\* When the list is ended, the command has used up what it has spoiled.
EndedInv ==
    /\ listCW.to # "own"
    /\ spoiled + Bit(output # output0) + Writer + Table <= unended

InCommand == pc \in Commands \cup {"close", "closed"}

LeftoverInv ==
    /\ ~InCommand => RestInv
    /\ InCommand /\ ~ended /\ OutputIsTerm => TableInv
    /\ InCommand /\ ~ended /\ ~OutputIsTerm => CSVInv
    /\ InCommand /\ ended => EndedInv

IInv == TypeOK /\ LeftoverInv

LEMMA WriterNone == IsWriter(listCW) => (listCW = Here!NoWriter <=> listCW.to = "none")
BY DEF IsWriter, Here!NoWriter

LEMMA WriterNoneAlone ==
    IsWriter(listCW0) => (listCW0 = Alone!NoWriter <=> listCW0.to = "none")
BY DEF IsWriter, Alone!NoWriter

LEMMA NothingArrives ==
    ASSUME HereTyped, listCW.to = "closed", NEW held
    PROVE  output \o Here!Arriving(held) = output
<1>1. Here!Arriving(held) = <<>> /\ output \in Seq(Output)
  BY DEF Here!Arriving, HereTyped, Typed
<1> QED BY <1>1

LEMMA TableRow ==
    ASSUME IInv, OutputIsTerm, TableInv, NEW r \in Output, NEW h \in BOOLEAN,
           rows' = rows + 1, UNCHANGED <<unended, spoiled>>,
           Here!ListMessage(r, h), Alone!ListMessage(r, h)
    PROVE  TableInv'
<1>1. /\ output' = output \o (Here!HeaderIf(~listItemSeen /\ h) \o <<r>>)
      /\ output0' = output0 \o (Alone!HeaderIf(~listItemSeen0 /\ h) \o <<r>>)
      /\ listItemSeen' = TRUE /\ listItemSeen0' = TRUE
      /\ listCW' = listCW /\ listCW0' = listCW0
  BY DEF Here!ListMessage, Here!listMessageTable, Here!Put,
         Alone!ListMessage, Alone!listMessageTable, Alone!Put
<1>2. rows \in Nat /\ rows' # 0 /\ rows' > 0
  BY BoundAssumption DEF IInv, TypeOK
<1>3. listItemSeen = listItemSeen0 /\ output = output0 => output' = output0'
  BY <1>1 DEF Here!HeaderIf, Alone!HeaderIf
<1>4. listItemSeen \in BOOLEAN /\ listItemSeen0 \in BOOLEAN
  BY DEF IInv, TypeOK
<1> QED BY <1>1, <1>2, <1>3, <1>4 DEF TableInv, Writer

LEMMA CSVRow ==
    ASSUME IInv, ~OutputIsTerm, CSVInv, NEW r \in Output, NEW h \in BOOLEAN,
           rows' = rows + 1, UNCHANGED <<unended, spoiled>>,
           Here!ListMessage(r, h), Alone!ListMessage(r, h)
    PROVE  CSVInv'
<1>1. /\ Here!listMessageCSV(r, h) /\ Alone!listMessageCSV(r, h)
      /\ UNCHANGED <<listItemSeen, listItemSeen0>>
  BY DEF Here!ListMessage, Here!listMessageCSV, Alone!ListMessage, Alone!listMessageCSV
<1>2. rows \in Nat /\ rows' # 0 /\ HereTyped /\ IsWriter(listCW)
  BY BoundAssumption, TypeParts DEF IInv, TypeOK
<1> DEFINE to  == IF listCW = Here!NoWriter THEN "own" ELSE listCW.to
           new == Here!HeaderIf(listCW = Here!NoWriter /\ h) \o <<r>>
           full == Len(listCW.held \o new) > Buffer
<1>3. /\ full => /\ listCW' = [to |-> to, held |-> new]
                 /\ output' = output \o Here!Arriving(listCW.held)
      /\ ~full => /\ listCW' = [to |-> to, held |-> listCW.held \o new]
                  /\ output' = output
  BY <1>1 DEF Here!listMessageCSV, Here!Put
<1>4. ASSUME listCW = listCW0, output = output0
      PROVE  listCW' = listCW0' /\ output' = output0'
  <2>1. /\ to = IF listCW0 = Alone!NoWriter THEN "own" ELSE listCW0.to
        /\ new = Alone!HeaderIf(listCW0 = Alone!NoWriter /\ h) \o <<r>>
        /\ Here!Arriving(listCW.held) = Alone!Arriving(listCW0.held)
    BY <1>4 DEF Here!NoWriter, Alone!NoWriter, Here!HeaderIf, Alone!HeaderIf,
                Here!Arriving, Alone!Arriving
  <2>2. /\ full => /\ listCW0' = [to |-> to, held |-> new]
                   /\ output0' = output0 \o Alone!Arriving(listCW0.held)
        /\ ~full => /\ listCW0' = [to |-> to, held |-> listCW0.held \o new]
                    /\ output0' = output0
    BY <1>1, <1>4, <2>1 DEF Alone!listMessageCSV, Alone!Put
  <2> HIDE DEF to, new, full
  <2> QED BY <1>3, <1>4, <2>1, <2>2
<1>5. to = IF listCW.to = "none" THEN "own" ELSE listCW.to
  BY <1>2, WriterNone
<1> HIDE DEF to, new, full
<1>6. listCW'.to = to
  BY <1>3
<1>7. listCW.to = "closed" => output' = output
  BY <1>2, <1>3, NothingArrives
<1>8. /\ rows' > 0 /\ rows' # 0
      /\ UNCHANGED <<listItemSeen, listItemSeen0, unended, spoiled>>
  BY <1>1, <1>2
<1> QED BY <1>4, <1>5, <1>6, <1>8 DEF CSVInv, Table

NoMessages == << <<"no messages">> >>

\* What EndMessageList does to the output, here and alone.
LEMMA EndEffect ==
    ASSUME IInv, listCW.to # "own", Here!EndMessageList
    PROVE  /\ listCW.to = "closed" =>
                listCW'.to = "none" /\ listItemSeen' = listItemSeen /\ output' = output
           /\ listCW.to = "none" =>
                listCW'.to = "none" /\ listItemSeen' = FALSE
                /\ (listItemSeen => output' = output)
                /\ (~listItemSeen => output' = output \o NoMessages)
<1>1. HereTyped /\ IsWriter(listCW) /\ output \in Seq(Output)
  BY TypeParts DEF IInv, TypeOK
<1>2. ASSUME listCW.to = "closed"
      PROVE  listCW'.to = "none" /\ listItemSeen' = listItemSeen /\ output' = output
  <2>1. Here!EndCSV
    BY <1>1, <1>2, WriterNone DEF Here!EndMessageList
  <2> QED BY <1>1, <1>2, <2>1, NothingArrives DEF Here!EndCSV, Here!NoWriter, Here!Put
<1>3. ASSUME listCW.to = "none"
      PROVE  /\ listCW'.to = "none" /\ listItemSeen' = FALSE
             /\ listItemSeen => output' = output
             /\ ~listItemSeen => output' = output \o NoMessages
  <2>1. Here!EndTable
    BY <1>1, <1>3, WriterNone DEF Here!EndMessageList
  <2>2. output \o <<>> = output
    BY <1>1
  <2> QED BY <1>3, <2>1, <2>2 DEF Here!EndTable, Here!Put, NoMessages
<1> QED BY <1>2, <1>3

LEMMA EndEffectAlone ==
    ASSUME IInv, Alone!EndMessageList, listCW0.to = "none"
    PROVE  /\ listItemSeen0 => output0' = output0
           /\ ~listItemSeen0 => output0' = output0 \o NoMessages
<1>1. IsWriter(listCW0) /\ output0 \in Seq(Output)
  BY DEF IInv, TypeOK
<1>2. Alone!EndTable
  BY <1>1, WriterNoneAlone DEF Alone!EndMessageList
<1>3. output0 \o <<>> = output0
  BY <1>1
<1> QED BY <1>2, <1>3 DEF Alone!EndTable, Alone!Put, NoMessages

LEMMA EndedBits ==
    /\ listCW'.to = "none" /\ listItemSeen' = FALSE
    /\ UNCHANGED <<unended, spoiled>>
    /\ spoiled + Bit(output' # output0') <= unended
    /\ spoiled \in Nat
    => EndedInv'
<1> DEFINE d == Bit(output' # output0')
<1>1. d \in Nat
  BY DEF Bit
<1> HIDE DEF d
<1>2. listCW'.to = "none" /\ listItemSeen' = FALSE => Writer' = 0 /\ Table' = 0
  BY DEF Writer, Table, Bit
<1>3. EndedInv' <=> listCW'.to # "own" /\ spoiled' + d + Writer' + Table' <= unended'
  BY DEF EndedInv, d
<1> QED BY <1>1, <1>2, <1>3 DEF d

LEMMA EndLeftover == ASSUME IInv, End PROVE EndedInv'
<1>1. /\ Here!EndMessageList /\ Alone!EndMessageList /\ UNCHANGED <<unended, spoiled>>
      /\ ~ended /\ InCommand
  BY DEF End, InCommand, Commands
<1>2. /\ unended \in Nat /\ spoiled \in Nat /\ OutputIsTerm \in BOOLEAN
      /\ listItemSeen \in BOOLEAN /\ listItemSeen0 \in BOOLEAN
      /\ listCW.to \in {"none", "own", "closed"} /\ rows \in Nat
  BY BoundAssumption DEF IInv, TypeOK, IsWriter
<1>3. (output' # output0') \in BOOLEAN
  OBVIOUS
<1>4. CASE OutputIsTerm
  <2>1. TableInv
    BY <1>1, <1>4 DEF IInv, LeftoverInv
  <2>2. CASE listCW.to = "closed"
    <3>1. listCW'.to = "none" /\ listItemSeen' = listItemSeen /\ output' = output
      BY <1>1, <2>2, EndEffect
    <3>2. listItemSeen0 => output0' = output0
      BY <1>1, <2>1, EndEffectAlone DEF TableInv
    <3> QED BY <1>1, <1>2, <2>1, <2>2, <3>1, <3>2 DEF TableInv, EndedInv, Writer, Table, Bit
  <2>3. CASE listCW.to = "none"
    <3>1. /\ listCW'.to = "none" /\ listItemSeen' = FALSE
          /\ listItemSeen => output' = output
          /\ ~listItemSeen => output' = output \o NoMessages
      BY <1>1, <2>3, EndEffect
    <3>2. /\ listItemSeen0 => output0' = output0
          /\ ~listItemSeen0 => output0' = output0 \o NoMessages
      BY <1>1, <2>1, EndEffectAlone DEF TableInv
    <3>3. ASSUME output = output0, listItemSeen <=> listItemSeen0
          PROVE  output' = output0'
      <4>1. CASE listItemSeen
        BY <3>1, <3>2, <3>3, <4>1
      <4>2. CASE ~listItemSeen
        BY <3>1, <3>2, <3>3, <4>2
      <4> QED BY <4>1, <4>2
    <3>4. spoiled + Bit(output' # output0') <= unended
      BY <1>2, <2>1, <2>3, <3>3 DEF TableInv, Writer, Bit
    <3> QED BY <1>1, <1>2, <3>1, <3>4, EndedBits
  <2> QED BY <1>2, <2>1, <2>2, <2>3 DEF TableInv
<1>5. CASE ~OutputIsTerm
  <2>1. CSVInv
    BY <1>1, <1>5 DEF IInv, LeftoverInv
  <2>2. CASE listCW.to = "own"
    <3>1. Here!EndCSV /\ Alone!EndCSV /\ listCW = listCW0 /\ output = output0
      BY <1>1, <2>1, <2>2
      DEF CSVInv, Here!EndMessageList, Alone!EndMessageList, Here!NoWriter, Alone!NoWriter
    <3>2. output' = output0' /\ listCW'.to = "none" /\ listItemSeen' = listItemSeen
      BY <3>1 DEF Here!EndCSV, Alone!EndCSV, Here!Put, Alone!Put, Here!Arriving,
         Alone!Arriving, Here!NoWriter
    <3> QED BY <1>1, <1>2, <2>1, <2>2, <3>2 DEF CSVInv, EndedInv, Writer, Table, Bit
  <2>3. CASE listCW.to = "closed"
    <3>1. listCW'.to = "none" /\ listItemSeen' = listItemSeen
      BY <1>1, <2>3, EndEffect
    <3> QED BY <1>1, <1>2, <2>1, <2>3, <3>1 DEF CSVInv, EndedInv, Writer, Table, Bit
  <2>4. CASE listCW.to = "none"
    <3>1. /\ listCW'.to = "none" /\ listItemSeen' = FALSE
          /\ ~listItemSeen => output' = output \o NoMessages
      BY <1>1, <2>4, EndEffect
    <3>2. output0' = output0 \o NoMessages
      BY <1>1, <2>1, <2>4, EndEffectAlone DEF CSVInv
    <3>3. output = output0 /\ spoiled + Table <= unended
      BY <2>1, <2>4 DEF CSVInv
    <3>4. ~listItemSeen => output' = output0'
      BY <3>1, <3>2, <3>3
    <3>5. spoiled + Bit(output' # output0') <= unended
      BY <1>2, <3>3, <3>4 DEF Table, Bit
    <3> QED BY <1>1, <1>2, <3>1, <3>5, EndedBits
  <2> QED BY <1>2, <2>2, <2>3, <2>4
<1> QED BY <1>2, <1>4, <1>5

LEMMA ReturnLeftover == ASSUME IInv, Return PROVE RestInv'
<1>1. /\ unended \in Nat /\ spoiled \in Nat /\ OutputIsTerm \in BOOLEAN
      /\ listItemSeen \in BOOLEAN /\ ended \in BOOLEAN
      /\ listCW.to \in {"none", "own", "closed"} /\ rows \in Nat
  BY BoundAssumption DEF IInv, TypeOK, IsWriter
<1>2. /\ listCW'.to = IF listCW.to = "own" THEN "closed" ELSE listCW.to
      /\ listItemSeen' = listItemSeen
      /\ unended' = IF rows > 0 /\ ~ended THEN unended + 1 ELSE unended
      /\ spoiled' = IF output # output0 THEN spoiled + 1 ELSE spoiled
      /\ InCommand
  BY DEF Return, Here!CloseOutput, InCommand, Commands, IInv, TypeOK, IsWriter
<1>3. CASE ended
  <2>1. EndedInv
    BY <1>2, <1>3 DEF IInv, LeftoverInv
  <2> QED BY <1>1, <1>2, <1>3, <2>1 DEF EndedInv, RestInv, Writer, Table, Bit
<1>4. CASE ~ended /\ OutputIsTerm
  <2>1. TableInv
    BY <1>2, <1>4 DEF IInv, LeftoverInv
  <2> QED BY <1>1, <1>2, <1>4, <2>1 DEF TableInv, RestInv, Writer, Table, Bit
<1>5. CASE ~ended /\ ~OutputIsTerm
  <2>1. CSVInv
    BY <1>2, <1>5 DEF IInv, LeftoverInv
  <2> QED BY <1>1, <1>2, <1>5, <2>1 DEF CSVInv, RestInv, Writer, Table, Bit
<1> QED BY <1>1, <1>3, <1>4, <1>5

LEMMA BeginLeftover == ASSUME IInv, Begin PROVE LeftoverInv'
<1>1. /\ ~InCommand /\ InCommand' /\ rows' = 0 /\ output' = <<>> /\ ~ended'
      /\ UNCHANGED <<listCW, listItemSeen, unended, spoiled>>
  <2>1. ListsMessages => CommandOf[Args[1]] \in Commands
    BY DEF ListsMessages, CommandOf, Commands
  <2> QED BY <2>1 DEF Begin, InCommand, Commands
<1>2. output0' = <<>> /\ listItemSeen0' = FALSE /\ listCW0' = Alone!NoWriter
  BY DEF Begin, Alone!Restart
<1>3. RestInv
  BY <1>1 DEF IInv, LeftoverInv
<1>4. /\ unended \in Nat /\ spoiled \in Nat /\ listItemSeen \in BOOLEAN
      /\ IsWriter(listCW) /\ listCW.to \in {"none", "own", "closed"}
  BY DEF IInv, TypeOK, IsWriter
<1>5. listCW.to = "none" => listCW' = listCW0'
  BY <1>1, <1>2, <1>4, WriterNone DEF Here!NoWriter, Alone!NoWriter
<1>6. TableInv'
  BY <1>1, <1>2, <1>3, <1>4 DEF TableInv, RestInv, Writer, Table, Bit, Alone!NoWriter
<1>7. CSVInv'
  BY <1>1, <1>2, <1>3, <1>4, <1>5 DEF CSVInv, RestInv, Writer, Table, Bit
<1> QED BY <1>1, <1>6, <1>7 DEF LeftoverInv

LEMMA LeftoverStep == ASSUME IInv, [Next]_vars PROVE LeftoverInv'
<1>1. CASE \E l \in Lines : ReadLine(l)
  <2>1. /\ ~InCommand /\ ~InCommand'
        /\ UNCHANGED <<listCW, listItemSeen, unended, spoiled>>
    BY <1>1 DEF ReadLine, InCommand, Commands
  <2> QED BY <2>1 DEF IInv, LeftoverInv, RestInv, Writer, Table
<1>2. CASE Pass
  <2>1. /\ ~InCommand /\ ~InCommand'
        /\ UNCHANGED <<listCW, listItemSeen, unended, spoiled>>
    BY <1>2 DEF Pass, InCommand, Commands
  <2> QED BY <2>1 DEF IInv, LeftoverInv, RestInv, Writer, Table
<1>3. CASE Begin
  BY <1>3, BeginLeftover
<1>4. CASE Row
  <2>1. /\ InCommand /\ InCommand' /\ ~ended /\ ~ended' /\ rows' = rows + 1
        /\ OutputIsTerm' = OutputIsTerm /\ UNCHANGED <<unended, spoiled>>
    BY <1>4 DEF Row, InCommand, Commands
  <2>2. PICK r \in Output, h \in BOOLEAN : Here!ListMessage(r, h) /\ Alone!ListMessage(r, h)
    <3>1. rows' \in 1 .. MaxRows /\ (pc # "queue") \in BOOLEAN
      BY <1>4, BoundAssumption DEF Row, IInv, TypeOK
    <3> QED BY <1>4, <3>1, PrintedTyped DEF Row
  <2>3. OutputIsTerm => TableInv'
    BY <2>1, <2>2, TableRow DEF IInv, LeftoverInv
  <2>4. ~OutputIsTerm => CSVInv'
    BY <2>1, <2>2, CSVRow DEF IInv, LeftoverInv
  <2> QED BY <2>1, <2>3, <2>4 DEF LeftoverInv
<1>5. CASE ShowStatus \/ Close \/ ClearStatus \/ UNCHANGED vars
  <2>1. /\ UNCHANGED <<listCW, listItemSeen, output, listCW0, listItemSeen0, output0>>
        /\ UNCHANGED <<rows, OutputIsTerm, unended, spoiled, ended>>
        /\ InCommand' <=> InCommand
    BY <1>5 DEF ShowStatus, Close, ClearStatus, Here!Status, Alone!Status, InCommand, Commands
  <2> QED BY <2>1 DEF IInv, LeftoverInv, RestInv, TableInv, CSVInv, EndedInv, Writer, Table
<1>6. CASE End
  <2>1. ended' /\ InCommand'
    BY <1>6 DEF End, InCommand, Commands
  <2> QED BY <1>6, <2>1, EndLeftover DEF LeftoverInv
<1>7. CASE Return
  <2>1. ~InCommand'
    BY <1>7 DEF Return, InCommand, Commands
  <2> QED BY <1>7, <2>1, ReturnLeftover DEF LeftoverInv
<1> QED BY <1>1, <1>2, <1>3, <1>4, <1>5, <1>6, <1>7 DEF Next

THEOREM Invariance == Spec => []IInv
<1>1. Init => LeftoverInv
  <2> SUFFICES ASSUME Init PROVE LeftoverInv
    OBVIOUS
  <2>1. /\ pc = "prompt" /\ unended = 0 /\ spoiled = 0
        /\ listCW = Here!NoWriter /\ listItemSeen = FALSE
    BY Zenon DEF Init, Here!Fresh
  <2> QED BY <2>1
          DEF LeftoverInv, InCommand, Commands, RestInv, Writer, Table, Bit, Here!NoWriter
<1>2. IInv /\ [Next]_vars => IInv'
  BY LeftoverStep, TypeStep DEF IInv
<1> QED BY <1>1, <1>2, TypeInit, PTL DEF Spec, IInv

\* No more commands have an output that is not what it is in a program of their
\* own than there were commands that listed messages and did not end the list.
THEOREM SpoiledByUnended == Spec => []SpoilsAtMostOne
<1>1. IInv => SpoilsAtMostOne
  <2> SUFFICES ASSUME IInv PROVE spoiled <= unended
    BY DEF SpoilsAtMostOne
  <2>1. /\ unended \in Nat /\ spoiled \in Nat /\ OutputIsTerm \in BOOLEAN /\ ended \in BOOLEAN
    BY DEF IInv, TypeOK
  <2>2. RestInv \/ TableInv \/ CSVInv \/ EndedInv
    BY <2>1 DEF IInv, LeftoverInv
  <2> QED BY <2>1, <2>2 DEF RestInv, TableInv, CSVInv, EndedInv, Writer, Table, Bit
<1> QED BY Invariance, <1>1, PTL

-----------------------------------------------------------------------------
(* What a command puts out in a program of its own.                        *)

RowAt(i) == <<"row", i>>
RowsTo(n) == [i \in 1 .. n |-> RowAt(i)]
Header == << <<"header">> >>

\* What was put out for n rows, and what is when the list is ended.
Printed(n) == IF n = 0 THEN <<>> ELSE Header \o RowsTo(n)
Complete(n) == IF n = 0 THEN << <<"no messages">> >> ELSE Printed(n)

AloneInv ==
    /\ ended => output0 = Complete(rows)
    /\ InCommand /\ ~ended /\ OutputIsTerm =>
         /\ listCW0.to = "none"
         /\ listItemSeen0 <=> rows > 0
         /\ pc # "queue" => output0 = Printed(rows)
    /\ InCommand /\ ~ended /\ ~OutputIsTerm =>
         /\ ~listItemSeen0
         /\ listCW0.to # "closed"
         /\ listCW0.to = "none" <=> rows = 0
         /\ pc # "queue" => output0 \o listCW0.held = Printed(rows)

LEMMA RowsTyped ==
    /\ \A n \in 0 .. MaxRows : RowsTo(n) \in Seq(Output) /\ Printed(n) \in Seq(Output)
    /\ \A n \in 1 .. MaxRows : RowAt(n) \in Output /\ <<RowAt(n)>> \in Seq(Output)
    /\ Header \in Seq(Output)
<1>1. \A n \in 1 .. MaxRows : RowAt(n) \in Output
  BY PrintedTyped DEF RowAt
<1>2. Header \in Seq(Output)
  BY PrintedTyped DEF Header
<1> HIDE DEF RowAt, Header
<1>3. ASSUME NEW n \in 0 .. MaxRows PROVE RowsTo(n) \in Seq(Output) /\ Printed(n) \in Seq(Output)
  <2>1. n \in Nat /\ \A i \in 1 .. n : RowAt(i) \in Output
    BY <1>1, BoundAssumption
  <2>2. RowsTo(n) \in Seq(Output)
    BY <2>1, IsASeq DEF RowsTo
  <2> QED BY <1>2, <2>2, PrintedTyped, ConcatTyped DEF Printed
<1> QED BY <1>1, <1>2, <1>3

LEMMA OneRowMore ==
    ASSUME NEW n \in 0 .. MaxRows, n + 1 \in 0 .. MaxRows
    PROVE  Printed(n + 1) = Printed(n) \o ((IF n = 0 THEN Header ELSE <<>>) \o <<RowAt(n + 1)>>)
<1>1. /\ RowsTo(n) \in Seq(Output) /\ RowsTo(n + 1) \in Seq(Output)
      /\ RowAt(n + 1) \in Output /\ <<RowAt(n + 1)>> \in Seq(Output) /\ Header \in Seq(Output)
      /\ n \in Nat
  BY RowsTyped, BoundAssumption
<1> DEFINE last == <<RowAt(n + 1)>>
           more == RowsTo(n) \o last
<1>2. RowsTo(n + 1) = more
  <2>1. more \in Seq(Output) /\ Len(more) = n + 1 /\ Len(RowsTo(n + 1)) = n + 1
    BY <1>1 DEF RowsTo
  <2>2. ASSUME NEW i \in 1 .. n + 1 PROVE RowsTo(n + 1)[i] = more[i]
    <3>1. CASE i = n + 1
      BY <1>1, <3>1 DEF RowsTo
    <3>2. CASE i # n + 1
      <4>1. i \in 1 .. n
        BY <1>1, <3>2
      <4> QED BY <1>1, <4>1 DEF RowsTo
    <3> QED BY <3>1, <3>2
  <2> HIDE DEF more
  <2> QED BY <1>1, <2>1, <2>2, SeqEqual
<1> HIDE DEF last
<1>3. last \in Seq(Output)
  BY <1>1 DEF last
<1>4. CASE n = 0
  <2>1. RowsTo(0) = <<>>
    BY DEF RowsTo
  <2>2. <<>> \o last = last /\ <<>> \o (Header \o last) = Header \o last
    BY <1>1, <1>3
  <2>3. Printed(1) = Header \o RowsTo(1) /\ Printed(0) = <<>>
    BY DEF Printed
  <2> QED BY <1>2, <1>4, <2>1, <2>2, <2>3 DEF last
<1>5. CASE n # 0
  <2>1. Header \o (RowsTo(n) \o last) = (Header \o RowsTo(n)) \o last /\ <<>> \o last = last
    BY <1>1, <1>3
  <2>2. Printed(n + 1) = Header \o RowsTo(n + 1) /\ Printed(n) = Header \o RowsTo(n)
    BY <1>1, <1>5 DEF Printed
  <2> QED BY <1>2, <1>5, <2>1, <2>2 DEF last
<1> QED BY <1>4, <1>5

LEMMA AloneRowInv ==
    ASSUME IInv, AloneInv, Row
    PROVE  AloneInv'
<1> DEFINE r == <<"row", rows'>>
           h == pc # "queue"
<1>1. /\ InCommand /\ InCommand' /\ ~ended /\ ~ended' /\ rows' = rows + 1 /\ pc' = pc
      /\ OutputIsTerm' = OutputIsTerm /\ Alone!ListMessage(r, h)
  BY DEF Row, InCommand, Commands
<1>2. /\ rows \in 0 .. MaxRows /\ rows + 1 \in 0 .. MaxRows /\ rows \in Nat
      /\ rows' > 0 /\ rows' # 0 /\ AloneTyped /\ IsWriter(listCW0) /\ OutputIsTerm \in BOOLEAN
      /\ output0 \in Seq(Output) /\ listCW0.held \in Seq(Output)
  BY <1>1, BoundAssumption, TypeParts DEF Row, IInv, TypeOK, IsWriter
<1> DEFINE add == Alone!HeaderIf(rows = 0 /\ h) \o <<r>>
<1>3. h => Printed(rows') = Printed(rows) \o add
  BY <1>1, <1>2, OneRowMore DEF RowAt, Header, Alone!HeaderIf
<1>4. add \in Seq(Output)
  <2>1. Alone!HeaderIf(rows = 0 /\ h) \in Seq(Output)
    BY HeaderTyped
  <2>2. <<r>> \in Seq(Output)
    BY <1>1, <1>2, RowsTyped DEF RowAt
  <2> QED BY <2>1, <2>2, ConcatTyped
<1>5. CASE OutputIsTerm
  <2>1. (~listItemSeen0 /\ h) <=> (rows = 0 /\ h)
    BY <1>1, <1>2, <1>5 DEF AloneInv
  <2>2. /\ output0' = output0 \o add
        /\ listItemSeen0' = TRUE /\ listCW0' = listCW0
    BY <1>1, <1>5, <2>1 DEF Alone!ListMessage, Alone!listMessageTable, Alone!Put, Alone!HeaderIf
  <2> HIDE DEF add, r
  <2> QED BY <1>1, <1>2, <1>3, <1>5, <2>2 DEF AloneInv
<1>6. CASE ~OutputIsTerm
  <2>1. /\ Alone!listMessageCSV(r, h) /\ listItemSeen0' = listItemSeen0
    BY <1>1, <1>6 DEF Alone!ListMessage, Alone!listMessageCSV
  <2>2. (listCW0 = Alone!NoWriter /\ h) <=> (rows = 0 /\ h)
    BY <1>1, <1>2, <1>6, WriterNoneAlone DEF AloneInv
  <2> DEFINE to == IF listCW0 = Alone!NoWriter THEN "own" ELSE listCW0.to
             new == Alone!HeaderIf(listCW0 = Alone!NoWriter /\ h) \o <<r>>
             full == Len(listCW0.held \o new) > Buffer
  <2>3. /\ full => /\ listCW0' = [to |-> to, held |-> new]
                   /\ output0' = output0 \o Alone!Arriving(listCW0.held)
        /\ ~full => /\ listCW0' = [to |-> to, held |-> listCW0.held \o new]
                    /\ output0' = output0
    BY <2>1 DEF Alone!listMessageCSV, Alone!Put
  <2>4. new = add
    BY <2>2 DEF Alone!HeaderIf
  <2>5. to \in {"own"} /\ Alone!Arriving(listCW0.held) = listCW0.held
    <3>1. listCW0.to \in {"none", "own"}
      BY <1>1, <1>2, <1>6 DEF AloneInv, IsWriter
    <3>2. listCW0.to = "none" => listCW0.held = <<>>
      BY <1>2 DEF IsWriter
    <3> QED BY <1>2, <3>1, <3>2, WriterNoneAlone DEF Alone!Arriving
  <2> HIDE DEF to, new, full, add, r
  <2>6. listCW0'.to = "own" /\ output0' \o listCW0'.held = (output0 \o listCW0.held) \o add
    <3>1. output0 \o (listCW0.held \o add) = (output0 \o listCW0.held) \o add
      BY <1>2, <1>4, ConcatGrouped
    <3>2. CASE full
      <4>1. listCW0' = [to |-> to, held |-> add] /\ output0' = output0 \o listCW0.held
        BY <2>3, <2>4, <2>5, <3>2
      <4> QED BY <2>5, <4>1
    <3>3. CASE ~full
      <4>1. listCW0' = [to |-> to, held |-> listCW0.held \o add] /\ output0' = output0
        BY <2>3, <2>4, <3>3
      <4> QED BY <2>5, <3>1, <4>1
    <3> QED BY <3>2, <3>3
  <2> QED BY <1>1, <1>2, <1>3, <1>6, <2>1, <2>6 DEF AloneInv
<1> QED BY <1>2, <1>5, <1>6

LEMMA AloneEndInv ==
    ASSUME IInv, AloneInv, End
    PROVE  AloneInv'
<1>1. /\ InCommand /\ ~ended /\ ended' /\ pc # "queue" /\ UNCHANGED <<rows, OutputIsTerm>>
      /\ Alone!EndMessageList
  BY DEF End, InCommand, Commands
<1>2. /\ output0 \in Seq(Output) /\ IsWriter(listCW0) /\ rows \in Nat
      /\ OutputIsTerm \in BOOLEAN /\ listItemSeen0 \in BOOLEAN
  BY BoundAssumption DEF IInv, TypeOK
<1>3. CASE listCW0.to = "none"
  <2>1. output0 = Printed(rows) /\ (listItemSeen0 => rows > 0)
        /\ (~listItemSeen0 => rows = 0)
    <3>1. CASE OutputIsTerm
      BY <1>1, <1>2, <3>1 DEF AloneInv
    <3>2. CASE ~OutputIsTerm
      <4>1. listCW0.held = <<>> /\ rows = 0 /\ ~listItemSeen0
        BY <1>1, <1>2, <1>3, <3>2 DEF AloneInv, IsWriter
      <4>2. output0 \o <<>> = output0
        BY <1>2
      <4> QED BY <1>1, <3>2, <4>1, <4>2 DEF AloneInv
    <3> QED BY <1>2, <3>1, <3>2
  <2>2. /\ listItemSeen0 => output0' = output0
        /\ ~listItemSeen0 => output0' = output0 \o NoMessages
    BY <1>1, <1>3, EndEffectAlone
  <2>3. <<>> \o NoMessages = NoMessages
    BY DEF NoMessages
  <2>4. output0' = Complete(rows)
    <3>1. CASE rows = 0
      <4>1. output0 = <<>> /\ ~listItemSeen0
        BY <1>2, <2>1, <3>1 DEF Printed
      <4>2. output0' = NoMessages
        BY <2>2, <2>3, <4>1
      <4> QED BY <3>1, <4>2 DEF Complete, NoMessages
    <3>2. CASE rows # 0
      BY <1>2, <2>1, <2>2, <3>2 DEF Complete
    <3> QED BY <3>1, <3>2
  <2> QED BY <1>1, <2>4 DEF AloneInv
<1>4. CASE listCW0.to # "none"
  <2>1. ~OutputIsTerm /\ listCW0.to = "own" /\ rows # 0 /\ output0 \o listCW0.held = Printed(rows)
    BY <1>1, <1>2, <1>4 DEF AloneInv, IsWriter
  <2>2. output0' = output0 \o listCW0.held
    <3>1. Alone!EndCSV
      BY <1>1, <1>2, <1>4, WriterNoneAlone DEF Alone!EndMessageList
    <3> QED BY <2>1, <3>1 DEF Alone!EndCSV, Alone!Put, Alone!Arriving
  <2> QED BY <1>1, <2>1, <2>2 DEF AloneInv, Complete
<1> QED BY <1>3, <1>4

LEMMA AloneStep == ASSUME IInv, AloneInv, [Next]_vars PROVE AloneInv'
<1>1. CASE \/ \E l \in Lines : ReadLine(l)
           \/ Pass \/ ShowStatus \/ Close \/ ClearStatus \/ UNCHANGED vars
  <2>1. /\ UNCHANGED <<listCW0, listItemSeen0, output0, rows, OutputIsTerm, ended>>
        /\ InCommand' <=> InCommand
        /\ InCommand /\ pc' # "queue" => pc # "queue" \/ pc' = pc
    BY <1>1 DEF ReadLine, Pass, ShowStatus, Close, ClearStatus, Alone!Status, InCommand, Commands
  <2>2. InCommand /\ pc' # "queue" => pc # "queue"
    BY <1>1 DEF ReadLine, Pass, ShowStatus, Close, ClearStatus, InCommand, Commands
  <2> QED BY <2>1, <2>2 DEF AloneInv
<1>2. CASE Begin
  <2>1. /\ rows' = 0 /\ ~ended' /\ output0' = <<>> /\ listItemSeen0' = FALSE
        /\ listCW0' = [to |-> "none", held |-> <<>>]
    BY <1>2 DEF Begin, Alone!Restart, Alone!NoWriter
  <2>2. output0' \o listCW0'.held = <<>> /\ Printed(0) = <<>>
    BY <2>1 DEF Printed
  <2> QED BY <2>1, <2>2 DEF AloneInv
<1>3. CASE Row
  BY <1>3, AloneRowInv
<1>4. CASE End
  BY <1>4, AloneEndInv
<1>5. CASE Return
  <2>1. ~InCommand' /\ UNCHANGED <<output0, rows, ended>>
    BY <1>5 DEF Return, Alone!CloseOutput, InCommand, Commands
  <2> QED BY <2>1 DEF AloneInv
<1> QED BY <1>1, <1>2, <1>3, <1>4, <1>5 DEF Next

\* A command that ends its list puts out the header and every row, in order, or
\* the words for no messages, however much the CSV writer holds back at a time.
THEOREM ListedInFull == Spec => []CompleteWhenEnded
<1>1. Init => AloneInv
  BY DEF Init, AloneInv, InCommand, Commands
<1>2. IInv /\ AloneInv => CompleteWhenEnded
  BY DEF IInv, AloneInv, CompleteWhenEnded, Complete, Printed, RowsTo, RowAt, Header
<1> QED BY <1>1, <1>2, AloneStep, Invariance, PTL DEF Spec

-----------------------------------------------------------------------------
(* What is made of a line that was read.                                   *)

LEMMA LineTyped ==
    ASSUME TypeOK
    PROVE  line \in Seq(Chars)
<1>1. line \in Lines \cup {<<>>} /\ Lines \subseteq Seq(Chars)
  BY LineAssumption, Zenon DEF TypeOK
<1>2. <<>> \in Seq(Chars)
  OBVIOUS
<1> QED BY <1>1, <1>2, Zenon

LEMMA WordTyped ==
    ASSUME NEW l \in Seq(Chars), NEW i \in DOMAIN tokenizeLine(l)
    PROVE  tokenizeLine(l)[i] \in Seq(Chars)
<1>1. <<>> \in Seq(Chars) /\ FALSE \in BOOLEAN
  OBVIOUS
<1>2. Item(l, <<>>, FALSE) \in Pending
  BY <1>1, ItemPending, Zenon
<1>3. tokenizeLine(l) \in Seq(Seq(Chars))
  BY <1>2, WordsTyped, Zenon DEF tokenizeLine, Item
<1> DEFINE ws == tokenizeLine(l)
<1> HIDE DEF ws
<1>4. ws \in Seq(Seq(Chars)) /\ i \in DOMAIN ws => ws[i] \in Seq(Chars)
  OBVIOUS
<1> QED BY <1>3, <1>4, Zenon DEF ws

\* A line is cut into the words that reading it one character at a time gives,
\* unless a < or > stands in the middle of one (cmd.go:128-187).
THEOREM LinesCutIntoWords == Spec => []WordsWhenSpaced
<1>1. TypeOK => WordsWhenSpaced
  BY LineTyped, SpacedWords, Zenon DEF WordsWhenSpaced
<1> QED BY TypeCorrect, <1>1, PTL

\* A word that is no field's tag or label stands for the first of the fields whose
\* labels take least to be shortened to it, capitals first, or for none when no
\* label can be shortened to it (cmd.go:212-317).
THEOREM NamesStandForLeast == Spec => []FieldOfLeastCost
<1>1. Fields \in Seq(Labelled)
  BY FieldAssumption, Zenon DEF Labelled
<1>2. ASSUME TypeOK, NEW i \in DOMAIN tokenizeLine(line),
             NEW w, w = tokenizeLine(line)[i],
             ~ \E f \in DOMAIN Fields :
                  \/ w = Fields[f].tag
                  \/ Alike(Fields[f].label, w, w) \/ Alike(Unspaced(Fields[f].label), w, w)
      PROVE  \/ IsLeast(Fields, w, expandFieldName(Fields, w, TRUE))
             \/ /\ expandFieldName(Fields, w, TRUE) = 0
                /\ \A f \in DOMAIN Fields : Shortenings(Fields[f].label, w) = {}
  <2>1. w \in Seq(Chars)
    BY <1>2, LineTyped, WordTyped, Zenon
  <2> QED BY <1>1, <1>2, <2>1, LeastCostField, Zenon
<1>3. TypeOK => FieldOfLeastCost
  BY <1>2, Zenon DEF FieldOfLeastCost
<1> QED BY TypeCorrect, <1>3, PTL

==============================================================================
