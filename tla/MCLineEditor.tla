---------------------------- MODULE MCLineEditor -----------------------------
(* Values for the constants of LineEditor: a letter in both cases, lists   *)
(* of choices that begin alike, and values of one and of two lines.        *)
EXTENDS LineEditor

MCUncased == [letter \in Letters |-> "a"]

AlikeChoices == << <<"a", "a">>, <<"a", "a", " ">>, <<"a", " ">> >>

\* Two that differ in the case of the second letter, like /dev/tty.Bluetooth and
\* /dev/tty.BLTH; and one that is what the two before it have in common.
OddChoices == << <<"a", "a", " ">>, <<"a", "A", " ">>,
                 <<" ", "a", "a">>, <<" ", "a", " ">>, <<" ", "a">> >>

MCAlike == {AlikeChoices}

MCChoiceLists == {AlikeChoices, OddChoices}

MCInitialValues == { <<>>, <<"a", " ">>, <<"a", "\n">> }
=============================================================================
