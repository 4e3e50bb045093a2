------------------------------ MODULE MCTerminal ------------------------------
(* Terminal for TLC: a screen of 3 rows and 10 columns. *)
EXTENDS Terminal

MCCharacters == {" ", "a", "b", "p", "L"}

MCPrompt == <<"p">>
MCLabel == <<"L">>

\* The entry area, and three choices in two columns below it, as choicesLayout places them.
MCChoices ==
    << [text |-> <<" ", " ", " ", " ">>, x |-> 3, y |-> 0],
       [text |-> <<"a", "b">>, x |-> 4, y |-> 1],
       [text |-> <<"b">>, x |-> 8, y |-> 1],
       [text |-> <<"b", "b">>, x |-> 4, y |-> 2] >>

MCPieces ==
    { << <<>>, <<>>, <<>> >>,
      << <<"a">>, <<>>, <<"b">> >>,
      << <<>>, <<"a">>, <<"b", "a">> >>,
      << <<"a", "b", "b">>, <<"a">>, <<"a", "b", "b", "a">> >> }

MCTexts == {<<"a", "b">>, <<"a", "b", "b", "a", "a", "b", "b", "a", "a">>}

=============================================================================
