------------------------------- MODULE MCShell --------------------------------
(* Shell for TLC, with every short line over a few characters and some that *)
(* are longer.                                                              *)
EXTENDS Shell

MCLines ==
    UNION {[1 .. n -> {"l", "q", " ", "\"", "<", ">"}] : n \in 0 .. 4}
        \cup {<<"e">>, <<"c">>, <<"c", " ", ">", "q">>, <<"p", " ", "l">>, <<"L", "l">>,
              <<"q", " ", "'", "\"", "l", "'">>, <<"'", "l", " ", "q">>,
              <<"l", " ", ">", ">", "q", " ", "<", "q", " ", ">">>}

\* One has a tag, and one a letter that is small before it is a capital.
MCFields ==
    << [tag |-> <<"q", "q">>, label |-> <<"L", "l", " ", "q">>],
       [tag |-> <<>>, label |-> <<"L", "Q", "l", "q">>],
       [tag |-> <<>>, label |-> <<"l", "L", "q">>] >>

=============================================================================
