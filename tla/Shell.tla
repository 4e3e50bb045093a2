--------------------------------- MODULE Shell --------------------------------
(***************************************************************************)
(* The packet shell (src/cmd/cmd.go) and what its commands list: lines are *)
(* read and taken apart, and their commands run one after the other in one *)
(* program, each with its output on the terminal or redirected to a file.  *)
(* Beside each command, the same command as a program of its own is run    *)
(* ("packet list" instead of "packet" and then "list"), with the variables *)
(* of package cio as they are when a program starts, to say what the shell *)
(* must not change.                                                        *)
(***************************************************************************)
EXTENDS CommandLine

CONSTANTS
    Lines,          \* the lines that may be typed
    Fields,         \* the fields of a message, their tags and labels
    Buffer,         \* how many lines of output a CSV writer holds
    MaxRows,        \* bound on the messages one command lists
    MaxCommands     \* bound on the lines typed

ASSUME LineAssumption == Lines \subseteq Seq(Chars)
ASSUME FieldAssumption == Fields \in Seq([tag : Seq(Chars), label : Seq(Chars)])
ASSUME BoundAssumption == Buffer \in Nat /\ MaxRows \in Nat /\ MaxCommands \in Nat

VARIABLES
    pc,             \* at the prompt, or the command under way
    line,           \* the line that was read
    rows,           \* how many rows the command has listed
    OutputIsTerm,   \* as Detect left it
    \* The variables of package cio in the shell, and in a program of its own
    listCW,  listItemSeen,  haveStatus,  output,
    listCW0, listItemSeen0, haveStatus0, output0,
    \* History
    commands,       \* the lines typed so far
    unended,        \* the commands that listed messages and did not end the list
    spoiled,        \* those whose output was not what it is in a program of its own
    ended           \* the last one ended its list

here    == <<listCW, listItemSeen, haveStatus, output>>
alone   == <<listCW0, listItemSeen0, haveStatus0, output0>>
history == <<commands, unended, spoiled, ended>>
vars    == <<pc, line, rows, OutputIsTerm, here, alone, history>>

Here == INSTANCE Listing

Alone == INSTANCE Listing WITH
    listCW <- listCW0,
    listItemSeen <- listItemSeen0,
    haveStatus <- haveStatus0,
    output <- output0

-----------------------------------------------------------------------------

\* The commands that list messages, by the words for them.  "edit" stands for
\* new as well, "queue" for draft.  Of the others, none lists anything.
CommandOf ==
    [w \in {<<"l">>, <<"q">>, <<"e">>, <<"c">>} |->
        CASE w = <<"l">> -> "list" [] w = <<"q">> -> "queue"
          [] w = <<"e">> -> "edit" [] OTHER -> "connect"]

Commands == {"list", "queue", "edit", "connect"}

Output == {<<"row", i>> : i \in 1 .. MaxRows} \cup {<<"header">>, <<"no messages">>}

IsWriter(w) ==
    /\ w \in [to : {"none", "own", "closed"}, held : Seq(Output)]
    /\ w.to = "none" <=> w.held = <<>>

TypeOK ==
    /\ pc \in Commands \cup {"prompt", "read", "close", "closed"}
    /\ line \in Lines \cup {<<>>}
    /\ rows \in 0 .. MaxRows
    /\ OutputIsTerm \in BOOLEAN
    /\ pc \in {"prompt", "read"} => OutputIsTerm
    /\ IsWriter(listCW) /\ IsWriter(listCW0)
    /\ {listItemSeen, haveStatus, listItemSeen0, haveStatus0} \subseteq BOOLEAN
    /\ output \in Seq(Output) /\ output0 \in Seq(Output)
    /\ commands \in Nat /\ unended \in Nat /\ spoiled \in Nat
    /\ ended \in BOOLEAN

Init ==
    /\ pc = "prompt" /\ line = <<>>
    /\ rows = 0
    /\ OutputIsTerm = TRUE
    /\ Here!Fresh /\ Alone!Fresh
    /\ commands = 0 /\ unended = 0 /\ spoiled = 0 /\ ended = FALSE

\* ReadCommand; cleanTerminal takes off what is left of a status line.
ReadLine(l) ==
    /\ pc = "prompt"
    /\ commands < MaxCommands
    /\ pc' = "read"
    /\ line' = l
    /\ commands' = commands + 1
    /\ haveStatus' = FALSE
    /\ UNCHANGED <<rows, OutputIsTerm, listCW, listItemSeen, output, alone, unended,
                   spoiled, ended>>

\* The words of the line without redirections, and without "packet" in front.
Args ==
    LET args == parseCommandLine(line).args
    IN  IF args # <<>> /\ args[1] = <<"p">> THEN Tail(args) ELSE args

ListsMessages == Args # <<>> /\ Args[1] \in DOMAIN CommandOf

\* The line is in error, is empty, is another command's, or has a file that
\* cannot be opened.
Pass ==
    /\ pc = "read"
    /\ LET p == parseCommandLine(line)
       IN  ~p.ok \/ p.in \/ p.out \/ ~ListsMessages
    /\ pc' = "prompt"
    /\ line' = <<>>
    /\ UNCHANGED <<rows, OutputIsTerm, here, alone, history>>

\* Standard output is what the line says; edit needs a terminal on both sides.
Begin ==
    /\ pc = "read"
    /\ LET p == parseCommandLine(line)
       IN  /\ p.ok /\ ListsMessages
           /\ pc' = CommandOf[Args[1]]
           /\ pc' = "edit" => ~p.in /\ ~p.out
           /\ OutputIsTerm' = ~p.out
    /\ line' = <<>>
    /\ rows' = 0
    /\ output' = <<>>
    /\ UNCHANGED <<listCW, listItemSeen, haveStatus>>
    /\ Alone!Restart
    /\ ended' = FALSE
    /\ UNCHANGED <<commands, unended, spoiled>>

\* One row.  queue, draft, edit and new list the message they are about; queue
\* and draft without a header.
Row ==
    /\ pc \in Commands
    /\ ~ended
    /\ rows < MaxRows
    /\ pc \in {"queue", "edit"} => rows = 0
    /\ rows' = rows + 1
    /\ Here!ListMessage(<<"row", rows'>>, pc # "queue")
    /\ Alone!ListMessage(<<"row", rows'>>, pc # "queue")
    /\ UNCHANGED <<pc, line, OutputIsTerm, history>>

\* connect tells what it is doing.
ShowStatus ==
    /\ pc = "connect"
    /\ ~ended
    /\ Here!Status(TRUE) /\ Alone!Status(TRUE)
    /\ UNCHANGED <<pc, line, rows, OutputIsTerm, history>>

\* list and connect end their list when nothing fails.
End ==
    /\ pc \in {"list", "connect"}
    /\ ~ended
    /\ ended' = TRUE
    /\ Here!EndMessageList /\ Alone!EndMessageList
    /\ UNCHANGED <<pc, line, rows, OutputIsTerm, commands, unended, spoiled>>

\* The deferred closing of the connection, whatever happened in it.
Close ==
    /\ pc = "connect"
    /\ pc' = "close"
    /\ Here!Status(TRUE) /\ Alone!Status(TRUE)
    /\ UNCHANGED <<line, rows, OutputIsTerm, history>>

\* The deferred Status("") of cmdConnect.
ClearStatus ==
    /\ pc = "close"
    /\ pc' = "closed"
    /\ Here!Status(FALSE) /\ Alone!Status(FALSE)
    /\ UNCHANGED <<line, rows, OutputIsTerm, history>>

\* The command returns, with or without an error, and the shell puts standard
\* output back.
Return ==
    /\ pc \in {"list", "queue", "edit", "closed"}
    /\ pc' = "prompt"
    /\ OutputIsTerm' = TRUE
    /\ Here!CloseOutput /\ Alone!CloseOutput
    /\ unended' = IF rows > 0 /\ ~ended THEN unended + 1 ELSE unended
    /\ spoiled' = IF output # output0 THEN spoiled + 1 ELSE spoiled
    /\ UNCHANGED <<line, rows, commands, ended>>

Next ==
    \/ \E l \in Lines : ReadLine(l)
    \/ Pass \/ Begin
    \/ Row \/ ShowStatus \/ End \/ Close \/ ClearStatus \/ Return

Spec == Init /\ [][Next]_vars

-----------------------------------------------------------------------------
(* Properties.                                                             *)

\* A command that lists messages and does not end the list spoils the output of
\* one later command and no more: what it leaves behind is used up by it.
SpoilsAtMostOne == spoiled <= unended

\* A command that ends its list, in a program of its own, has put on its output
\* the header and every row, in order, or the words for no messages.
CompleteWhenEnded ==
    pc = "prompt" /\ ended =>
        output0 = IF rows = 0 THEN << <<"no messages">> >>
                  ELSE << <<"header">> >> \o [i \in 1 .. rows |-> <<"row", i>>]

\* The words of a line, its quotes and its redirections are found as they stand
\* when there is a space in front of each redirection (cmd.go:368-421).
WordsWhenSpaced == pc = "read" /\ Spaced(line) => tokenizeLine(line) = Words(line)

\* A name that is no field's tag or label stands for the field whose label takes
\* least to be shortened to it, capitals first; the first one of several
\* (cmd.go:212-317).
FieldOfLeastCost ==
    pc = "read" =>
        \A i \in DOMAIN tokenizeLine(line) :
            LET w     == tokenizeLine(line)[i]
                field == expandFieldName(Fields, w, TRUE)
            IN  \/ \E f \in DOMAIN Fields :
                      \/ w = Fields[f].tag
                      \/ Alike(Fields[f].label, w, w) \/ Alike(Unspaced(Fields[f].label), w, w)
                \/ IsLeast(Fields, w, field)
                \/ field = 0 /\ \A f \in DOMAIN Fields : Shortenings(Fields[f].label, w) = {}

-----------------------------------------------------------------------------
(* What the documentation says, and the code does not keep to.             *)

\* README.md:30-45: commands can be run "one at a time as arguments to the packet
\* shell" or in the shell, and "The result is the same either way."
SameEitherWay == pc = "prompt" => output = output0

\* topics.go:80: when standard output is not a terminal, "Commands that normally
\* produce tables will produce CSV output."
TablesAsCSV == pc = "prompt" /\ output0 = <<>> => rows = 0

\* cmd.go:369-371: "It treats unquoted <, >, and >> as separate words even when
\* not surrounded by whitespace."  Without a space in front they are, but the
\* word before them is dropped.
WordsKept == pc = "read" => tokenizeLine(line) = Words(line)

=============================================================================
