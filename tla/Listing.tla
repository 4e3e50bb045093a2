-------------------------------- MODULE Listing -------------------------------
(***************************************************************************)
(* The list of messages that a command prints (src/cio/msglist.go), and    *)
(* the status line it may show meanwhile (src/cio/status.go): a table on a *)
(* terminal, CSV through a buffered writer otherwise.  These variables     *)
(* live as long as the program, which may be many commands: see Shell.     *)
(***************************************************************************)
EXTENDS Naturals, Sequences

CONSTANT Buffer         \* how many lines the writer holds before it writes

VARIABLES
    OutputIsTerm,
    listCW,             \* the writer: whose output it writes to, and what it holds
    listItemSeen,
    haveStatus,
    output              \* the lines this command has put on its standard output

NoWriter == [to |-> "none", held |-> <<>>]

Fresh ==
    /\ listCW = NoWriter
    /\ listItemSeen = FALSE
    /\ haveStatus = FALSE
    /\ output = <<>>

\* A program that starts.
Restart ==
    /\ listCW' = NoWriter
    /\ listItemSeen' = FALSE
    /\ haveStatus' = FALSE
    /\ output' = <<>>

\* What a writer writes arrives when its file is still open: that of the command
\* under way is, those of earlier commands are not.
Arriving(lines) == IF listCW.to = "own" THEN lines ELSE <<>>

HeaderIf(p) == IF p THEN << <<"header">> >> ELSE <<>>

Put(lines) == output' = output \o lines

listMessageTable(row, header) ==
    /\ Put(HeaderIf(~listItemSeen /\ header) \o <<row>>)
    /\ listItemSeen' = TRUE
    /\ haveStatus' = FALSE
    /\ UNCHANGED listCW

\* Mutant: every row makes a writer of its own.
listMessageCSVNew(row, header) ==
    /\ listCW' = [to |-> "own", held |-> HeaderIf(header) \o <<row>>]
    /\ UNCHANGED <<listItemSeen, haveStatus, output>>

listMessageCSV(row, header) ==
    LET to  == IF listCW = NoWriter THEN "own" ELSE listCW.to
        new == HeaderIf(listCW = NoWriter /\ header) \o <<row>>
    IN  /\ IF Len(listCW.held \o new) > Buffer
           THEN /\ listCW' = [to |-> to, held |-> new]
                /\ Put(Arriving(listCW.held))
           ELSE /\ listCW' = [to |-> to, held |-> listCW.held \o new]
                /\ UNCHANGED output
        /\ UNCHANGED <<listItemSeen, haveStatus>>

ListMessage(row, header) ==
    IF OutputIsTerm THEN listMessageTable(row, header) ELSE listMessageCSV(row, header)

EndCSV ==
    /\ Put(Arriving(listCW.held))
    /\ listCW' = NoWriter
    /\ UNCHANGED <<listItemSeen, haveStatus>>

\* Mutant: the next table starts as if it were the rest of this one.
EndTableNot ==
    /\ Put(IF listItemSeen THEN <<>> ELSE << <<"no messages">> >>)
    /\ haveStatus' = FALSE
    /\ UNCHANGED <<listCW, listItemSeen>>

EndTable ==
    /\ Put(IF listItemSeen THEN <<>> ELSE << <<"no messages">> >>)
    /\ listItemSeen' = FALSE
    /\ haveStatus' = FALSE
    /\ UNCHANGED listCW

EndMessageList == IF listCW # NoWriter THEN EndCSV ELSE EndTable

Status(shown) ==
    /\ haveStatus' = (OutputIsTerm /\ shown)
    /\ UNCHANGED <<listCW, listItemSeen, output>>

\* The standard output of the command is closed (or is the terminal).
CloseOutput ==
    /\ listCW' = [listCW EXCEPT !.to = IF @ = "own" THEN "closed" ELSE @]
    /\ UNCHANGED <<listItemSeen, haveStatus, output>>

=============================================================================
