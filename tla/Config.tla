------------------------------- MODULE Config --------------------------------
(***************************************************************************)
(* The configuration of an incident (src/config/config.go): what a program *)
(* holds in config.C, what packet.conf holds in each incident directory,   *)
(* what $HOME/.packet holds for all of them, and the ICS-309 log that is   *)
(* generated from it.  The commands that change it are "edit config" and   *)
(* "set config", the editing of a message, any command that saves it for   *)
(* reasons of its own (show, bulletins, connect), "ics309" and "cd".  A    *)
(* program may stop between any two file operations and in the middle of   *)
(* one; os.WriteFile empties the file before it writes.                    *)
(*                                                                         *)
(* Of the settings, op stands for those that are saved in both files (call *)
(* sign, BBS, password), name for those of the incident alone.             *)
(***************************************************************************)
EXTENDS Naturals, FiniteSets

CONSTANTS
    Dir,            \* the incident directories
    OpValue,        \* what op may be set to
    NameValue,      \* what name may be set to
    Empty,          \* "", which is not written to a file (omitempty)
    MaxFaults       \* bound on stops and failed writes

ASSUME DirAssumption == "" \notin Dir
ASSUME EmptyAssumption == Empty \notin OpValue \cup NameValue
ASSUME FaultAssumption == MaxFaults \in Nat

VARIABLES
    conf,           \* packet.conf of each directory
    home,           \* $HOME/.packet
    ics309,         \* the name on the ICS-309 log of each directory
    dir,            \* the directory of the running program, "" when there is none
    op, name,       \* config.C
    pc,             \* what the program is at
    after,          \* what it does when the configuration is saved
    accepted,       \* history: the name last confirmed in each directory
    doubtful,       \* history: the directories where, since the last confirmed edit, a
                    \* value was given and not confirmed, a fault struck, or a program
                    \* came that had read another directory's configuration
    faults          \* history: how many faults there were

program == <<dir, op, name, pc, after>>
files   == <<conf, home, ics309>>
history == <<accepted, doubtful, faults>>
vars    == <<files, program, history>>

-----------------------------------------------------------------------------

Ops == OpValue \cup {Empty}
Names == NameValue \cup {Empty}

\* A file that is not there, and one that was emptied and not written.
Absent == [op |-> Empty, name |-> Empty, state |-> "absent"]
Torn   == [Absent EXCEPT !.state = "torn"]

\* What a file of settings tells: Decode leaves what it does not mention.
\* Neither an absent nor a torn file mentions anything.
File == {Absent, Torn} \cup [op : Ops, name : Names, state : {"written"}]

PC == {"down", "prompt", "edit", "save", "saveHome"}
After == {"prompt", "remove", "generate"}

NoLog == "none"

TypeOK ==
    /\ conf \in [Dir -> File]
    /\ home \in File
    /\ ics309 \in [Dir -> Names \cup {NoLog}]
    /\ dir \in Dir \cup {""}
    /\ op \in Ops /\ name \in Names
    /\ pc \in PC
    /\ after \in After
    /\ pc # "down" <=> dir \in Dir
    /\ accepted \in [Dir -> Names]
    /\ doubtful \subseteq Dir
    /\ faults \in 0 .. MaxFaults

Init ==
    /\ conf = [d \in Dir |-> Absent]
    /\ home = Absent
    /\ ics309 = [d \in Dir |-> NoLog]
    /\ dir = "" /\ op = Empty /\ name = Empty
    /\ pc = "down" /\ after = "prompt"
    /\ accepted = [d \in Dir |-> Empty]
    /\ doubtful = {} /\ faults = 0

-----------------------------------------------------------------------------

\* config's init: the defaults, then the settings of the incident over them.
Start(d) ==
    /\ pc = "down"
    /\ dir' = d
    /\ op' = IF conf[d].op # Empty THEN conf[d].op ELSE home.op
    /\ name' = IF conf[d].name # Empty THEN conf[d].name ELSE home.name
    /\ pc' = "prompt" /\ after' = "prompt"
    /\ UNCHANGED <<files, history>>

Exit ==
    /\ pc' = "down"
    /\ dir' = "" /\ op' = Empty /\ name' = Empty /\ after' = "prompt"

Quit ==
    /\ pc = "prompt"
    /\ Exit
    /\ UNCHANGED <<files, history>>

\* doChdir, to a directory that is there or that it makes: config.C remains.
Chdir(d) ==
    /\ pc = "prompt"
    /\ d # dir
    /\ dir' = d
    /\ doubtful' = doubtful \cup {d}
    /\ UNCHANGED <<files, op, name, pc, after, accepted, faults>>

Save(then) ==
    /\ pc' = "save"
    /\ after' = then

-----------------------------------------------------------------------------
(* The commands.                                                           *)

EditConfig ==
    /\ pc = "prompt"
    /\ pc' = "edit" /\ after' = "remove"
    /\ UNCHANGED <<files, dir, op, name, history>>

\* A field is left: its value is in config.C at once.
EditField(o, n) ==
    /\ pc = "edit"
    /\ o = op \/ n = name
    /\ op' = o /\ name' = n
    /\ doubtful' = doubtful \cup {dir}
    /\ UNCHANGED <<files, dir, pc, after, accepted, faults>>

\* The last field is left, or ESC is pressed.
EditDone ==
    /\ pc = "edit"
    /\ Save(after)
    /\ accepted' = [accepted EXCEPT ![dir] = name]
    /\ doubtful' = doubtful \ {dir}
    /\ UNCHANGED <<files, dir, op, name, faults>>

\* Ctrl-C
EditAborted ==
    /\ pc = "edit"
    /\ pc' = "prompt" /\ after' = "prompt"
    /\ UNCHANGED <<files, dir, op, name, history>>

\* Mutant: the log is left.
SetNameOnly(n) ==
    /\ pc = "prompt"
    /\ name' = n
    /\ Save("prompt")
    /\ accepted' = [accepted EXCEPT ![dir] = n]
    /\ doubtful' = doubtful \ {dir}
    /\ UNCHANGED <<files, dir, op, faults>>

\* "set config" with a value that is valid, or is forced.
SetName(n) ==
    /\ pc = "prompt"
    /\ name' = n
    /\ Save("remove")
    /\ accepted' = [accepted EXCEPT ![dir] = n]
    /\ doubtful' = doubtful \ {dir}
    /\ UNCHANGED <<files, dir, op, faults>>

SetOp(o) ==
    /\ pc = "prompt"
    /\ op' = o
    /\ Save("remove")
    /\ UNCHANGED <<files, dir, name, history>>

\* "set config" with one that is not: "change not applied".
SetRejected(o, n) ==
    /\ pc = "prompt"
    /\ o = op \/ n = name
    /\ op' = o /\ name' = n
    /\ doubtful' = doubtful \cup {dir}
    /\ UNCHANGED <<files, dir, pc, after, accepted, faults>>

\* doEdit of a message (edit, new): SaveMessage removes the log, then what the
\* message says of its operator is kept in the configuration.
EditMessage(o) ==
    /\ pc = "prompt"
    /\ o # Empty
    /\ op' = o
    /\ ics309' = [ics309 EXCEPT ![dir] = NoLog]
    /\ Save("prompt")
    /\ UNCHANGED <<conf, home, dir, name, history>>

\* show of an unread message, bulletins, connect.
OtherSave ==
    /\ pc = "prompt"
    /\ Save("prompt")
    /\ UNCHANGED <<files, dir, op, name, history>>

Generated == ics309' = [ics309 EXCEPT ![dir] = name]

\* The ics309 command when there is a log shows it.  When there is none, it
\* asks for a name if it has none and there is a user to ask.
Ics309 ==
    /\ pc = "prompt"
    /\ ics309[dir] = NoLog
    /\ \/ /\ Generated
          /\ UNCHANGED <<conf, home, program, history>>
       \/ /\ name = Empty
          /\ pc' = "edit" /\ after' = "generate"
          /\ UNCHANGED <<files, dir, op, name, history>>

-----------------------------------------------------------------------------
(* SaveConfig, and what follows it.                                        *)

Settings == [op |-> op, name |-> name, state |-> "written"]

\* doEdit and cmdSet remove the log (RemoveICS309s) when the configuration is
\* saved; the ics309 command goes on to generate another.
LogAfterSave ==
    IF after = "prompt" THEN ics309[dir]
    ELSE IF after = "remove" THEN NoLog
    ELSE name

SaveConf ==
    /\ pc = "save"
    /\ conf' = [conf EXCEPT ![dir] = Settings]
    /\ pc' = "saveHome"
    /\ UNCHANGED <<home, ics309, dir, op, name, after, history>>

\* Mutant: the whole configuration is saved as defaults.
SaveHomeWhole ==
    /\ pc = "saveHome"
    /\ home' = Settings
    /\ pc' = "prompt" /\ after' = "prompt"
    /\ ics309' = [ics309 EXCEPT ![dir] = LogAfterSave]
    /\ UNCHANGED <<conf, dir, op, name, history>>

\* The reduced settings go to $HOME/.packet, and the command goes on.
SaveHome ==
    /\ pc = "saveHome"
    /\ home' = [Settings EXCEPT !.name = Empty]
    /\ pc' = "prompt" /\ after' = "prompt"
    /\ ics309' = [ics309 EXCEPT ![dir] = LogAfterSave]
    /\ UNCHANGED <<conf, dir, op, name, history>>

Fault ==
    /\ faults < MaxFaults
    /\ faults' = faults + 1
    /\ doubtful' = doubtful \cup {dir}
    /\ UNCHANGED accepted

\* A write fails after the file was emptied: the error is shown and all goes on.
WriteFails ==
    /\ Fault
    /\ \/ /\ pc = "save"
          /\ conf' = [conf EXCEPT ![dir] = Torn]
          /\ pc' = "saveHome"
          /\ UNCHANGED <<home, ics309, dir, op, name, after>>
       \/ /\ pc = "saveHome"
          /\ home' = Torn
          /\ pc' = "prompt" /\ after' = "prompt"
          /\ ics309' = [ics309 EXCEPT ![dir] = LogAfterSave]
          /\ UNCHANGED <<conf, dir, op, name>>

\* The program stops, maybe with a file emptied, maybe before RemoveICS309s.
Stop ==
    /\ pc # "down"
    /\ Fault
    /\ Exit
    /\ \/ UNCHANGED files
       \/ /\ pc = "save"
          /\ conf' = [conf EXCEPT ![dir] = Torn]
          /\ UNCHANGED <<home, ics309>>
       \/ /\ pc = "saveHome"
          /\ home' \in {Torn, [Settings EXCEPT !.name = Empty]}
          /\ UNCHANGED <<conf, ics309>>

Next ==
    \/ \E d \in Dir : Start(d) \/ Chdir(d)
    \/ Quit
    \/ EditConfig \/ EditDone \/ EditAborted
    \/ \E o \in Ops, n \in Names :
           EditField(o, n) \/ SetRejected(o, n)
    \/ \E n \in Names : SetName(n)
    \/ \E o \in Ops : SetOp(o) \/ EditMessage(o)
    \/ OtherSave \/ Ics309
    \/ SaveConf \/ SaveHome
    \/ WriteFails \/ Stop

Spec == Init /\ [][Next]_vars

-----------------------------------------------------------------------------
(* Properties.                                                             *)

AtRest == pc \in {"down", "prompt"}

\* The name that was last confirmed in a directory is the one its packet.conf
\* has, whichever commands of whichever incidents were run since, and whatever
\* faults struck in the others: the defaults they share (config.go:83-92,
\* 178-195) bring no name from one to another, and a confirmed edit repairs what
\* a fault had torn (edit.go:180, set.go:155).  Only values left unconfirmed, a
\* fault in this directory and a change to this directory undo it.
ConfirmedKept ==
    AtRest => \A d \in Dir \ doubtful : conf[d].name = accepted[d]

\* A log that the ics309 command would show without generating it anew has the
\* name the configuration has (ics309.go:42-51, edit.go:181, set.go:156).
LogHasCurrentName ==
    pc = "prompt" /\ dir \notin doubtful => ics309[dir] \in {NoLog, name}

\* edit.go:32: "Ctrl-C: abort the edit and do not save any changes", and
\* set.go:150: "change not applied".  So in a directory that a program never
\* leaves, and without a fault, only what was confirmed would be saved; but the
\* fields point into config.C, and the next command that saves it saves them.
OnlyConfirmedSaved ==
    AtRest /\ faults = 0 => \A d \in Dir : conf[d].name = accepted[d]

=============================================================================
