# The packet shell, specified and verified

This directory specifies the packet shell (`src/`), a command line program for
amateur radio operators who exchange messages through a JNOS BBS, in TLA+. TLC
checks the specifications on small instances; TLAPS proves theorems about them
for instances of any size. Paths such as `connect.go:318` are below `src/cmd`
or `src/cio`; `PROJECT.json` maps each definition to the lines it models.

## 1. The system

An *incident* is a directory. It holds a file for each message
(`<local message ID>.txt`), one for each delivery receipt, the ICS-309 log that
is generated from the messages, and `packet.conf`. A program (`packet`) runs
one command, or a shell that reads commands; each command reads the files it
needs, acts, and writes them. There are no locks, no transactions and one
sequential flow of control. Concurrency comes from outside: the BBS and other
stations, the user's Ctrl-C (a buffered channel that `connect` looks at between
operations), the end of the program at any point, and other programs.

| Component | State | Operations | What makes it correct |
|---|---|---|---|
| BBS connection, `connect.go` | messages to send, receive level, areas to check, Ctrl-C channel | send, save, list, read, record, receipt, kill, check area | no message is lost either way; repeated only after a failure; receipt before kill; Ctrl-C lets one operation be completed at most; a session ends |
| Bulletin schedule, `bulletins.go`, `connect.go` | area → frequency, last check | schedule, `--now`, `--stop`, choose, check | a check counts only when what was listed was retrieved; no area is checked too often or passed over |
| Configuration, `config.go` | `config.C`, `packet.conf`, `$HOME/.packet` | read at start, save | what was confirmed is in the file, and only that; incidents share defaults only |
| Message files: `new`, `edit`, `set`, `queue`, `draft`, `delete` | the files; the message in memory | create, change, change ID, queue, remove | sent and received messages are final; nothing is lost or overwritten; one file each |
| Edit form, `edit.go`, `editfield.go` | the field, validity, ready to send | next, previous, done, abort; question about queueing | only valid messages are queued by it, only on the user's word; it can be left |
| Line editors, `cmdline.go`, `ed-*.go` | value, cursor, selection, history | one per key | cursor and selection stay in the text; a change is noticed; history is kept |
| Directories, ICS-309: `chdir.go`, `ics309.go` | current directory, the log | `cd`, generate, remove | a log that is shown has the current header |
| Views: `show`, `list`, `pdf`, `dump` | the unread flags | show | NEW until read |
| Shell: `cmd.go`, help, topics, `packet/main.go` | redirections, whether output is a terminal | read a line, split, redirect, dispatch | the words of a line and the field of a name are those meant; a command does what it does alone |
| Message lists: `msglist.go`, `status.go` | CSV writer, row seen, status shown | row, end, status | a list is complete and its own |
| Terminal output: `ansi.go`, `screenbuf.go`, the drawing of the editors | beliefs about cursor, color and frame | clear, print, paint, move | the screen shows what the program believes |

The components meet in the files (`connect`, the message commands and
`ics309` on the messages; nearly all of them in `packet.conf`), in `config.C`
(`connect` sets unread flags and check times; `edit` keeps operator names), and
by calls (the commands call the form, the form the line editors; all of them the
message lists and the terminal, whose variables live as long as the program,
which in a shell is many commands). The message
library `github.com/rothskeller/packet` (file names, IDs, JNOS dialogue) is
outside the repository; it is modelled from how it is called, and its
definitions are marked external.

What is hard here is what happens *between* two steps: the BBS has a message
and the file does not say so; a file is removed and its successor not yet
written; a setting is in memory and not accepted; a list of numbers is read and
mail keeps arriving; one command leaves a writer or a flag behind for the next.
`PROJECT.json` lists 40 such hazards with their lines.

## 2. The modules

| Module | Models | Actions correspond to |
|---|---|---|
| `Custody` | what a store-and-forward hop promises: a source lets go only of what the destination has | - (abstract) |
| `BulletinChecks` | what the schedule of bulletin checks promises, whatever intervals and clock | - (abstract) |
| `Connection` | `connect.go`, `bulletins.go`, the unread flags and schedules of `config.go`, `show` | each BBS or file operation of a session, in program order by `pc`; commands between sessions; faults; the world |
| `Schedule` | `bulletins.go` with its flags, what `connect` checks and the times it notes | the command, a connection and its checks, saves that fail, the clock, stops and starts |
| `Incident` | the message files and the commands on them | each file operation of each command; a message held in memory between reading and writing |
| `EditForm` | the loop of `doEdit` and `editField` | a field rejected, accepted, the question answered, Ctrl-C |
| `LineEditor` | the four key-by-key editors | one action per key and mode |
| `Config` | settings in memory, in two files and on the log | the commands that change or save them; the two writes of `SaveConfig` apart |
| `CommandLine` | `tokenizeLine`, `parseCommandLine`, `expandFieldName`; what their results should be, by other definitions | - (operators) |
| `Listing` | `msglist.go`, `status.go` | a row, the end of a list, a status, the close of the output |
| `Shell` | the loop of `cmd.go` over `CommandLine`, with two instances of `Listing` | a line read, refused or begun; what its command lists; its return |
| `VT` | a character terminal that obeys the sequences of `ansi.go` | - (external) |
| `Terminal` | `ansi.go`, `screenbuf.go` and the drawing of command line, modes and messages | each drawing between two keys; what is printed in between |
| `ConnectionProofs`, `ScheduleProofs`, `IncidentProofs`, `EditFormProofs`, `LineEditorProofs`, `ConfigProofs`, `ShellProofs`, `TerminalProofs` | theorems | |
| `MCConnection`, `MCLineEditor`, `MCShell`, `MCTerminal` | values for the constants | |

**Connection.** A session is a sequence of program points. `dial` is
`telnet.Connect`/`kpc3plus.Connect`; `send` is the top of `sendMessage`,
`sending` and `sent` are before `conn.Send` and between it and `SaveMessage`;
`immediate` lists the mailbox; `next` is the top of `receiveMessage`, `reading`
is before `conn.Read`, and `receipt`, `receipting`, `receipted` and `kill` are its
later steps; `areas` and `list` are `receiveBulletins` and `bulletinsToFetch`;
`close` is `conn.Close`. `NotInterrupted` is the `checkSigInt` in front of sending,
reading and sending a receipt, and a step of its own: a Ctrl-C may come after it,
while the BBS is busy, and `late` counts what still goes through. `save` and
`writing` are the two halves of `os.WriteFile` in `SaveConfig`, for every command
that saves: `OpenConfig` leaves `packet.conf` empty, and `WriteConfig` fills it; a
stop or a failed write between them leaves it `torn`, and a torn file is read as no
settings. `Enter` is `cd` from another incident, with whatever flags and schedule
its program had (`Elsewhere`); until it has saved, the program is `away`. The mailbox is numbered
when a session starts, and a message that arrives takes the next number. An
operation may be refused with no effect (`OperationFails`), carried out and
reported as failed (`SendUnconfirmed`, `ReceiptUnconfirmed`,
`KillUnconfirmed`), the link may drop (`ConnectionFails`), and the program may
end at any point (`Crash`), losing its memory but not its files. Bulletins are
identified, as in the code, by the subject the BBS lists.

**Custody and its refinement.** `Connection` instantiates `Custody` twice:
outgoing messages, from the incident (until marked sent) to the BBS, and
incoming ones, from the BBS (until killed) to the incident. `OutgoingCustody`
and `IncomingCustody` say that `Connection` implements both, and are both
checked by TLC and proved.

**BulletinChecks, twice implemented.** `Connection` sees of an area's schedule
only whether it has none, is to be checked once, or is checked at intervals with
a check due or not; time makes checks due. Every save may leave nothing on disk
(`Off`), and a program that comes from another incident brings a schedule
(`Brought`). `Schedule` has the frequency, the
last check and a clock, the command's flags and what they do to new and old
areas, and sees of a session only which areas it checks. Both implement
`BulletinChecks` (`ImplementsChecks` in each), so what `Connection` takes the
command and the clock to do is what they do.

**Incident.** A message is an identity with the fields the commands look at: the
origin message ID inside it and its status. Local message IDs are their
sequence numbers; `UniqueMessageID` takes the next free one. `edit` removes the
old file and then saves the new one, `set` does it the other way round, and the
model has both orders. A write may fail and a program may stop after each step.
`Process` allows several programs, of which the runs use one (see section 6).

**EditForm.** Of a value the form sees only whether its field is valid; entering
one may make any other field valid or invalid, as the dependent fields of real
forms do. The field `Queue for Sending?` comes last, and its `EditSkip` has the
side effects it has in the code: it takes an invalid message out of the queue,
and sets the default of the question.

**LineEditor.** Keys act on offsets as in the code, with lines as `wrap` makes
them. Each key is first drawn for: where `splitOnSelect`'s assertion or a slice
would fail, the action `Panic` ends the behaviour. A field may have any of several
lists of choices (`ChoiceLists`). `Matches` is the loop of `autocomplete`: it finds
the choices that go on with what was typed regardless of case (`EqualFold`) and cuts
at the first difference with regard to it, so the completion may end before the cursor.
Where `diffindex` finds no difference its index is out of bounds, and `CompletionFails`
stops the program. `Typed` are the letters that are typed, a bound for TLC.

**Config.** Two settings stand for all: `op`, saved in both files, and `name`,
saved in `packet.conf` alone. `SaveConf` and `SaveHome` are the two writes;
either may fail or be cut short with the file emptied, as `os.WriteFile`
leaves it. `accepted` and `doubtful` are history variables: the last confirmed
name of each directory, and the directories where something has since been left
unconfirmed, hit by a fault, or brought along by `cd`.

**Shell, Listing, CommandLine.** A line is a sequence of characters, split and
parsed as the code does it. Of the commands only what they list matters: any
number of rows, with or without a header, ended or not, on a terminal or
redirected. `Listing` has the variables of package `cio` that outlive a command;
`Shell` has them twice, as they are in the shell (`Here`) and as they are when
each command is a program of its own (`Alone`), and compares the two outputs. A
CSV writer is known by whose output it writes to; one left from an earlier
command writes to a file that is closed.

**Terminal, VT.** `cio` holds what package `cio` believes of the screen, and in
`cio.vt` the terminal it writes to; what a drawing writes acts on that terminal at
once, by an operator of `VT` for each sequence of `ansi.go`. Characters are any
set, of which one is the blank. A line that is painted is written one character at
a time, in the columns `paintBuf` chooses: within a run the code neither moves the
cursor nor sets the color again, and here both write nothing. `frame`, `cursor`
and `log` say what should be seen, without reference to what was painted before:
the rows that stay, below them the frame or status, and nothing else. Rows that
have scrolled away are kept in the terminal, so that painting over them would show.

## 3. The runs

| Run | Checks | Result |
|---|---|---|
| `session` | receipt before kill, repetition only after a failure, bulletins once; one operation at most after Ctrl-C; `--immediate`; NEW flags that were saved stay in `packet.conf`, unless it is torn or replaced from elsewhere; an area checked only when retrieved; both hops of `Custody`, and `BulletinChecks` | hold |
| `session_live` | a session ends; queue, mailbox and due areas are drained | hold |
| `session_immediate` | `--immediate` sends all queued immediate messages | **violated**: the scan returns at the first other message |
| `incident` | final messages, nothing lost or overwritten, one file each, filed by origin ID, sent again only after a failure | hold |
| `form` | who is asked, who is queued, validity at the end; the form ends | hold |
| `form_errors` | `--errors` edits only fields with errors | **violated**: the test is inverted |
| `editor` | types, selection in the text, changes noticed, history kept | hold |
| `editor_panic` | no keys stop the program | **violated**: Shift keys turn a selection round |
| `config` | confirmed names kept, logs current | hold |
| `schedule` | no area too often, none left due; `BulletinChecks` | hold |
| `shell` | a list that is not ended spoils one later output at most, one that is ended is complete; words and field names as a reference definition has them | hold |
| `terminal` | types; the screen shows what was printed and the frame, the cursor is in its place | hold |

The types of the other modules are proved (section 4) and not checked again.
Each violated property states what a comment, help text or assertion of the
repository says; the findings in `PROJECT.json` quote it and give the line.

**Bounds, and why they are enough.**
`session` has two outgoing messages, one of them immediate and one that cannot be
sent; a delivery receipt that arrives; an immediate message that calls for a
receipt; a bulletin; one fault and one Ctrl-C in the history. One message of each
kind that the code tells apart is there, and two where order or numbers matter; sessions follow each other
without limit. One fault suffices to separate any two steps, and the bounds in
the properties (`1 + faults`) are proved for any number.
A program that comes from another incident brings a flag and a schedule of its own.
`session_live` has one of each, as a message does not wait for another but by
the loops the safety runs cover.
`incident` has three messages, four IDs and two faults: an ID that is taken, the
next free one, and a message moved onto each.
`form` has four fields of which one is skipped: a first, a last, one between, and one
passed over.
`editor` has one letter in two cases, of which one is typed, blank and newline, values up to four characters and lines of
three columns, so that values wrap at blanks and within words; three command
lines for the history; `MaxDrift` lets a turned selection leave the text by one. One list
of choices begins alike in the same case; another has two choices that differ in case,
and one that is what two listed before it have in common.
`schedule` has two areas, so that one may be due and the other not; intervals of one
and two, a clock that passes both twice, and one save that fails.
`shell` reads every line of up to four of the six characters the parsers tell apart, and
longer ones for what takes more (two redirections, both quotes); a writer that holds three
lines, so that a list of three rows with its header goes beyond it; three commands: one that
leaves something, one that is spoiled, and one after that.
`terminal` has ten columns and three rows, frames of up to three rows, and texts that are
empty, differ in one character, in two places closer and further apart than `Gap` (three, for
the seven of the code), or fill the line; every row of the screen to start in, so that frames
scroll.
`config` has two directories, two names and two faults: one to tear a file, one to hit
the repair.

**Fairness.** `SessionEnds` assumes `WF_vars(SessionStep)`: `run` is one sequential
flow that nothing but the BBS holds up, and a BBS that never answers is one of
the failures. The other three also assume a user who keeps going (`PersistentUser`:
weak fairness of starting the program, strong fairness of a plain `connect`, as other commands may
come in between); without one nothing is ever sent. `QueueDrains` is checked
with `Unsendable = {}`: a message with an address that does not parse holds up
the ones after it, and reception, until the user unqueues it.
`FormEnds` is for users who in the end only press Tab, and states that as its
premise. `EditForm` and `LineEditor` really stop when the form or field is left, so
these runs do not check for deadlock; nor do `shell` and `terminal`, whose bounds on
commands and rows end every behaviour. `Connection`, `Incident`, `Config` and
`Schedule` never stop.

## 4. What is proved

`ConnectionProofs`, for any messages, areas and numbers of faults and Ctrl-Cs,
from the assumptions on the constants only. The inductive invariant `IInv`
adds to the types: the listing numbers messages of the area the session is in,
each once (`ListingInv`); a private message that is still to be received is
still at the BBS, and a bulletin that is was never recorded (`PendingInv`);
what has been done for the message in hand at each program point
(`CurrentInv`); what has left the BBS was recorded and receipted (`GoneInv`);
and an account of each copy, receipt and record, by the step that is under way or
by a fault (`SendInv`, `ReceiptInv`, `RecordInv`). None of the checked
invariants is inductive without these, since they do not tell what the
program point implies for the message in hand. From it follow `TypeCorrect`,
`KilledOnlyWithReceipt`, `NoNeedlessResending`, `NoNeedlessReceipt`,
`NoNeedlessRecording` (together `NoNeedlessRepetition`), `NoBulletinTwice`, and
the two refinements `OutgoingRefinement` and `IncomingRefinement`: each step of
`Connection` is a step of `Custody` or a stutter. Five further invariants
are for the other properties: the areas still to be checked were due when the session
began (`SchedInv`), and each bulletin listed is either still to be received or
retrieved (`FetchInv`), which give `CheckedWhenRetrieved` and `ChecksRefinement`;
with `--immediate` only immediate messages are left to be sent or have a number
to be received (`ModeInv`: `ImmediatesOnly`); a running program that was started here,
or has saved here, knows each flag that should be on disk, and writes no file that
lacks one (`FlagInv`: `UnreadKept`). `LateInv` is for `InterruptHeeded`: nothing has
gone through since a Ctrl-C when an operation of the BBS is begun, and what goes through
later leaves the Ctrl-C waiting, so that the next look finds it.

`ScheduleProofs`, for any areas, intervals and bounds: types, `IntervalsKept`,
`DueAreasChecked` and `ScheduleRefinement`. The invariant says that an area to be
checked once never was (`OnceUnchecked`); that what a connection has left to
check is due and what it has not is not (`TodoDue`, `OthersKept`); and that the
times in memory, and while no program runs those on disk, are the true ones
except where the user gave a schedule since (`TrueTimes`). While a program runs
whose save failed, the times on disk are not; when it stops, the history
variable `asked` takes up those areas.

`IncidentProofs`: types for any number of messages and of programs; for one program in the
directory and any number of messages, IDs and faults, `FinalKept`,
`NoOverwriting`, `FiledUnderOrigin`, `FiledOnce` and `NoMessageLost`. What is in
memory is a claim about the directory made earlier, and `ProgramInv` says at
which steps it still holds: the file that was read still has the message, unsent;
the ID that was found is still free, or the message's own (`HeldInv`); a message
has two files only between the steps of `set` (`OneInv`) and none only between those of
`edit` (`LossInv`). `SentAgainOnlyAfterFault` needs an account of what may yet
be sent: the files in which a message is unsent and the form that will be saved
with it (`Places`), without the file that a step under way is about to replace or
remove. Their number and the number of sendings together are at most `1 + faults`
(`SendInv`): every command that goes through adds a place only where it takes one
away, a fault between the two writes of `edit` or `set`, or after sending, is what
leaves one too many. With two programs `HeldInv` is false, and so are the
theorems (section 6). That `UniqueMessageID` finds an ID rests on the least
element of a set of numbers (`Least`).

`EditFormProofs`, for any number of fields: types; the question about queueing is
asked only of a valid message not yet in the queue; nothing is queued without a
yes; a form left past its last field leaves no invalid message queued. `ReadyInv`
adds what the question rests on: whether `ready` is the old value or an answer.

`LineEditorProofs`, for any text, choices, widths and keys: types, a changed field
counts as changed (`ChangesNoticed`) and entered command lines stay (`LinesKept`);
each key is classed by what it may do (`FieldKey`, `CommandKey`, `Moves`), and
these invariants follow from the classes. `SelectionKept` is `SelectionInText`:
`EditorInv` says that the selection of a field lies in the text with the cursor
at one of its ends (`Forward`), or runs backwards from the end of the text in the
one way Shift-End after a trailing newline brings about (`Turned`), from which
no key leads into a selection that runs forwards and out of the text; and of the
command line, whose selection may leave the text, what keeps its cursor in it
(`CommandInv`). What the arrow keys need of `wrap` is only that its lines start
at increasing offsets that cover the text; that is shown of the recursive
`Offsets` by an argument about a least counterexample (`Least`).
`SelectionKept` is for choices that agree in case as far as they begin alike
(`CasesAgree`), as a completion is then no shorter than what was typed: the loop of `autocomplete` keeps a
string that begins with it (`MatchesFound`, `MatchesBegin`, `CompletionContinues`).
`StopsOnlyBackwards` says that with such choices, of which none begins one that is
listed before it (`ShorterFirst`, so that a place to cut is found:
`ShorterFirstCompletes`), the violation that `editor_panic` finds is the only one: the
editor of a field stops the program only among several lines, and only in a `Turned`
selection. Without `CasesAgree` there is `EntryKept` (section 6).

`ConfigProofs`, for any directories, settings and faults: types, confirmed names
kept, logs current. The properties speak of a program at rest; `Confirmed`
says for each step of the saving what memory, file and log have.

`ShellProofs`, for any lines, writer, rows and commands: types, `SpoiledByUnended` and
`ListedInFull`. `LeftoverInv` keeps accounts: outputs spoiled so far, and a
writer or table left over that will spoil one more, come to no more than the
lists that were not ended. `AloneInv` says what a command has put out and what
its writer still holds.

Of the lines that are typed, `ShellProofs` has `WordsWhenSpaced`
and `FieldOfLeastCost`, for lines and names of any length and any number of
fields. The code cuts a line at the next special character; `Words` reads it one
character at a time. That both give the same words is shown from the end of the
line backwards (`CarriedAll`): wherever the code stands in a line, with the words
so far and the part of one it holds (`Stands`), reading on from there gives what
`words` gives. For `matchFieldName`, `MatchRight` says of each call that its result
is the cost of a way to shorten the rest of the name, and that no way costs less;
a way for a name is one for its tail with the first letter kept or left out
(`TakeDown`, `SkipDown`, `TakeUp`, `SkipUp`), and costs accordingly (`MovedOut`).
That `words` and `match` satisfy their recursive equations at all (`WordsRecursion`,
`MatchRecursion`) is proved too, from functions that satisfy them up to a length
(`GivesWords`, `GivesMatch`). All inductions are by a least counterexample.

`TerminalProofs`, for a screen of any size, any set of characters, any texts
printed, any `Gap`, and any prompt, label, choices and values that fit on the screen:
types, `ScreenShown` and `CursorShown`. None of them is inductive, since they do not say that the
program knows what it needs for the next difference. `Inv` adds this in each mode:
the color last set is the one the terminal writes in, or is taken for unknown
(`PenKnown`); cursor and rows are where they are believed to be, counted from the
first row below what stays (`Synced`); the buffer painted last is what the screen shows
(`Drawn`), begins with the prompt in the command line (`Prompted`), or there is
none and the screen shows the choices with one selected (`Chosen`); and in the shell
there is at most one row to clear, that of the status (`AtShell`). A line is painted
by its differences, and `PaintBuf` says that any frame is made of any other that way:
after each column the row shows the new line up to there and the old one beyond
it. For printed lines `Lined` says where in which row a text that may wrap has
ended, so that the newline after it, or after exactly a full row, begins the next row
and no blank one. What is assumed is that frames are no taller than the screen and
texts in them no wider (`FrameAssumption`, `TextAssumption`), and that choices stand
in the order of reading and apart (`OfferedAssumption`), as `choicesLayout` places
them; section 6 has what is without them.

No theorem assumes more than the named assumptions on the constants, and those of
`Incident` on properties that there is one program.

## 5. What is only model-checked

- Liveness (`SessionEnds`, `QueueDrains`, `MailboxDrains`, `BulletinsRetrieved`,
  `FormEnds`), which needs fairness and ENABLED, beyond the prover.

Every other property of a run that passes is stated by a theorem.

## 6. What is not modelled, and known divergences without a run

Some definitions state what the documentation says where the code differs, and
no run is spent on them. Each can be seen by naming it in the configuration given.

| Definition | Add to | What the code does |
|---|---|---|
| `Connection!NewUntilRead` | `MCConnection.cfg`, PROPERTY | the unread flags of a session that failed or was interrupted are lost when the program ends (`connect.go:119`) |
| `LineEditor!EntryKept` | `MCLineEditor.cfg`, INVARIANT | choices are found regardless of case and cut with it (`ed-oneline.go:194`): with serial ports `/dev/tty.BLTH` and `/dev/tty.Bluetooth`, typing `/dev/tty.Bl` leaves the cursor beyond the value, and the next character panics |
| `EditForm!InvalidNotQueued` | `MCEditForm.cfg`, INVARIANT | a form left by ESC or Shift-Tab leaves an invalid message in the queue (`edit.go:147`) |
| `Config!OnlyConfirmedSaved` | `MCConfig.cfg`, INVARIANT | a setting that was refused is saved by the next save of anything (`set.go:150`) |
| `Schedule!NowKeepsInterval` | `MCSchedule.cfg`, PROPERTY | `--now` also sets the frequency to its default of an hour (`bulletins.go:98`) |
| `Shell!SameEitherWay` | `MCShell.cfg`, INVARIANT | in a shell a list may lack its header or go to a closed file, after one that was not ended (`queue.go:84`) |
| `Shell!TablesAsCSV` | `MCShell.cfg`, INVARIANT | `queue`, `draft` and a failed `list` or `connect` put nothing into a file: the writer is never flushed |
| `Shell!WordsKept` | `MCShell.cfg`, INVARIANT | `tokenizeLine` drops the word in front of an unquoted `<` or `>` (`cmd.go:404`) |

Further:

- Two programs in one directory. `UniqueMessageID` and `SaveMessage` are apart
  (`new.go:210-226`), so the second may overwrite the message of the first:
  `Incident` with `Process = {p1, p2}` violates `NeverOverwritten`. Two
  `SaveConfig`s undo each other. No document promises otherwise.
- `cd` keeps the settings of the incident it leaves, and the next save writes
  them into the other's `packet.conf`, in place of its unread flags and schedule
  (`chdir.go:70`): `Connection!Enter`, which `FlagsSurvive` excepts by what it means by
  `kept`.
- A stop or a failed write while `packet.conf` is written loses all of it
  (`config.go:178`): `Connection!OpenConfig`. `FlagsSurvive` speaks of a file that is
  whole, and forgets the flags when a program starts with one that is not.
- A delivery receipt whose To list is refused (`connect.go:303-309`) ends the session
  as a queued message with one does. Its list comes from the message library, which
  takes it from the message received: its refusal is one of the failures of
  `OperationFails`, not a property of the message, and ends one session.
- One choice that is what two listed before it have in common makes `autocomplete`
  stop the program when it is typed (`ed-oneline.go:194`, `213`):
  `LineEditor!CompletionFails`. `NeverPanics` shows it with `MCChoiceLists`; the run
  `editor_panic` has the other list only, for the Shift keys.
- A shared setting that was cleared is not written (`omitempty`) and returns from
  `$HOME/.packet` at the next start.
- Ctrl-K on an empty last line adds a newline (`ed-multiline.go:153`); End there
  goes to the line above. `LineEditor` has both as they are.
- A listing of an empty mailbox panics under `--immediate` (`connect.go:460`):
  `Connection!Panic`.
- Two bulletins with the same first 35 characters of subject: the second is never
  retrieved (`connect.go:152`). The theorems allow such a pair, the runs have none.
- A quoted `<` or `>` is a redirection all the same; a line that is refused has emptied
  the file it redirects to; an empty list redirected to a file is the words for
  no messages there. `CommandLine` and `Listing` have these as they are.
- Frames taller than the screen, and terminals too narrow for a frame
  (`screenbuf.go:71`): `Terminal` has neither.
- Left out: reading keys from the terminal (`extractKey`) and raw mode; the hint of a
  field; the layout of the name/value and bulletin tables; input from a pipe; the
  validity rules of the fields; which message a number stands for
  (`expandMessageID`), which the message library decides; help and topics, which are text;
  PDF rendering and running viewers; the Ctrl-arrow keys, which the terminal code never produces.

## 7. Plan

Done, in this order: `Custody` and `Connection` with proofs; `EditForm` with
proofs; `Incident`; `LineEditor`; `Config` with proofs; `BulletinChecks` and
`Schedule` with proofs, composed with `Connection` by refinement; the shell and its
lists with proofs; the terminal; proofs of `Incident` and `LineEditor`; the
action properties of `Connection` proved; the parsing of lines and names proved; the
terminal proved.

Next:
1. `extractKey` and the buffer it reads from: which keys a sequence that
   arrives in pieces is taken for.
2. Frames taller than the screen in `Terminal`, with what is seen of them.
