----------------------------- MODULE Connection ------------------------------
(***************************************************************************)
(* The "connect" command (src/cmd/connect.go): a session with the BBS that *)
(* sends the queued messages, receives the mailbox or its immediate        *)
(* messages, checks the bulletin areas that are due, and saves the         *)
(* configuration (unread flags and bulletin schedule) at its end.  With it *)
(* come the pieces of its environment that make it hard: the user at the   *)
(* prompt, mail and bulletins arriving at the BBS, Ctrl-C at any moment,   *)
(* a link or a disk that fails at any operation, an operation whose        *)
(* acknowledgement is lost, and a program that stops between two steps.    *)
(*                                                                         *)
(* Local message IDs and BBS messages are natural numbers: < on Out is the *)
(* order in which incident.AllLMIs lists messages, < on Mail the order in  *)
(* which messages arrive at the BBS, hence of their message numbers.       *)
(***************************************************************************)
EXTENDS Naturals, Sequences, FiniteSets

CONSTANTS
    Out,            \* the outgoing messages of the incident
    Mail,           \* the private messages and bulletins the BBS may get for us
    Areas,          \* the bulletin areas
    Inbox,          \* the area of private messages ("" in the code)
    AreaOf,         \* the area of each message of Mail
    Subject,        \* what jnos.List shows of its subject (35 characters, trimmed)
    Owed,           \* the private messages that call for a delivery receipt
    Silent,         \* the receipts and autoresponses: recorded but never "NEW"
    ImmediateOut,   \* the outgoing messages whose handling order is "I"
    ImmediateMail,  \* the private messages whose handling order is "I"
    Unsendable,     \* the outgoing messages whose To: list does not parse
    Elsewhere,      \* what a program may hold that was started in another incident
    MaxFaults,      \* bound on failures and stops of the program
    MaxInterrupts   \* bound on Ctrl-Cs

ASSUME OutAssumption == Out \subseteq Nat
ASSUME MailAssumption ==
    /\ Mail \subseteq Nat
    /\ IsFiniteSet(Mail)
ASSUME AreaAssumption ==
    /\ Inbox \notin Areas
    /\ AreaOf \in [Mail -> Areas \cup {Inbox}]
    /\ DOMAIN Subject = Mail
ASSUME KindAssumption ==
    /\ Owed \subseteq {m \in Mail : AreaOf[m] = Inbox} \ Silent
    /\ Silent \subseteq {m \in Mail : AreaOf[m] = Inbox}
    /\ ImmediateOut \subseteq Out
    /\ ImmediateMail \subseteq {m \in Mail : AreaOf[m] = Inbox}
    /\ Unsendable \subseteq Out

\* A received message gets a new local message ID each time it is recorded.
LMI == Mail \X (Nat \ {0})

\* The schedule of an area: none; checked once (Frequency = 0); checked at
\* intervals, with a check due or not.
Schedule == {"off", "once", "due", "fresh"}

ASSUME ElsewhereAssumption ==
    Elsewhere \subseteq [unread : SUBSET LMI, sched : [Areas -> Schedule]]
ASSUME BoundAssumption == MaxFaults \in Nat /\ MaxInterrupts \in Nat

VARIABLES
    \* The BBS
    arrived,        \* the messages that have reached the BBS
    atBBS,          \* those that have not been killed
    delivered,      \* how many copies of each outgoing message the BBS got
    receipts,       \* how many delivery receipts for each message it got
    \* The incident directory
    outState,       \* each outgoing message is a draft, queued or sent
    recorded,       \* how many times each message was received and recorded
    receiptSaved,   \* the messages whose delivery receipt was saved
    diskUnread,     \* packet.conf: Unread, a set of local message IDs
    diskSched,      \* packet.conf: Bulletins, the schedule of each area
    torn,           \* packet.conf is empty or cut short
    \* The running program
    memUnread,      \* config.C.Unread
    memSched,       \* config.C.Bulletins
    away,           \* both came from another incident and were not saved here yet
    pc,             \* where the program is
    \* The session
    sendlevel, rcvlevel, \* 0: no, 1: everything, 2: immediate messages only
    tosend,         \* the messages still to be sent
    todo,           \* the bulletin areas still to be checked
    area,           \* the area the session is in
    listing,        \* message number -> message, in this area
    nums,           \* the message numbers still to be received from it
    sigint,         \* a Ctrl-C is waiting in c.sigintch
    failed,         \* the error that run will return is not nil
    late,           \* (history) what was sent or received since sigint was set
    \* History
    faults,         \* how many failures there were
    interrupts,     \* how many Ctrl-Cs there were
    kept            \* the unread flags that packet.conf should still have

bbs     == <<arrived, atBBS, delivered, receipts>>
conf    == <<diskUnread, diskSched, torn>>
disk    == <<outState, recorded, receiptSaved, conf>>
memory  == <<memUnread, memSched, away>>
levels  == <<sendlevel, rcvlevel>>
signal  == <<sigint, late>>
session == <<levels, tosend, todo, area, listing, nums, signal, failed>>
history == <<faults, interrupts, kept>>
vars    == <<bbs, disk, memory, pc, session, history>>

-----------------------------------------------------------------------------

\* No area has a schedule.
Off == [a \in Areas |-> "off"]

\* sending, reading and receipting are within an operation of the BBS, after
\* the look for a Ctrl-C that precedes it; writing is within os.WriteFile.
PC == {"down", "shell", "dial", "send", "sending", "sent", "immediate", "next",
       "reading", "receipt", "receipting", "receipted", "kill", "areas", "list",
       "close", "save", "writing"}

\* The program points between signal.Notify and drainSigInt.
Connected == PC \ {"down", "shell", "save", "writing"}

\* The element the loops over a list or over message numbers take first.
IsFirst(x, S) == x \in S /\ \A y \in S : x <= y

Numbers == 1 .. (Cardinality(Mail) + 1)

\* The numbering of a set of messages at the BBS, in order of arrival.
Numberings(S) ==
    {f \in [1 .. Cardinality(S) -> S] :
        \A i, j \in 1 .. Cardinality(S) : i < j => f[i] < f[j]}

MessagesIn(a) == {m \in atBBS : AreaOf[m] = a}

\* Mutant: sent messages are not left out of the scan.
QueuedOrSent == {m \in Out : outState[m] # "draft"}

Queued == {m \in Out : outState[m] = "queued"}

\* Mutants: --immediate does not limit what is sent; everything is limited so.
ToSendAnyHandling(level) == IF level = 0 THEN {} ELSE Queued

ToSendOnlyImmediate(level) == IF level = 0 THEN {} ELSE Queued \cap ImmediateOut

\* preConnectScan's tosend: it gives up at the first queued message that is
\* not immediate when only immediate messages are to be sent.
ToSend(level) ==
    {m \in Queued :
        /\ level # 0
        /\ level = 2 => \A k \in Queued : k <= m => k \in ImmediateOut}

\* Mutant: a bulletin that has been read is not known any more.
HaveUnread(a) ==
    {Subject[b] : b \in {m \in Mail : AreaOf[m] = a /\ <<m, recorded[m]>> \in memUnread}}

\* preConnectScan's haveBulletins[a]: the subjects retrieved from area a.  An
\* area is read once in a session, after this set is last used, so the set may
\* be taken when the area is listed.
Have(a) == {Subject[b] : b \in {m \in Mail : AreaOf[m] = a /\ recorded[m] > 0}}

\* time.Since(LastCheck) >= Frequency
Due == {a \in Areas : memSched[a] \in {"once", "due"}}

\* What becomes of the schedule in all this; Schedule.tla has it in detail.
Checks == INSTANCE BulletinChecks WITH
    mem <- memSched,
    disk <- diskSched,
    Brought <- {c.sched : c \in Elsewhere},
    online <- pc \in Connected

IdleSession ==
    /\ sendlevel' = 0 /\ rcvlevel' = 0
    /\ tosend' = {} /\ todo' = {}
    /\ area' = Inbox /\ listing' = <<>> /\ nums' = {}
    /\ sigint' = FALSE /\ late' = 0 /\ failed' = FALSE

TypeOK ==
    /\ arrived \subseteq Mail
    /\ atBBS \subseteq arrived
    /\ delivered \in [Out -> Nat]
    /\ receipts \in [Mail -> Nat]
    /\ outState \in [Out -> {"draft", "queued", "sent"}]
    /\ recorded \in [Mail -> Nat]
    /\ receiptSaved \subseteq Mail
    /\ diskUnread \subseteq LMI
    /\ diskSched \in [Areas -> Schedule]
    /\ torn \in BOOLEAN
    /\ memUnread \subseteq LMI
    /\ memSched \in [Areas -> Schedule]
    /\ away \in BOOLEAN
    /\ pc \in PC
    /\ sendlevel \in 0 .. 2
    /\ rcvlevel \in 0 .. 2
    /\ tosend \subseteq Out
    /\ todo \subseteq Areas
    /\ area \in Areas \cup {Inbox}
    /\ listing \in Seq(Mail)
    /\ nums \subseteq Nat
    /\ sigint \in BOOLEAN
    /\ failed \in BOOLEAN
    /\ late \in Nat
    /\ faults \in Nat
    /\ interrupts \in Nat
    /\ kept \subseteq LMI

Init ==
    /\ arrived = {} /\ atBBS = {}
    /\ delivered = [m \in Out |-> 0]
    /\ receipts = [m \in Mail |-> 0]
    /\ outState \in [Out -> {"draft", "queued"}]
    /\ recorded = [m \in Mail |-> 0]
    /\ receiptSaved = {}
    /\ diskUnread = {}
    /\ diskSched \in [Areas -> Schedule]
    /\ torn = FALSE
    /\ memUnread = {} /\ memSched = Off /\ away = FALSE
    /\ pc = "down"
    /\ sendlevel = 0 /\ rcvlevel = 0
    /\ tosend = {} /\ todo = {}
    /\ area = Inbox /\ listing = <<>> /\ nums = {}
    /\ sigint = FALSE /\ late = 0 /\ failed = FALSE
    /\ faults = 0 /\ interrupts = 0 /\ kept = {}

-----------------------------------------------------------------------------
(* The program starts and stops; the user at the prompt.                   *)

\* Mutant: the list of unread messages is not read back.
StartAllRead ==
    /\ pc = "down"
    /\ pc' = "shell"
    /\ memUnread' = {}
    /\ memSched' = diskSched
    /\ kept' = IF torn THEN {} ELSE kept
    /\ UNCHANGED <<bbs, disk, away, session, faults, interrupts>>

\* config's init reads packet.conf.  Nothing is taken from a file that is not
\* whole: what it had is lost.
Start ==
    /\ pc = "down"
    /\ pc' = "shell"
    /\ memUnread' = diskUnread
    /\ memSched' = diskSched
    /\ kept' = IF torn THEN {} ELSE kept
    /\ UNCHANGED <<bbs, disk, away, session, faults, interrupts>>

\* The cd command into this incident from another one: config.C stays as it is.
Enter(c) ==
    /\ pc = "down"
    /\ pc' = "shell"
    /\ memUnread' = c.unread
    /\ memSched' = c.sched
    /\ away' = TRUE
    /\ UNCHANGED <<bbs, disk, session, history>>

\* The memory of the program is gone.
Terminate ==
    /\ pc' = "down"
    /\ memUnread' = {} /\ memSched' = Off /\ away' = FALSE
    /\ IdleSession
    /\ UNCHANGED <<bbs, disk>>

\* The user leaves the shell, or this incident by cd: nothing is saved.
Quit ==
    /\ pc = "shell"
    /\ Terminate
    /\ UNCHANGED history

\* The queue and draft commands.
Queue(m) ==
    /\ pc = "shell"
    /\ outState[m] = "draft"
    /\ outState' = [outState EXCEPT ![m] = "queued"]
    /\ UNCHANGED <<bbs, recorded, receiptSaved, conf,
                   memory, pc, session, history>>

Draft(m) ==
    /\ pc = "shell"
    /\ outState[m] = "queued"
    /\ outState' = [outState EXCEPT ![m] = "draft"]
    /\ UNCHANGED <<bbs, recorded, receiptSaved, conf,
                   memory, pc, session, history>>

\* The show command on the k-th copy of a received message; dump and pdf do the
\* same.
Show(m, k) ==
    /\ pc = "shell"
    /\ k <= recorded[m]
    /\ kept' = kept \ {<<m, k>>}
    /\ memUnread' = memUnread \ {<<m, k>>}
    /\ pc' = IF <<m, k>> \in memUnread THEN "save" ELSE "shell"
    /\ UNCHANGED <<bbs, disk, memSched, away, session, faults, interrupts>>

\* The bulletins command gives an area a schedule or takes it away.
Reschedule(a, s) ==
    /\ pc = "shell"
    /\ memSched[a] # s
    /\ <<memSched[a], s>> \in Checks!Changes
    /\ memSched' = [memSched EXCEPT ![a] = s]
    /\ pc' = "save"
    /\ UNCHANGED <<bbs, disk, memUnread, away, session, history>>

\* The other commands that save the configuration, such as set config.
OtherSave ==
    /\ pc = "shell"
    /\ pc' = "save"
    /\ UNCHANGED <<bbs, disk, memory, session, history>>

\* Mutant: bulletin checks go with immediate messages.
ConnectChecksWithImmediate(send, receive, immediate) ==
    /\ pc = "shell"
    /\ LET both  == ~send /\ ~receive
           level == IF immediate THEN 2 ELSE 1
       IN  /\ sendlevel' = IF send \/ both THEN level ELSE 0
           /\ rcvlevel' = IF receive \/ both THEN level ELSE 0
    /\ tosend' = ToSend(sendlevel')
    /\ todo' = IF rcvlevel' = 2 THEN Due ELSE {}
    /\ tosend' # {} \/ rcvlevel' # 0
    /\ pc' = "dial"
    /\ UNCHANGED <<bbs, disk, memory, area, listing, nums, signal, failed, history>>

\* The connect command: the flags give the levels, the scan gives the work.
Connect(send, receive, immediate) ==
    /\ pc = "shell"
    /\ LET both  == ~send /\ ~receive
           level == IF immediate THEN 2 ELSE 1
       IN  /\ sendlevel' = IF send \/ both THEN level ELSE 0
           /\ rcvlevel' = IF receive \/ both THEN level ELSE 0
    /\ tosend' = ToSend(sendlevel')
    /\ todo' = IF rcvlevel' = 1 THEN Due ELSE {}
    /\ tosend' # {} \/ rcvlevel' # 0    \* else "nothing to send"
    /\ pc' = "dial"
    /\ UNCHANGED <<bbs, disk, memory, area, listing, nums, signal, failed, history>>

UserStep ==
    \/ Start \/ Quit \/ OtherSave
    \/ \E c \in Elsewhere : Enter(c)
    \/ \E m \in Out : Queue(m) \/ Draft(m)
    \/ \E m \in Mail : \E k \in 1 .. recorded[m] : Show(m, k)
    \/ \E a \in Areas : \E s \in {"off", "once", "due"} : Reschedule(a, s)
    \/ \E send, receive, immediate \in BOOLEAN : Connect(send, receive, immediate)

-----------------------------------------------------------------------------
(* The session.                                                            *)

Dial ==
    /\ pc = "dial"
    /\ pc' = "send"
    /\ listing' \in Numberings(MessagesIn(Inbox))
    /\ UNCHANGED <<bbs, disk, memory, levels, tosend, todo, area, nums, signal,
                   failed, history>>

\* An error on the way ends the session: the deferred Close comes next.
Abort ==
    /\ pc' = "close"
    /\ failed' = TRUE
    /\ UNCHANGED <<bbs, disk, memory, levels, tosend, todo, area, listing, nums>>

\* Mutant: Ctrl-C is looked at between sending a receipt and killing the message.
InterruptedBeforeKill ==
    /\ pc = "kill"
    /\ sigint
    /\ sigint' = FALSE /\ late' = 0
    /\ Abort
    /\ UNCHANGED history

\* Mutant: Ctrl-C is not looked at before a delivery receipt.
NotInterruptedUnlessReceipt ==
    /\ \/ pc = "send" /\ tosend # {} /\ ~sigint /\ pc' = "sending"
       \/ pc = "next" /\ nums # {} /\ ~sigint /\ pc' = "reading"
       \/ pc = "receipt" /\ pc' = "receipting"
    /\ UNCHANGED <<bbs, disk, memory, session, history>>

\* checkSigInt found no Ctrl-C: the operation is begun, and one that comes now
\* is seen after it.  (Where immediateMessageNumbers and bulletinsToFetch look
\* for one, what follows sends and receives no message, and is one step with it.)
NotInterrupted ==
    /\ \/ pc = "send" /\ tosend # {} /\ pc' = "sending"
       \/ pc = "next" /\ nums # {} /\ pc' = "reading"
       \/ pc = "receipt" /\ pc' = "receipting"
    /\ ~sigint
    /\ UNCHANGED <<bbs, disk, memory, session, history>>

\* checkSigInt found, and took, a Ctrl-C.
Interrupted ==
    /\ \/ pc = "send" /\ tosend # {}
       \/ pc = "next" /\ nums # {}
       \/ pc \in {"receipt", "immediate", "list"}
       \/ pc = "areas" /\ todo # {}
    /\ sigint
    /\ sigint' = FALSE /\ late' = 0
    /\ Abort
    /\ UNCHANGED history

\* A message or receipt goes either way: late if a Ctrl-C is waiting.
Traffic == late' = IF sigint THEN late + 1 ELSE late

\* sendMessage, up to conn.Send.
SendMessage(m) ==
    /\ pc = "sending"
    /\ IsFirst(m, tosend)
    /\ m \notin Unsendable
    /\ delivered' = [delivered EXCEPT ![m] = @ + 1]
    /\ Traffic
    /\ pc' = "sent"
    /\ UNCHANGED <<arrived, atBBS, receipts, disk, memory, levels, tosend, todo,
                   area, listing, nums, sigint, failed, history>>

\* sendMessage rejects a To: list that does not parse.
RejectMessage(m) ==
    /\ pc = "sending"
    /\ IsFirst(m, tosend)
    /\ m \in Unsendable
    /\ Abort
    /\ UNCHANGED <<signal, history>>

\* sendMessage, from conn.Send on: the message is recorded as sent.
SaveMessage(m) ==
    /\ pc = "sent"
    /\ IsFirst(m, tosend)
    /\ outState' = [outState EXCEPT ![m] = "sent"]
    /\ tosend' = tosend \ {m}
    /\ pc' = "send"
    /\ UNCHANGED <<bbs, recorded, receiptSaved, conf, memory,
                   levels, todo, area, listing, nums, signal, failed, history>>

\* Mutant: receiving everything is taken for receiving nothing.
EndOfSendingSkipsMailbox ==
    /\ pc = "send"
    /\ tosend = {}
    /\ pc' = IF rcvlevel = 2 THEN "immediate" ELSE "areas"
    /\ nums' = {}
    /\ UNCHANGED <<bbs, disk, memory, levels, tosend, todo, area, listing, signal,
                   failed, history>>

\* sendMessages is done: receiveMessages counts up from message 1.
EndOfSending ==
    /\ pc = "send"
    /\ tosend = {}
    /\ \/ rcvlevel = 0 /\ pc' = "areas"
       \/ rcvlevel = 1 /\ pc' = "next"
       \/ rcvlevel = 2 /\ pc' = "immediate"
    /\ nums' = IF rcvlevel = 1 THEN Numbers ELSE {}
    /\ UNCHANGED <<bbs, disk, memory, levels, tosend, todo, area, listing, signal,
                   failed, history>>

\* immediateMessageNumbers.  jnos.List returns nil for an empty mailbox, which
\* bulletinsToFetch expects and this function dereferences.
ListImmediates ==
    /\ pc = "immediate"
    /\ ~sigint
    /\ listing # <<>>
    /\ nums' = {n \in DOMAIN listing : listing[n] \in ImmediateMail}
    /\ pc' = "next"
    /\ UNCHANGED <<bbs, disk, memory, levels, tosend, todo, area, listing, signal,
                   failed, history>>

Panic ==
    /\ pc = "immediate"
    /\ ~sigint
    /\ listing = <<>>
    /\ Terminate
    /\ UNCHANGED history

\* Mutant: no delivery receipts.
AfterMessageNoReceipt(m) == IF area = Inbox THEN "kill" ELSE "next"

AfterMessage(m) ==
    IF m \in Owed THEN "receipt" ELSE IF area = Inbox THEN "kill" ELSE "next"

\* receiveMessage, up to the delivery receipt: read and record a message.
Receive(n) ==
    /\ pc = "reading"
    /\ IsFirst(n, nums)
    /\ n \in DOMAIN listing
    /\ LET m == listing[n]
       IN  /\ recorded' = [recorded EXCEPT ![m] = @ + 1]
           /\ memUnread' = IF m \in Silent THEN memUnread
                           ELSE memUnread \cup {<<m, recorded'[m]>>}
           /\ pc' = AfterMessage(m)
           /\ nums' = IF pc' = "next" THEN nums \ {n} ELSE nums
    /\ Traffic
    /\ UNCHANGED <<bbs, outState, receiptSaved, conf, memSched, away, levels, tosend,
                   todo, area, listing, sigint, failed, history>>

\* Mutant: the loop goes on when there is no message with the next number.
EndOfMailboxRetries(n) ==
    /\ pc = "reading"
    /\ IsFirst(n, nums)
    /\ n \notin DOMAIN listing
    /\ UNCHANGED vars

\* receiveMessages: there is no message with the next number.
EndOfMailbox(n) ==
    /\ pc = "reading"
    /\ IsFirst(n, nums)
    /\ n \notin DOMAIN listing
    /\ nums' = {}
    /\ pc' = "areas"
    /\ UNCHANGED <<bbs, disk, memory, levels, tosend, todo, area, listing, signal,
                   failed, history>>

\* sendMessage for the delivery receipt of message n.  (Its To: list comes from
\* the message library; one that does not parse is among the failures.)
SendReceipt(n) ==
    /\ pc = "receipting"
    /\ IsFirst(n, nums)
    /\ receipts' = [receipts EXCEPT ![listing[n]] = @ + 1]
    /\ Traffic
    /\ pc' = "receipted"
    /\ UNCHANGED <<arrived, atBBS, delivered, disk, memory, levels, tosend, todo,
                   area, listing, nums, sigint, failed, history>>

SaveReceipt(n) ==
    /\ pc = "receipted"
    /\ IsFirst(n, nums)
    /\ receiptSaved' = receiptSaved \cup {listing[n]}
    /\ pc' = "kill"
    /\ UNCHANGED <<bbs, outState, recorded, conf, memory, session,
                   history>>

\* Mutant: the message after the one received is killed.
KillNextNumber(n) ==
    /\ pc = "kill"
    /\ IsFirst(n, nums)
    /\ atBBS' = IF n + 1 \in DOMAIN listing THEN atBBS \ {listing[n + 1]} ELSE atBBS
    /\ nums' = nums \ {n}
    /\ pc' = "next"
    /\ UNCHANGED <<arrived, delivered, receipts, disk, memory, levels, tosend, todo,
                   area, listing, signal, failed, history>>

\* The end of receiveMessage: no check for Ctrl-C here.
Kill(n) ==
    /\ pc = "kill"
    /\ IsFirst(n, nums)
    /\ atBBS' = atBBS \ {listing[n]}
    /\ nums' = nums \ {n}
    /\ pc' = "next"
    /\ UNCHANGED <<arrived, delivered, receipts, disk, memory, levels, tosend, todo,
                   area, listing, signal, failed, history>>

\* receiveImmediates is done.
EndOfImmediates ==
    /\ pc = "next"
    /\ nums = {}
    /\ area = Inbox
    /\ pc' = "areas"
    /\ UNCHANGED <<bbs, disk, memory, session, history>>

\* bulletinsToFetch, in two steps: move to the area, then list it.
SetArea(a) ==
    /\ pc = "areas"
    /\ ~sigint
    /\ area' = a
    /\ pc' = "list"
    /\ UNCHANGED <<bbs, disk, memory, levels, tosend, todo, listing, nums, signal,
                   failed, history>>

ListArea ==
    /\ pc = "list"
    /\ ~sigint
    /\ listing' \in Numberings(MessagesIn(area))
    /\ nums' = {n \in DOMAIN listing' : Subject[listing'[n]] \notin Have(area)}
    /\ pc' = "next"
    /\ UNCHANGED <<bbs, disk, memory, levels, tosend, todo, area, signal, failed,
                   history>>

\* Mutant: the check counts as made after the first bulletin.
EndOfAreaEarly ==
    /\ pc = "next"
    /\ area # Inbox
    /\ memSched' = [memSched EXCEPT ![area] = IF @ = "once" THEN "off" ELSE "fresh"]
    /\ todo' = todo \ {area}
    /\ pc' = "areas"
    /\ UNCHANGED <<bbs, disk, memUnread, away, levels, tosend, area, listing, nums,
                   signal, failed, history>>

\* Mutant: an area that was to be checked once stays on the schedule.
EndOfAreaKeepsOnce ==
    /\ pc = "next"
    /\ nums = {}
    /\ area # Inbox
    /\ memSched' = [memSched EXCEPT ![area] = "fresh"]
    /\ todo' = todo \ {area}
    /\ pc' = "areas"
    /\ UNCHANGED <<bbs, disk, memUnread, away, levels, tosend, area, listing, nums,
                   signal, failed, history>>

\* The end of the loop body of receiveBulletins.
EndOfArea ==
    /\ pc = "next"
    /\ nums = {}
    /\ area # Inbox
    /\ memSched' = [memSched EXCEPT ![area] = IF @ = "once" THEN "off" ELSE "fresh"]
    /\ todo' = todo \ {area}
    /\ pc' = "areas"
    /\ UNCHANGED <<bbs, disk, memUnread, away, levels, tosend, area, listing, nums,
                   signal, failed, history>>

EndOfBulletins ==
    /\ pc = "areas"
    /\ todo = {}
    /\ pc' = "close"
    /\ UNCHANGED <<bbs, disk, memory, session, history>>

\* The deferred conn.Close and drainSigInt.
Close ==
    /\ pc = "close"
    /\ pc' = IF failed THEN "shell" ELSE "save"
    /\ IdleSession
    /\ UNCHANGED <<bbs, disk, memory, history>>

\* SaveConfig, here at the end of cmdConnect, which is reached only when run
\* returned nil, and at the end of other commands.  os.WriteFile takes two steps:
\* opening packet.conf empties it,
OpenConfig ==
    /\ pc = "save"
    /\ pc' = "writing"
    /\ diskUnread' = {} /\ diskSched' = Off /\ torn' = TRUE
    /\ UNCHANGED <<bbs, outState, recorded, receiptSaved, memory, session, history>>

\* then all that the program holds is written.  From here on packet.conf should
\* have these flags, and still those it had; but a program from elsewhere never
\* knew those, and replaces them.
WriteConfig ==
    /\ pc = "writing"
    /\ pc' = "shell"
    /\ diskUnread' = memUnread /\ diskSched' = memSched /\ torn' = FALSE
    /\ kept' = IF away THEN memUnread ELSE kept \cup memUnread
    /\ away' = FALSE
    /\ UNCHANGED <<bbs, outState, recorded, receiptSaved, memUnread, memSched, session,
                   faults, interrupts>>

Sending ==
    \/ \E m \in Out : SendMessage(m) \/ RejectMessage(m) \/ SaveMessage(m)
    \/ EndOfSending

Receiving ==
    \/ ListImmediates \/ Panic
    \/ \E n \in Numbers :
         \/ Receive(n) \/ SendReceipt(n) \/ SaveReceipt(n) \/ Kill(n)
         \/ EndOfMailbox(n)
    \/ EndOfImmediates

CheckingBulletins ==
    \/ \E a \in todo : SetArea(a)
    \/ ListArea \/ EndOfArea \/ EndOfBulletins

SessionStep ==
    \/ Dial \/ Sending \/ Receiving \/ CheckingBulletins
    \/ NotInterrupted \/ Interrupted \/ Close \/ OpenConfig \/ WriteConfig

-----------------------------------------------------------------------------
(* What the environment does to a session.                                 *)

Fault ==
    /\ faults < MaxFaults
    /\ faults' = faults + 1
    /\ UNCHANGED <<interrupts, kept>>

\* The BBS, the link or the disk refuses an operation, or sendMessage the To:
\* list of a delivery receipt, with no effect.
OperationFails ==
    /\ Fault
    /\ \/ pc = "send" /\ tosend # {}
       \/ pc = "areas" /\ todo # {}
       \/ pc \in {"sending", "sent", "immediate", "reading", "receipting",
                  "receipted", "kill", "list"}
    /\ Abort
    /\ UNCHANGED signal

\* conn.Send did reach the BBS, and returned an error all the same.
SendUnconfirmed(m) ==
    /\ Fault
    /\ pc = "sending"
    /\ IsFirst(m, tosend)
    /\ m \notin Unsendable
    /\ delivered' = [delivered EXCEPT ![m] = @ + 1]
    /\ Traffic
    /\ pc' = "close" /\ failed' = TRUE
    /\ UNCHANGED <<arrived, atBBS, receipts, disk, memory, levels, tosend, todo,
                   area, listing, nums, sigint>>

ReceiptUnconfirmed(n) ==
    /\ Fault
    /\ pc = "receipting"
    /\ IsFirst(n, nums)
    /\ receipts' = [receipts EXCEPT ![listing[n]] = @ + 1]
    /\ Traffic
    /\ pc' = "close" /\ failed' = TRUE
    /\ UNCHANGED <<arrived, atBBS, delivered, disk, memory, levels, tosend, todo,
                   area, listing, nums, sigint>>

KillUnconfirmed(n) ==
    /\ Fault
    /\ pc = "kill"
    /\ IsFirst(n, nums)
    /\ atBBS' = atBBS \ {listing[n]}
    /\ pc' = "close" /\ failed' = TRUE
    /\ UNCHANGED <<arrived, delivered, receipts, disk, memory, levels, tosend, todo,
                   area, listing, nums, signal>>

\* The connection, or its closing, fails: run returns an error.
ConnectionFails ==
    /\ Fault
    /\ pc \in {"dial", "close"}
    /\ pc' = "shell"
    /\ IdleSession
    /\ UNCHANGED <<bbs, disk, memory>>

\* packet.conf cannot be opened, or not be written; an error is printed.
SaveFails ==
    /\ Fault
    /\ pc \in {"save", "writing"}
    /\ pc' = "shell"
    /\ UNCHANGED <<bbs, disk, memory, session>>

\* The program is killed, or its machine stops.
Crash ==
    /\ Fault
    /\ pc \in Connected \cup {"save", "writing"}
    /\ Terminate

SigInt ==
    /\ pc \in Connected
    /\ interrupts < MaxInterrupts
    /\ interrupts' = interrupts + 1
    /\ sigint' = TRUE
    /\ UNCHANGED <<bbs, disk, memory, pc, levels, tosend, todo, area, listing, nums,
                   failed, late, faults, kept>>

\* A message reaches the BBS.  In the middle of a session it gets the number
\* after the last one of the mailbox.  (The numbers to be received from a
\* bulletin area are those of its listing: one more makes no difference.)
Arrive(m) ==
    /\ m \notin arrived
    /\ \A k \in Mail : k < m /\ AreaOf[k] = AreaOf[m] => k \in arrived
    /\ arrived' = arrived \cup {m}
    /\ atBBS' = atBBS \cup {m}
    /\ listing' = IF AreaOf[m] = Inbox /\ area = Inbox /\ pc \in Connected \ {"dial"}
                  THEN Append(listing, m) ELSE listing
    /\ UNCHANGED <<delivered, receipts, disk, memory, pc, levels, tosend, todo, area,
                   nums, signal, failed, history>>

\* The interval of an area has passed since its last check.
Elapse(a) ==
    /\ "fresh" \in {memSched[a], diskSched[a]}
    /\ memSched' = [memSched EXCEPT ![a] = IF @ = "fresh" THEN "due" ELSE @]
    /\ diskSched' = [diskSched EXCEPT ![a] = IF @ = "fresh" THEN "due" ELSE @]
    /\ UNCHANGED <<bbs, outState, recorded, receiptSaved, diskUnread, torn, memUnread,
                   away, pc, session, history>>

Failure ==
    \/ OperationFails \/ ConnectionFails \/ SaveFails \/ Crash
    \/ \E m \in Out : SendUnconfirmed(m)
    \/ \E n \in Numbers : ReceiptUnconfirmed(n) \/ KillUnconfirmed(n)

World ==
    \/ SigInt
    \/ \E m \in Mail : Arrive(m)
    \/ \E a \in Areas : Elapse(a)

Next == UserStep \/ SessionStep \/ Failure \/ World

Spec == Init /\ [][Next]_vars

\* run and all that it calls is one sequential flow of control: nothing holds
\* it up but the BBS, and an operation of the BBS that does not end is one of
\* the failures.
FairSpec == Spec /\ WF_vars(SessionStep)

-----------------------------------------------------------------------------
(* Properties.                                                             *)

Outgoing == INSTANCE Custody WITH
    Item <- Out,
    offered <- Out,
    source <- {m \in Out : outState[m] # "sent"},
    copies <- delivered

Incoming == INSTANCE Custody WITH
    Item <- Mail,
    offered <- arrived,
    source <- atBBS,
    copies <- recorded

\* A message is recorded as sent only when the BBS has it, and is not sent
\* again after that, whatever fails and whenever.
OutgoingCustody == Outgoing!Spec

\* A message is killed at the BBS only when it has been recorded here, and
\* bulletins, which are never killed, are received while they are there.
IncomingCustody == Incoming!Spec

\* A message that calls for a delivery receipt is killed only after the receipt
\* was sent, and saved with the message: if the session ends in between, the
\* next one finds the message again.
ReceiptBeforeKill ==
    \A m \in Owed \cap (arrived \ atBBS) : receipts[m] > 0 /\ m \in receiptSaved

\* Each further copy of a message at the BBS is the price of a failure; Ctrl-C,
\* which is not looked at between sending and saving, never causes one.
ResentOnlyAfterFault == \A m \in Out : delivered[m] <= 1 + faults

\* The same for delivery receipts: once one is sent, receiveMessage goes on to
\* kill the message without looking at Ctrl-C.
ReceiptedOnlyOnce == \A m \in Owed : receipts[m] <= 1 + faults

\* A private message is recorded again only after a failure or a Ctrl-C kept
\* an earlier session from killing it.
RecordedOnlyOnce ==
    \A m \in Mail : AreaOf[m] = Inbox => recorded[m] <= 1 + faults + interrupts

\* The three together.
RepeatedOnlyAfterFault == ResentOnlyAfterFault /\ ReceiptedOnlyOnce /\ RecordedOnlyOnce

\* A bulletin, which stays at the BBS, is retrieved once, whatever sessions
\* fail: what was retrieved is looked up in the messages, not in the schedule.
BulletinRetrievedOnce ==
    \A m \in Mail : AreaOf[m] # Inbox => recorded[m] <= 1

\* After a Ctrl-C at most the operation under way is completed: no second
\* message or receipt goes either way before the Ctrl-C is seen and ends the
\* session, although it is looked for before an operation only, and neither
\* between a message and its record nor between a receipt and its kill.
OneMoreAfterInterrupt == late <= 1

\* connect --immediate: only immediate messages are sent and received.
ImmediateOnly ==
    [][/\ sendlevel = 2 =>
            \A m \in Out \ ImmediateOut : delivered'[m] = delivered[m]
       /\ rcvlevel = 2 =>
            \A m \in Mail \ ImmediateMail : recorded'[m] = recorded[m]]_vars

\* An area is checked only when that is called for, and its schedule and the
\* one on disk change in no other way than the commands, the checks and the
\* saves make them.
ImplementsChecks == Checks!Spec

\* A session takes an area off the list of checks to be made only when every
\* bulletin it was shown there has been retrieved, by subject.
CheckedOnlyWhenRetrieved ==
    [][\A a \in Areas :
         /\ pc \in Connected
         /\ pc' # "down"
         /\ memSched[a] \in {"once", "due"}
         /\ memSched'[a] \notin {"once", "due"}
         => /\ area = a
            /\ \A n \in DOMAIN listing : Subject[listing[n]] \in Have(a)]_vars

\* A "NEW" flag that was saved is in packet.conf whenever that is whole, until
\* the message is shown: over failed sessions, restarts, and saves that fail or
\* come between.  It is lost in two ways only: the program ends with packet.conf
\* torn (Start), or one that was started in another incident saves what it has
\* from there (WriteConfig).
FlagsSurvive == ~torn => kept \subseteq diskUnread

\* A session ends, with or without errors, Ctrl-C or messages that keep coming.
SessionEnds ==
    pc \in Connected \cup {"save", "writing"} ~> pc \in {"shell", "down"}

\* Someone keeps making full connections.
PersistentUser ==
    /\ WF_vars(Start)
    /\ SF_vars(Connect(FALSE, FALSE, FALSE))

LiveSpec == FairSpec /\ PersistentUser

\* Then a message stays in the queue only until it is sent or taken out of it,
QueueDrains ==
    \A m \in Out : outState[m] = "queued" ~> outState[m] # "queued"

\* a private message stays at the BBS only until it is received,
MailboxDrains ==
    \A m \in Mail : m \in atBBS /\ AreaOf[m] = Inbox ~> m \notin atBBS

\* and a bulletin whose area is due for a check is retrieved, or one that shows
\* the same subject was, unless the check is made without it (because it came
\* after the listing) or cancelled, or packet.conf is lost.
BulletinsRetrieved ==
    \A m \in Mail :
        LET a == AreaOf[m]
        IN  a \in Areas =>
              (m \in atBBS /\ diskSched[a] \in {"once", "due"}
                ~> \/ Subject[m] \in Have(a)
                   \/ pc # "writing" /\ diskSched[a] \in {"off", "fresh"})

-----------------------------------------------------------------------------
(* What the documentation says, and the code does not keep to.             *)

\* connect.go:168 limits the messages to be sent "to immediate messages only if
\* that was requested"; the help text says the same.  So with --immediate, the
\* queued immediate messages are the ones to be sent.
ImmediateMessagesSelected ==
    pc = "dial" /\ sendlevel = 2 => tosend = Queued \cap ImmediateOut

\* list.go:51: "NEW indicates a received message that has not been read".  The
\* unread flags of a session that Ctrl-C or an error ended are in memory only
\* (connect.go:119): a flag leaves it otherwise than by showing the message when
\* the program ends.
NewUntilRead ==
    [][memUnread \ memUnread' \subseteq diskUnread \/ pc' = "save"]_vars

=============================================================================
