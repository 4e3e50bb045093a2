------------------------------ MODULE Incident -------------------------------
(***************************************************************************)
(* The message files of an incident directory and the commands that change *)
(* them: new, edit, set, queue, draft, delete (src/cmd/<command>.go), and  *)
(* connect as far as it reads and writes those files.                      *)
(*                                                                         *)
(* Every command reads a message, looks at it, and writes it back some     *)
(* time later: after the user has left the form, or after the radio has    *)
(* sent it.  There is no lock.  A process is one running "packet" program; *)
(* within one, commands follow each other, and two of them (a script and a *)
(* shell, two terminals) interleave.  A program can stop between any two   *)
(* file operations, and a write can fail.                                  *)
(*                                                                         *)
(* A message is its identity, which stands for its contents, with the      *)
(* fields that the commands themselves look at.  Local message IDs are     *)
(* their sequence numbers; 0 is an ID that does not match MsgIDRE.         *)
(***************************************************************************)
EXTENDS Naturals, FiniteSets

CONSTANTS
    Process,        \* the running programs
    MaxSeq,         \* bound on the sequence numbers in local message IDs
    MaxMessages,    \* bound on the messages ever made or received
    MaxFaults       \* bound on stops and failed writes

ASSUME SizeAssumption == MaxSeq \in Nat \ {0} /\ MaxMessages \in Nat
ASSUME FaultAssumption == MaxFaults \in Nat

VARIABLES
    \* The incident directory
    file,           \* the messages in it: a function from local message IDs
    \* Each process
    op,             \* what it does next
    held,           \* the message it has in memory
    source,         \* the local message ID it read that from, or 0
    dest,           \* the local message ID it will save it under
    tosend,         \* connect: the messages still to be sent
    \* History
    made,           \* how many messages were ever made or received
    stored,         \* the messages that were ever saved
    deleted,        \* the messages whose deletion was asked for
    dropped,        \* the messages in the memory of a program that stopped
    sends,          \* how many times each message was sent
    faults          \* how many stops and failed writes there were

proc    == <<op, held, source, dest, tosend>>
history == <<made, stored, deleted, dropped, sends, faults>>
vars    == <<file, proc, history>>

-----------------------------------------------------------------------------

LMI == 1 .. MaxSeq
Ident == 1 .. MaxMessages

Unsent == {"draft", "queued"}
Final == {"sent", "received"}

\* A message as envelope and body give it: origin is its Origin Message ID.
Message == [id : Ident, origin : LMI \cup {0}, status : Unsent \cup Final]

NoMessage == [id |-> 0, origin |-> 0, status |-> "draft"]

Op == {"idle", "edit", "set", "replace", "save", "remove", "send", "sent"}

Saved(m, l) == [k \in DOMAIN file \cup {l} |-> IF k = l THEN m ELSE file[k]]

Removed(l) == [k \in DOMAIN file \ {l} |-> file[k]]

OnDisk(i) == \E l \in DOMAIN file : file[l].id = i

\* incident.UniqueMessageID: the sequence number is incremented as needed.
Free(want) == {l \in LMI : l >= want /\ l \notin DOMAIN file}
UniqueMessageID(want) == CHOOSE l \in Free(want) : \A k \in Free(want) : l <= k

TypeOK ==
    /\ DOMAIN file \subseteq LMI
    /\ \A l \in DOMAIN file : file[l] \in Message
    /\ op \in [Process -> Op]
    /\ held \in [Process -> Message \cup {NoMessage}]
    /\ source \in [Process -> LMI \cup {0}]
    /\ dest \in [Process -> LMI \cup {0}]
    /\ tosend \in [Process -> SUBSET LMI]
    /\ \A p \in Process :
         /\ op[p] = "idle" => held[p] = NoMessage /\ source[p] = 0 /\ dest[p] = 0
         /\ op[p] \notin {"idle", "send"} => held[p] \in Message
         /\ op[p] \in {"set", "replace", "remove", "sent"} => source[p] # 0
         /\ op[p] \in {"replace", "save", "sent"} => dest[p] # 0
         /\ op[p] # "send" /\ op[p] # "sent" => tosend[p] = {}
    /\ made \in 0 .. MaxMessages
    /\ stored \subseteq Ident
    /\ deleted \subseteq Ident
    /\ dropped \subseteq Ident
    /\ sends \in [Ident -> Nat]
    /\ faults \in 0 .. MaxFaults

Init ==
    /\ file = <<>>
    /\ op = [p \in Process |-> "idle"]
    /\ held = [p \in Process |-> NoMessage]
    /\ source = [p \in Process |-> 0]
    /\ dest = [p \in Process |-> 0]
    /\ tosend = [p \in Process |-> {}]
    /\ made = 0
    /\ stored = {} /\ deleted = {} /\ dropped = {}
    /\ sends = [i \in Ident |-> 0]
    /\ faults = 0

-----------------------------------------------------------------------------
(* What a process holds, and the end of a command.                         *)

Hold(p, step, m, from, to) ==
    /\ op' = [op EXCEPT ![p] = step]
    /\ held' = [held EXCEPT ![p] = m]
    /\ source' = [source EXCEPT ![p] = from]
    /\ dest' = [dest EXCEPT ![p] = to]
    /\ UNCHANGED tosend

Return(p) == Hold(p, "idle", NoMessage, 0, 0)

-----------------------------------------------------------------------------
(* The commands, up to the point where they start to write.                *)

\* doNew in a terminal: the form opens on a message that has no file.
NewInForm(p, want) ==
    /\ op[p] = "idle"
    /\ made < MaxMessages
    /\ want = 0 \/ Free(want) # {}
    /\ LET omi == IF want = 0 THEN 0 ELSE UniqueMessageID(want)
       IN  Hold(p, "edit", [id |-> made + 1, origin |-> omi, status |-> "draft"], 0, 0)
    /\ made' = made + 1
    /\ UNCHANGED <<file, stored, deleted, dropped, sends, faults>>

\* doNew in a script: an empty message is saved at once.
NewInScript(p, want) ==
    /\ op[p] = "idle"
    /\ made < MaxMessages
    /\ Free(want) # {}
    /\ LET lmi == UniqueMessageID(want)
       IN  Hold(p, "save", [id |-> made + 1, origin |-> lmi, status |-> "draft"], 0, lmi)
    /\ made' = made + 1
    /\ UNCHANGED <<file, stored, deleted, dropped, sends, faults>>

\* Mutant: the edit command takes any message that we did not receive.
EditSent(p, l) ==
    /\ op[p] = "idle"
    /\ file[l].status # "received"
    /\ Hold(p, "edit", file[l], l, 0)
    /\ UNCHANGED <<file, history>>

\* cmdEdit: a message that is neither received nor sent.
Edit(p, l) ==
    /\ op[p] = "idle"
    /\ file[l].status \in Unsent
    /\ Hold(p, "edit", file[l], l, 0)
    /\ UNCHANGED <<file, history>>

\* Mutant: the ID field is not set to the ID the message gets.
EditDoneKeepsField(p, omi, status) ==
    /\ op[p] = "edit"
    /\ LET valid  == IF omi # 0 THEN omi
                     ELSE IF source[p] # 0 THEN source[p] ELSE UniqueMessageID(1)
           newlmi == IF valid # source[p] THEN UniqueMessageID(valid) ELSE valid
       IN  /\ omi = 0 => source[p] # 0 \/ Free(1) # {}
           /\ valid # source[p] => Free(valid) # {}
           /\ Hold(p, IF source[p] \in {0, newlmi} THEN "save" ELSE "replace",
                   [held[p] EXCEPT !.origin = omi, !.status = status],
                   source[p], newlmi)
    /\ UNCHANGED <<file, history>>

\* doEdit when the user leaves the form with the ID omi in the ID field: the
\* message gets a valid ID, and one of its own if that is not the one it had.
EditDone(p, omi, status) ==
    /\ op[p] = "edit"
    /\ LET valid  == IF omi # 0 THEN omi
                     ELSE IF source[p] # 0 THEN source[p] ELSE UniqueMessageID(1)
           newlmi == IF valid # source[p] THEN UniqueMessageID(valid) ELSE valid
       IN  /\ omi = 0 => source[p] # 0 \/ Free(1) # {}
           /\ valid # source[p] => Free(valid) # {}
           /\ Hold(p, IF source[p] \in {0, newlmi} THEN "save" ELSE "replace",
                   [held[p] EXCEPT !.origin = newlmi, !.status = status],
                   source[p], newlmi)
    /\ UNCHANGED <<file, history>>

\* cmdSet reads the message that it will change a field of.
Set(p, l) ==
    /\ op[p] = "idle"
    /\ file[l].status \in Unsent
    /\ Hold(p, "set", file[l], l, 0)
    /\ UNCHANGED <<file, history>>

\* Mutant: set does not look whether the new ID is in use.
SetDoneUnchecked(p, omi, status) ==
    /\ op[p] = "set"
    /\ omi # 0
    /\ status \in {held[p].status, "draft"}
    /\ Hold(p, "save", [held[p] EXCEPT !.origin = omi, !.status = status],
            source[p], omi)
    /\ UNCHANGED <<file, history>>

\* cmdSet with the new value of the field: a changed ID must be valid and not in
\* use, and --force with an invalid To: takes the message out of the queue.
SetDone(p, omi, status) ==
    /\ op[p] = "set"
    /\ omi # 0
    /\ omi # source[p] => omi \notin DOMAIN file
    /\ status \in {held[p].status, "draft"}
    /\ Hold(p, "save", [held[p] EXCEPT !.origin = omi, !.status = status],
            source[p], omi)
    /\ UNCHANGED <<file, history>>

\* Ctrl-C in the form, or the command refuses the new value.
Abandon(p) ==
    /\ op[p] \in {"edit", "set"}
    /\ Return(p)
    /\ UNCHANGED <<file, history>>

\* The queue and draft commands on a message that is not yet in that state.
ChangeStatus(p, l, status) ==
    /\ op[p] = "idle"
    /\ file[l].status \in Unsent \ {status}
    /\ Hold(p, "save", [file[l] EXCEPT !.status = status], l, l)
    /\ UNCHANGED <<file, history>>

Queue(p, l) == ChangeStatus(p, l, "queued")

Draft(p, l) == ChangeStatus(p, l, "draft")

\* cmdDelete.
Delete(p, l) ==
    /\ op[p] = "idle"
    /\ file[l].status \in Unsent
    /\ Hold(p, "remove", file[l], l, 0)
    /\ deleted' = deleted \cup {file[l].id}
    /\ UNCHANGED <<file, made, stored, dropped, sends, faults>>

-----------------------------------------------------------------------------
(* The file operations.                                                    *)

\* doEdit removes the file of the old ID before it saves under the new one.
Replace(p) ==
    /\ op[p] = "replace"
    /\ file' = Removed(source[p])
    /\ Hold(p, "save", held[p], 0, dest[p])
    /\ UNCHANGED history

\* Mutant: set leaves the file of the old ID where it is.
SaveOnly(p) ==
    /\ op[p] = "save"
    /\ file' = Saved(held[p], dest[p])
    /\ stored' = stored \cup {held[p].id}
    /\ Return(p)
    /\ UNCHANGED <<made, deleted, dropped, sends, faults>>

\* incident.SaveMessage; the set command then removes the file of the old ID.
Save(p) ==
    /\ op[p] = "save"
    /\ file' = Saved(held[p], dest[p])
    /\ stored' = stored \cup {held[p].id}
    /\ IF source[p] \in {0, dest[p]} THEN Return(p)
       ELSE Hold(p, "remove", held[p], source[p], 0)
    /\ UNCHANGED <<made, deleted, dropped, sends, faults>>

\* incident.RemoveMessage.
Remove(p) ==
    /\ op[p] = "remove"
    /\ file' = Removed(source[p])
    /\ Return(p)
    /\ UNCHANGED history

-----------------------------------------------------------------------------
(* The connect command.                                                    *)

\* Mutant: the messages that were sent are in the list as well.
ConnectAgain(p) ==
    /\ op[p] = "idle"
    /\ op' = [op EXCEPT ![p] = "send"]
    /\ tosend' = [tosend EXCEPT ![p] =
                    {l \in DOMAIN file : file[l].status \in {"queued", "sent"}}]
    /\ UNCHANGED <<file, held, source, dest, history>>

\* preConnectScan.
Connect(p) ==
    /\ op[p] = "idle"
    /\ op' = [op EXCEPT ![p] = "send"]
    /\ tosend' = [tosend EXCEPT ![p] = {l \in DOMAIN file : file[l].status = "queued"}]
    /\ UNCHANGED <<file, held, source, dest, history>>

\* sendMessages reads the message again, but sends it as it finds it.
Send(p, l) ==
    /\ op[p] = "send"
    /\ l \in tosend[p]
    /\ \A k \in tosend[p] : l <= k
    /\ l \in DOMAIN file
    /\ Hold(p, "sent", [file[l] EXCEPT !.status = "sent"], l, l)
    /\ sends' = [sends EXCEPT ![file[l].id] = @ + 1]
    /\ UNCHANGED <<file, made, stored, deleted, dropped, faults>>

SaveSent(p) ==
    /\ op[p] = "sent"
    /\ file' = Saved(held[p], dest[p])
    /\ op' = [op EXCEPT ![p] = "send"]
    /\ tosend' = [tosend EXCEPT ![p] = @ \ {dest[p]}]
    /\ held' = [held EXCEPT ![p] = NoMessage]
    /\ source' = [source EXCEPT ![p] = 0]
    /\ dest' = [dest EXCEPT ![p] = 0]
    /\ UNCHANGED history

\* receiveMessage: incident.ReceiveMessage saves it under a new ID.
Receive(p, want) ==
    /\ op[p] = "send"
    /\ tosend[p] = {}
    /\ made < MaxMessages
    /\ Free(want) # {}
    /\ file' = Saved([id |-> made + 1, origin |-> 0, status |-> "received"],
                     UniqueMessageID(want))
    /\ made' = made + 1
    /\ stored' = stored \cup {made + 1}
    /\ UNCHANGED <<proc, deleted, dropped, sends, faults>>

\* The session ends: all is done, an operation failed, or a message is gone.
Disconnect(p) ==
    /\ op[p] = "send"
    /\ op' = [op EXCEPT ![p] = "idle"]
    /\ tosend' = [tosend EXCEPT ![p] = {}]
    /\ UNCHANGED <<file, held, source, dest, history>>

-----------------------------------------------------------------------------

\* The program stops, or a write fails and the command gives up.
Stop(p) ==
    /\ op[p] # "idle"
    /\ faults < MaxFaults
    /\ faults' = faults + 1
    /\ dropped' = IF op[p] = "save" /\ source[p] = 0 THEN dropped \cup {held[p].id}
                  ELSE dropped
    /\ op' = [op EXCEPT ![p] = "idle"]
    /\ held' = [held EXCEPT ![p] = NoMessage]
    /\ source' = [source EXCEPT ![p] = 0]
    /\ dest' = [dest EXCEPT ![p] = 0]
    /\ tosend' = [tosend EXCEPT ![p] = {}]
    /\ UNCHANGED <<file, made, stored, deleted, sends>>

\* RemoveMessage reports no error: doEdit goes on when the file stays.
ReplaceFails(p) ==
    /\ op[p] = "replace"
    /\ faults < MaxFaults
    /\ faults' = faults + 1
    /\ Hold(p, "save", held[p], 0, dest[p])
    /\ UNCHANGED <<file, made, stored, deleted, dropped, sends>>

FormStep(p) ==
    \/ \E omi \in LMI \cup {0}, status \in Unsent :
         EditDone(p, omi, status) \/ SetDone(p, omi, status)
    \/ Abandon(p)

FileStep(p) == Replace(p) \/ Save(p) \/ Remove(p) \/ SaveSent(p)

Command(p) ==
    \/ \E want \in LMI \cup {0} : NewInForm(p, want)
    \/ \E want \in LMI : NewInScript(p, want)
    \/ \E l \in DOMAIN file :
         Edit(p, l) \/ Set(p, l) \/ Queue(p, l) \/ Draft(p, l) \/ Delete(p, l)
    \/ Connect(p)

Session(p) ==
    \/ \E l \in LMI : Send(p, l) \/ Receive(p, l)
    \/ Disconnect(p)

Next ==
    \E p \in Process :
        Command(p) \/ FormStep(p) \/ FileStep(p) \/ Session(p) \/ Stop(p) \/ ReplaceFails(p)

Spec == Init /\ [][Next]_vars

-----------------------------------------------------------------------------
(* Properties.                                                             *)

\* What was sent or received stays in its file as it was, whatever commands
\* follow and wherever they stop.
FinalForever ==
    [][\A l \in DOMAIN file :
         file[l].status \in Final => l \in DOMAIN file' /\ file'[l] = file[l]]_vars

\* A message that was saved is gone only if its deletion was asked for, or if
\* the program stopped between the removal of its file and its saving under the
\* new ID.  No command overwrites one message with another.
NothingLost ==
    \A i \in stored \ deleted :
        \/ OnDisk(i)
        \/ i \in dropped
        \/ \E p \in Process : op[p] = "save" /\ held[p].id = i

\* A message is in one file, so that it cannot be queued and sent from two;
\* until the set command has removed the file of the old ID, or if it never
\* comes to that.
OneFileEach ==
    \A l, k \in DOMAIN file :
        file[l].id = file[k].id /\ l # k =>
            \/ faults > 0
            \/ \E p \in Process : op[p] = "remove" /\ source[p] \in {l, k}

\* An outgoing message is filed under the Origin Message ID it carries, which
\* is the ID that receipts and replies to it will quote.
FiledByOrigin ==
    \A l \in DOMAIN file : file[l].status # "received" => file[l].origin = l

\* A message is sent again only after a failure.
SentAgainOnlyAfterFault == \A i \in Ident : sends[i] <= 1 + faults

\* new.go:43: "The sequence number in it will be incremented as needed to make
\* it unique."  So no message takes the file of another.  It is so with one
\* program in the directory; a second one can take the ID between the search for
\* it (new.go:210, edit.go:205, set.go:116) and the writing of the file.
NeverOverwritten ==
    [][\A l \in DOMAIN file \cap DOMAIN file' : file'[l].id = file[l].id]_vars

=============================================================================
