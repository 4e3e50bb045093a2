---------------------------- MODULE IncidentProofs ----------------------------
(***************************************************************************)
(* Proofs about the message files of an incident, for any number of        *)
(* messages, local message IDs and faults.  The types hold with any number *)
(* of programs in the directory, the rest with one: a second program may   *)
(* take a local message ID between the search for it and its use.          *)
(***************************************************************************)
EXTENDS Incident, FiniteSetTheorems, WellFoundedInduction, TLAPS

USE DEF vars, proc, history, LMI, Ident

-----------------------------------------------------------------------------
(* UniqueMessageID is well defined, and gives an ID that is free.          *)

HasMin(R, S) == \E x \in S : \A y \in S : ~(<<y, x>> \in R)

LEMMA WellFoundedMin ==
    ASSUME NEW R, NEW A, IsWellFoundedOn(R, A), NEW S, S \subseteq A, S # {}
    PROVE  HasMin(R, S)
BY WFMin DEF HasMin

LEMMA LeastByRelation ==
    ASSUME NEW S \in SUBSET Nat, S # {},
           NEW R, IsWellFoundedOn(R, Nat), \A i, j \in Nat : i < j => <<i, j>> \in R
    PROVE  \E n \in S : \A k \in S : n <= k
<1>1. S \subseteq Nat
  OBVIOUS
<1>2. HasMin(R, S)
  BY <1>1, WellFoundedMin, Zenon
<1>3. PICK n \in S : \A k \in S : ~(<<k, n>> \in R)
  BY <1>2 DEF HasMin
<1>4. \A k \in S : ~(k < n)
  BY <1>1, <1>3, Zenon
<1>5. \A k \in S : n <= k
  BY <1>1, <1>4
<1> QED BY <1>5

LEMMA Least ==
    ASSUME NEW S \in SUBSET Nat, S # {}
    PROVE  \E n \in S : \A k \in S : n <= k
<1>1. \A i, j \in Nat : i < j => <<i, j>> \in OpToRel(<, Nat)
  BY DEF OpToRel
<1> QED BY LeastByRelation, <1>1, NatLessThanWellFounded, Zenon

LEMMA UniqueIsFree ==
    ASSUME NEW want, Free(want) # {}
    PROVE  UniqueMessageID(want) \in Free(want)
<1>1. Free(want) \in SUBSET Nat
  BY SizeAssumption DEF Free
<1>2. \E l \in Free(want) : \A k \in Free(want) : l <= k
  BY <1>1, Least
<1> QED BY <1>2 DEF UniqueMessageID

LEMMA FreeIDs ==
    ASSUME NEW want
    PROVE  Free(want) \subseteq LMI /\ Free(want) \cap DOMAIN file = {}
BY DEF Free

-----------------------------------------------------------------------------
(* Types, for any number of programs.                                      *)

FileTypes == DOMAIN file \subseteq LMI /\ \A l \in DOMAIN file : file[l] \in Message

\* What a process holds at the step it is at.
Holds(p, step, m, from, to, list) ==
    /\ step \in {"idle", "send"} => m = NoMessage /\ from = 0 /\ to = 0
    /\ step \notin {"idle", "send"} => m \in Message
    /\ step \in {"set", "replace", "remove", "sent"} => from # 0
    /\ step \in {"replace", "save", "sent"} => to # 0
    /\ step # "send" /\ step # "sent" => list = {}

ProcTypes ==
    /\ op \in [Process -> Op]
    /\ held \in [Process -> Message \cup {NoMessage}]
    /\ source \in [Process -> LMI \cup {0}]
    /\ dest \in [Process -> LMI \cup {0}]
    /\ tosend \in [Process -> SUBSET LMI]
    /\ \A p \in Process : Holds(p, op[p], held[p], source[p], dest[p], tosend[p])

HistoryTypes ==
    /\ made \in 0 .. MaxMessages
    /\ stored \subseteq Ident
    /\ deleted \subseteq Ident
    /\ dropped \subseteq Ident
    /\ sends \in [Ident -> Nat]
    /\ faults \in 0 .. MaxFaults

Types == FileTypes /\ ProcTypes /\ HistoryTypes

LEMMA TypesAreTypeOK == Types => TypeOK
BY DEF TypeOK, Types, FileTypes, ProcTypes, HistoryTypes, Holds

LEMMA InitTypes == Init => Types
BY SizeAssumption, FaultAssumption
   DEF Init, Types, FileTypes, ProcTypes, HistoryTypes, Holds, NoMessage, Message, Op, Unsent

LEMMA SavedTypes ==
    ASSUME FileTypes, NEW m \in Message, NEW l \in LMI, file' = Saved(m, l)
    PROVE  FileTypes'
BY DEF FileTypes, Saved

LEMMA RemovedTypes ==
    ASSUME FileTypes, NEW l, file' = Removed(l)
    PROVE  FileTypes'
BY DEF FileTypes, Removed

LEMMA HoldTypes ==
    ASSUME ProcTypes, NEW p \in Process,
           NEW step \in Op, NEW m \in Message \cup {NoMessage},
           NEW from \in LMI \cup {0}, NEW to \in LMI \cup {0},
           Holds(p, step, m, from, to, tosend[p]), Hold(p, step, m, from, to)
    PROVE  ProcTypes'
BY DEF ProcTypes, Hold, Holds

LEMMA ReturnTypes ==
    ASSUME ProcTypes, NEW p \in Process, op[p] \notin {"send", "sent"}, Return(p)
    PROVE  ProcTypes'
<1>1. Holds(p, "idle", NoMessage, 0, 0, tosend[p])
  BY DEF ProcTypes, Holds
<1> QED BY <1>1, HoldTypes DEF Return, Op

\* A message with other values of its fields is a message.
LEMMA ChangedMessage ==
    ASSUME NEW m \in Message
    PROVE  /\ \A o \in LMI \cup {0}, s \in Unsent \cup Final :
                [m EXCEPT !.origin = o, !.status = s] \in Message
           /\ \A s \in Unsent \cup Final : [m EXCEPT !.status = s] \in Message
           /\ m.id \in Ident
BY DEF Message

LEMMA NewMessage ==
    ASSUME HistoryTypes, made < MaxMessages, NEW o \in LMI \cup {0}, NEW s \in Unsent \cup Final
    PROVE  [id |-> made + 1, origin |-> o, status |-> s] \in Message /\ made + 1 \in Ident
BY SizeAssumption DEF HistoryTypes, Message

LEMMA CommandTypes ==
    ASSUME Types, NEW p \in Process, Command(p)
    PROVE  Types'
<1> USE DEF Types
<1>1. op[p] = "idle" /\ tosend[p] = {} /\ 0 \notin LMI
  <2>1. op[p] = "idle"
    <3>1. CASE \E want \in LMI \cup {0} : NewInForm(p, want)
      BY <3>1 DEF NewInForm
    <3>2. CASE \E want \in LMI : NewInScript(p, want)
      BY <3>2 DEF NewInScript
    <3>3. CASE \E l \in DOMAIN file :
                 Edit(p, l) \/ Set(p, l) \/ Queue(p, l) \/ Draft(p, l) \/ Delete(p, l)
      BY <3>3 DEF Edit, Set, Queue, Draft, ChangeStatus, Delete
    <3>4. CASE Connect(p)
      BY <3>4 DEF Connect
    <3> QED BY <3>1, <3>2, <3>3, <3>4 DEF Command
  <2> QED BY <2>1, SizeAssumption DEF ProcTypes, Holds
<1>2. ASSUME NEW want \in LMI \cup {0}, NewInForm(p, want) PROVE Types'
  <2> DEFINE omi == IF want = 0 THEN 0 ELSE UniqueMessageID(want)
             m == [id |-> made + 1, origin |-> omi, status |-> "draft"]
  <2>1. omi \in LMI \cup {0}
    BY <1>2, UniqueIsFree, FreeIDs DEF NewInForm
  <2>2. m \in Message
    BY <1>2, <2>1, NewMessage DEF NewInForm, Unsent
  <2>3. Hold(p, "edit", m, 0, 0)
    BY <1>2 DEF NewInForm
  <2> HIDE DEF m
  <2>4. ProcTypes'
    BY <1>1, <2>2, <2>3, HoldTypes DEF Holds, Op
  <2>5. HistoryTypes' /\ FileTypes'
    BY <1>2, SizeAssumption DEF NewInForm, HistoryTypes, FileTypes
  <2> QED BY <2>4, <2>5
<1>3. ASSUME NEW want \in LMI, NewInScript(p, want) PROVE Types'
  <2> DEFINE lmi == UniqueMessageID(want)
             m == [id |-> made + 1, origin |-> lmi, status |-> "draft"]
  <2>1. lmi \in LMI
    BY <1>3, UniqueIsFree, FreeIDs DEF NewInScript
  <2>2. m \in Message
    BY <1>3, <2>1, NewMessage DEF NewInScript, Unsent
  <2>3. Hold(p, "save", m, 0, lmi)
    BY <1>3 DEF NewInScript
  <2> HIDE DEF m, lmi
  <2>4. ProcTypes'
    BY <1>1, <2>1, <2>2, <2>3, HoldTypes DEF Holds, Op
  <2>5. HistoryTypes' /\ FileTypes'
    BY <1>3, SizeAssumption DEF NewInScript, HistoryTypes, FileTypes
  <2> QED BY <2>4, <2>5
<1>4. ASSUME NEW l \in DOMAIN file, Edit(p, l) \/ Set(p, l) \/ Delete(p, l) PROVE Types'
  <2>1. file[l] \in Message /\ l \in LMI /\ l # 0
    BY <1>1 DEF FileTypes
  <2>2. \E step \in {"edit", "set", "remove"} : Hold(p, step, file[l], l, 0)
    BY <1>4 DEF Edit, Set, Delete
  <2>3. ProcTypes'
    BY <1>1, <2>1, <2>2, HoldTypes DEF Holds, Op
  <2>4. file' = file /\ HistoryTypes'
    BY <1>4, <2>1, ChangedMessage DEF Edit, Set, Delete, HistoryTypes
  <2> QED BY <2>3, <2>4 DEF FileTypes
<1>5. ASSUME NEW l \in DOMAIN file, Queue(p, l) \/ Draft(p, l) PROVE Types'
  <2>1. PICK status \in Unsent : ChangeStatus(p, l, status)
    BY <1>5 DEF Queue, Draft, Unsent
  <2> DEFINE m == [file[l] EXCEPT !.status = status]
  <2>2. m \in Message /\ l \in LMI /\ l # 0
    BY <1>1, ChangedMessage DEF FileTypes
  <2>3. Hold(p, "save", m, l, l)
    BY <2>1 DEF ChangeStatus
  <2> HIDE DEF m
  <2>4. ProcTypes'
    BY <1>1, <2>2, <2>3, HoldTypes DEF Holds, Op
  <2> QED BY <2>1, <2>4 DEF ChangeStatus, FileTypes, HistoryTypes
<1>6. CASE Connect(p)
  <2>1. ProcTypes'
    BY <1>6 DEF Connect, ProcTypes, Holds, Op, FileTypes
  <2> QED BY <1>6, <2>1 DEF Connect, FileTypes, HistoryTypes
<1> QED BY <1>2, <1>3, <1>4, <1>5, <1>6 DEF Command

LEMMA FormTypes ==
    ASSUME Types, NEW p \in Process, FormStep(p)
    PROVE  Types'
<1> USE DEF Types
<1>1. ASSUME NEW omi \in LMI \cup {0}, NEW status \in Unsent, EditDone(p, omi, status)
      PROVE  Types'
  <2> DEFINE valid  == IF omi # 0 THEN omi
                       ELSE IF source[p] # 0 THEN source[p] ELSE UniqueMessageID(1)
             newlmi == IF valid # source[p] THEN UniqueMessageID(valid) ELSE valid
             m      == [held[p] EXCEPT !.origin = newlmi, !.status = status]
             step   == IF source[p] \in {0, newlmi} THEN "save" ELSE "replace"
  <2>1. /\ op[p] = "edit" /\ held[p] \in Message /\ source[p] \in LMI \cup {0}
        /\ omi = 0 => source[p] # 0 \/ Free(1) # {}
        /\ valid # source[p] => Free(valid) # {}
        /\ Hold(p, step, m, source[p], newlmi)
    BY <1>1 DEF EditDone, ProcTypes, Holds
  <2>2. valid \in LMI
    BY <2>1, UniqueIsFree, FreeIDs
  <2> HIDE DEF valid
  <2>3. newlmi \in LMI /\ newlmi # 0
    BY <2>1, <2>2, UniqueIsFree, FreeIDs, SizeAssumption
  <2> HIDE DEF newlmi
  <2>4. m \in Message
    BY <2>1, <2>3, ChangedMessage
  <2> HIDE DEF m
  <2>5. Holds(p, step, m, source[p], newlmi, tosend[p]) /\ step \in Op
    BY <2>1, <2>3, <2>4 DEF Holds, ProcTypes, Op
  <2> HIDE DEF step
  <2>6. ProcTypes'
    BY <2>1, <2>3, <2>4, <2>5, HoldTypes
  <2> QED BY <1>1, <2>6 DEF EditDone, FileTypes, HistoryTypes
<1>2. ASSUME NEW omi \in LMI \cup {0}, NEW status \in Unsent, SetDone(p, omi, status)
      PROVE  Types'
  <2> DEFINE m == [held[p] EXCEPT !.origin = omi, !.status = status]
  <2>1. /\ op[p] = "set" /\ held[p] \in Message /\ source[p] \in LMI \cup {0} /\ omi # 0
        /\ Hold(p, "save", m, source[p], omi)
    BY <1>2 DEF SetDone, ProcTypes, Holds
  <2>2. m \in Message
    BY <2>1, ChangedMessage
  <2> HIDE DEF m
  <2>3. Holds(p, "save", m, source[p], omi, tosend[p]) /\ "save" \in Op
    BY <2>1, <2>2 DEF Holds, ProcTypes, Op
  <2>4. ProcTypes'
    BY <2>1, <2>2, <2>3, HoldTypes
  <2> QED BY <1>2, <2>4 DEF SetDone, FileTypes, HistoryTypes
<1>3. CASE Abandon(p)
  BY <1>3, ReturnTypes DEF Abandon, FileTypes, HistoryTypes
<1> QED BY <1>1, <1>2, <1>3 DEF FormStep

LEMMA FileStepTypes ==
    ASSUME Types, NEW p \in Process, FileStep(p)
    PROVE  Types'
<1> USE DEF Types
<1>1. CASE Replace(p)
  <2>1. /\ op[p] = "replace" /\ held[p] \in Message /\ dest[p] \in LMI /\ dest[p] # 0
        /\ Hold(p, "save", held[p], 0, dest[p])
    BY <1>1 DEF Replace, ProcTypes, Holds
  <2>2. Holds(p, "save", held[p], 0, dest[p], tosend[p]) /\ "save" \in Op
    BY <2>1 DEF Holds, ProcTypes, Op
  <2>3. ProcTypes'
    BY <2>1, <2>2, HoldTypes
  <2>4. FileTypes'
    BY <1>1, RemovedTypes DEF Replace
  <2> QED BY <1>1, <2>3, <2>4 DEF Replace, HistoryTypes
<1>2. CASE Save(p)
  <2>1. /\ op[p] = "save" /\ held[p] \in Message /\ dest[p] \in LMI
        /\ source[p] \in LMI \cup {0}
        /\ file' = Saved(held[p], dest[p])
    BY <1>2 DEF Save, ProcTypes, Holds
  <2>2. FileTypes'
    BY <2>1, SavedTypes
  <2>3. ASSUME source[p] \in {0, dest[p]} PROVE ProcTypes'
    BY <1>2, <2>1, <2>3, ReturnTypes DEF Save
  <2>4. ASSUME source[p] \notin {0, dest[p]} PROVE ProcTypes'
    <3>1. Hold(p, "remove", held[p], source[p], 0)
      BY <1>2, <2>4 DEF Save
    <3>2. Holds(p, "remove", held[p], source[p], 0, tosend[p]) /\ "remove" \in Op
      BY <2>1, <2>4 DEF Holds, ProcTypes, Op
    <3>3. ProcTypes'
      BY <2>1, <3>1, <3>2, HoldTypes
    <3> QED BY <3>3
  <2>5. HistoryTypes'
    BY <1>2, <2>1, ChangedMessage DEF Save, HistoryTypes
  <2> QED BY <2>2, <2>3, <2>4, <2>5
<1>3. CASE Remove(p)
  <2>1. FileTypes'
    BY <1>3, RemovedTypes DEF Remove
  <2> QED BY <1>3, <2>1, ReturnTypes DEF Remove, HistoryTypes
<1>4. CASE SaveSent(p)
  <2>1. op[p] = "sent" /\ held[p] \in Message /\ dest[p] \in LMI
    BY <1>4 DEF SaveSent, ProcTypes, Holds
  <2>2. FileTypes'
    BY <1>4, <2>1, SavedTypes DEF SaveSent
  <2>3. ProcTypes'
    BY <1>4, <2>1 DEF SaveSent, ProcTypes, Holds, Op
  <2> QED BY <1>4, <2>2, <2>3 DEF SaveSent, HistoryTypes
<1> QED BY <1>1, <1>2, <1>3, <1>4 DEF FileStep

LEMMA SessionTypes ==
    ASSUME Types, NEW p \in Process, Session(p)
    PROVE  Types'
<1> USE DEF Types
<1>1. ASSUME NEW l \in LMI, Send(p, l) PROVE Types'
  <2> DEFINE m == [file[l] EXCEPT !.status = "sent"]
  <2>1. /\ op[p] = "send" /\ file[l] \in Message /\ l # 0
        /\ Hold(p, "sent", m, l, l)
    BY <1>1, SizeAssumption DEF Send, FileTypes
  <2>2. m \in Message /\ file[l].id \in Ident
    BY <2>1, ChangedMessage DEF Final
  <2> HIDE DEF m
  <2>3. Holds(p, "sent", m, l, l, tosend[p]) /\ "sent" \in Op
    BY <2>1, <2>2 DEF Holds, ProcTypes, Op
  <2>4. ProcTypes'
    BY <2>1, <2>2, <2>3, HoldTypes
  <2>5. sends' \in [Ident -> Nat]
    BY <1>1, <2>2 DEF Send, HistoryTypes
  <2> QED BY <1>1, <2>4, <2>5 DEF Send, FileTypes, HistoryTypes
<1>2. ASSUME NEW want \in LMI, Receive(p, want) PROVE Types'
  <2> DEFINE m == [id |-> made + 1, origin |-> 0, status |-> "received"]
  <2>1. m \in Message /\ made + 1 \in Ident
    BY <1>2, NewMessage DEF Receive, Final
  <2>2. UniqueMessageID(want) \in LMI
    BY <1>2, UniqueIsFree, FreeIDs DEF Receive
  <2>3. file' = Saved(m, UniqueMessageID(want))
    BY <1>2 DEF Receive
  <2> HIDE DEF m
  <2>4. FileTypes'
    BY <2>1, <2>2, <2>3, SavedTypes
  <2>5. HistoryTypes'
    BY <1>2, <2>1, SizeAssumption DEF Receive, HistoryTypes
  <2> QED BY <1>2, <2>4, <2>5 DEF Receive, ProcTypes, Holds
<1>3. CASE Disconnect(p)
  <2>1. ProcTypes'
    BY <1>3 DEF Disconnect, ProcTypes, Holds, Op
  <2> QED BY <1>3, <2>1 DEF Disconnect, FileTypes, HistoryTypes
<1> QED BY <1>1, <1>2, <1>3 DEF Session

LEMMA FaultTypes ==
    ASSUME Types, NEW p \in Process, Stop(p) \/ ReplaceFails(p)
    PROVE  Types'
<1> USE DEF Types
<1>1. CASE Stop(p)
  <2>1. op[p] = "save" => held[p].id \in Ident
    BY ChangedMessage DEF ProcTypes, Holds
  <2>2. dropped' \subseteq Ident
    BY <1>1, <2>1 DEF Stop, HistoryTypes
  <2> HIDE DEF Ident
  <2>5. /\ faults' = faults + 1 /\ faults < MaxFaults
        /\ UNCHANGED <<made, stored, deleted, sends>>
    BY <1>1 DEF Stop
  <2>6. HistoryTypes'
    BY <2>2, <2>5, FaultAssumption DEF HistoryTypes
  <2>3. ProcTypes'
    BY <1>1 DEF Stop, ProcTypes, Holds, Op
  <2> QED BY <1>1, <2>3, <2>6 DEF Stop, FileTypes
<1>2. CASE ReplaceFails(p)
  <2>1. /\ op[p] = "replace" /\ held[p] \in Message /\ dest[p] \in LMI /\ dest[p] # 0
        /\ Hold(p, "save", held[p], 0, dest[p])
    BY <1>2 DEF ReplaceFails, ProcTypes, Holds
  <2>2. Holds(p, "save", held[p], 0, dest[p], tosend[p]) /\ "save" \in Op
    BY <2>1 DEF Holds, ProcTypes, Op
  <2>3. ProcTypes'
    BY <2>1, <2>2, HoldTypes
  <2> QED BY <1>2, <2>3, FaultAssumption DEF ReplaceFails, FileTypes, HistoryTypes
<1> QED BY <1>1, <1>2

LEMMA TypesStep == Types /\ [Next]_vars => Types'
<1> SUFFICES ASSUME Types, [Next]_vars PROVE Types'
  OBVIOUS
<1>1. CASE UNCHANGED vars
  BY <1>1 DEF Types, FileTypes, ProcTypes, HistoryTypes, Holds
<1>2. CASE Next
  BY <1>2, CommandTypes, FormTypes, FileStepTypes, SessionTypes, FaultTypes DEF Next
<1> QED BY <1>1, <1>2

\* The directory, the processes and the history stay in their types, whatever
\* number of programs there is in the directory.
THEOREM TypeCorrect == Spec => []TypeOK
<1>1. Spec => []Types
  BY InitTypes, TypesStep, PTL DEF Spec
<1>2. Types => TypeOK
  BY TypesAreTypeOK
<1> QED BY <1>1, <1>2, PTL

-----------------------------------------------------------------------------
(* One program in the directory.                                           *)

FromFile(p) ==
    /\ source[p] \in DOMAIN file
    /\ file[source[p]].id = held[p].id
    /\ file[source[p]].status \in Unsent

ToFree(p) == dest[p] \notin DOMAIN file

\* What the program holds fits the directory: the message that it has read is
\* still in its file, and the local message ID that it has found is still free.
HeldInv(p) ==
    /\ op[p] = "edit" => source[p] = 0 \/ FromFile(p)
    /\ op[p] \in {"set", "replace", "remove", "sent"} => FromFile(p)
    /\ op[p] \in {"replace", "save"} => held[p].origin = dest[p] /\ held[p].status \in Unsent
    /\ op[p] = "replace" => ToFree(p)
    /\ op[p] = "save" => \/ source[p] = 0 /\ ToFree(p)
                         \/ FromFile(p) /\ (dest[p] = source[p] \/ ToFree(p))
    /\ op[p] = "remove" => \/ held[p].id \in deleted
                           \/ \E l \in DOMAIN file \ {source[p]} : file[l].id = held[p].id
    /\ op[p] \in {"send", "sent"} =>
         \A l \in tosend[p] : l \in DOMAIN file /\ file[l].status = "queued"
    /\ op[p] = "sent" => /\ dest[p] = source[p] /\ dest[p] \in tosend[p]
                         /\ held[p] = [file[source[p]] EXCEPT !.status = "sent"]

\* A message that was not made yet is nowhere.
MadeInv(p) ==
    /\ \A l \in DOMAIN file : file[l].id <= made
    /\ op[p] \notin {"idle", "send"} => held[p].id <= made

\* Without a fault, a message has one file, and none before it is saved.
OneInv(p) ==
    faults = 0 =>
      /\ \A l, k \in DOMAIN file :
           file[l].id = file[k].id /\ l # k => op[p] = "remove" /\ source[p] \in {l, k}
      /\ op[p] \in {"edit", "save"} /\ source[p] = 0 =>
           \A l \in DOMAIN file : file[l].id # held[p].id

LossInv(p) ==
    \A i \in stored \ deleted :
        OnDisk(i) \/ i \in dropped \/ (op[p] = "save" /\ held[p].id = i)

ProgramInv(p) ==
    Types /\ HeldInv(p) /\ MadeInv(p) /\ FiledByOrigin /\ OneInv(p) /\ LossInv(p)

\* The parts that every step is shown to keep one by one.
Parts(p) == HeldInv(p) /\ MadeInv(p) /\ OneInv(p) /\ LossInv(p)

LEMMA HoldEffect ==
    ASSUME Types, NEW p \in Process, NEW step, NEW m, NEW from, NEW to,
           Hold(p, step, m, from, to)
    PROVE  /\ op'[p] = step /\ held'[p] = m /\ source'[p] = from /\ dest'[p] = to
           /\ tosend' = tosend
BY DEF Hold, Types, ProcTypes

\* What a step of the program does to the directory.
Put(m, l) ==
    /\ DOMAIN file' = DOMAIN file \cup {l}
    /\ file'[l] = m
    /\ \A k \in DOMAIN file : k # l => file'[k] = file[k]

TakeAway(l) ==
    /\ DOMAIN file' = DOMAIN file \ {l}
    /\ \A k \in DOMAIN file' : file'[k] = file[k]

LEMMA PutSaved ==
    ASSUME NEW m, NEW l, file' = Saved(m, l)
    PROVE  Put(m, l)
BY DEF Saved, Put

LEMMA TakeRemoved ==
    ASSUME NEW l, file' = Removed(l)
    PROVE  TakeAway(l)
BY DEF Removed, TakeAway

Writes(p, m, l) ==
    /\ Put(m, l)
    /\ op[p] \in {"save", "sent"} /\ m = held[p] /\ l = dest[p]
    /\ made' = made

Receives(p, m, l) ==
    /\ Put(m, l)
    /\ op[p] = "send" /\ l \notin DOMAIN file
    /\ m = [id |-> made + 1, origin |-> 0, status |-> "received"]
    /\ made' = made + 1

Removes(p) ==
    TakeAway(source[p]) /\ op[p] \in {"replace", "remove"} /\ made' = made

LEMMA FileEffect ==
    ASSUME Types, NEW p, Process = {p}, [Next]_vars
    PROVE  \/ file' = file
           \/ Writes(p, held[p], dest[p])
           \/ \E l \in LMI : Receives(p, [id |-> made + 1, origin |-> 0, status |-> "received"], l)
           \/ Removes(p)
<1>1. CASE Command(p)
  BY <1>1 DEF Command, NewInForm, NewInScript, Edit, Set, Queue, Draft, ChangeStatus,
              Delete, Connect
<1>2. CASE FormStep(p)
  BY <1>2 DEF FormStep, EditDone, SetDone, Abandon
<1>3. CASE FileStep(p)
  <2>1. CASE Replace(p) \/ Remove(p)
    BY <2>1, TakeRemoved DEF Replace, Remove, Removes
  <2>2. CASE Save(p) \/ SaveSent(p)
    BY <2>2, PutSaved DEF Save, SaveSent, Writes
  <2> QED BY <1>3, <2>1, <2>2 DEF FileStep
<1>4. CASE Session(p)
  <2>1. CASE \E l \in LMI : Send(p, l)
    BY <2>1 DEF Send
  <2>2. ASSUME NEW want \in LMI, Receive(p, want)
        PROVE  \E l \in LMI :
                 Receives(p, [id |-> made + 1, origin |-> 0, status |-> "received"], l)
    <3>1. UniqueMessageID(want) \in LMI /\ UniqueMessageID(want) \notin DOMAIN file
      BY <2>2, UniqueIsFree, FreeIDs DEF Receive
    <3> QED BY <2>2, <3>1, PutSaved DEF Receive, Receives
  <2>3. CASE Disconnect(p)
    BY <2>3 DEF Disconnect
  <2> QED BY <1>4, <2>1, <2>2, <2>3 DEF Session
<1>5. CASE Stop(p) \/ ReplaceFails(p)
  BY <1>5 DEF Stop, ReplaceFails
<1>6. CASE UNCHANGED vars
  BY <1>6
<1> QED BY <1>1, <1>2, <1>3, <1>4, <1>5, <1>6 DEF Next

\* What is written is written to a file that is free, or over the message itself
\* before it was sent.
LEMMA WriteTarget ==
    ASSUME NEW p \in Process, ProgramInv(p), op[p] \in {"save", "sent"}
    PROVE  \/ dest[p] \notin DOMAIN file
           \/ /\ dest[p] \in DOMAIN file
              /\ file[dest[p]].id = held[p].id /\ file[dest[p]].status \in Unsent
BY DEF ProgramInv, HeldInv, FromFile, ToFree

LEMMA FinalStep ==
    ASSUME NEW p, Process = {p}, ProgramInv(p), [Next]_vars
    PROVE  \A l \in DOMAIN file :
             file[l].status \in Final => l \in DOMAIN file' /\ file'[l] = file[l]
<1> SUFFICES ASSUME NEW l \in DOMAIN file, file[l].status \in Final
             PROVE  l \in DOMAIN file' /\ file'[l] = file[l]
  OBVIOUS
<1>0. Final \cap Unsent = {}
  BY DEF Final, Unsent
<1>1. CASE Writes(p, held[p], dest[p])
  BY <1>0, <1>1, WriteTarget DEF Writes, Put
<1>2. ASSUME NEW k \in LMI,
             Receives(p, [id |-> made + 1, origin |-> 0, status |-> "received"], k)
      PROVE  l \in DOMAIN file' /\ file'[l] = file[l]
  <2> DEFINE m == [id |-> made + 1, origin |-> 0, status |-> "received"]
  <2>1. Put(m, k) /\ k \notin DOMAIN file
    BY <1>2 DEF Receives
  <2> HIDE DEF m
  <2> QED BY <2>1 DEF Put
<1>3. CASE Removes(p)
  BY <1>0, <1>3 DEF Removes, TakeAway, ProgramInv, HeldInv, FromFile
<1> QED BY <1>1, <1>2, <1>3, FileEffect DEF ProgramInv

LEMMA OverwriteStep ==
    ASSUME NEW p, Process = {p}, ProgramInv(p), [Next]_vars
    PROVE  \A l \in DOMAIN file \cap DOMAIN file' : file'[l].id = file[l].id
<1> SUFFICES ASSUME NEW l \in DOMAIN file \cap DOMAIN file'
             PROVE  file'[l].id = file[l].id
  OBVIOUS
<1>1. CASE Writes(p, held[p], dest[p])
  BY <1>1, WriteTarget DEF Writes, Put
<1>2. ASSUME NEW k \in LMI,
             Receives(p, [id |-> made + 1, origin |-> 0, status |-> "received"], k)
      PROVE  file'[l].id = file[l].id
  <2> DEFINE m == [id |-> made + 1, origin |-> 0, status |-> "received"]
  <2>1. Put(m, k) /\ k \notin DOMAIN file
    BY <1>2 DEF Receives
  <2> HIDE DEF m
  <2> QED BY <2>1 DEF Put
<1>3. CASE Removes(p)
  BY <1>3 DEF TakeAway, Removes
<1> QED BY <1>1, <1>2, <1>3, FileEffect DEF ProgramInv

LEMMA FiledStep ==
    ASSUME NEW p, Process = {p}, ProgramInv(p), [Next]_vars
    PROVE  FiledByOrigin'
<1> SUFFICES ASSUME NEW l \in DOMAIN file', file'[l].status # "received"
             PROVE  file'[l].origin = l
  BY DEF FiledByOrigin
<1>1. CASE Writes(p, held[p], dest[p])
  <2>1. Put(held[p], dest[p]) /\ op[p] \in {"save", "sent"}
    BY <1>1 DEF Writes
  <2>2. held[p].origin = dest[p]
    <3>1. CASE op[p] = "save"
      BY <3>1 DEF ProgramInv, HeldInv
    <3>2. CASE op[p] = "sent"
      <4>1. /\ source[p] \in DOMAIN file /\ dest[p] = source[p]
            /\ held[p] = [file[source[p]] EXCEPT !.status = "sent"]
            /\ file[source[p]].status \in Unsent
            /\ file[source[p]] \in Message
        BY <3>2 DEF ProgramInv, HeldInv, FromFile, Types, FileTypes
      <4>2. held[p].origin = file[source[p]].origin
        BY <4>1 DEF Message
      <4> QED BY <4>1, <4>2 DEF ProgramInv, FiledByOrigin, Unsent
    <3> QED BY <2>1, <3>1, <3>2
  <2> QED BY <2>1, <2>2 DEF Put, ProgramInv, FiledByOrigin
<1>2. ASSUME NEW k \in LMI,
             Receives(p, [id |-> made + 1, origin |-> 0, status |-> "received"], k)
      PROVE  file'[l].origin = l
  <2> DEFINE m == [id |-> made + 1, origin |-> 0, status |-> "received"]
  <2>1. Put(m, k) /\ m.status = "received"
    BY <1>2 DEF Receives
  <2> HIDE DEF m
  <2> QED BY <2>1 DEF Put, ProgramInv, FiledByOrigin
<1>3. CASE Removes(p)
  BY <1>3 DEF TakeAway, Removes, ProgramInv, FiledByOrigin
<1>4. CASE file' = file
  BY <1>4 DEF ProgramInv, FiledByOrigin
<1> QED BY <1>1, <1>2, <1>3, <1>4, FileEffect DEF ProgramInv

\* A step that leaves the directory alone disturbs neither its ids nor its loss.
LEMMA QuietStep ==
    ASSUME NEW p, Process = {p}, ProgramInv(p), file' = file,
           made' = made, UNCHANGED <<stored, dropped>>, deleted \subseteq deleted',
           op[p] # "save"
    PROVE  LossInv(p)' /\ \A l \in DOMAIN file' : file'[l].id <= made'
BY DEF ProgramInv, LossInv, MadeInv, OnDisk

LEMMA IdleStep ==
    ASSUME NEW p, ProgramInv(p), op'[p] = "idle"
    PROVE  HeldInv(p)'
BY DEF HeldInv

\* The ids in memory and in the directory are numbers.
LEMMA Numbers ==
    ASSUME NEW p, Process = {p}, ProgramInv(p)
    PROVE  /\ made \in Nat
           /\ \A l \in DOMAIN file : file[l].id \in Nat /\ file[l].id <= made
           /\ op[p] \notin {"idle", "send"} => held[p].id \in Nat /\ held[p].id <= made
           /\ stored \subseteq Nat
BY SizeAssumption
   DEF ProgramInv, Types, FileTypes, ProcTypes, Holds, HistoryTypes, MadeInv, Message

LEMMA NewStep ==
    ASSUME NEW p, Process = {p}, ProgramInv(p), NEW want,
           NewInForm(p, want) \/ NewInScript(p, want)
    PROVE  Parts(p)'
<1>1. PICK o, step, to :
        /\ Hold(p, step, [id |-> made + 1, origin |-> o, status |-> "draft"], 0, to)
        /\ \/ step = "edit"
           \/ step = "save" /\ o = to /\ to \notin DOMAIN file
  <2>1. CASE NewInForm(p, want)
    BY <2>1 DEF NewInForm
  <2>2. CASE NewInScript(p, want)
    <3>1. UniqueMessageID(want) \notin DOMAIN file
      BY <2>2, UniqueIsFree, FreeIDs DEF NewInScript
    <3> QED BY <2>2, <3>1 DEF NewInScript
  <2> QED BY <2>1, <2>2
<1> DEFINE m == [id |-> made + 1, origin |-> o, status |-> "draft"]
<1>2. m.id = made + 1 /\ m.origin = o /\ m.status \in Unsent
  BY DEF Unsent
<1>3. /\ op[p] = "idle" /\ file' = file /\ made' = made + 1
      /\ UNCHANGED <<stored, deleted, dropped, faults>>
  BY DEF NewInForm, NewInScript
<1>4. op'[p] = step /\ held'[p] = m /\ source'[p] = 0 /\ dest'[p] = to
  BY <1>1, HoldEffect DEF ProgramInv
<1> HIDE DEF m
<1>5. HeldInv(p)'
  BY <1>1, <1>2, <1>3, <1>4 DEF HeldInv, ToFree
<1>6. MadeInv(p)'
  BY <1>2, <1>3, <1>4, Numbers DEF MadeInv
<1>7. OneInv(p)'
  BY <1>2, <1>3, <1>4, Numbers DEF ProgramInv, OneInv
<1>8. LossInv(p)'
  BY <1>3 DEF ProgramInv, LossInv, OnDisk
<1> QED BY <1>5, <1>6, <1>7, <1>8 DEF Parts

\* Edit, set and delete take up the message of a file.
LEMMA TakeStep ==
    ASSUME NEW p, Process = {p}, ProgramInv(p), NEW l \in DOMAIN file,
           Edit(p, l) \/ Set(p, l) \/ Delete(p, l)
    PROVE  Parts(p)'
<1>1. PICK step \in {"edit", "set", "remove"} :
        /\ Hold(p, step, file[l], l, 0)
        /\ step = "remove" => file[l].id \in deleted'
  BY DEF Edit, Set, Delete
<1>2. /\ op[p] = "idle" /\ file' = file /\ made' = made
      /\ file[l].status \in Unsent /\ l \in LMI /\ l # 0
      /\ UNCHANGED <<stored, dropped, faults>> /\ deleted \subseteq deleted'
  BY SizeAssumption DEF Edit, Set, Delete, ProgramInv, Types, FileTypes
<1>3. op'[p] = step /\ held'[p] = file[l] /\ source'[p] = l /\ dest'[p] = 0
  BY <1>1, HoldEffect DEF ProgramInv
<1>4. HeldInv(p)'
  BY <1>1, <1>2, <1>3 DEF HeldInv, FromFile
<1>5. MadeInv(p)'
  BY <1>2, <1>3 DEF ProgramInv, MadeInv
<1>6. OneInv(p)'
  BY <1>2, <1>3 DEF ProgramInv, OneInv
<1> QED BY <1>2, <1>4, <1>5, <1>6, QuietStep DEF Parts

LEMMA StatusStep ==
    ASSUME NEW p, Process = {p}, ProgramInv(p), NEW l \in DOMAIN file, NEW s \in Unsent,
           ChangeStatus(p, l, s)
    PROVE  Parts(p)'
<1> DEFINE m == [file[l] EXCEPT !.status = s]
<1>1. /\ op[p] = "idle" /\ file' = file /\ made' = made
      /\ file[l].status \in Unsent /\ l # 0
      /\ UNCHANGED <<stored, deleted, dropped, faults>>
  BY SizeAssumption DEF ChangeStatus, ProgramInv, Types, FileTypes
<1>2. m.id = file[l].id /\ m.origin = file[l].origin /\ m.status = s
  BY DEF ProgramInv, Types, FileTypes, Message
<1>3. op'[p] = "save" /\ held'[p] = m /\ source'[p] = l /\ dest'[p] = l
  BY HoldEffect DEF ChangeStatus, ProgramInv
<1> HIDE DEF m
<1>4. file[l].origin = l
  BY <1>1 DEF ProgramInv, FiledByOrigin, Unsent
<1>5. HeldInv(p)'
  BY <1>1, <1>2, <1>3, <1>4 DEF HeldInv, FromFile
<1>6. MadeInv(p)'
  BY <1>1, <1>2, <1>3 DEF ProgramInv, MadeInv
<1>7. OneInv(p)'
  BY <1>1, <1>3 DEF ProgramInv, OneInv
<1>8. LossInv(p)'
  BY <1>1, QuietStep
<1> QED BY <1>5, <1>6, <1>7, <1>8 DEF Parts

LEMMA ConnectStep ==
    ASSUME NEW p, Process = {p}, ProgramInv(p), Connect(p)
    PROVE  Parts(p)'
<1>1. /\ op[p] = "idle" /\ op'[p] = "send" /\ file' = file /\ made' = made
      /\ UNCHANGED <<stored, deleted, dropped, faults>>
      /\ tosend'[p] = {l \in DOMAIN file : file[l].status = "queued"}
  BY DEF Connect, ProgramInv, Types, ProcTypes
<1>2. HeldInv(p)'
  BY <1>1 DEF HeldInv
<1>3. MadeInv(p)' /\ LossInv(p)'
  BY <1>1, QuietStep DEF MadeInv
<1>4. OneInv(p)'
  BY <1>1 DEF ProgramInv, OneInv
<1> QED BY <1>2, <1>3, <1>4 DEF Parts

\* The form and the set command leave an ID that is the one the message had, or
\* that no other has.
LEMMA EditDoneStep ==
    ASSUME NEW p, Process = {p}, ProgramInv(p),
           NEW omi \in LMI \cup {0}, NEW status \in Unsent, EditDone(p, omi, status)
    PROVE  Parts(p)'
<1> DEFINE valid  == IF omi # 0 THEN omi
                     ELSE IF source[p] # 0 THEN source[p] ELSE UniqueMessageID(1)
           newlmi == IF valid # source[p] THEN UniqueMessageID(valid) ELSE valid
           m      == [held[p] EXCEPT !.origin = newlmi, !.status = status]
           step   == IF source[p] \in {0, newlmi} THEN "save" ELSE "replace"
<1>1. /\ op[p] = "edit" /\ file' = file /\ made' = made
      /\ UNCHANGED <<stored, deleted, dropped, faults>>
      /\ valid # source[p] => Free(valid) # {}
      /\ omi = 0 => source[p] # 0 \/ Free(1) # {}
      /\ Hold(p, step, m, source[p], newlmi)
  BY DEF EditDone
<1>2. valid # 0
  BY <1>1, UniqueIsFree, FreeIDs, SizeAssumption
<1> HIDE DEF valid
<1>3. newlmi = source[p] \/ newlmi \notin DOMAIN file
  BY <1>1, UniqueIsFree, FreeIDs
<1>4. newlmi # 0
  BY <1>1, <1>2, UniqueIsFree, FreeIDs, SizeAssumption
<1> HIDE DEF newlmi
<1>5. m.id = held[p].id /\ m.origin = newlmi /\ m.status = status
  BY <1>1 DEF ProgramInv, Types, ProcTypes, Holds, Message
<1>6. op'[p] = step /\ held'[p] = m /\ source'[p] = source[p] /\ dest'[p] = newlmi
  BY <1>1, HoldEffect DEF ProgramInv
<1> HIDE DEF m
<1>7. source[p] = 0 \/ FromFile(p)
  BY <1>1 DEF ProgramInv, HeldInv
<1>8. source[p] # 0 => FromFile(p)'
  BY <1>1, <1>5, <1>6, <1>7 DEF FromFile
<1>9. HeldInv(p)'
  <2>1. CASE source[p] = 0
    BY <1>1, <1>3, <1>4, <1>5, <1>6, <2>1 DEF HeldInv, ToFree
  <2>2. CASE source[p] # 0 /\ newlmi = source[p]
    BY <1>5, <1>6, <1>8, <2>2 DEF HeldInv
  <2>3. CASE source[p] # 0 /\ newlmi # source[p]
    BY <1>1, <1>3, <1>5, <1>6, <1>8, <2>3 DEF HeldInv, ToFree
  <2> QED BY <2>1, <2>2, <2>3
<1>10. MadeInv(p)'
  BY <1>1, <1>5, <1>6 DEF ProgramInv, MadeInv
<1>11. OneInv(p)'
  BY <1>1, <1>5, <1>6 DEF ProgramInv, OneInv
<1>12. LossInv(p)'
  BY <1>1, QuietStep
<1> QED BY <1>9, <1>10, <1>11, <1>12 DEF Parts

LEMMA SetDoneStep ==
    ASSUME NEW p, Process = {p}, ProgramInv(p),
           NEW omi \in LMI \cup {0}, NEW status \in Unsent, SetDone(p, omi, status)
    PROVE  Parts(p)'
<1> DEFINE m == [held[p] EXCEPT !.origin = omi, !.status = status]
<1>1. /\ op[p] = "set" /\ file' = file /\ made' = made
      /\ UNCHANGED <<stored, deleted, dropped, faults>>
      /\ omi = source[p] \/ omi \notin DOMAIN file
      /\ Hold(p, "save", m, source[p], omi)
  BY DEF SetDone
<1>2. m.id = held[p].id /\ m.origin = omi /\ m.status = status
  BY <1>1 DEF ProgramInv, Types, ProcTypes, Holds, Message
<1>3. op'[p] = "save" /\ held'[p] = m /\ source'[p] = source[p] /\ dest'[p] = omi
  BY <1>1, HoldEffect DEF ProgramInv
<1> HIDE DEF m
<1>4. FromFile(p) /\ source[p] # 0
  BY <1>1 DEF ProgramInv, HeldInv, Types, ProcTypes, Holds
<1>5. FromFile(p)'
  BY <1>1, <1>2, <1>3, <1>4 DEF FromFile
<1>6. HeldInv(p)'
  BY <1>1, <1>2, <1>3, <1>5 DEF HeldInv, ToFree
<1>7. MadeInv(p)'
  BY <1>1, <1>2, <1>3 DEF ProgramInv, MadeInv
<1>8. OneInv(p)'
  BY <1>1, <1>3, <1>4 DEF ProgramInv, OneInv
<1>9. LossInv(p)'
  BY <1>1, QuietStep
<1> QED BY <1>6, <1>7, <1>8, <1>9 DEF Parts

LEMMA AbandonStep ==
    ASSUME NEW p, Process = {p}, ProgramInv(p), Abandon(p)
    PROVE  Parts(p)'
<1>1. /\ op[p] \in {"edit", "set"} /\ op'[p] = "idle" /\ file' = file /\ made' = made
      /\ UNCHANGED <<stored, deleted, dropped, faults>>
  BY HoldEffect DEF Abandon, Return, ProgramInv
<1>2. MadeInv(p)' /\ LossInv(p)'
  BY <1>1, QuietStep DEF MadeInv
<1>3. OneInv(p)'
  BY <1>1 DEF ProgramInv, OneInv
<1> QED BY <1>1, <1>2, <1>3, IdleStep DEF Parts

LEMMA ReplaceStep ==
    ASSUME NEW p, Process = {p}, ProgramInv(p), Replace(p)
    PROVE  Parts(p)'
<1>1. /\ op[p] = "replace" /\ TakeAway(source[p])
      /\ UNCHANGED <<made, stored, deleted, dropped, faults>>
  BY TakeRemoved DEF Replace
<1>2. op'[p] = "save" /\ held'[p] = held[p] /\ source'[p] = 0 /\ dest'[p] = dest[p]
  BY HoldEffect DEF Replace, ProgramInv
<1>3. /\ FromFile(p) /\ ToFree(p) /\ held[p].origin = dest[p] /\ held[p].status \in Unsent
  BY <1>1 DEF ProgramInv, HeldInv
<1>4. HeldInv(p)'
  <2>1. ToFree(p)'
    BY <1>1, <1>2, <1>3 DEF ToFree, TakeAway
  <2> QED BY <1>2, <1>3, <2>1 DEF HeldInv
<1>5. MadeInv(p)'
  BY <1>1, <1>2 DEF ProgramInv, MadeInv, TakeAway
<1>6. OneInv(p)'
  BY <1>1, <1>2, <1>3 DEF ProgramInv, OneInv, TakeAway, FromFile
<1>7. LossInv(p)'
  <2> SUFFICES ASSUME NEW i \in stored \ deleted
               PROVE  OnDisk(i)' \/ i \in dropped \/ held[p].id = i
    BY <1>1, <1>2 DEF LossInv
  <2>1. OnDisk(i) \/ i \in dropped
    BY <1>1 DEF ProgramInv, LossInv
  <2>2. ASSUME NEW l \in DOMAIN file, file[l].id = i, l # source[p] PROVE OnDisk(i)'
    <3>1. l \in DOMAIN file' /\ file'[l].id = i
      BY <1>1, <2>2 DEF TakeAway
    <3> QED BY <3>1 DEF OnDisk
  <2> QED BY <1>3, <2>1, <2>2 DEF OnDisk, FromFile
<1> QED BY <1>4, <1>5, <1>6, <1>7 DEF Parts

LEMMA SaveStep ==
    ASSUME NEW p, Process = {p}, ProgramInv(p), Save(p)
    PROVE  Parts(p)'
<1>1. /\ op[p] = "save" /\ Put(held[p], dest[p])
      /\ stored' = stored \cup {held[p].id}
      /\ UNCHANGED <<made, deleted, dropped, faults>>
  BY PutSaved DEF Save
<1>2. /\ \/ source[p] = 0 /\ ToFree(p)
         \/ FromFile(p) /\ (dest[p] = source[p] \/ ToFree(p))
      /\ held[p].id \in Nat /\ held[p].id <= made
  BY <1>1, Numbers DEF ProgramInv, HeldInv
<1>3. \/ source[p] \in {0, dest[p]} /\ op'[p] = "idle"
      \/ /\ source[p] \notin {0, dest[p]} /\ op'[p] = "remove"
         /\ held'[p] = held[p] /\ source'[p] = source[p]
  BY HoldEffect DEF Save, Return, ProgramInv
<1>4. dest[p] \in DOMAIN file' /\ file'[dest[p]].id = held[p].id
  BY <1>1 DEF Put
<1>5. HeldInv(p)'
  <2>1. CASE op'[p] = "idle"
    BY <2>1, IdleStep
  <2>2. CASE op'[p] = "remove"
    <3>1. /\ source[p] # dest[p] /\ held'[p] = held[p] /\ source'[p] = source[p]
          /\ FromFile(p)
      BY <1>2, <1>3, <2>2
    <3>2. FromFile(p)'
      BY <1>1, <3>1 DEF FromFile, Put
    <3>3. \E l \in DOMAIN file' \ {source'[p]} : file'[l].id = held'[p].id
      BY <1>4, <3>1
    <3> QED BY <2>2, <3>2, <3>3 DEF HeldInv
  <2> QED BY <1>3, <2>1, <2>2
<1>6. MadeInv(p)'
  BY <1>1, <1>2, <1>3 DEF ProgramInv, MadeInv, Put
<1>7. OneInv(p)'
  BY <1>1, <1>2, <1>3 DEF ProgramInv, OneInv, Put, FromFile, ToFree
<1>8. LossInv(p)'
  <2> SUFFICES ASSUME NEW i \in stored' \ deleted
               PROVE  OnDisk(i)' \/ i \in dropped
    BY <1>1 DEF LossInv
  <2>1. OnDisk(i) \/ i \in dropped \/ held[p].id = i
    BY <1>1 DEF ProgramInv, LossInv
  <2>2. ASSUME NEW l \in DOMAIN file, file[l].id = i, l # dest[p] PROVE OnDisk(i)'
    BY <1>1, <2>2 DEF OnDisk, Put
  <2>3. ASSUME held[p].id = i PROVE OnDisk(i)'
    BY <1>4, <2>3 DEF OnDisk
  <2>4. ASSUME dest[p] \in DOMAIN file, file[dest[p]].id = i PROVE held[p].id = i
    BY <1>2, <2>4 DEF ToFree, FromFile
  <2> QED BY <2>1, <2>2, <2>3, <2>4 DEF OnDisk
<1> QED BY <1>5, <1>6, <1>7, <1>8 DEF Parts

LEMMA RemoveStep ==
    ASSUME NEW p, Process = {p}, ProgramInv(p), Remove(p)
    PROVE  Parts(p)'
<1>1. /\ op[p] = "remove" /\ TakeAway(source[p]) /\ op'[p] = "idle"
      /\ UNCHANGED <<made, stored, deleted, dropped, faults>>
  BY TakeRemoved, HoldEffect DEF Remove, Return, ProgramInv
<1>2. /\ FromFile(p)
      /\ \/ held[p].id \in deleted
         \/ \E l \in DOMAIN file \ {source[p]} : file[l].id = held[p].id
  BY <1>1 DEF ProgramInv, HeldInv
<1>3. MadeInv(p)'
  BY <1>1 DEF ProgramInv, MadeInv, TakeAway
<1>4. OneInv(p)'
  BY <1>1 DEF ProgramInv, OneInv, TakeAway
<1>5. LossInv(p)'
  <2> SUFFICES ASSUME NEW i \in stored \ deleted
               PROVE  OnDisk(i)' \/ i \in dropped
    BY <1>1 DEF LossInv
  <2>1. OnDisk(i) \/ i \in dropped
    BY <1>1 DEF ProgramInv, LossInv
  <2>2. ASSUME NEW l \in DOMAIN file, file[l].id = i, l # source[p] PROVE OnDisk(i)'
    <3>1. l \in DOMAIN file' /\ file'[l].id = i
      BY <1>1, <2>2 DEF TakeAway
    <3> QED BY <3>1 DEF OnDisk
  <2> QED BY <1>2, <2>1, <2>2 DEF OnDisk, FromFile
<1> QED BY <1>1, <1>3, <1>4, <1>5, IdleStep DEF Parts

LEMMA SendStep ==
    ASSUME NEW p, Process = {p}, ProgramInv(p), NEW l \in LMI, Send(p, l)
    PROVE  Parts(p)'
<1> DEFINE m == [file[l] EXCEPT !.status = "sent"]
<1>1. /\ op[p] = "send" /\ l \in tosend[p] /\ l \in DOMAIN file /\ file' = file
      /\ UNCHANGED <<made, stored, deleted, dropped, faults, tosend>>
  BY DEF Send, Hold
<1>2. m.id = file[l].id /\ l # 0
  BY <1>1, SizeAssumption DEF ProgramInv, Types, FileTypes, Message
<1>3. /\ op'[p] = "sent" /\ held'[p] = m /\ source'[p] = l /\ dest'[p] = l
      /\ tosend'[p] = tosend[p]
  BY HoldEffect DEF Send, ProgramInv
<1>4. \A k \in tosend[p] : k \in DOMAIN file /\ file[k].status = "queued"
  BY <1>1 DEF ProgramInv, HeldInv
<1>5. held'[p] = [file'[source'[p]] EXCEPT !.status = "sent"]
  BY <1>1, <1>3
<1> HIDE DEF m
<1>6. FromFile(p)'
  BY <1>1, <1>2, <1>3, <1>4 DEF FromFile, Unsent
<1>7. HeldInv(p)'
  BY <1>1, <1>3, <1>4, <1>5, <1>6 DEF HeldInv
<1>8. MadeInv(p)'
  BY <1>1, <1>2, <1>3 DEF ProgramInv, MadeInv
<1>9. OneInv(p)'
  BY <1>1, <1>3 DEF ProgramInv, OneInv
<1>10. LossInv(p)'
  BY <1>1, QuietStep
<1> QED BY <1>7, <1>8, <1>9, <1>10 DEF Parts

LEMMA SaveSentStep ==
    ASSUME NEW p, Process = {p}, ProgramInv(p), SaveSent(p)
    PROVE  Parts(p)'
<1>1. /\ op[p] = "sent" /\ Put(held[p], dest[p]) /\ op'[p] = "send"
      /\ tosend'[p] = tosend[p] \ {dest[p]}
      /\ UNCHANGED <<made, stored, deleted, dropped, faults>>
  BY PutSaved DEF SaveSent, ProgramInv, Types, ProcTypes
<1>2. /\ FromFile(p) /\ dest[p] = source[p]
      /\ \A l \in tosend[p] : l \in DOMAIN file /\ file[l].status = "queued"
  BY <1>1 DEF ProgramInv, HeldInv
<1>3. /\ DOMAIN file' = DOMAIN file
      /\ \A l \in DOMAIN file : file'[l].id = file[l].id
      /\ \A l \in DOMAIN file : l # dest[p] => file'[l] = file[l]
  BY <1>1, <1>2 DEF Put, FromFile
<1>4. HeldInv(p)'
  <2>1. \A l \in tosend'[p] : l \in DOMAIN file' /\ file'[l].status = "queued"
    BY <1>1, <1>2, <1>3
  <2> QED BY <1>1, <2>1 DEF HeldInv
<1>5. MadeInv(p)'
  BY <1>1, <1>3 DEF ProgramInv, MadeInv
<1>6. OneInv(p)'
  BY <1>1, <1>3 DEF ProgramInv, OneInv
<1>7. LossInv(p)'
  BY <1>1, <1>3 DEF ProgramInv, LossInv, OnDisk
<1> QED BY <1>4, <1>5, <1>6, <1>7 DEF Parts

LEMMA ReceiveStep ==
    ASSUME NEW p, Process = {p}, ProgramInv(p), NEW want \in LMI, Receive(p, want)
    PROVE  Parts(p)'
<1> DEFINE m == [id |-> made + 1, origin |-> 0, status |-> "received"]
<1>1. PICK k : k \notin DOMAIN file /\ Put(m, k)
  <2>1. UniqueMessageID(want) \notin DOMAIN file
    BY UniqueIsFree, FreeIDs DEF Receive
  <2> QED BY <2>1, PutSaved DEF Receive
<1>2. /\ op[p] = "send" /\ tosend[p] = {} /\ made' = made + 1
      /\ stored' = stored \cup {made + 1}
      /\ UNCHANGED <<op, held, source, dest, tosend, deleted, dropped, faults>>
  BY DEF Receive
<1>3. m.id = made + 1
  OBVIOUS
<1> HIDE DEF m
<1>4. HeldInv(p)'
  BY <1>2 DEF HeldInv
<1>5. MadeInv(p)'
  BY <1>1, <1>2, <1>3, Numbers DEF MadeInv, Put
<1>6. OneInv(p)'
  BY <1>1, <1>2, <1>3, Numbers DEF ProgramInv, OneInv, Put
<1>7. LossInv(p)'
  <2> SUFFICES ASSUME NEW i \in stored' \ deleted
               PROVE  OnDisk(i)' \/ i \in dropped
    BY <1>2 DEF LossInv
  <2>1. CASE i = made + 1
    BY <1>1, <1>3, <2>1 DEF Put, OnDisk
  <2>2. CASE i # made + 1
    <3>1. OnDisk(i) \/ i \in dropped
      BY <1>2, <2>2 DEF ProgramInv, LossInv
    <3>2. ASSUME NEW l \in DOMAIN file, file[l].id = i PROVE OnDisk(i)'
      BY <1>1, <3>2 DEF Put, OnDisk
    <3> QED BY <3>1, <3>2 DEF OnDisk
  <2> QED BY <2>1, <2>2
<1> QED BY <1>4, <1>5, <1>6, <1>7 DEF Parts

LEMMA DisconnectStep ==
    ASSUME NEW p, Process = {p}, ProgramInv(p), Disconnect(p)
    PROVE  Parts(p)'
<1>1. /\ op[p] = "send" /\ op'[p] = "idle" /\ file' = file /\ made' = made
      /\ UNCHANGED <<stored, deleted, dropped, faults>>
  BY DEF Disconnect, ProgramInv, Types, ProcTypes
<1>2. MadeInv(p)' /\ LossInv(p)'
  BY <1>1, QuietStep DEF MadeInv
<1>3. OneInv(p)'
  BY <1>1 DEF ProgramInv, OneInv
<1> QED BY <1>1, <1>2, <1>3, IdleStep DEF Parts

\* After a fault a message may be in two files, or in memory and in one.
LEMMA StopStep ==
    ASSUME NEW p, Process = {p}, ProgramInv(p), Stop(p)
    PROVE  Parts(p)'
<1>1. /\ op'[p] = "idle" /\ file' = file /\ made' = made
      /\ dropped' = IF op[p] = "save" /\ source[p] = 0 THEN dropped \cup {held[p].id}
                    ELSE dropped
      /\ faults' = faults + 1 /\ faults \in Nat
      /\ UNCHANGED <<stored, deleted>>
  BY FaultAssumption DEF Stop, ProgramInv, Types, ProcTypes, HistoryTypes
<1>2. MadeInv(p)'
  BY <1>1 DEF ProgramInv, MadeInv
<1>3. OneInv(p)'
  BY <1>1 DEF OneInv
<1>4. LossInv(p)'
  <2> SUFFICES ASSUME NEW i \in stored \ deleted
               PROVE  OnDisk(i) \/ i \in dropped'
    BY <1>1 DEF LossInv, OnDisk
  <2>1. OnDisk(i) \/ i \in dropped \/ (op[p] = "save" /\ held[p].id = i)
    BY DEF ProgramInv, LossInv
  <2>2. ASSUME op[p] = "save", held[p].id = i, source[p] # 0 PROVE OnDisk(i)
    BY <2>2 DEF ProgramInv, HeldInv, FromFile, OnDisk
  <2> QED BY <1>1, <2>1, <2>2
<1> QED BY <1>1, <1>2, <1>3, <1>4, IdleStep DEF Parts

LEMMA ReplaceFailsStep ==
    ASSUME NEW p, Process = {p}, ProgramInv(p), ReplaceFails(p)
    PROVE  Parts(p)'
<1>1. /\ op[p] = "replace" /\ file' = file /\ made' = made
      /\ faults' = faults + 1 /\ faults \in Nat
      /\ UNCHANGED <<stored, deleted, dropped>>
  BY FaultAssumption DEF ReplaceFails, ProgramInv, Types, HistoryTypes
<1>2. op'[p] = "save" /\ held'[p] = held[p] /\ source'[p] = 0 /\ dest'[p] = dest[p]
  BY HoldEffect DEF ReplaceFails, ProgramInv
<1>3. ToFree(p) /\ held[p].origin = dest[p] /\ held[p].status \in Unsent
  BY <1>1 DEF ProgramInv, HeldInv
<1>4. HeldInv(p)'
  <2>1. ToFree(p)'
    BY <1>1, <1>2, <1>3 DEF ToFree
  <2> QED BY <1>2, <1>3, <2>1 DEF HeldInv
<1>5. MadeInv(p)'
  BY <1>1, <1>2 DEF ProgramInv, MadeInv
<1>6. OneInv(p)'
  BY <1>1 DEF OneInv
<1>7. LossInv(p)'
  BY <1>1, QuietStep
<1> QED BY <1>4, <1>5, <1>6, <1>7 DEF Parts

LEMMA StutterStep ==
    ASSUME NEW p, Process = {p}, ProgramInv(p), UNCHANGED vars
    PROVE  Parts(p)'
<1>1. HeldInv(p)'
  BY DEF ProgramInv, HeldInv, FromFile, ToFree
<1>2. MadeInv(p)' /\ OneInv(p)'
  BY DEF ProgramInv, MadeInv, OneInv
<1>3. LossInv(p)'
  BY DEF ProgramInv, LossInv, OnDisk
<1> QED BY <1>1, <1>2, <1>3 DEF Parts

LEMMA ProgramStep ==
    ASSUME NEW p, Process = {p}, ProgramInv(p), [Next]_vars
    PROVE  ProgramInv(p)'
<1>1. Types'
  BY TypesStep DEF ProgramInv
<1>2. FiledByOrigin'
  BY FiledStep
<1>3. Parts(p)'
  <2>1. CASE Command(p)
    <3>1. ASSUME NEW l \in DOMAIN file, Queue(p, l) \/ Draft(p, l) PROVE Parts(p)'
      BY <3>1, StatusStep DEF Queue, Draft, Unsent
    <3> QED BY <2>1, <3>1, NewStep, TakeStep, ConnectStep DEF Command
  <2>2. CASE FormStep(p)
    BY <2>2, EditDoneStep, SetDoneStep, AbandonStep DEF FormStep
  <2>3. CASE FileStep(p)
    BY <2>3, ReplaceStep, SaveStep, RemoveStep, SaveSentStep DEF FileStep
  <2>4. CASE Session(p)
    BY <2>4, SendStep, ReceiveStep, DisconnectStep DEF Session
  <2>5. CASE Stop(p) \/ ReplaceFails(p)
    BY <2>5, StopStep, ReplaceFailsStep
  <2>6. CASE UNCHANGED vars
    BY <2>6, StutterStep
  <2> QED BY <2>1, <2>2, <2>3, <2>4, <2>5, <2>6 DEF Next
<1> QED BY <1>1, <1>2, <1>3 DEF Parts, ProgramInv

LEMMA ProgramInit ==
    ASSUME NEW p, Process = {p}, Init
    PROVE  ProgramInv(p)
<1>1. Types
  BY InitTypes
<1> QED BY <1>1 DEF Init, ProgramInv, HeldInv, MadeInv, FiledByOrigin, OneInv, LossInv

\* With one program in the directory, what it holds fits the directory.
THEOREM Invariance ==
    ASSUME NEW p, Process = {p}
    PROVE  Spec => []ProgramInv(p)
BY ProgramInit, ProgramStep, PTL DEF Spec

\* A message that was sent or received stays in its file as it was.
THEOREM FinalKept ==
    ASSUME NEW p, Process = {p}
    PROVE  Spec => FinalForever
<1>1. ProgramInv(p) /\ [Next]_vars =>
        [\A l \in DOMAIN file :
           file[l].status \in Final => l \in DOMAIN file' /\ file'[l] = file[l]]_vars
  BY FinalStep
<1> QED BY <1>1, Invariance, PTL DEF Spec, FinalForever

\* UniqueMessageID gives no message the file of another.
THEOREM NoOverwriting ==
    ASSUME NEW p, Process = {p}
    PROVE  Spec => NeverOverwritten
<1>1. ProgramInv(p) /\ [Next]_vars =>
        [\A l \in DOMAIN file \cap DOMAIN file' : file'[l].id = file[l].id]_vars
  BY OverwriteStep
<1> QED BY <1>1, Invariance, PTL DEF Spec, NeverOverwritten

\* Every outgoing message is filed under the Origin Message ID it carries.
THEOREM FiledUnderOrigin ==
    ASSUME NEW p, Process = {p}
    PROVE  Spec => []FiledByOrigin
<1>1. ProgramInv(p) => FiledByOrigin
  BY DEF ProgramInv
<1> QED BY <1>1, Invariance, PTL

\* Without a fault, a message has one file whenever no set command is between
\* the file of the new ID and that of the old.
THEOREM FiledOnce ==
    ASSUME NEW p, Process = {p}
    PROVE  Spec => []OneFileEach
<1>1. ProgramInv(p) => OneFileEach
  <2> SUFFICES ASSUME ProgramInv(p), NEW l \in DOMAIN file, NEW k \in DOMAIN file,
                      file[l].id = file[k].id, l # k
               PROVE  faults > 0 \/ (op[p] = "remove" /\ source[p] \in {l, k})
    BY DEF OneFileEach
  <2>1. faults \in Nat
    BY FaultAssumption DEF ProgramInv, Types, HistoryTypes
  <2> QED BY <2>1 DEF ProgramInv, OneInv
<1> QED BY <1>1, Invariance, PTL

\* No command loses a message that was saved, unless it was to delete it or the
\* program stopped between the two writes of a change of ID.
THEOREM NoMessageLost ==
    ASSUME NEW p, Process = {p}
    PROVE  Spec => []NothingLost
<1>1. ProgramInv(p) => NothingLost
  BY DEF ProgramInv, LossInv, NothingLost
<1> QED BY <1>1, Invariance, PTL

-----------------------------------------------------------------------------
(* How often a message is sent.  What bounds it is the number of places from *)
(* which it may still be sent: a file in which it is unsent, or a form that  *)
(* will be saved.  Only a fault adds such a place to a message, and sending  *)
(* takes one away.                                                           *)

\* The file that a program is about to replace by the sent message, or to
\* remove, is not such a place.
GoingAway(p, l) == op[p] \in {"sent", "remove"} /\ l = source[p]

Place(p, i, l) ==
    \/ l = 0 /\ op[p] \in {"edit", "save"} /\ source[p] = 0 /\ held[p].id = i
    \/ /\ l \in DOMAIN file /\ file[l].id = i /\ file[l].status \in Unsent
       /\ ~GoingAway(p, l)

Places(p, i) == {l \in LMI \cup {0} : Place(p, i, l)}

SendBound(p, i) ==
    /\ i > made => sends[i] = 0
    /\ sends[i] + Cardinality(Places(p, i)) <= 1 + faults

SendInv(p) == \A i \in Ident : SendBound(p, i)

LEMMA PlacesFinite ==
    ASSUME NEW S \in SUBSET (LMI \cup {0})
    PROVE  IsFiniteSet(S) /\ Cardinality(S) \in Nat
<1>1. IsFiniteSet(1 .. MaxSeq)
  BY SizeAssumption, FS_Interval
<1>2. IsFiniteSet(LMI \cup {0})
  BY <1>1, FS_AddElement
<1>3. IsFiniteSet(S)
  BY <1>2, FS_Subset
<1> QED BY <1>3, FS_CardinalityType

\* How the number of places changes with the places.
LEMMA FewerPlaces ==
    ASSUME NEW S \in SUBSET (LMI \cup {0}), NEW T \in SUBSET S
    PROVE  Cardinality(T) <= Cardinality(S)
BY PlacesFinite, FS_Subset

LEMMA OneMorePlace ==
    ASSUME NEW S \in SUBSET (LMI \cup {0}), NEW x, NEW T \in SUBSET (S \cup {x})
    PROVE  Cardinality(T) <= Cardinality(S) + 1
<1>0. IsFiniteSet(S) /\ Cardinality(S) \in Nat
  BY PlacesFinite
<1>1. IsFiniteSet(S \cup {x}) /\ Cardinality(S \cup {x}) <= Cardinality(S) + 1
  BY <1>0, FS_AddElement
<1>2. Cardinality(T) <= Cardinality(S \cup {x}) /\ IsFiniteSet(T)
  BY <1>1, FS_Subset
<1>3. Cardinality(T) \in Nat /\ Cardinality(S \cup {x}) \in Nat /\ Cardinality(S) \in Nat
  BY <1>1, <1>2, PlacesFinite, FS_CardinalityType
<1> QED BY <1>1, <1>2, <1>3

LEMMA OnePlaceLess ==
    ASSUME NEW S \in SUBSET (LMI \cup {0}), NEW x \in S, NEW T \in SUBSET (S \ {x})
    PROVE  Cardinality(T) + 1 <= Cardinality(S)
<1>1. IsFiniteSet(S) /\ Cardinality(S) \in Nat
  BY PlacesFinite
<1>2. IsFiniteSet(S \ {x}) /\ Cardinality(S \ {x}) = Cardinality(S) - 1
  BY <1>1, FS_RemoveElement
<1>3. Cardinality(T) <= Cardinality(S \ {x}) /\ Cardinality(T) \in Nat
  BY <1>2, FS_Subset, FS_CardinalityType
<1> QED BY <1>1, <1>2, <1>3

LEMMA PlaceMoved ==
    ASSUME NEW S \in SUBSET (LMI \cup {0}), NEW x \in S, NEW y,
           NEW T \in SUBSET ((S \ {x}) \cup {y})
    PROVE  Cardinality(T) <= Cardinality(S)
<1>1. Cardinality(T) <= Cardinality(S \ {x}) + 1
  BY OneMorePlace
<1>2. Cardinality(S \ {x}) + 1 <= Cardinality(S)
  BY OnePlaceLess
<1>3. Cardinality(S \ {x}) \in Nat /\ Cardinality(S) \in Nat
  BY PlacesFinite
<1>4. IsFiniteSet(S \ {x})
  BY PlacesFinite
<1>5. IsFiniteSet((S \ {x}) \cup {y})
  BY <1>4, FS_AddElement
<1>6. Cardinality(T) \in Nat
  BY <1>5, FS_Subset, FS_CardinalityType
<1> QED BY <1>1, <1>2, <1>3, <1>6

\* At most as many places as before.
Keeps(S, T) == T \subseteq S \/ \E x \in S, y \in LMI \cup {0} : T \subseteq (S \ {x}) \cup {y}

LEMMA PlaceNumbers ==
    ASSUME NEW p, NEW i \in Ident, Types
    PROVE  /\ Places(p, i) \in SUBSET (LMI \cup {0})
           /\ Cardinality(Places(p, i)) \in Nat
           /\ made \in Nat /\ faults \in Nat /\ sends[i] \in Nat /\ i \in Nat
<1>1. Places(p, i) \in SUBSET (LMI \cup {0})
  BY DEF Places
<1>2. Cardinality(Places(p, i)) \in Nat
  BY <1>1, PlacesFinite
<1>3. made \in Nat /\ faults \in Nat /\ sends[i] \in Nat /\ i \in Nat
  BY SizeAssumption, FaultAssumption DEF Types, HistoryTypes
<1> QED BY <1>1, <1>2, <1>3

LEMMA BoundKept ==
    ASSUME NEW p, NEW i \in Ident, Types, Types', SendBound(p, i),
           Keeps(Places(p, i), Places(p, i)'),
           sends'[i] = sends[i], faults' >= faults, made' >= made
    PROVE  SendBound(p, i)'
<1> DEFINE S == Places(p, i)
           T == Places(p, i)'
<1>1. /\ S \in SUBSET (LMI \cup {0}) /\ Cardinality(S) \in Nat
      /\ made \in Nat /\ faults \in Nat /\ sends[i] \in Nat /\ i \in Nat
  BY PlaceNumbers
<1>2. T \in SUBSET (LMI \cup {0}) /\ made' \in Nat /\ faults' \in Nat
  BY SizeAssumption, FaultAssumption DEF Places, Types, HistoryTypes
<1>3. Keeps(S, T) /\ sends[i] + Cardinality(S) <= 1 + faults
  BY DEF SendBound
<1>4. i > made' => sends'[i] = 0
  BY <1>1, <1>2 DEF SendBound
<1> HIDE DEF S, T
<1>5. Cardinality(T) <= Cardinality(S) /\ Cardinality(T) \in Nat
  BY <1>1, <1>2, <1>3, PlacesFinite, FewerPlaces, PlaceMoved DEF Keeps
<1>6. sends'[i] + Cardinality(T) <= 1 + faults'
  BY <1>1, <1>2, <1>3, <1>5
<1> QED BY <1>4, <1>6 DEF SendBound, T

LEMMA BoundAfterFault ==
    ASSUME NEW p, NEW i \in Ident, Types, Types', SendBound(p, i),
           NEW x, Places(p, i)' \subseteq Places(p, i) \cup {x},
           sends'[i] = sends[i], faults' = faults + 1, made' = made
    PROVE  SendBound(p, i)'
<1> DEFINE S == Places(p, i)
           T == Places(p, i)'
<1>1. /\ S \in SUBSET (LMI \cup {0}) /\ Cardinality(S) \in Nat
      /\ made \in Nat /\ faults \in Nat /\ sends[i] \in Nat /\ i \in Nat
  BY PlaceNumbers
<1>2. T \in SUBSET (S \cup {x}) /\ T \in SUBSET (LMI \cup {0})
  BY DEF Places
<1>3. sends[i] + Cardinality(S) <= 1 + faults /\ (i > made' => sends'[i] = 0)
  BY DEF SendBound
<1> HIDE DEF S, T
<1>4. Cardinality(T) <= Cardinality(S) + 1 /\ Cardinality(T) \in Nat
  BY <1>1, <1>2, OneMorePlace, PlacesFinite
<1>5. sends'[i] + Cardinality(T) <= 1 + faults'
  BY <1>1, <1>3, <1>4
<1> QED BY <1>3, <1>5 DEF SendBound, T

LEMMA BoundAfterSend ==
    ASSUME NEW p, NEW i \in Ident, Types, Types', SendBound(p, i),
           NEW x \in Places(p, i), Places(p, i)' \subseteq Places(p, i) \ {x},
           sends'[i] = sends[i] + 1, faults' = faults, i <= made'
    PROVE  SendBound(p, i)'
<1> DEFINE S == Places(p, i)
           T == Places(p, i)'
<1>1. /\ S \in SUBSET (LMI \cup {0}) /\ Cardinality(S) \in Nat
      /\ faults \in Nat /\ sends[i] \in Nat /\ i \in Nat
  BY PlaceNumbers
<1>2. T \in SUBSET (S \ {x}) /\ T \in SUBSET (LMI \cup {0}) /\ x \in S
  BY DEF Places
<1>3. sends[i] + Cardinality(S) <= 1 + faults /\ made' \in Nat
  BY SizeAssumption DEF SendBound, Types, HistoryTypes
<1> HIDE DEF S, T
<1>4. Cardinality(T) + 1 <= Cardinality(S) /\ Cardinality(T) \in Nat
  BY <1>1, <1>2, OnePlaceLess, PlacesFinite
<1>5. sends'[i] + Cardinality(T) <= 1 + faults'
  BY <1>1, <1>3, <1>4
<1>6. ~(i > made')
  BY <1>1, <1>3
<1> QED BY <1>5, <1>6 DEF SendBound, T

\* A step that leaves the directory alone adds no place, unless it is to a form.
LEMMA QuietPlaces ==
    ASSUME NEW p, NEW i \in Ident, file' = file, op[p] \notin {"sent", "remove"},
           Place(p, i, 0)' => Place(p, i, 0)
    PROVE  Places(p, i)' \subseteq Places(p, i)
<1>1. \A l \in LMI : Place(p, i, l)' => Place(p, i, l)
  <2> SUFFICES ASSUME NEW l \in LMI, Place(p, i, l)' PROVE Place(p, i, l)
    OBVIOUS
  <2>1. l # 0
    BY SizeAssumption
  <2> QED BY <2>1 DEF Place, GoingAway
<1> QED BY <1>1 DEF Places

\* In a form, or on its way from one.
LEMMA NoFileZero ==
    ASSUME Types, NEW p, NEW i
    PROVE  Place(p, i, 0) <=>
             op[p] \in {"edit", "save"} /\ source[p] = 0 /\ held[p].id = i
BY SizeAssumption DEF Place, Types, FileTypes

LEMMA QuietBound ==
    ASSUME NEW p, NEW i \in Ident, Types, Types', SendBound(p, i),
           file' = file, op[p] \notin {"sent", "remove"},
           Place(p, i, 0)' => Place(p, i, 0),
           UNCHANGED <<made, sends, faults>>
    PROVE  SendBound(p, i)'
<1>1. Places(p, i)' \subseteq Places(p, i)
  BY QuietPlaces
<1>2. Keeps(Places(p, i), Places(p, i)')
  BY <1>1 DEF Keeps
<1> QED BY <1>2, BoundKept, PlaceNumbers

LEMMA CommandBound ==
    ASSUME NEW p, Process = {p}, ProgramInv(p), Types', SendInv(p), Command(p)
    PROVE  SendInv(p)'
<1> SUFFICES ASSUME NEW i \in Ident PROVE SendBound(p, i)'
  BY DEF SendInv
<1>0. Types /\ SendBound(p, i) /\ 0 \notin LMI
  BY SizeAssumption DEF ProgramInv, SendInv
<1>1. ASSUME NEW want, NewInForm(p, want) \/ NewInScript(p, want) PROVE SendBound(p, i)'
  <2>1. PICK step, m, to : Hold(p, step, m, 0, to) /\ m.id = made + 1
    BY <1>1 DEF NewInForm, NewInScript
  <2>2. /\ op[p] = "idle" /\ file' = file /\ made' = made + 1
        /\ sends' = sends /\ faults' = faults
    BY <1>1 DEF NewInForm, NewInScript
  <2>3. held'[p].id = made + 1 /\ op'[p] = step
    BY <1>0, <2>1, HoldEffect
  <2>4. /\ made \in Nat /\ sends[i] \in Nat /\ i \in Nat /\ faults \in Nat
        /\ \A l \in DOMAIN file : file[l].id <= made
    BY <1>0, PlaceNumbers DEF ProgramInv, MadeInv
  <2>5. CASE i # made + 1
    <3>1. ~Place(p, i, 0)'
      BY <1>0, <2>3, <2>5, NoFileZero DEF Place, Types, FileTypes
    <3>2. Keeps(Places(p, i), Places(p, i)')
      BY <2>2, <3>1, QuietPlaces DEF Keeps
    <3> QED BY <1>0, <2>2, <2>4, <3>2, BoundKept
  <2>6. CASE i = made + 1
    <3>1. \A l \in LMI : ~Place(p, i, l)'
      BY <1>0, <2>2, <2>4, <2>6 DEF Place
    <3>2. Places(p, i)' \subseteq {} \cup {0}
      BY <3>1 DEF Places
    <3> DEFINE T == Places(p, i)'
    <3>3. T \in SUBSET (LMI \cup {0}) /\ T \in SUBSET ({} \cup {0})
      BY <3>2 DEF Places
    <3> HIDE DEF T
    <3>4. Cardinality(T) <= Cardinality({}) + 1 /\ Cardinality(T) \in Nat
      BY <3>3, OneMorePlace, PlacesFinite
    <3>5. Cardinality({}) = 0
      BY FS_EmptySet
    <3>6. sends'[i] = 0
      BY <1>0, <2>2, <2>4, <2>6 DEF SendBound
    <3>7. sends'[i] + Cardinality(T) <= 1 + faults'
      BY <2>2, <2>4, <3>4, <3>5, <3>6
    <3> QED BY <3>6, <3>7 DEF SendBound, T
  <2> QED BY <2>5, <2>6
<1>2. ASSUME NEW l \in DOMAIN file,
             Edit(p, l) \/ Set(p, l) \/ Queue(p, l) \/ Draft(p, l) \/ Delete(p, l)
      PROVE  SendBound(p, i)'
  <2>1. PICK step, m, to : Hold(p, step, m, l, to)
    BY <1>2 DEF Edit, Set, Queue, Draft, ChangeStatus, Delete
  <2>2. op[p] = "idle" /\ file' = file /\ UNCHANGED <<made, sends, faults>>
    BY <1>2 DEF Edit, Set, Queue, Draft, ChangeStatus, Delete
  <2>3. source'[p] # 0
    BY <1>0, <2>1, HoldEffect DEF Types, FileTypes
  <2>4. ~Place(p, i, 0)'
    BY <1>0, <2>3 DEF Place, Types, FileTypes
  <2> QED BY <1>0, <2>2, <2>4, QuietBound
<1>3. CASE Connect(p)
  <2>1. op[p] = "idle" /\ op'[p] = "send" /\ file' = file /\ UNCHANGED <<made, sends, faults>>
    BY <1>0, <1>3 DEF Connect, Types, ProcTypes
  <2>2. ~Place(p, i, 0)'
    BY <1>0, <2>1 DEF Place, Types, FileTypes
  <2> QED BY <1>0, <2>1, <2>2, QuietBound
<1> QED BY <1>1, <1>2, <1>3 DEF Command

LEMMA FormBound ==
    ASSUME NEW p, Process = {p}, ProgramInv(p), Types', SendInv(p), FormStep(p)
    PROVE  SendInv(p)'
<1> SUFFICES ASSUME NEW i \in Ident PROVE SendBound(p, i)'
  BY DEF SendInv
<1>0. Types /\ SendBound(p, i)
  BY DEF ProgramInv, SendInv
<1>1. file' = file /\ op[p] \in {"edit", "set"} /\ UNCHANGED <<made, sends, faults>>
  BY DEF FormStep, EditDone, SetDone, Abandon
<1>2. Place(p, i, 0)' => Place(p, i, 0)
  <2>1. CASE Abandon(p)
    <3>1. op'[p] = "idle"
      BY <1>0, <2>1, HoldEffect DEF Abandon, Return
    <3> QED BY <1>0, <1>1, <3>1, NoFileZero DEF Place, Types, FileTypes
  <2>2. ASSUME NEW omi, NEW status, EditDone(p, omi, status) \/ SetDone(p, omi, status)
        PROVE  Place(p, i, 0)' => Place(p, i, 0)
    <3>1. PICK step, o, to :
            Hold(p, step, [held[p] EXCEPT !.origin = o, !.status = status], source[p], to)
      BY <2>2 DEF EditDone, SetDone
    <3> DEFINE m == [held[p] EXCEPT !.origin = o, !.status = status]
    <3>2. m.id = held[p].id
      BY <1>0, <1>1 DEF Types, ProcTypes, Holds, Message
    <3> HIDE DEF m
    <3>3. held'[p].id = held[p].id /\ source'[p] = source[p]
      <4>1. Hold(p, step, m, source[p], to)
        BY <3>1 DEF m
      <4>2. held'[p] = m /\ source'[p] = source[p]
        BY <1>0, <4>1, HoldEffect
      <4> QED BY <3>2, <4>2
    <3>4. op[p] = "edit" \/ source[p] # 0
      BY <1>0, <1>1 DEF Types, ProcTypes, Holds
    <3>5. 0 \notin DOMAIN file'
      BY <1>0, <1>1, SizeAssumption DEF Types, FileTypes
    <3> QED BY <3>3, <3>4, <3>5 DEF Place
  <2> QED BY <2>1, <2>2 DEF FormStep
<1> QED BY <1>0, <1>1, <1>2, QuietBound

LEMMA FileBound ==
    ASSUME NEW p, Process = {p}, ProgramInv(p), Types', SendInv(p), FileStep(p)
    PROVE  SendInv(p)'
<1> SUFFICES ASSUME NEW i \in Ident PROVE SendBound(p, i)'
  BY DEF SendInv
<1>0. Types /\ SendBound(p, i) /\ 0 \notin DOMAIN file /\ 0 \notin DOMAIN file'
  BY SizeAssumption DEF ProgramInv, SendInv, Types, FileTypes
<1>1. UNCHANGED <<made, sends, faults>>
  BY DEF FileStep, Replace, Save, Remove, SaveSent
<1> SUFFICES Keeps(Places(p, i), Places(p, i)')
  BY <1>0, <1>1, BoundKept, PlaceNumbers
<1>2. DOMAIN file \subseteq LMI /\ DOMAIN file' \subseteq LMI
  BY <1>0 DEF Types, FileTypes
<1>3. CASE Replace(p)
  <2>1. /\ op[p] = "replace" /\ TakeAway(source[p])
        /\ op'[p] = "save" /\ held'[p] = held[p] /\ source'[p] = 0
    BY <1>0, <1>3, TakeRemoved, HoldEffect DEF Replace
  <2>2. FromFile(p)
    BY <2>1 DEF ProgramInv, HeldInv
  <2>3. CASE held[p].id = i
    <3>1. source[p] \in Places(p, i)
      BY <1>2, <2>1, <2>2, <2>3 DEF FromFile, Places, Place, GoingAway
    <3>2. Places(p, i)' \subseteq (Places(p, i) \ {source[p]}) \cup {0}
      BY <1>0, <1>2, <2>1 DEF TakeAway, Places, Place, GoingAway
    <3> QED BY <3>1, <3>2 DEF Keeps
  <2>4. CASE held[p].id # i
    <3>1. Places(p, i)' \subseteq Places(p, i)
      BY <1>0, <1>2, <2>1, <2>4 DEF TakeAway, Places, Place, GoingAway
    <3> QED BY <3>1 DEF Keeps
  <2> QED BY <2>3, <2>4
<1>4. CASE Save(p)
  <2>1. op[p] = "save" /\ Put(held[p], dest[p])
    BY <1>4, PutSaved DEF Save
  <2>2. /\ \/ source[p] = 0 /\ ToFree(p)
           \/ FromFile(p) /\ (dest[p] = source[p] \/ ToFree(p))
        /\ dest[p] # 0 /\ dest[p] \in LMI
    BY <1>0, <2>1 DEF ProgramInv, HeldInv, Types, ProcTypes, Holds
  <2>3. \/ source[p] \in {0, dest[p]} /\ op'[p] = "idle"
        \/ source[p] \notin {0, dest[p]} /\ op'[p] = "remove" /\ source'[p] = source[p]
    BY <1>0, <1>4, HoldEffect DEF Save, Return
  <2>4. CASE held[p].id # i \/ (FromFile(p) /\ dest[p] = source[p])
    <3>1. Places(p, i)' \subseteq Places(p, i)
      BY <1>0, <1>2, <2>1, <2>2, <2>3, <2>4
         DEF Put, Places, Place, GoingAway, FromFile, ToFree
    <3> QED BY <3>1 DEF Keeps
  <2>5. CASE held[p].id = i /\ source[p] = 0 /\ ToFree(p)
    <3>1. 0 \in Places(p, i)
      BY <2>1, <2>5 DEF Places, Place
    <3>2. Places(p, i)' \subseteq (Places(p, i) \ {0}) \cup {dest[p]}
      BY <1>0, <1>2, <2>1, <2>3, <2>5 DEF Put, Places, Place, GoingAway
    <3> QED BY <2>2, <3>1, <3>2 DEF Keeps
  <2>6. CASE held[p].id = i /\ FromFile(p) /\ ToFree(p)
    <3>1. source[p] \in Places(p, i) /\ source[p] \notin {0, dest[p]}
      BY <1>0, <1>2, <2>1, <2>6 DEF FromFile, ToFree, Places, Place, GoingAway
    <3>2. Places(p, i)' \subseteq (Places(p, i) \ {source[p]}) \cup {dest[p]}
      BY <1>0, <1>2, <2>1, <2>3, <3>1 DEF Put, Places, Place, GoingAway
    <3> QED BY <2>2, <3>1, <3>2 DEF Keeps
  <2> QED BY <2>2, <2>4, <2>5, <2>6
<1>5. CASE Remove(p)
  <2>1. op[p] = "remove" /\ TakeAway(source[p]) /\ op'[p] = "idle"
    BY <1>0, <1>5, TakeRemoved, HoldEffect DEF Remove, Return
  <2>2. Places(p, i)' \subseteq Places(p, i)
    BY <1>0, <1>2, <2>1 DEF TakeAway, Places, Place, GoingAway
  <2> QED BY <2>2 DEF Keeps
<1>6. CASE SaveSent(p)
  <2>1. op[p] = "sent" /\ Put(held[p], dest[p]) /\ op'[p] = "send"
    BY <1>0, <1>6, PutSaved DEF SaveSent, Types, ProcTypes
  <2>2. dest[p] = source[p] /\ FromFile(p) /\ file[source[p]] \in Message
        /\ held[p] = [file[source[p]] EXCEPT !.status = "sent"]
    BY <1>0, <2>1 DEF ProgramInv, HeldInv, FromFile, Types, FileTypes
  <2>3. held[p].status \notin Unsent
    BY <2>2 DEF Message, Unsent
  <2>4. Places(p, i)' \subseteq Places(p, i)
    BY <1>0, <1>2, <2>1, <2>2, <2>3 DEF Put, FromFile, Places, Place, GoingAway
  <2> QED BY <2>4 DEF Keeps
<1> QED BY <1>3, <1>4, <1>5, <1>6 DEF FileStep

LEMMA SessionBound ==
    ASSUME NEW p, Process = {p}, ProgramInv(p), Types', SendInv(p), Session(p)
    PROVE  SendInv(p)'
<1> SUFFICES ASSUME NEW i \in Ident PROVE SendBound(p, i)'
  BY DEF SendInv
<1>0. /\ Types /\ SendBound(p, i) /\ 0 \notin DOMAIN file /\ 0 \notin DOMAIN file'
      /\ DOMAIN file \subseteq LMI
  BY SizeAssumption DEF ProgramInv, SendInv, Types, FileTypes
<1>1. ASSUME NEW l \in LMI, Send(p, l) PROVE SendBound(p, i)'
  <2>1. /\ op[p] = "send" /\ l \in tosend[p] /\ l \in DOMAIN file /\ file' = file
        /\ sends' = [sends EXCEPT ![file[l].id] = @ + 1]
        /\ UNCHANGED <<made, faults>>
    BY <1>1 DEF Send
  <2>2. op'[p] = "sent" /\ source'[p] = l
    BY <1>0, <1>1, HoldEffect DEF Send
  <2>3. file[l].status \in Unsent /\ file[l].id <= made /\ sends \in [Ident -> Nat]
    BY <1>0, <2>1 DEF ProgramInv, HeldInv, MadeInv, Unsent, Types, HistoryTypes
  <2>4. CASE file[l].id = i
    <3>1. l \in Places(p, i)
      BY <1>0, <2>1, <2>3, <2>4 DEF Places, Place, GoingAway
    <3>2. Places(p, i)' \subseteq Places(p, i) \ {l}
      BY <1>0, <2>1, <2>2 DEF Places, Place, GoingAway
    <3>3. sends'[i] = sends[i] + 1
      BY <2>1, <2>3, <2>4
    <3> QED BY <1>0, <2>1, <2>3, <2>4, <3>1, <3>2, <3>3, BoundAfterSend
  <2>5. CASE file[l].id # i
    <3>1. sends'[i] = sends[i]
      BY <2>1, <2>3, <2>5
    <3>2. Places(p, i)' \subseteq Places(p, i)
      BY <1>0, <2>1, <2>2 DEF Places, Place, GoingAway
    <3>3. Keeps(Places(p, i), Places(p, i)')
      BY <3>2 DEF Keeps
    <3> QED BY <1>0, <2>1, <3>1, <3>3, BoundKept, PlaceNumbers
  <2> QED BY <2>4, <2>5
<1>2. ASSUME NEW want \in LMI, Receive(p, want) PROVE SendBound(p, i)'
  <2> DEFINE m == [id |-> made + 1, origin |-> 0, status |-> "received"]
  <2>1. PICK k : k \notin DOMAIN file /\ Put(m, k)
    <3>1. UniqueMessageID(want) \notin DOMAIN file
      BY <1>2, UniqueIsFree, FreeIDs DEF Receive
    <3> QED BY <1>2, <3>1, PutSaved DEF Receive
  <2>2. m.status \notin Unsent
    BY DEF Unsent
  <2> HIDE DEF m
  <2>3. op[p] = "send" /\ made' = made + 1 /\ UNCHANGED <<op, held, source, sends, faults>>
    BY <1>2 DEF Receive
  <2>4. Places(p, i)' \subseteq Places(p, i)
    BY <1>0, <2>1, <2>2, <2>3 DEF Put, Places, Place, GoingAway
  <2>5. Keeps(Places(p, i), Places(p, i)')
    BY <2>4 DEF Keeps
  <2> QED BY <1>0, <2>3, <2>5, BoundKept, PlaceNumbers
<1>3. CASE Disconnect(p)
  <2>1. op[p] = "send" /\ op'[p] = "idle" /\ file' = file /\ UNCHANGED <<made, sends, faults>>
    BY <1>0, <1>3 DEF Disconnect, Types, ProcTypes
  <2>2. ~Place(p, i, 0)'
    BY <1>0, <2>1 DEF Place
  <2> QED BY <1>0, <2>1, <2>2, QuietBound
<1> QED BY <1>1, <1>2, <1>3 DEF Session

LEMMA FaultBound ==
    ASSUME NEW p, Process = {p}, ProgramInv(p), Types', SendInv(p),
           Stop(p) \/ ReplaceFails(p)
    PROVE  SendInv(p)'
<1> SUFFICES ASSUME NEW i \in Ident PROVE SendBound(p, i)'
  BY DEF SendInv
<1>0. Types /\ SendBound(p, i) /\ 0 \notin DOMAIN file
  BY SizeAssumption DEF ProgramInv, SendInv, Types, FileTypes
<1>1. file' = file /\ faults' = faults + 1 /\ made' = made /\ sends' = sends
  BY DEF Stop, ReplaceFails
<1>2. CASE Stop(p)
  <2>1. op'[p] = "idle"
    BY <1>0, <1>2 DEF Stop, Types, ProcTypes
  <2>2. Places(p, i)' \subseteq Places(p, i) \cup {source[p]}
    BY <1>0, <1>1, <2>1 DEF Places, Place, GoingAway
  <2> QED BY <1>0, <1>1, <2>2, BoundAfterFault
<1>3. CASE ReplaceFails(p)
  <2>1. op[p] = "replace"
    BY <1>3 DEF ReplaceFails
  <2>2. Places(p, i)' \subseteq Places(p, i) \cup {0}
    BY <1>0, <1>1, <2>1 DEF Places, Place, GoingAway
  <2> QED BY <1>0, <1>1, <2>2, BoundAfterFault
<1> QED BY <1>2, <1>3

LEMMA SendInvInit ==
    ASSUME NEW p, Process = {p}, Init
    PROVE  SendInv(p)
<1> SUFFICES ASSUME NEW i \in Ident PROVE SendBound(p, i)
  BY DEF SendInv
<1>1. Places(p, i) = {}
  BY DEF Init, Places, Place
<1>2. Cardinality(Places(p, i)) = 0
  BY <1>1, FS_EmptySet
<1>3. sends[i] = 0 /\ faults = 0
  BY DEF Init
<1> QED BY <1>2, <1>3 DEF SendBound

LEMMA SendInvStep ==
    ASSUME NEW p, Process = {p}, ProgramInv(p), SendInv(p), [Next]_vars
    PROVE  SendInv(p)'
<1>1. Types'
  BY TypesStep DEF ProgramInv
<1>2. CASE Next
  BY <1>1, <1>2, CommandBound, FormBound, FileBound, SessionBound, FaultBound DEF Next
<1>3. CASE UNCHANGED vars
  BY <1>3 DEF SendInv, SendBound, Places, Place, GoingAway
<1> QED BY <1>2, <1>3

\* A message is sent again only after a fault, and once for each of them: no
\* sequence of commands and connections that go through sends it twice.
THEOREM SentOncePerFault ==
    ASSUME NEW p, Process = {p}
    PROVE  Spec => []SentAgainOnlyAfterFault
<1>1. Spec => []SendInv(p)
  <2>1. ProgramInv(p) /\ SendInv(p) /\ [Next]_vars => SendInv(p)'
    BY SendInvStep
  <2>2. Init => SendInv(p)
    BY SendInvInit
  <2> QED BY <2>1, <2>2, Invariance, PTL DEF Spec
<1>2. ProgramInv(p) /\ SendInv(p) => SentAgainOnlyAfterFault
  <2> SUFFICES ASSUME ProgramInv(p), SendInv(p), NEW i \in Ident
               PROVE  sends[i] <= 1 + faults
    BY DEF SentAgainOnlyAfterFault
  <2>1. Cardinality(Places(p, i)) \in Nat /\ sends[i] \in Nat /\ faults \in Nat
    BY PlaceNumbers DEF ProgramInv
  <2>2. sends[i] + Cardinality(Places(p, i)) <= 1 + faults
    BY DEF SendInv, SendBound
  <2> QED BY <2>1, <2>2
<1> QED BY <1>1, <1>2, Invariance, PTL

===============================================================================
