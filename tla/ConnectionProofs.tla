-------------------------- MODULE ConnectionProofs --------------------------
(***************************************************************************)
(* Theorems about the connect command, for any incident, any mail and any  *)
(* number of failures: that its state has the expected types, and that     *)
(* messages are neither lost nor, failures aside, duplicated.              *)
(***************************************************************************)
EXTENDS Connection, Integers, FiniteSetTheorems, SequenceTheorems, TLAPS

-----------------------------------------------------------------------------
(* The inductive invariant.                                                *)

\* The message that is being received.
Current(m) == \E n \in nums : IsFirst(n, nums) /\ listing[n] = m

InReceipt == pc \in {"receipt", "receipting", "receipted", "kill"}

\* The area the session is in, by the point the program is at.
AreaInv ==
    /\ pc \in {"down", "shell", "dial", "send", "sending", "sent", "immediate", "receipt",
              "receipting", "receipted", "kill", "save", "writing"} => area = Inbox
    /\ pc = "list" => area # Inbox

\* While numbers of a listing are in use, it numbers messages of this area,
\* and each message once.
ListingInv ==
    pc \in {"send", "sending", "sent", "immediate", "next", "reading", "receipt",
           "receipting", "receipted", "kill"} =>
        /\ \A i \in DOMAIN listing : listing[i] \in arrived /\ AreaOf[listing[i]] = area
        /\ \A i, j \in DOMAIN listing : listing[i] = listing[j] => i = j

\* A private message that has a number to be received is still at the BBS;
\* a bulletin that has one was not retrieved.
PendingInv ==
    /\ pc \in {"send", "sending", "sent", "immediate"} =>
         \A i \in DOMAIN listing : listing[i] \in atBBS
    /\ (pc \in {"next", "reading"} \/ InReceipt) /\ area = Inbox =>
         \A i \in nums \cap DOMAIN listing : listing[i] \in atBBS
    /\ pc \in {"next", "reading"} /\ area # Inbox =>
         \A i \in nums \cap DOMAIN listing : recorded[listing[i]] = 0

\* What has been done for the message that is being received.
CurrentInv ==
    InReceipt =>
        \A n \in nums : IsFirst(n, nums) =>
            /\ n \in DOMAIN listing
            /\ recorded[listing[n]] > 0
            /\ pc # "kill" => listing[n] \in Owed
            /\ pc = "receipted" => receipts[listing[n]] > 0
            /\ pc = "kill" /\ listing[n] \in Owed =>
                 receipts[listing[n]] > 0 /\ listing[n] \in receiptSaved

\* Bulletins stay at the BBS; what has left it was recorded and receipted.
GoneInv ==
    \A m \in arrived \ atBBS :
        /\ AreaOf[m] = Inbox
        /\ recorded[m] > 0
        /\ m \in Owed => receipts[m] > 0 /\ m \in receiptSaved

\* Only queued messages are to be sent, and none between sessions.
QueueInv ==
    /\ \A m \in tosend : outState[m] = "queued"
    /\ pc \in {"down", "shell", "save", "writing"} => tosend = {}

\* A copy at the BBS is accounted for by the message being sent, or about to be
\* saved as sent, or by a failure.
SendInv ==
    \A m \in Out :
        LET held == outState[m] = "sent" \/ (pc = "sent" /\ IsFirst(m, tosend))
        IN  /\ held => delivered[m] > 0 /\ delivered[m] <= 1 + faults
            /\ ~held => delivered[m] <= faults

\* The same for the delivery receipts,
ReceiptInv ==
    \A m \in Owed :
        LET held == m \in arrived \ atBBS \/ (pc \in {"receipted", "kill"} /\ Current(m))
        IN  /\ m \notin arrived => receipts[m] = 0
            /\ receipts[m] <= 1 + faults
            /\ ~held => receipts[m] <= faults

\* and for the records of private messages, which a Ctrl-C that was heeded may
\* account for as well.
Heeded == interrupts - (IF sigint THEN 1 ELSE 0)

RecordInv ==
    /\ sigint => interrupts > 0
    /\ \A m \in Mail :
         AreaOf[m] = Inbox =>
            LET held == m \in arrived \ atBBS \/ (InReceipt /\ Current(m))
            IN  /\ m \notin arrived => recorded[m] = 0
                /\ recorded[m] <= 1 + faults + Heeded
                /\ ~held => recorded[m] <= faults + Heeded

\* A bulletin is recorded once.
BulletinInv ==
    \A m \in Mail : AreaOf[m] # Inbox =>
        /\ m \notin arrived => recorded[m] = 0
        /\ recorded[m] <= 1

IInv ==
    /\ TypeOK /\ AreaInv /\ ListingInv /\ PendingInv /\ CurrentInv /\ GoneInv
    /\ QueueInv /\ SendInv /\ ReceiptInv /\ RecordInv /\ BulletinInv

-----------------------------------------------------------------------------
(* Lemmas.                                                                 *)

\* A loop is at one element at a time.
LEMMA FirstUnique ==
    ASSUME NEW S \in SUBSET Nat, NEW x, NEW y, IsFirst(x, S), IsFirst(y, S)
    PROVE  x = y
BY DEF IsFirst

LEMMA NumbersNat == Numbers \subseteq Nat
BY MailAssumption, FS_CardinalityType DEF Numbers

\* A numbering numbers the messages it is made of, and each of them once.
LEMMA NumberingLemma ==
    ASSUME NEW S \in SUBSET Mail, NEW f \in Numberings(S)
    PROVE  /\ f \in Seq(Mail)
           /\ \A i \in DOMAIN f : i \in Nat /\ f[i] \in S
           /\ \A i, j \in DOMAIN f : f[i] = f[j] => i = j
<1>1. IsFiniteSet(S)
  BY MailAssumption, FS_Subset
<1>2. Cardinality(S) \in Nat
  BY <1>1, FS_CardinalityType
<1>3. f \in [1 .. Cardinality(S) -> S]
  BY DEF Numberings
<1>4. \A i, j \in 1 .. Cardinality(S) : i < j => f[i] < f[j]
  BY DEF Numberings
<1>5. \A i, j \in 1 .. Cardinality(S) : f[i] = f[j] => i = j
  <2> SUFFICES ASSUME NEW i \in 1 .. Cardinality(S), NEW j \in 1 .. Cardinality(S),
                      f[i] = f[j], i # j
               PROVE  FALSE
    OBVIOUS
  <2>1. i < j \/ j < i
    BY <1>2
  <2>2. f[i] < f[j] \/ f[j] < f[i]
    BY <1>4, <2>1
  <2>3. f[i] \in Nat
    BY <1>3, MailAssumption
  <2> QED
    BY <2>2, <2>3
<1> QED
  BY <1>2, <1>3, <1>5

\* The numbering of an area numbers the messages that are there.
LEMMA ListedLemma ==
    ASSUME TypeOK, NEW a, NEW f \in Numberings(MessagesIn(a))
    PROVE  /\ f \in Seq(Mail)
           /\ \A i \in DOMAIN f : i \in Nat /\ f[i] \in atBBS /\ AreaOf[f[i]] = a
           /\ \A i, j \in DOMAIN f : f[i] = f[j] => i = j
<1>1. MessagesIn(a) \in SUBSET Mail
  BY DEF MessagesIn, TypeOK
<1>2. \A m \in MessagesIn(a) : m \in atBBS /\ AreaOf[m] = a
  BY DEF MessagesIn
<1> QED
  BY <1>1, <1>2, NumberingLemma

-----------------------------------------------------------------------------
(* Type correctness.                                                       *)

LEMMA TypeInit == Init => TypeOK
<1> SUFFICES ASSUME Init PROVE TypeOK
  OBVIOUS
<1>1. listing \in Seq(Mail)
  BY EmptySeq DEF Init
<1>2. memSched \in [Areas -> Schedule]
  BY DEF Init, Off, Schedule
<1>3. /\ delivered \in [Out -> Nat] /\ receipts \in [Mail -> Nat]
      /\ recorded \in [Mail -> Nat]
      /\ outState \in [Out -> {"draft", "queued", "sent"}]
  BY DEF Init
<1>4. /\ sigint \in BOOLEAN /\ failed \in BOOLEAN /\ torn \in BOOLEAN /\ away \in BOOLEAN
      /\ pc \in PC
  BY DEF Init, PC
<1> QED
  BY <1>1, <1>2, <1>3, <1>4 DEF Init, TypeOK

\* The steps around looking for a Ctrl-C, and those of saving packet.conf.
Checked == NotInterrupted \/ Interrupted

Saving == OpenConfig \/ WriteConfig

USE DEF Checked, Saving
USE DEF vars, bbs, conf, disk, memory, levels, signal, session, history

LEMMA IdleTypes ==
    ASSUME IdleSession
    PROVE  /\ sendlevel' \in 0 .. 2 /\ rcvlevel' \in 0 .. 2
           /\ tosend' \subseteq Out /\ todo' \subseteq Areas
           /\ area' \in Areas \cup {Inbox} /\ listing' \in Seq(Mail)
           /\ nums' \subseteq Nat
           /\ sigint' \in BOOLEAN /\ failed' \in BOOLEAN /\ late' \in Nat
<1>1. listing' \in Seq(Mail)
  BY EmptySeq DEF IdleSession
<1>2. sigint' \in BOOLEAN /\ failed' \in BOOLEAN
  BY DEF IdleSession
<1> QED
  BY <1>1, <1>2 DEF IdleSession

LEMMA TerminateTypes ==
    ASSUME TypeOK, Terminate, faults' \in Nat, UNCHANGED <<interrupts, kept>>
    PROVE  TypeOK'
<1>1. memSched' \in [Areas -> Schedule]
  BY DEF Terminate, Off, Schedule
<1>2. IdleSession /\ memUnread' \subseteq LMI /\ away' \in BOOLEAN /\ pc' \in PC
  BY DEF Terminate, PC
<1> QED
  BY <1>1, <1>2, IdleTypes DEF TypeOK, Terminate

LEMMA TypeStep ==
    ASSUME TypeOK, CurrentInv, [Next]_vars
    PROVE  TypeOK'
<1>1. CASE Start
  BY <1>1 DEF Start, TypeOK, PC
<1>2. CASE Quit
  BY <1>2, TerminateTypes DEF Quit, TypeOK
<1>3. ASSUME NEW m \in Out, Queue(m) PROVE TypeOK'
  BY <1>3 DEF Queue, TypeOK
<1>4. ASSUME NEW m \in Out, Draft(m) PROVE TypeOK'
  BY <1>4 DEF Draft, TypeOK
<1>5. ASSUME NEW m \in Mail, NEW k \in 1 .. recorded[m], Show(m, k) PROVE TypeOK'
  <2>1. <<m, k>> \in LMI
    BY DEF TypeOK, LMI
  <2> QED
    BY <1>5, <2>1 DEF Show, TypeOK, PC
<1>6. ASSUME NEW a \in Areas, NEW s \in {"off", "once", "due"}, Reschedule(a, s)
      PROVE TypeOK'
  <2>1. memSched' \in [Areas -> Schedule]
    BY <1>6 DEF Reschedule, TypeOK, Schedule
  <2> QED
    BY <1>6, <2>1 DEF Reschedule, TypeOK, PC
<1>7. ASSUME NEW s \in BOOLEAN, NEW r \in BOOLEAN, NEW i \in BOOLEAN, Connect(s, r, i)
      PROVE TypeOK'
  BY <1>7 DEF Connect, ToSend, Queued, Due, TypeOK, PC
<1>8. CASE Dial
  <2>1. listing' \in Seq(Mail)
    BY <1>8, ListedLemma DEF Dial
  <2> QED
    BY <1>8, <2>1 DEF Dial, TypeOK, PC
<1>9. CASE Interrupted
  BY <1>9 DEF Interrupted, Abort, TypeOK, PC
<1>10. CASE EndOfSending
  BY <1>10, NumbersNat DEF EndOfSending, TypeOK, PC
<1>11. CASE ListImmediates
  <2>1. nums' \subseteq Nat
    BY <1>11 DEF ListImmediates, TypeOK
  <2> QED
    BY <1>11, <2>1 DEF ListImmediates, TypeOK, PC
<1>12. CASE Panic
  BY <1>12, TerminateTypes DEF Panic, TypeOK
<1>13. ASSUME NEW m \in Out, SendMessage(m) PROVE TypeOK'
  BY <1>13 DEF SendMessage, Traffic, TypeOK, PC
<1>14. ASSUME NEW m \in Out, RejectMessage(m) PROVE TypeOK'
  BY <1>14 DEF RejectMessage, Abort, TypeOK, PC
<1>15. ASSUME NEW m \in Out, SaveMessage(m) PROVE TypeOK'
  BY <1>15 DEF SaveMessage, TypeOK, PC
<1>16. ASSUME NEW n \in Numbers, Receive(n) PROVE TypeOK'
  <2>1. listing[n] \in Mail
    BY <1>16 DEF Receive, TypeOK
  <2>2. recorded' \in [Mail -> Nat] /\ recorded'[listing[n]] \in Nat \ {0}
    BY <1>16, <2>1 DEF Receive, TypeOK
  <2>3. memUnread' \subseteq LMI
    BY <1>16, <2>1, <2>2 DEF Receive, TypeOK, LMI
  <2>4. pc' \in PC
    BY <1>16 DEF Receive, AfterMessage, PC
  <2>5. nums' \subseteq Nat
    BY <1>16 DEF Receive, TypeOK
  <2> QED
    BY <1>16, <2>2, <2>3, <2>4, <2>5 DEF Receive, Traffic, TypeOK
<1>17. ASSUME NEW n \in Numbers, EndOfMailbox(n) PROVE TypeOK'
  BY <1>17 DEF EndOfMailbox, TypeOK, PC
<1>18. ASSUME NEW n \in Numbers, SendReceipt(n) PROVE TypeOK'
  <2>1. listing[n] \in Mail
    BY <1>18 DEF SendReceipt, CurrentInv, InReceipt, IsFirst, TypeOK
  <2>2. receipts' \in [Mail -> Nat]
    BY <1>18, <2>1 DEF SendReceipt, TypeOK
  <2> QED
    BY <1>18, <2>2 DEF SendReceipt, Traffic, TypeOK, PC
<1>19. ASSUME NEW n \in Numbers, SaveReceipt(n) PROVE TypeOK'
  <2>1. listing[n] \in Mail
    BY <1>19 DEF SaveReceipt, CurrentInv, InReceipt, IsFirst, TypeOK
  <2> QED
    BY <1>19, <2>1 DEF SaveReceipt, TypeOK, PC
<1>20. ASSUME NEW n \in Numbers, Kill(n) PROVE TypeOK'
  BY <1>20 DEF Kill, TypeOK, PC
<1>21. CASE EndOfImmediates
  BY <1>21 DEF EndOfImmediates, TypeOK, PC
<1>22. ASSUME NEW a \in todo, SetArea(a) PROVE TypeOK'
  BY <1>22 DEF SetArea, TypeOK, PC
<1>23. CASE ListArea
  <2>1. listing' \in Seq(Mail) /\ nums' \subseteq Nat
    BY <1>23, ListedLemma DEF ListArea
  <2> QED
    BY <1>23, <2>1 DEF ListArea, TypeOK, PC
<1>24. CASE EndOfArea
  <2>1. memSched' \in [Areas -> Schedule]
    BY <1>24 DEF EndOfArea, TypeOK, Schedule
  <2> QED
    BY <1>24, <2>1 DEF EndOfArea, TypeOK, PC
<1>25. CASE EndOfBulletins
  BY <1>25 DEF EndOfBulletins, TypeOK, PC
<1>26. CASE Close
  BY <1>26, IdleTypes DEF Close, TypeOK, PC
<1>27. CASE OpenConfig
  <2>1. diskSched' \in [Areas -> Schedule]
    BY <1>27 DEF OpenConfig, Off, Schedule
  <2> QED
    BY <1>27, <2>1 DEF OpenConfig, TypeOK, PC
<1>28. CASE OperationFails
  BY <1>28 DEF OperationFails, Fault, Abort, TypeOK, PC
<1>29. ASSUME NEW m \in Out, SendUnconfirmed(m) PROVE TypeOK'
  BY <1>29 DEF SendUnconfirmed, Fault, Traffic, TypeOK, PC
<1>30. ASSUME NEW n \in Numbers, ReceiptUnconfirmed(n) PROVE TypeOK'
  <2>1. listing[n] \in Mail
    BY <1>30 DEF ReceiptUnconfirmed, CurrentInv, InReceipt, IsFirst, TypeOK
  <2>2. receipts' \in [Mail -> Nat]
    BY <1>30, <2>1 DEF ReceiptUnconfirmed, TypeOK
  <2> QED
    BY <1>30, <2>2 DEF ReceiptUnconfirmed, Fault, Traffic, TypeOK, PC
<1>31. ASSUME NEW n \in Numbers, KillUnconfirmed(n) PROVE TypeOK'
  BY <1>31 DEF KillUnconfirmed, Fault, TypeOK, PC
<1>32. CASE ConnectionFails
  BY <1>32, IdleTypes DEF ConnectionFails, Fault, TypeOK, PC
<1>33. CASE Crash
  BY <1>33, TerminateTypes DEF Crash, Fault, TypeOK
<1>34. CASE SigInt
  BY <1>34 DEF SigInt, TypeOK
<1>35. ASSUME NEW m \in Mail, Arrive(m) PROVE TypeOK'
  <2>1. listing' \in Seq(Mail)
    BY <1>35, AppendProperties DEF Arrive, TypeOK
  <2> QED
    BY <1>35, <2>1 DEF Arrive, TypeOK
<1>36. ASSUME NEW a \in Areas, Elapse(a) PROVE TypeOK'
  <2>1. memSched' \in [Areas -> Schedule] /\ diskSched' \in [Areas -> Schedule]
    BY <1>36 DEF Elapse, TypeOK, Schedule
  <2> QED
    BY <1>36, <2>1 DEF Elapse, TypeOK
<1>37. CASE WriteConfig
  BY <1>37 DEF WriteConfig, TypeOK, PC
<1>38. CASE OtherSave
  BY <1>38 DEF OtherSave, TypeOK, PC
<1>42. CASE SaveFails
  BY <1>42 DEF SaveFails, Fault, TypeOK, PC
<1>39. CASE NotInterrupted
  BY <1>39 DEF NotInterrupted, TypeOK, PC
<1>40. ASSUME NEW c \in Elsewhere, Enter(c) PROVE TypeOK'
  BY <1>40, ElsewhereAssumption DEF Enter, TypeOK, PC
<1>41. CASE UNCHANGED vars
  BY <1>41 DEF TypeOK
<1> QED
  BY <1>1, <1>2, <1>3, <1>4, <1>5, <1>6, <1>7, <1>8, <1>9, <1>10, <1>11, <1>12, <1>13,
     <1>14, <1>15, <1>16, <1>17, <1>18, <1>19, <1>20, <1>21, <1>22, <1>23, <1>24, <1>25,
     <1>26, <1>27, <1>28, <1>29, <1>30, <1>31, <1>32, <1>33, <1>34, <1>35, <1>36, <1>37,
     <1>38, <1>39, <1>40, <1>41, <1>42
  DEF Next, UserStep, SessionStep, Sending, Receiving, CheckingBulletins, Failure, World

-----------------------------------------------------------------------------
(* The other invariants, one lemma for each.                               *)

\* What the user does leaves the BBS and the messages received alone.
UserEffect ==
    /\ pc \in {"down", "shell"} /\ pc' \in {"down", "shell", "dial", "save"}
    /\ area' = area \/ area' = Inbox
    /\ UNCHANGED <<bbs, recorded, receiptSaved, faults, interrupts>>
    /\ sigint' => sigint
    /\ \A m \in Out : outState'[m] = "sent" <=> outState[m] = "sent"

LEMMA UserFrame == TypeOK /\ UserStep => UserEffect
<1> SUFFICES ASSUME TypeOK, UserStep PROVE UserEffect
  OBVIOUS
<1> USE DEF UserEffect
<1>1. Start \/ Quit \/ OtherSave \/ (\E c \in Elsewhere : Enter(c)) => UserEffect
  BY DEF Start, Quit, OtherSave, Enter, Terminate, IdleSession
<1>2. ASSUME NEW m \in Out, Queue(m) \/ Draft(m) PROVE UserEffect
  BY <1>2 DEF Queue, Draft, TypeOK
<1>3. ASSUME NEW m \in Mail, NEW k \in 1 .. recorded[m], Show(m, k) PROVE UserEffect
  BY <1>3 DEF Show
<1>4. ASSUME NEW a \in Areas, NEW s \in {"off", "once", "due"}, Reschedule(a, s)
      PROVE UserEffect
  BY <1>4 DEF Reschedule
<1>5. ASSUME NEW s \in BOOLEAN, NEW r \in BOOLEAN, NEW i \in BOOLEAN, Connect(s, r, i)
      PROVE UserEffect
  BY <1>5 DEF Connect
<1> QED
  BY <1>1, <1>2, <1>3, <1>4, <1>5 DEF UserStep

LEMMA AreaStep == ASSUME IInv, Next PROVE AreaInv'
<1> USE DEF AreaInv, IInv
<1>1. CASE UserStep
  BY <1>1, UserFrame DEF UserEffect
<1>2. CASE Dial \/ Checked \/ Close \/ Saving
  BY <1>2 DEF Dial, NotInterrupted, Interrupted, Abort, Close, IdleSession, OpenConfig,
              WriteConfig
<1>3. CASE Sending
  BY <1>3 DEF Sending, SendMessage, RejectMessage, SaveMessage, EndOfSending, Abort
<1>4. ASSUME NEW n \in Numbers, Receive(n) PROVE AreaInv'
  <2>1. listing[n] \in Owed => area = Inbox
    BY <1>4, KindAssumption DEF Receive, ListingInv
  <2> QED
    BY <1>4, <2>1 DEF Receive, AfterMessage
<1>5. CASE Receiving /\ ~ \E n \in Numbers : Receive(n)
  BY <1>5 DEF Receiving, ListImmediates, Panic, Terminate, IdleSession, SendReceipt,
              SaveReceipt, Kill, EndOfMailbox, EndOfImmediates
<1>6. ASSUME NEW a \in todo, SetArea(a) PROVE AreaInv'
  BY <1>6, AreaAssumption DEF SetArea, TypeOK
<1>7. CASE ListArea \/ EndOfArea \/ EndOfBulletins
  BY <1>7 DEF ListArea, EndOfArea, EndOfBulletins
<1>8. CASE Failure
  BY <1>8 DEF Failure, Fault, OperationFails, ConnectionFails, SaveFails, Crash,
              SendUnconfirmed, ReceiptUnconfirmed, KillUnconfirmed, Abort, Terminate,
              IdleSession
<1>9. CASE World
  BY <1>9 DEF World, SigInt, Arrive, Elapse
<1> QED
  BY <1>1, <1>2, <1>3, <1>4, <1>5, <1>6, <1>7, <1>8, <1>9
  DEF Next, SessionStep, Receiving, CheckingBulletins

LEMMA ListingStep == ASSUME IInv, Next PROVE ListingInv'
<1> USE DEF ListingInv, IInv
<1>1. CASE UserStep
  BY <1>1, UserFrame DEF UserEffect
<1>2. CASE Dial
  <2>1. \A i \in DOMAIN listing' : listing'[i] \in atBBS /\ AreaOf[listing'[i]] = Inbox
    BY <1>2, ListedLemma DEF Dial
  <2>2. \A i, j \in DOMAIN listing' : listing'[i] = listing'[j] => i = j
    BY <1>2, ListedLemma DEF Dial
  <2> QED
    BY <1>2, <2>1, <2>2 DEF Dial, AreaInv, TypeOK
<1>3. CASE Checked \/ Close \/ Saving
  BY <1>3 DEF NotInterrupted, Interrupted, Abort, Close, IdleSession, OpenConfig,
              WriteConfig
<1>4. CASE Sending
  BY <1>4 DEF Sending, SendMessage, RejectMessage, SaveMessage, EndOfSending, Abort
<1>5. CASE Receiving
  BY <1>5 DEF Receiving, ListImmediates, Panic, Terminate, IdleSession, Receive,
              AfterMessage, SendReceipt, SaveReceipt, Kill, EndOfMailbox, EndOfImmediates
<1>6. ASSUME NEW a \in todo, SetArea(a) PROVE ListingInv'
  BY <1>6 DEF SetArea
<1>7. CASE ListArea
  <2>1. \A i \in DOMAIN listing' : listing'[i] \in atBBS /\ AreaOf[listing'[i]] = area
    BY <1>7, ListedLemma DEF ListArea
  <2>2. \A i, j \in DOMAIN listing' : listing'[i] = listing'[j] => i = j
    BY <1>7, ListedLemma DEF ListArea
  <2> QED
    BY <1>7, <2>1, <2>2 DEF ListArea, TypeOK
<1>8. CASE EndOfArea \/ EndOfBulletins
  BY <1>8 DEF EndOfArea, EndOfBulletins
<1>9. CASE Failure
  BY <1>9 DEF Failure, Fault, OperationFails, ConnectionFails, SaveFails, Crash,
              SendUnconfirmed, ReceiptUnconfirmed, KillUnconfirmed, Abort, Terminate,
              IdleSession
<1>10. ASSUME NEW m \in Mail, Arrive(m) PROVE ListingInv'
  <2>1. CASE listing' = listing
    BY <1>10, <2>1 DEF Arrive
  <2>2. CASE listing' = Append(listing, m) /\ area = Inbox /\ AreaOf[m] = Inbox
    <3>1. /\ DOMAIN listing' = DOMAIN listing \cup {Len(listing) + 1}
          /\ listing'[Len(listing) + 1] = m
          /\ \A i \in DOMAIN listing : listing'[i] = listing[i]
      BY <2>2, AppendProperties DEF TypeOK
    <3>2. m \notin arrived /\ arrived' = arrived \cup {m} /\ pc' = pc /\ area' = area
      BY <1>10 DEF Arrive
    <3> QED
      BY <2>2, <3>1, <3>2
  <2> QED
    BY <1>10, <2>1, <2>2 DEF Arrive
<1>11. CASE World /\ ~ \E m \in Mail : Arrive(m)
  BY <1>11 DEF World, SigInt, Elapse
<1> QED
  BY <1>1, <1>2, <1>3, <1>4, <1>5, <1>6, <1>7, <1>8, <1>9, <1>10, <1>11
  DEF Next, SessionStep, CheckingBulletins

LEMMA PendingStep == ASSUME IInv, Next PROVE PendingInv'
<1> USE DEF PendingInv, InReceipt, IInv
<1>1. CASE UserStep
  BY <1>1, UserFrame DEF UserEffect
<1>2. CASE Dial
  <2>1. \A i \in DOMAIN listing' : listing'[i] \in atBBS
    BY <1>2, ListedLemma DEF Dial
  <2> QED
    BY <1>2, <2>1 DEF Dial
<1>3. CASE Checked \/ Close \/ Saving
  BY <1>3 DEF NotInterrupted, Interrupted, Abort, Close, IdleSession, OpenConfig,
              WriteConfig
<1>4. ASSUME NEW m \in Out, SendMessage(m) \/ RejectMessage(m) \/ SaveMessage(m)
      PROVE PendingInv'
  BY <1>4 DEF SendMessage, RejectMessage, SaveMessage, Abort
<1>5. CASE EndOfSending
  BY <1>5 DEF EndOfSending, AreaInv
<1>6. CASE ListImmediates
  BY <1>6 DEF ListImmediates, AreaInv
<1>7. ASSUME NEW n \in Numbers, Receive(n) PROVE PendingInv'
  <2>1. pc = "reading" /\ listing' = listing /\ area' = area /\ atBBS' = atBBS
    BY <1>7 DEF Receive
  <2>2. pc' \in {"next", "receipt", "kill"} /\ nums' \subseteq nums
    BY <1>7 DEF Receive, AfterMessage
  <2>3. pc' = "next" => \A i \in nums' \cap DOMAIN listing :
           recorded'[listing[i]] = recorded[listing[i]]
    BY <1>7 DEF Receive, ListingInv, TypeOK
  <2> QED
    BY <2>1, <2>2, <2>3
<1>8. ASSUME NEW n \in Numbers, Kill(n) PROVE PendingInv'
  <2>1. \A i \in nums' \cap DOMAIN listing : listing[i] # listing[n]
    BY <1>8 DEF Kill, CurrentInv, InReceipt, ListingInv, IsFirst
  <2> QED
    BY <1>8, <2>1 DEF Kill, AreaInv
<1>9. ASSUME NEW n \in Numbers, SendReceipt(n) \/ SaveReceipt(n) \/ EndOfMailbox(n)
      PROVE PendingInv'
  BY <1>9 DEF SendReceipt, SaveReceipt, EndOfMailbox
<1>10. CASE Panic \/ EndOfImmediates
  BY <1>10 DEF Panic, Terminate, IdleSession, EndOfImmediates
<1>11. CASE ListArea
  <2>1. \A i \in DOMAIN listing' : listing'[i] \in Mail /\ AreaOf[listing'[i]] = area
    BY <1>11, ListedLemma DEF ListArea, TypeOK
  <2>2. \A i \in nums' \cap DOMAIN listing' : recorded[listing'[i]] = 0
    BY <1>11, <2>1 DEF ListArea, Have, TypeOK
  <2> QED
    BY <1>11, <2>2 DEF ListArea, AreaInv
<1>12. CASE EndOfArea \/ EndOfBulletins \/ \E a \in todo : SetArea(a)
  BY <1>12 DEF EndOfArea, EndOfBulletins, SetArea
<1>13. CASE Failure
  BY <1>13 DEF Failure, Fault, OperationFails, ConnectionFails, SaveFails, Crash,
               SendUnconfirmed, ReceiptUnconfirmed, KillUnconfirmed, Abort, Terminate,
               IdleSession
<1>14. ASSUME NEW m \in Mail, Arrive(m) PROVE PendingInv'
  BY <1>14, AppendProperties DEF Arrive, TypeOK
<1>15. CASE World /\ ~ \E m \in Mail : Arrive(m)
  BY <1>15 DEF World, SigInt, Elapse
<1> QED
  BY <1>1, <1>2, <1>3, <1>4, <1>5, <1>6, <1>7, <1>8, <1>9, <1>10, <1>11, <1>12, <1>13,
     <1>14, <1>15
  DEF Next, SessionStep, Sending, Receiving, CheckingBulletins

LEMMA CurrentStep == ASSUME IInv, Next PROVE CurrentInv'
<1> USE DEF CurrentInv, InReceipt, IInv
<1>1. CASE UserStep
  BY <1>1, UserFrame DEF UserEffect
<1>2. CASE Dial \/ Checked \/ Close \/ Saving
  BY <1>2 DEF Dial, NotInterrupted, Interrupted, Abort, Close, IdleSession, OpenConfig,
              WriteConfig
<1>3. CASE Sending
  BY <1>3 DEF Sending, SendMessage, RejectMessage, SaveMessage, EndOfSending, Abort
<1>4. ASSUME NEW n \in Numbers, Receive(n) PROVE CurrentInv'
  <2>1. recorded'[listing[n]] > 0
    BY <1>4 DEF Receive, TypeOK
  <2>2. \A k \in nums : IsFirst(k, nums) => k = n
    BY <1>4, FirstUnique DEF Receive, TypeOK
  <2>3. pc' = "kill" => listing[n] \notin Owed
    BY <1>4 DEF Receive, AfterMessage
  <2>4. pc' = "receipt" => listing[n] \in Owed
    BY <1>4 DEF Receive, AfterMessage
  <2>5. pc' # "next" => nums' = nums
    BY <1>4 DEF Receive
  <2>6. pc' \in {"next", "receipt", "kill"} /\ listing' = listing /\ n \in DOMAIN listing
    BY <1>4 DEF Receive, AfterMessage
  <2> QED
    BY <2>1, <2>2, <2>3, <2>4, <2>5, <2>6
<1>5. ASSUME NEW n \in Numbers, SendReceipt(n) PROVE CurrentInv'
  <2>1. \A k \in nums : IsFirst(k, nums) => k = n
    BY <1>5, FirstUnique DEF SendReceipt, TypeOK
  <2>2. n \in nums /\ n \in DOMAIN listing /\ listing[n] \in Owed /\ listing[n] \in Mail
    BY <1>5 DEF SendReceipt, IsFirst, TypeOK
  <2>3. receipts'[listing[n]] > 0
    BY <1>5, <2>2 DEF SendReceipt, TypeOK
  <2> QED
    BY <1>5, <2>1, <2>2, <2>3 DEF SendReceipt
<1>6. ASSUME NEW n \in Numbers, SaveReceipt(n) PROVE CurrentInv'
  <2>1. \A k \in nums : IsFirst(k, nums) => k = n
    BY <1>6, FirstUnique DEF SaveReceipt, TypeOK
  <2> QED
    BY <1>6, <2>1 DEF SaveReceipt
<1>7. CASE Receiving /\ ~ \E n \in Numbers : Receive(n) \/ SendReceipt(n) \/ SaveReceipt(n)
  BY <1>7 DEF Receiving, ListImmediates, Panic, Terminate, IdleSession, Kill,
              EndOfMailbox, EndOfImmediates
<1>8. CASE CheckingBulletins
  BY <1>8 DEF CheckingBulletins, SetArea, ListArea, EndOfArea, EndOfBulletins
<1>9. CASE Failure
  BY <1>9 DEF Failure, Fault, OperationFails, ConnectionFails, SaveFails, Crash,
              SendUnconfirmed, ReceiptUnconfirmed, KillUnconfirmed, Abort, Terminate,
              IdleSession
<1>10. ASSUME NEW m \in Mail, Arrive(m) PROVE CurrentInv'
  <2>1. \A i \in DOMAIN listing : i \in DOMAIN listing' /\ listing'[i] = listing[i]
    BY <1>10, AppendProperties DEF Arrive, TypeOK
  <2> QED
    BY <1>10, <2>1 DEF Arrive
<1>11. CASE World /\ ~ \E m \in Mail : Arrive(m)
  BY <1>11 DEF World, SigInt, Elapse
<1> QED
  BY <1>1, <1>2, <1>3, <1>4, <1>5, <1>6, <1>7, <1>8, <1>9, <1>10, <1>11
  DEF Next, SessionStep, Receiving

\* A delivery receipt goes out for the message being received, which calls for
\* one and is at the BBS.
LEMMA ReceiptEffect ==
    ASSUME IInv, NEW n, SendReceipt(n) \/ ReceiptUnconfirmed(n)
    PROVE  /\ IsFirst(n, nums) /\ pc = "receipting"
           /\ listing[n] \in Owed /\ listing[n] \in Mail /\ listing[n] \in atBBS
           /\ receipts'[listing[n]] = receipts[listing[n]] + 1
           /\ \A m \in Mail : m # listing[n] => receipts'[m] = receipts[m]
<1>1. IsFirst(n, nums) /\ pc = "receipting"
  BY DEF SendReceipt, ReceiptUnconfirmed
<1>2. receipts' = [receipts EXCEPT ![listing[n]] = @ + 1]
  BY DEF SendReceipt, ReceiptUnconfirmed
<1>3. n \in nums /\ n \in DOMAIN listing /\ listing[n] \in Owed
  BY <1>1 DEF IInv, CurrentInv, InReceipt, IsFirst
<1>4. listing[n] \in Mail /\ listing[n] \in atBBS
  BY <1>1, <1>3 DEF IInv, PendingInv, InReceipt, AreaInv, TypeOK
<1> QED
  BY <1>1, <1>2, <1>3, <1>4 DEF IInv, TypeOK

\* The message that is killed has been received.
LEMMA KillGone ==
    ASSUME IInv, NEW n, pc = "kill", IsFirst(n, nums)
    PROVE  /\ AreaOf[listing[n]] = Inbox
           /\ listing[n] \in Mail
           /\ listing[n] \in arrived
           /\ recorded[listing[n]] > 0
           /\ listing[n] \in Owed =>
                receipts[listing[n]] > 0 /\ listing[n] \in receiptSaved
BY DEF IInv, TypeOK, IsFirst, CurrentInv, InReceipt, ListingInv, AreaInv

LEMMA GoneStep == ASSUME IInv, Next PROVE GoneInv'
<1> USE DEF GoneInv, IInv
<1>1. CASE UserStep
  BY <1>1, UserFrame DEF UserEffect
<1>2. CASE Dial \/ Checked \/ Close \/ Saving
  BY <1>2 DEF Dial, NotInterrupted, Interrupted, Abort, Close, IdleSession, OpenConfig,
              WriteConfig
<1>3. CASE Sending
  BY <1>3 DEF Sending, SendMessage, RejectMessage, SaveMessage, EndOfSending, Abort
<1>4. ASSUME NEW n \in Numbers, Receive(n) PROVE GoneInv'
  <2>1. \A m \in Mail : recorded'[m] >= recorded[m]
    BY <1>4 DEF Receive, TypeOK
  <2> QED
    BY <1>4, <2>1 DEF Receive, TypeOK
<1>5. ASSUME NEW n \in Numbers, SendReceipt(n) \/ ReceiptUnconfirmed(n) PROVE GoneInv'
  <2>1. \A m \in Mail : receipts'[m] = receipts[m] \/ receipts'[m] = receipts[m] + 1
    BY <1>5, ReceiptEffect
  <2>2. UNCHANGED <<arrived, atBBS, recorded, receiptSaved>>
    BY <1>5 DEF SendReceipt, ReceiptUnconfirmed
  <2>3. arrived \subseteq Mail /\ \A m \in Mail : receipts[m] \in Nat
    BY DEF TypeOK
  <2> QED
    BY <2>1, <2>2, <2>3
<1>6. ASSUME NEW n \in Numbers, Kill(n) \/ KillUnconfirmed(n) PROVE GoneInv'
  <2>1. pc = "kill" /\ IsFirst(n, nums) /\ atBBS' = atBBS \ {listing[n]}
    BY <1>6 DEF Kill, KillUnconfirmed
  <2>2. UNCHANGED <<arrived, recorded, receipts, receiptSaved>>
    BY <1>6 DEF Kill, KillUnconfirmed
  <2> QED
    BY <2>1, <2>2, KillGone
<1>7. ASSUME NEW n \in Numbers, SaveReceipt(n) \/ EndOfMailbox(n) PROVE GoneInv'
  BY <1>7 DEF SaveReceipt, EndOfMailbox
<1>8. CASE ListImmediates \/ Panic \/ EndOfImmediates
  BY <1>8 DEF ListImmediates, Panic, Terminate, IdleSession, EndOfImmediates
<1>9. CASE CheckingBulletins
  BY <1>9 DEF CheckingBulletins, SetArea, ListArea, EndOfArea, EndOfBulletins
<1>10. CASE Failure /\ ~ \E n \in Numbers : ReceiptUnconfirmed(n) \/ KillUnconfirmed(n)
  BY <1>10 DEF Failure, Fault, OperationFails, ConnectionFails, SaveFails, Crash,
               SendUnconfirmed, Abort, Terminate, IdleSession
<1>11. CASE World
  BY <1>11 DEF World, SigInt, Arrive, Elapse
<1> QED
  BY <1>1, <1>2, <1>3, <1>4, <1>5, <1>6, <1>7, <1>8, <1>9, <1>10, <1>11
  DEF Next, SessionStep, Receiving, Failure

LEMMA QueueStep == ASSUME IInv, Next PROVE QueueInv'
<1> USE DEF QueueInv, IInv
<1>1. CASE Start \/ Quit \/ OtherSave \/ \E c \in Elsewhere : Enter(c)
  BY <1>1 DEF Start, Quit, OtherSave, Enter, Terminate, IdleSession
<1>2. ASSUME NEW m \in Out, Queue(m) \/ Draft(m) PROVE QueueInv'
  BY <1>2 DEF Queue, Draft
<1>3. ASSUME NEW m \in Mail, NEW k \in 1 .. recorded[m], Show(m, k) PROVE QueueInv'
  BY <1>3 DEF Show
<1>4. ASSUME NEW a \in Areas, NEW s \in {"off", "once", "due"}, Reschedule(a, s)
      PROVE QueueInv'
  BY <1>4 DEF Reschedule
<1>5. ASSUME NEW s \in BOOLEAN, NEW r \in BOOLEAN, NEW i \in BOOLEAN, Connect(s, r, i)
      PROVE QueueInv'
  <2>1. pc' = "dial" /\ tosend' \subseteq Queued /\ outState' = outState
    BY <1>5 DEF Connect, ToSend
  <2> QED
    BY <2>1 DEF Queued
<1>6. CASE Dial \/ Checked \/ Close \/ Saving
  BY <1>6 DEF Dial, NotInterrupted, Interrupted, Abort, Close, IdleSession, OpenConfig,
              WriteConfig
<1>7. ASSUME NEW m \in Out, SaveMessage(m) PROVE QueueInv'
  BY <1>7 DEF SaveMessage, TypeOK
<1>8. CASE Sending /\ ~ \E m \in Out : SaveMessage(m)
  BY <1>8 DEF Sending, SendMessage, RejectMessage, EndOfSending, Abort
<1>9. CASE Receiving
  BY <1>9 DEF Receiving, ListImmediates, Panic, Terminate, IdleSession, Receive,
              AfterMessage, SendReceipt, SaveReceipt, Kill, EndOfMailbox, EndOfImmediates
<1>10. CASE CheckingBulletins
  BY <1>10 DEF CheckingBulletins, SetArea, ListArea, EndOfArea, EndOfBulletins
<1>11. CASE Failure
  BY <1>11 DEF Failure, Fault, OperationFails, ConnectionFails, SaveFails, Crash,
               SendUnconfirmed, ReceiptUnconfirmed, KillUnconfirmed, Abort, Terminate,
               IdleSession
<1>12. CASE World
  BY <1>12 DEF World, SigInt, Arrive, Elapse
<1> QED
  BY <1>1, <1>2, <1>3, <1>4, <1>5, <1>6, <1>7, <1>8, <1>9, <1>10, <1>11, <1>12
  DEF Next, UserStep, SessionStep

LEMMA SendStep == ASSUME IInv, Next PROVE SendInv'
<1> USE DEF SendInv, IInv
<1>1. CASE UserStep
  BY <1>1, UserFrame DEF UserEffect
<1>2. CASE Dial \/ Checked \/ Close \/ Saving
  BY <1>2 DEF Dial, NotInterrupted, Interrupted, Abort, Close, IdleSession, OpenConfig,
              WriteConfig
<1>3. ASSUME NEW m \in Out, SendMessage(m) PROVE SendInv'
  <2>1. m \in tosend /\ outState[m] = "queued"
    BY <1>3 DEF SendMessage, IsFirst, QueueInv
  <2>2. \A k \in Out : IsFirst(k, tosend) => k = m
    BY <1>3, FirstUnique, OutAssumption DEF SendMessage, TypeOK
  <2>3. \A k \in Out : delivered'[k] = IF k = m THEN delivered[k] + 1 ELSE delivered[k]
    BY <1>3 DEF SendMessage, TypeOK
  <2>4. pc = "sending" /\ pc' = "sent" /\ UNCHANGED <<outState, tosend, faults>>
    BY <1>3 DEF SendMessage
  <2>5. faults \in Nat /\ \A k \in Out : delivered[k] \in Nat
    BY DEF TypeOK
  <2>6. IsFirst(m, tosend')
    BY <1>3 DEF SendMessage
  <2> QED
    BY <2>1, <2>2, <2>3, <2>4, <2>5, <2>6
<1>4. ASSUME NEW m \in Out, SaveMessage(m) PROVE SendInv'
  <2>1. \A k \in Out : IsFirst(k, tosend) => k = m
    BY <1>4, FirstUnique, OutAssumption DEF SaveMessage, TypeOK
  <2>2. \A k \in Out : outState'[k] = IF k = m THEN "sent" ELSE outState[k]
    BY <1>4 DEF SaveMessage, TypeOK
  <2> QED
    BY <1>4, <2>1, <2>2 DEF SaveMessage
<1>5. CASE EndOfSending \/ \E m \in Out : RejectMessage(m)
  BY <1>5 DEF EndOfSending, RejectMessage, Abort
<1>6. CASE Receiving
  BY <1>6 DEF Receiving, ListImmediates, Panic, Terminate, IdleSession, Receive,
              AfterMessage, SendReceipt, SaveReceipt, Kill, EndOfMailbox, EndOfImmediates
<1>7. CASE CheckingBulletins
  BY <1>7 DEF CheckingBulletins, SetArea, ListArea, EndOfArea, EndOfBulletins
<1>8. ASSUME NEW m \in Out, SendUnconfirmed(m) PROVE SendInv'
  <2>1. m \in tosend /\ outState[m] = "queued"
    BY <1>8 DEF SendUnconfirmed, IsFirst, QueueInv
  <2>2. \A k \in Out : delivered'[k] = IF k = m THEN delivered[k] + 1 ELSE delivered[k]
    BY <1>8 DEF SendUnconfirmed, TypeOK
  <2>3. pc = "sending" /\ pc' = "close" /\ faults' = faults + 1 /\ outState' = outState
    BY <1>8 DEF SendUnconfirmed, Fault
  <2>4. faults \in Nat /\ \A k \in Out : delivered[k] \in Nat
    BY DEF TypeOK
  <2> QED
    BY <2>1, <2>2, <2>3, <2>4
<1>9. CASE Failure /\ ~ \E m \in Out : SendUnconfirmed(m)
  <2>1. faults' = faults + 1 /\ pc' # "sent" /\ UNCHANGED <<delivered, outState>>
    BY <1>9 DEF Failure, Fault, OperationFails, ConnectionFails, SaveFails, Crash,
                ReceiptUnconfirmed, KillUnconfirmed, Abort, Terminate
  <2> QED
    BY <2>1 DEF TypeOK
<1>10. CASE World
  BY <1>10 DEF World, SigInt, Arrive, Elapse
<1> QED
  BY <1>1, <1>2, <1>3, <1>4, <1>5, <1>6, <1>7, <1>8, <1>9, <1>10
  DEF Next, SessionStep, Sending, Failure

LEMMA ReceiptStep == ASSUME IInv, Next PROVE ReceiptInv'
<1> USE DEF ReceiptInv, Current, IInv
<1>1. CASE UserStep
  BY <1>1, UserFrame DEF UserEffect
<1>2. CASE Dial \/ Checked \/ Close \/ Saving
  BY <1>2 DEF Dial, NotInterrupted, Interrupted, Abort, Close, IdleSession, OpenConfig,
              WriteConfig
<1>3. CASE Sending
  BY <1>3 DEF Sending, SendMessage, RejectMessage, SaveMessage, EndOfSending, Abort
<1>4. ASSUME NEW n \in Numbers, Receive(n) PROVE ReceiptInv'
  <2>1. pc = "reading" /\ UNCHANGED <<arrived, atBBS, receipts, faults>>
    BY <1>4 DEF Receive
  <2>2. pc' = "kill" => \A m \in Owed : ~Current(m)'
    <3>1. \A k \in nums : IsFirst(k, nums) => k = n
      BY <1>4, FirstUnique DEF Receive, TypeOK
    <3>2. pc' = "kill" => listing[n] \notin Owed /\ nums' = nums /\ listing' = listing
      BY <1>4 DEF Receive, AfterMessage
    <3> QED
      BY <3>1, <3>2
  <2>3. pc' \in {"next", "receipt", "kill"}
    BY <1>4 DEF Receive, AfterMessage
  <2> QED
    BY <2>1, <2>2, <2>3
<1>5. ASSUME NEW n \in Numbers, SendReceipt(n) PROVE ReceiptInv'
  <2>1. /\ IsFirst(n, nums) /\ pc = "receipting" /\ n \in nums
        /\ listing[n] \in Owed /\ listing[n] \in Mail /\ listing[n] \in atBBS
        /\ receipts'[listing[n]] = receipts[listing[n]] + 1
        /\ \A m \in Mail : m # listing[n] => receipts'[m] = receipts[m]
    BY <1>5, ReceiptEffect DEF IsFirst
  <2>2. pc' = "receipted" /\ UNCHANGED <<arrived, atBBS, listing, nums, faults>>
    BY <1>5 DEF SendReceipt
  <2>3. Current(listing[n])'
    BY <2>1, <2>2
  <2>4. receipts[listing[n]] <= faults
    BY <2>1
  <2>5. listing[n] \in arrived
    BY <2>1 DEF TypeOK
  <2> QED
    BY <2>1, <2>2, <2>3, <2>4, <2>5, KindAssumption DEF TypeOK
<1>6. ASSUME NEW n \in Numbers, SaveReceipt(n) PROVE ReceiptInv'
  BY <1>6 DEF SaveReceipt
<1>7. ASSUME NEW n \in Numbers, Kill(n) PROVE ReceiptInv'
  <2>1. \A k \in nums : IsFirst(k, nums) => k = n
    BY <1>7, FirstUnique DEF Kill, TypeOK
  <2>2. listing[n] \in arrived /\ atBBS' = atBBS \ {listing[n]}
    BY <1>7, KillGone DEF Kill
  <2> QED
    BY <1>7, <2>1, <2>2 DEF Kill
<1>8. CASE ListImmediates \/ Panic \/ EndOfImmediates \/ \E n \in Numbers : EndOfMailbox(n)
  BY <1>8 DEF ListImmediates, Panic, Terminate, IdleSession, EndOfImmediates, EndOfMailbox
<1>9. CASE CheckingBulletins
  BY <1>9 DEF CheckingBulletins, SetArea, ListArea, EndOfArea, EndOfBulletins
<1>10. ASSUME NEW n \in Numbers, ReceiptUnconfirmed(n) PROVE ReceiptInv'
  <2>1. /\ IsFirst(n, nums) /\ pc = "receipting"
        /\ listing[n] \in Owed /\ listing[n] \in Mail /\ listing[n] \in atBBS
        /\ receipts'[listing[n]] = receipts[listing[n]] + 1
        /\ \A m \in Mail : m # listing[n] => receipts'[m] = receipts[m]
    BY <1>10, ReceiptEffect
  <2>2. pc' = "close" /\ faults' = faults + 1 /\ UNCHANGED <<arrived, atBBS>>
    BY <1>10 DEF ReceiptUnconfirmed, Fault
  <2>3. receipts[listing[n]] <= faults
    BY <2>1
  <2>4. listing[n] \in arrived
    BY <2>1 DEF TypeOK
  <2>5. Owed \subseteq Mail /\ faults \in Nat /\ \A m \in Mail : receipts[m] \in Nat
    BY KindAssumption DEF TypeOK
  <2> QED
    BY <2>1, <2>2, <2>3, <2>4, <2>5
<1>11. CASE Failure /\ ~ \E n \in Numbers : ReceiptUnconfirmed(n)
  <2>1. /\ faults' = faults + 1 /\ UNCHANGED <<arrived, receipts>>
        /\ pc' \notin {"receipted", "kill"}
    BY <1>11 DEF Failure, Fault, OperationFails, ConnectionFails, SaveFails, Crash,
                 SendUnconfirmed, KillUnconfirmed, Abort, Terminate
  <2> QED
    BY <2>1, KindAssumption DEF TypeOK
<1>12. ASSUME NEW m \in Mail, Arrive(m) PROVE ReceiptInv'
  <2>1. m \notin arrived /\ arrived' = arrived \cup {m} /\ atBBS' = atBBS \cup {m}
    BY <1>12 DEF Arrive
  <2>2. UNCHANGED <<pc, nums, receipts, faults>>
    BY <1>12 DEF Arrive
  <2>3. \A i \in DOMAIN listing : i \in DOMAIN listing' /\ listing'[i] = listing[i]
    BY <1>12, AppendProperties DEF Arrive, TypeOK
  <2>4. pc \in {"receipted", "kill"} => \A k \in Owed : Current(k) => Current(k)'
    BY <2>2, <2>3 DEF CurrentInv, InReceipt
  <2>5. faults \in Nat
    BY DEF TypeOK
  <2> QED
    BY <2>1, <2>2, <2>4, <2>5
<1>13. CASE World /\ ~ \E m \in Mail : Arrive(m)
  BY <1>13 DEF World, SigInt, Elapse
<1> QED
  BY <1>1, <1>2, <1>3, <1>4, <1>5, <1>6, <1>7, <1>8, <1>9, <1>10, <1>11, <1>12, <1>13
  DEF Next, SessionStep, Receiving, Failure

\* A message that is being received is at the BBS, and is recorded once more.
LEMMA ReceiveEffect ==
    ASSUME IInv, NEW n, Receive(n)
    PROVE  /\ IsFirst(n, nums) /\ pc = "reading" /\ n \in nums /\ n \in DOMAIN listing
           /\ listing[n] \in Mail /\ listing[n] \in arrived
           /\ AreaOf[listing[n]] = area
           /\ area = Inbox => listing[n] \in atBBS
           /\ area # Inbox => recorded[listing[n]] = 0
           /\ recorded'[listing[n]] = recorded[listing[n]] + 1
           /\ \A m \in Mail : m # listing[n] => recorded'[m] = recorded[m]
<1>1. IsFirst(n, nums) /\ pc = "reading" /\ n \in nums /\ n \in DOMAIN listing
  BY DEF Receive, IsFirst
<1>2. listing[n] \in Mail
  BY <1>1 DEF IInv, TypeOK
<1>3. recorded' = [recorded EXCEPT ![listing[n]] = @ + 1]
  BY DEF Receive
<1>4. listing[n] \in arrived /\ AreaOf[listing[n]] = area
  BY <1>1 DEF IInv, ListingInv
<1>5. /\ area = Inbox => listing[n] \in atBBS
      /\ area # Inbox => recorded[listing[n]] = 0
  BY <1>1 DEF IInv, PendingInv
<1>6. \A m \in Mail : recorded'[m] = IF m = listing[n] THEN recorded[m] + 1 ELSE recorded[m]
  BY <1>2, <1>3 DEF IInv, TypeOK
<1> QED
  BY <1>1, <1>2, <1>4, <1>5, <1>6

LEMMA RecordStep == ASSUME IInv, Next PROVE RecordInv'
<1> USE DEF RecordInv, Current, Heeded, InReceipt, IInv
<1>0. /\ faults \in Nat /\ interrupts \in Nat /\ arrived \subseteq Mail
      /\ \A m \in Mail : recorded[m] \in Nat
  BY DEF TypeOK
<1>1. CASE UserStep
  BY <1>0, <1>1, UserFrame DEF UserEffect
<1>2. CASE Dial \/ NotInterrupted \/ Saving
  BY <1>2 DEF Dial, NotInterrupted, OpenConfig, WriteConfig
<1>3. CASE Interrupted
  <2>1. sigint /\ ~sigint' /\ pc' = "close"
    BY <1>3 DEF Interrupted, Abort
  <2>2. UNCHANGED <<arrived, atBBS, recorded, faults, interrupts>>
    BY <1>3 DEF Interrupted, Abort
  <2> QED
    BY <1>0, <2>1, <2>2
<1>4. CASE Close
  <2>1. pc = "close" /\ pc' \in {"shell", "save"} /\ ~sigint'
    BY <1>4 DEF Close, IdleSession
  <2>2. UNCHANGED <<arrived, atBBS, recorded, faults, interrupts>>
    BY <1>4 DEF Close
  <2> QED
    BY <1>0, <2>1, <2>2
<1>5. CASE Sending
  BY <1>5 DEF Sending, SendMessage, RejectMessage, SaveMessage, EndOfSending, Abort
<1>6. ASSUME NEW n \in Numbers, Receive(n) PROVE RecordInv'
  <2>1. UNCHANGED <<arrived, atBBS, listing, area, sigint, faults, interrupts>>
    BY <1>6 DEF Receive
  <2>2. area = Inbox => pc' \in {"receipt", "kill"} /\ nums' = nums
    BY <1>6 DEF Receive, AfterMessage
  <2>3. area = Inbox => Current(listing[n])'
    BY <1>6, <2>1, <2>2, ReceiveEffect
  <2>4. \A m \in Mail : AreaOf[m] = Inbox /\ m # listing[n] => recorded'[m] = recorded[m]
    BY <1>6, ReceiveEffect
  <2>5. pc = "reading"
    BY <1>6 DEF Receive
  <2>6. ASSUME area = Inbox
        PROVE  /\ recorded[listing[n]] <= faults + Heeded
               /\ recorded'[listing[n]] = recorded[listing[n]] + 1
               /\ listing[n] \in arrived
    BY <1>6, <2>5, <2>6, ReceiveEffect
  <2>7. area # Inbox => AreaOf[listing[n]] # Inbox
    BY <1>6, ReceiveEffect
  <2> QED
    BY <1>0, <2>1, <2>2, <2>3, <2>4, <2>5, <2>6, <2>7
<1>7. ASSUME NEW n \in Numbers, SendReceipt(n) \/ SaveReceipt(n) PROVE RecordInv'
  BY <1>7 DEF SendReceipt, SaveReceipt
<1>8. ASSUME NEW n \in Numbers, Kill(n) PROVE RecordInv'
  <2>1. \A k \in nums : IsFirst(k, nums) => k = n
    BY <1>8, FirstUnique DEF Kill, TypeOK
  <2>2. listing[n] \in arrived /\ atBBS' = atBBS \ {listing[n]}
    BY <1>8, KillGone DEF Kill
  <2> QED
    BY <1>8, <2>1, <2>2 DEF Kill
<1>9. CASE Panic
  <2>1. pc = "immediate" /\ pc' = "down" /\ ~sigint'
    BY <1>9 DEF Panic, Terminate, IdleSession
  <2>2. UNCHANGED <<arrived, atBBS, recorded, faults, interrupts>>
    BY <1>9 DEF Panic, Terminate
  <2> QED
    BY <1>0, <2>1, <2>2
<1>10. CASE ListImmediates \/ EndOfImmediates \/ \E n \in Numbers : EndOfMailbox(n)
  BY <1>10 DEF ListImmediates, EndOfImmediates, EndOfMailbox
<1>11. CASE CheckingBulletins
  BY <1>11 DEF CheckingBulletins, SetArea, ListArea, EndOfArea, EndOfBulletins
<1>12. CASE Failure
  <2>1. faults' = faults + 1 /\ interrupts' = interrupts
    BY <1>12 DEF Failure, Fault, OperationFails, ConnectionFails, SaveFails, Crash,
                 SendUnconfirmed, ReceiptUnconfirmed, KillUnconfirmed
  <2>2. ~InReceipt'
    BY <1>12 DEF Failure, OperationFails, ConnectionFails, SaveFails, Crash,
                 SendUnconfirmed, ReceiptUnconfirmed, KillUnconfirmed, Abort, Terminate
  <2>3. (sigint' => sigint) /\ UNCHANGED <<arrived, recorded>>
    BY <1>12 DEF Failure, OperationFails, ConnectionFails, SaveFails, Crash,
                 SendUnconfirmed, ReceiptUnconfirmed, KillUnconfirmed, Abort, Terminate,
                 IdleSession
  <2>4. atBBS' \subseteq atBBS
    BY <1>12 DEF Failure, OperationFails, ConnectionFails, SaveFails, Crash,
                 SendUnconfirmed, ReceiptUnconfirmed, KillUnconfirmed, Abort, Terminate
  <2> QED
    BY <1>0, <2>1, <2>2, <2>3, <2>4
<1>13. CASE SigInt
  <2>1. sigint' /\ interrupts' = interrupts + 1
    BY <1>13 DEF SigInt
  <2>2. UNCHANGED <<arrived, atBBS, recorded, faults, pc, nums, listing>>
    BY <1>13 DEF SigInt
  <2> QED
    BY <1>0, <2>1, <2>2
<1>14. ASSUME NEW m \in Mail, Arrive(m) PROVE RecordInv'
  <2>1. m \notin arrived /\ arrived' = arrived \cup {m} /\ atBBS' = atBBS \cup {m}
    BY <1>14 DEF Arrive
  <2>2. UNCHANGED <<pc, nums, recorded, faults, interrupts, sigint>>
    BY <1>14 DEF Arrive
  <2>3. \A i \in DOMAIN listing : i \in DOMAIN listing' /\ listing'[i] = listing[i]
    BY <1>14, AppendProperties DEF Arrive, TypeOK
  <2>4. InReceipt => \A k \in Mail : Current(k) => Current(k)'
    BY <2>2, <2>3 DEF CurrentInv
  <2> QED
    BY <1>0, <2>1, <2>2, <2>4
<1>15. ASSUME NEW a \in Areas, Elapse(a) PROVE RecordInv'
  BY <1>15 DEF Elapse
<1> QED
  BY <1>1, <1>2, <1>3, <1>4, <1>5, <1>6, <1>7, <1>8, <1>9, <1>10, <1>11, <1>12, <1>13,
     <1>14, <1>15
  DEF Next, SessionStep, Receiving, World

LEMMA BulletinStep == ASSUME IInv, Next PROVE BulletinInv'
<1> USE DEF BulletinInv, IInv
<1>1. CASE UserStep
  BY <1>1, UserFrame DEF UserEffect
<1>2. CASE Dial \/ Checked \/ Close \/ Saving
  BY <1>2 DEF Dial, NotInterrupted, Interrupted, Abort, Close, IdleSession, OpenConfig,
              WriteConfig
<1>3. CASE Sending
  BY <1>3 DEF Sending, SendMessage, RejectMessage, SaveMessage, EndOfSending, Abort
<1>4. ASSUME NEW n \in Numbers, Receive(n) PROVE BulletinInv'
  <2>1. arrived' = arrived
    BY <1>4 DEF Receive
  <2>2. /\ listing[n] \in arrived
        /\ AreaOf[listing[n]] # Inbox => recorded'[listing[n]] = 1
        /\ \A m \in Mail : m # listing[n] => recorded'[m] = recorded[m]
    BY <1>4, ReceiveEffect
  <2> QED
    BY <2>1, <2>2
<1>5. CASE Receiving /\ ~ \E n \in Numbers : Receive(n)
  BY <1>5 DEF Receiving, ListImmediates, Panic, Terminate, IdleSession, SendReceipt,
              SaveReceipt, Kill, EndOfMailbox, EndOfImmediates
<1>6. CASE CheckingBulletins
  BY <1>6 DEF CheckingBulletins, SetArea, ListArea, EndOfArea, EndOfBulletins
<1>7. CASE Failure
  BY <1>7 DEF Failure, Fault, OperationFails, ConnectionFails, SaveFails, Crash,
              SendUnconfirmed, ReceiptUnconfirmed, KillUnconfirmed, Abort, Terminate,
              IdleSession
<1>8. CASE World
  BY <1>8 DEF World, SigInt, Arrive, Elapse
<1> QED
  BY <1>1, <1>2, <1>3, <1>4, <1>5, <1>6, <1>7, <1>8
  DEF Next, SessionStep, Receiving

-----------------------------------------------------------------------------
(* The theorems.                                                           *)

LEMMA InvInit == Init => IInv
<1> SUFFICES ASSUME Init PROVE IInv
  OBVIOUS
<1>1. TypeOK
  BY TypeInit
<1>2. AreaInv /\ ListingInv /\ PendingInv /\ CurrentInv /\ GoneInv /\ QueueInv
  BY DEF Init, AreaInv, ListingInv, PendingInv, CurrentInv, InReceipt, GoneInv, QueueInv
<1>3. SendInv
  BY DEF Init, SendInv
<1>4. ReceiptInv
  BY KindAssumption DEF Init, ReceiptInv
<1>5. RecordInv /\ BulletinInv
  BY DEF Init, RecordInv, Heeded, InReceipt, BulletinInv
<1> QED
  BY <1>1, <1>2, <1>3, <1>4, <1>5 DEF IInv

LEMMA InvStep == IInv /\ [Next]_vars => IInv'
<1> SUFFICES ASSUME IInv, [Next]_vars PROVE IInv'
  OBVIOUS
<1>1. TypeOK'
  BY TypeStep DEF IInv
<1>2. CASE Next
  BY <1>1, <1>2, AreaStep, ListingStep, PendingStep, CurrentStep, GoneStep, QueueStep,
     SendStep, ReceiptStep, RecordStep, BulletinStep DEF IInv
<1>3. CASE UNCHANGED vars
  BY <1>3 DEF IInv, TypeOK, AreaInv, ListingInv, PendingInv, CurrentInv, InReceipt, Current,
              GoneInv, QueueInv, SendInv, ReceiptInv, RecordInv, Heeded, BulletinInv
<1> QED
  BY <1>2, <1>3

\* The invariant holds in every state of every behaviour.
THEOREM Invariance == Spec => []IInv
<1>1. Init => IInv
  BY InvInit
<1>2. IInv /\ [Next]_vars => IInv'
  BY InvStep
<1> QED
  BY <1>1, <1>2, PTL DEF Spec

\* Every variable of the connect command has its type, always.
THEOREM TypeCorrect == Spec => []TypeOK
<1>1. IInv => TypeOK
  BY DEF IInv
<1> QED
  BY <1>1, Invariance, PTL

\* A message that calls for a delivery receipt leaves the BBS only when the
\* receipt was sent and saved.
THEOREM KilledOnlyWithReceipt == Spec => []ReceiptBeforeKill
<1>1. IInv => ReceiptBeforeKill
  BY DEF IInv, GoneInv, ReceiptBeforeKill
<1> QED
  BY <1>1, Invariance, PTL

\* However many failures there are, they account for the copies of an outgoing
\* message beyond the first, and Ctrl-C for none.
THEOREM NoNeedlessResending == Spec => []ResentOnlyAfterFault
<1>1. IInv => ResentOnlyAfterFault
  BY DEF IInv, TypeOK, SendInv, ResentOnlyAfterFault
<1> QED
  BY <1>1, Invariance, PTL

\* The same for the delivery receipts of a message,
THEOREM NoNeedlessReceipt == Spec => []ReceiptedOnlyOnce
<1>1. IInv => ReceiptedOnlyOnce
  BY DEF IInv, ReceiptInv, ReceiptedOnlyOnce
<1> QED
  BY <1>1, Invariance, PTL

\* and, with each Ctrl-C counted as well, for the records of a private message.
THEOREM NoNeedlessRecording == Spec => []RecordedOnlyOnce
<1>1. IInv => RecordedOnlyOnce
  <2> SUFFICES ASSUME IInv, NEW m \in Mail, AreaOf[m] = Inbox
               PROVE  recorded[m] <= 1 + faults + interrupts
    BY DEF RecordedOnlyOnce
  <2>1. recorded[m] <= 1 + faults + Heeded
    BY DEF IInv, RecordInv
  <2>2. recorded[m] \in Nat /\ faults \in Nat /\ interrupts \in Nat
    BY DEF IInv, TypeOK
  <2> QED
    BY <2>1, <2>2 DEF Heeded
<1> QED
  BY <1>1, Invariance, PTL

\* Nothing is sent, receipted or recorded again without a failure or a Ctrl-C.
THEOREM NoNeedlessRepetition == Spec => []RepeatedOnlyAfterFault
BY NoNeedlessResending, NoNeedlessReceipt, NoNeedlessRecording, PTL
   DEF RepeatedOnlyAfterFault

\* No bulletin is ever retrieved twice.
THEOREM NoBulletinTwice == Spec => []BulletinRetrievedOnce
<1>1. IInv => BulletinRetrievedOnce
  BY DEF IInv, BulletinInv, BulletinRetrievedOnce
<1> QED
  BY <1>1, Invariance, PTL

-----------------------------------------------------------------------------
(* The two hops of a message are store-and-forward hops (Custody).         *)

LEMMA OutgoingStep ==
    ASSUME IInv, Next
    PROVE  Outgoing!Next \/ UNCHANGED Outgoing!vars
<1> DEFINE Same == UNCHANGED <<outState, delivered>>
<1>0. Same => UNCHANGED Outgoing!vars
  BY DEF Outgoing!vars
<1>1. CASE UserStep
  <2>1. delivered' = delivered /\ \A m \in Out : outState'[m] = "sent" <=> outState[m] = "sent"
    BY <1>1, UserFrame DEF IInv, UserEffect
  <2> QED
    BY <2>1 DEF Outgoing!vars
<1>2. CASE Dial \/ Checked \/ Close \/ Saving
  BY <1>0, <1>2 DEF Dial, NotInterrupted, Interrupted, Abort, Close, OpenConfig, WriteConfig
<1>3. ASSUME NEW m \in Out, SendMessage(m) \/ SendUnconfirmed(m) PROVE Outgoing!Next
  <2>1. m \in tosend /\ outState[m] = "queued"
    BY <1>3 DEF SendMessage, SendUnconfirmed, IsFirst, IInv, QueueInv
  <2>2. delivered' = [delivered EXCEPT ![m] = @ + 1] /\ outState' = outState
    BY <1>3 DEF SendMessage, SendUnconfirmed
  <2>3. Outgoing!Copy(m)
    BY <2>1, <2>2 DEF Outgoing!Copy
  <2> QED
    BY <2>3 DEF Outgoing!Next
<1>4. ASSUME NEW m \in Out, SaveMessage(m) PROVE Outgoing!Next
  <2>1. m \in tosend /\ outState[m] = "queued"
    BY <1>4 DEF SaveMessage, IsFirst, IInv, QueueInv
  <2>2. delivered[m] > 0
    BY <1>4 DEF SaveMessage, IInv, SendInv
  <2>3. \A k \in Out : outState'[k] = IF k = m THEN "sent" ELSE outState[k]
    BY <1>4 DEF SaveMessage, IInv, TypeOK
  <2>4. delivered' = delivered
    BY <1>4 DEF SaveMessage
  <2>5. Outgoing!Release(m)
    BY <2>1, <2>2, <2>3, <2>4 DEF Outgoing!Release
  <2> QED
    BY <2>5 DEF Outgoing!Next
<1>5. CASE EndOfSending \/ \E m \in Out : RejectMessage(m)
  BY <1>0, <1>5 DEF EndOfSending, RejectMessage, Abort
<1>6. CASE Receiving
  BY <1>0, <1>6 DEF Receiving, ListImmediates, Panic, Terminate, Receive, SendReceipt,
                    SaveReceipt, Kill, EndOfMailbox, EndOfImmediates
<1>7. CASE CheckingBulletins
  BY <1>0, <1>7 DEF CheckingBulletins, SetArea, ListArea, EndOfArea, EndOfBulletins
<1>8. CASE Failure /\ ~ \E m \in Out : SendUnconfirmed(m)
  BY <1>0, <1>8 DEF Failure, OperationFails, ConnectionFails, SaveFails, Crash,
                    ReceiptUnconfirmed, KillUnconfirmed, Abort, Terminate
<1>9. CASE World
  BY <1>0, <1>9 DEF World, SigInt, Arrive, Elapse
<1> QED
  BY <1>1, <1>2, <1>3, <1>4, <1>5, <1>6, <1>7, <1>8, <1>9
  DEF Next, SessionStep, Sending, Failure

\* A message is recorded as sent only when the BBS has it, and is not sent
\* after that: the way of a message to the BBS implements Custody.
THEOREM OutgoingRefinement == Spec => OutgoingCustody
<1>1. Init => Outgoing!Init
  BY DEF Init, Outgoing!Init
<1>2. IInv /\ [Next]_vars => [Outgoing!Next]_(Outgoing!vars)
  <2>1. UNCHANGED vars => UNCHANGED Outgoing!vars
    BY DEF Outgoing!vars
  <2> QED
    BY <2>1, OutgoingStep
<1> QED
  BY <1>1, <1>2, Invariance, PTL DEF Spec, OutgoingCustody, Outgoing!Spec

LEMMA IncomingStep ==
    ASSUME IInv, Next
    PROVE  Incoming!Next \/ UNCHANGED Incoming!vars
<1> DEFINE Same == UNCHANGED <<arrived, atBBS, recorded>>
<1>0. Same => UNCHANGED Incoming!vars
  BY DEF Incoming!vars
<1>1. CASE UserStep
  BY <1>0, <1>1, UserFrame DEF IInv, UserEffect
<1>2. CASE Dial \/ Checked \/ Close \/ Saving
  BY <1>0, <1>2 DEF Dial, NotInterrupted, Interrupted, Abort, Close, OpenConfig, WriteConfig
<1>3. CASE Sending
  BY <1>0, <1>3 DEF Sending, SendMessage, RejectMessage, SaveMessage, EndOfSending, Abort
<1>4. ASSUME NEW n \in Numbers, Receive(n) PROVE Incoming!Next
  <2>1. listing[n] \in Mail /\ listing[n] \in atBBS
    BY <1>4, ReceiveEffect DEF IInv, GoneInv
  <2>2. recorded' = [recorded EXCEPT ![listing[n]] = @ + 1] /\ UNCHANGED <<arrived, atBBS>>
    BY <1>4 DEF Receive
  <2>3. Incoming!Copy(listing[n])
    BY <2>1, <2>2 DEF Incoming!Copy
  <2> QED
    BY <2>1, <2>3 DEF Incoming!Next
<1>5. ASSUME NEW n \in Numbers, Kill(n) \/ KillUnconfirmed(n) PROVE Incoming!Next
  <2>1. pc = "kill" /\ IsFirst(n, nums) /\ atBBS' = atBBS \ {listing[n]}
    BY <1>5 DEF Kill, KillUnconfirmed
  <2>2. UNCHANGED <<arrived, recorded>>
    BY <1>5 DEF Kill, KillUnconfirmed
  <2>3. listing[n] \in Mail /\ recorded[listing[n]] > 0
    BY <2>1, KillGone
  <2>4. listing[n] \in atBBS
    BY <2>1 DEF IInv, PendingInv, CurrentInv, InReceipt, AreaInv, IsFirst
  <2>5. Incoming!Release(listing[n])
    BY <2>1, <2>2, <2>3, <2>4 DEF Incoming!Release
  <2> QED
    BY <2>3, <2>5 DEF Incoming!Next
<1>6. ASSUME NEW n \in Numbers, SendReceipt(n) \/ SaveReceipt(n) \/ EndOfMailbox(n)
      PROVE UNCHANGED Incoming!vars
  BY <1>0, <1>6 DEF SendReceipt, SaveReceipt, EndOfMailbox
<1>7. CASE ListImmediates \/ Panic \/ EndOfImmediates
  BY <1>0, <1>7 DEF ListImmediates, Panic, Terminate, EndOfImmediates
<1>8. CASE CheckingBulletins
  BY <1>0, <1>8 DEF CheckingBulletins, SetArea, ListArea, EndOfArea, EndOfBulletins
<1>9. CASE Failure /\ ~ \E n \in Numbers : KillUnconfirmed(n)
  BY <1>0, <1>9 DEF Failure, OperationFails, ConnectionFails, SaveFails, Crash,
                    SendUnconfirmed, ReceiptUnconfirmed, Abort, Terminate
<1>10. ASSUME NEW m \in Mail, Arrive(m) PROVE Incoming!Next
  <2>1. Incoming!Offer(m)
    BY <1>10 DEF Arrive, Incoming!Offer
  <2> QED
    BY <2>1 DEF Incoming!Next
<1>11. CASE World /\ ~ \E m \in Mail : Arrive(m)
  BY <1>0, <1>11 DEF World, SigInt, Elapse
<1> QED
  BY <1>1, <1>2, <1>3, <1>4, <1>5, <1>6, <1>7, <1>8, <1>9, <1>10, <1>11
  DEF Next, SessionStep, Receiving, Failure, World

\* A message is killed at the BBS only when it has been recorded here, and is
\* received while it is there: the way of a message from the BBS to the incident
\* directory implements Custody.
THEOREM IncomingRefinement == Spec => IncomingCustody
<1>1. Init => Incoming!Init
  BY DEF Init, Incoming!Init
<1>2. IInv /\ [Next]_vars => [Incoming!Next]_(Incoming!vars)
  <2>1. UNCHANGED vars => UNCHANGED Incoming!vars
    BY DEF Incoming!vars
  <2> QED
    BY <2>1, IncomingStep
<1> QED
  BY <1>1, <1>2, Invariance, PTL DEF Spec, IncomingCustody, Incoming!Spec

-----------------------------------------------------------------------------
(* The checks of bulletin areas.                                           *)

\* The areas that are still to be checked were due when the session began, and
\* the one that is being checked is among them.
SchedInv ==
    /\ pc \in Connected => \A a \in todo : memSched[a] \in {"once", "due"}
    /\ pc \in {"list", "next", "reading"} /\ area # Inbox => area \in todo

\* What was listed in an area and is not still to be received has been.
FetchInv ==
    pc \in {"next", "reading"} /\ area # Inbox =>
        /\ nums \subseteq DOMAIN listing
        /\ \A n \in DOMAIN listing \ nums : Subject[listing[n]] \in Have(area)

LEMMA SchedStep == ASSUME IInv, SchedInv, Next PROVE SchedInv'
<1> USE DEF SchedInv, IInv, AreaInv
<1>1. CASE UserStep
  <2>1. ASSUME NEW s \in BOOLEAN, NEW r \in BOOLEAN, NEW i \in BOOLEAN, Connect(s, r, i)
        PROVE SchedInv'
    BY <2>1 DEF Connect, Due
  <2>2. CASE ~ \E s, r, i \in BOOLEAN : Connect(s, r, i)
    <3>1. pc' \in {"down", "shell", "save"}
      BY <1>1, <2>2 DEF UserStep, Start, Enter, OtherSave, Quit, Terminate, Queue, Draft,
                        Show, Reschedule
    <3> QED
      BY <3>1 DEF Connected
  <2> QED
    BY <2>1, <2>2
<1>2. CASE Dial \/ Checked
  BY <1>2 DEF Dial, NotInterrupted, Interrupted, Abort, Connected, PC
<1>3. CASE Close \/ Saving
  BY <1>3 DEF Close, IdleSession, OpenConfig, WriteConfig, Connected
<1>4. CASE Sending
  BY <1>4 DEF Sending, SendMessage, RejectMessage, SaveMessage, EndOfSending, Abort,
              Connected, PC
<1>5. CASE ListImmediates \/ EndOfImmediates \/ \E n \in Numbers :
             SendReceipt(n) \/ SaveReceipt(n) \/ Kill(n) \/ EndOfMailbox(n)
  BY <1>5 DEF ListImmediates, EndOfImmediates, SendReceipt, SaveReceipt, Kill,
              EndOfMailbox, Connected, PC
<1>6. ASSUME NEW n \in Numbers, Receive(n) PROVE SchedInv'
  BY <1>6 DEF Receive, AfterMessage, Connected, PC
<1>7. CASE Panic \/ Crash
  BY <1>7 DEF Panic, Crash, Terminate, Connected
<1>8. CASE EndOfArea
  BY <1>8 DEF EndOfArea, Connected, PC, TypeOK
<1>9. CASE ListArea \/ EndOfBulletins \/ \E a \in todo : SetArea(a)
  BY <1>9 DEF ListArea, EndOfBulletins, SetArea, Connected, PC
<1>10. CASE ConnectionFails
  BY <1>10 DEF ConnectionFails, Connected
<1>11. CASE Failure /\ ~(ConnectionFails \/ Crash)
  BY <1>11 DEF Failure, OperationFails, SaveFails, SendUnconfirmed, ReceiptUnconfirmed,
               KillUnconfirmed, Abort, Connected, PC
<1>12. CASE World /\ ~ \E a \in Areas : Elapse(a)
  BY <1>12 DEF World, SigInt, Arrive
<1>13. ASSUME NEW a \in Areas, Elapse(a) PROVE SchedInv'
  <2>1. \A b \in Areas : memSched'[b] = memSched[b] \/ memSched[b] = "fresh"
    BY <1>13 DEF Elapse, TypeOK
  <2> QED
    BY <1>13, <2>1 DEF Elapse, TypeOK
<1> QED
  BY <1>1, <1>2, <1>3, <1>4, <1>5, <1>6, <1>7, <1>8, <1>9, <1>10, <1>11, <1>12, <1>13
  DEF Next, SessionStep, Receiving, CheckingBulletins, Failure, World

LEMMA FetchStep == ASSUME IInv, FetchInv, Next PROVE FetchInv'
<1> USE DEF FetchInv, IInv, AreaInv
<1>1. CASE UserStep
  BY <1>1, UserFrame DEF UserEffect
<1>2. CASE Dial \/ Checked \/ Close \/ Saving \/ Sending
  BY <1>2 DEF Dial, NotInterrupted, Interrupted, Abort, Close, OpenConfig, WriteConfig,
              Sending, SendMessage, RejectMessage, SaveMessage, EndOfSending, Have
<1>3. ASSUME NEW n \in Numbers, Receive(n) PROVE FetchInv'
  <2> SUFFICES ASSUME pc' = "next", area # Inbox
               PROVE  /\ nums' \subseteq DOMAIN listing
                      /\ \A i \in DOMAIN listing \ nums' : Subject[listing[i]] \in Have(area)'
    BY <1>3 DEF Receive, AfterMessage
  <2>1. /\ pc = "reading" /\ n \in DOMAIN listing /\ nums' = nums \ {n}
        /\ recorded' = [recorded EXCEPT ![listing[n]] = @ + 1]
        /\ listing[n] \in Mail /\ AreaOf[listing[n]] = area
    BY <1>3 DEF Receive, ListingInv, TypeOK
  <2>2. \A m \in Mail : recorded'[m] = IF m = listing[n] THEN recorded[m] + 1 ELSE recorded[m]
    BY <2>1 DEF TypeOK
  <2>6. \A m \in Mail : recorded[m] \in Nat
    BY DEF TypeOK
  <2>3. \A m \in Mail : recorded[m] > 0 => recorded'[m] > 0
    BY <2>2, <2>6
  <2>4. recorded'[listing[n]] > 0
    BY <2>1, <2>2 DEF TypeOK
  <2>5. Have(area) \subseteq Have(area)' /\ Subject[listing[n]] \in Have(area)'
    BY <1>3, <2>1, <2>3, <2>4 DEF Have, Receive
  <2> QED
    BY <2>1, <2>5
<1>4. CASE Receiving /\ ~ \E n \in Numbers : Receive(n)
  BY <1>4 DEF Receiving, ListImmediates, Panic, Terminate, SendReceipt, SaveReceipt, Kill,
              EndOfMailbox, EndOfImmediates, IsFirst
<1>5. CASE ListArea
  BY <1>5 DEF ListArea, Have
<1>6. CASE EndOfArea \/ EndOfBulletins \/ \E a \in todo : SetArea(a)
  BY <1>6 DEF EndOfArea, EndOfBulletins, SetArea
<1>7. CASE Failure
  BY <1>7 DEF Failure, OperationFails, ConnectionFails, SaveFails, Crash, SendUnconfirmed,
              ReceiptUnconfirmed, KillUnconfirmed, Abort, Terminate
<1>8. CASE World
  BY <1>8 DEF World, SigInt, Arrive, Elapse, Have
<1> QED
  BY <1>1, <1>2, <1>3, <1>4, <1>5, <1>6, <1>7, <1>8
  DEF Next, SessionStep, Receiving, CheckingBulletins

\* In every session, the areas to be checked are due, and what has been listed
\* in the current one has been received or is still to be.
THEOREM BulletinInvariance == Spec => [](IInv /\ SchedInv /\ FetchInv)
<1>1. Init => SchedInv /\ FetchInv
  BY DEF Init, SchedInv, FetchInv, Connected
<1>2. IInv /\ SchedInv /\ FetchInv /\ [Next]_vars => SchedInv' /\ FetchInv'
  <2>1. SchedInv /\ FetchInv /\ UNCHANGED vars => SchedInv' /\ FetchInv'
    BY DEF SchedInv, FetchInv, Have
  <2> QED
    BY <2>1, SchedStep, FetchStep
<1> QED
  BY <1>1, <1>2, Invariance, PTL DEF Spec

\* The end of an area that is looked at is its check.
LEMMA EndIsCheck ==
    ASSUME IInv, SchedInv, EndOfArea
    PROVE  area \in Areas /\ pc \in Connected /\ pc' # "down" /\ Checks!Check(area)
<1> USE DEF IInv
<1>1. area \in Areas /\ area \in todo /\ memSched[area] \in {"once", "due"}
  BY AreaAssumption DEF EndOfArea, SchedInv, TypeOK, Connected, PC
<1>2. pc \in Connected /\ pc' \in Connected /\ pc' # "down"
  BY DEF EndOfArea, Connected, PC
<1> QED
  BY <1>1, <1>2 DEF Checks!Check, EndOfArea

\* A step that checks an area, and what any other step does to the schedule.
LEMMA ScheduleEffect ==
    ASSUME IInv, SchedInv, Next
    PROVE  \/ EndOfArea
           \/ pc \in Connected /\ pc' # "down" => \A a \in Areas :
                memSched'[a] = memSched[a] \/ memSched[a] = "fresh"
<1> USE DEF IInv
<1>1. CASE EndOfArea
  BY <1>1
<1>2. CASE UserStep
  BY <1>2, UserFrame DEF UserEffect, UserStep, Start, Quit, Queue, Draft, Show,
                         Reschedule, Connect, Connected
<1>3. CASE Dial \/ Checked \/ Close \/ Saving \/ Sending
  BY <1>3 DEF Dial, NotInterrupted, Interrupted, Abort, Close, OpenConfig, WriteConfig,
              Sending, SendMessage, RejectMessage, SaveMessage, EndOfSending
<1>4. CASE Receiving
  BY <1>4 DEF Receiving, ListImmediates, Panic, Terminate, Receive, SendReceipt,
              SaveReceipt, Kill, EndOfMailbox, EndOfImmediates
<1>5. CASE ListArea \/ EndOfBulletins \/ \E a \in todo : SetArea(a)
  BY <1>5 DEF ListArea, EndOfBulletins, SetArea
<1>6. CASE Failure
  BY <1>6 DEF Failure, OperationFails, ConnectionFails, SaveFails, Crash, SendUnconfirmed,
              ReceiptUnconfirmed, KillUnconfirmed, Abort, Terminate
<1>7. CASE World
  BY <1>7 DEF World, SigInt, Arrive, Elapse, TypeOK
<1> QED
  BY <1>1, <1>2, <1>3, <1>4, <1>5, <1>6, <1>7
  DEF Next, SessionStep, CheckingBulletins

\* A session takes an area off the list of checks only when every bulletin it
\* was shown there has been retrieved.
THEOREM CheckedWhenRetrieved == Spec => CheckedOnlyWhenRetrieved
<1> DEFINE Retrieved ==
      \A a \in Areas :
        /\ pc \in Connected
        /\ pc' # "down"
        /\ memSched[a] \in {"once", "due"}
        /\ memSched'[a] \notin {"once", "due"}
        => /\ area = a
           /\ \A n \in DOMAIN listing : Subject[listing[n]] \in Have(a)
<1>1. IInv /\ SchedInv /\ FetchInv /\ [Next]_vars => [Retrieved]_vars
  <2> SUFFICES ASSUME IInv, SchedInv, FetchInv, Next,
                      NEW a \in Areas, pc \in Connected, pc' # "down",
                      memSched[a] \in {"once", "due"}, memSched'[a] \notin {"once", "due"}
               PROVE  area = a /\ \A n \in DOMAIN listing : Subject[listing[n]] \in Have(a)
    OBVIOUS
  <2>1. EndOfArea
    BY ScheduleEffect
  <2>2. area = a
    BY <2>1 DEF EndOfArea, IInv, TypeOK
  <2> QED
    BY <2>1, <2>2 DEF FetchInv, EndOfArea
<1> QED
  BY <1>1, BulletinInvariance, PTL DEF Spec, CheckedOnlyWhenRetrieved

LEMMA ChecksStep ==
    ASSUME IInv, SchedInv, Next
    PROVE  Checks!Next \/ UNCHANGED Checks!vars
<1> USE DEF IInv, Checks!vars
<1>0. "off" \in Schedule /\ Checks!Kind = Schedule
  BY DEF Schedule, Checks!Kind
<1>1. CASE EndOfArea
  <2>1. Checks!Check(area) /\ area \in Areas
    BY <1>1, EndIsCheck
  <2> QED
    BY <2>1 DEF Checks!Next
<1>2. CASE Start
  <2>1. Checks!Start
    BY <1>2 DEF Start, Checks!Start, Connected
  <2> QED
    BY <2>1 DEF Checks!Next
<1>3. CASE Quit \/ Panic \/ Crash
  <2>1. Checks!Stop
    BY <1>3 DEF Quit, Panic, Crash, Terminate, Off, Checks!Off, Checks!Stop, Connected
  <2> QED
    BY <2>1 DEF Checks!Next
<1>4. ASSUME NEW a \in Areas, NEW s \in {"off", "once", "due"}, Reschedule(a, s)
      PROVE  Checks!Next
  <2>1. /\ memSched' = [memSched EXCEPT ![a] = s] /\ diskSched' = diskSched
        /\ pc = "shell" /\ pc' = "save" /\ <<memSched[a], s>> \in Checks!Changes
    BY <1>4 DEF Reschedule
  <2>2. memSched' \in [Areas -> Schedule]
    BY <2>1 DEF TypeOK, Schedule
  <2>3. \A b \in Areas : <<memSched[b], memSched'[b]>> \in Checks!Changes
    BY <1>0, <2>1 DEF TypeOK, Checks!Changes
  <2>4. Checks!Reschedule
    BY <1>0, <2>1, <2>2, <2>3 DEF Checks!Reschedule, Checks!Schedules, Connected
  <2> QED
    BY <2>4 DEF Checks!Next
<1>5. CASE OtherSave \/ SaveFails \/ \E m \in Mail : \E k \in 1 .. recorded[m] : Show(m, k)
  <2>1. UNCHANGED <<memSched, diskSched>>
    BY <1>5 DEF OtherSave, SaveFails, Show
  <2>2. pc \in {"shell", "save", "writing"} /\ pc' \in {"shell", "save"}
    BY <1>5 DEF OtherSave, SaveFails, Show
  <2> QED
    BY <2>1, <2>2 DEF Connected
<1>6. CASE (\E m \in Out : Queue(m) \/ Draft(m))
  BY <1>6 DEF Queue, Draft
<1>16. ASSUME NEW c \in Elsewhere, Enter(c) PROVE Checks!Next
  <2>1. Checks!Enter
    BY <1>16 DEF Enter, Checks!Enter, Connected
  <2> QED
    BY <2>1 DEF Checks!Next
<1>7. ASSUME NEW s \in BOOLEAN, NEW r \in BOOLEAN, NEW i \in BOOLEAN, Connect(s, r, i)
      PROVE  Checks!Next
  <2>1. Checks!Connect
    BY <1>7 DEF Connect, Checks!Connect, Connected, PC
  <2> QED
    BY <2>1 DEF Checks!Next
<1>8. CASE Dial \/ Checked \/ Sending
  BY <1>8 DEF Dial, NotInterrupted, Interrupted, Abort, Sending, SendMessage, RejectMessage,
              SaveMessage, EndOfSending, Connected, PC
<1>9. CASE Close \/ ConnectionFails
  <2>1. Checks!Disconnect
    BY <1>9 DEF Close, ConnectionFails, Checks!Disconnect, Connected, PC
  <2> QED
    BY <2>1 DEF Checks!Next
<1>10. CASE Saving
  <2>1. Checks!Save
    BY <1>10 DEF OpenConfig, WriteConfig, Off, Checks!Off, Checks!Save, Connected
  <2> QED
    BY <2>1 DEF Checks!Next
<1>11. CASE Receiving /\ ~Panic
  BY <1>11 DEF Receiving, ListImmediates, Receive, AfterMessage, SendReceipt, SaveReceipt,
               Kill, EndOfMailbox, EndOfImmediates, Connected, PC
<1>12. CASE ListArea \/ EndOfBulletins \/ \E a \in todo : SetArea(a)
  BY <1>12 DEF ListArea, EndOfBulletins, SetArea, Connected, PC
<1>13. CASE Failure /\ ~(ConnectionFails \/ Crash)
  BY <1>13 DEF Failure, OperationFails, SaveFails, SendUnconfirmed, ReceiptUnconfirmed,
               KillUnconfirmed, Abort, Connected, PC
<1>14. CASE World /\ ~ \E a \in Areas : Elapse(a)
  BY <1>14 DEF World, SigInt, Arrive
<1>15. ASSUME NEW a \in Areas, Elapse(a) PROVE Checks!Next
  <2>1. memSched' \in [Areas -> Schedule] /\ diskSched' \in [Areas -> Schedule]
    BY <1>15 DEF Elapse, TypeOK, Schedule
  <2>2. \A b \in Areas : /\ memSched'[b] \in Checks!Later(memSched[b])
                         /\ diskSched'[b] \in Checks!Later(diskSched[b])
    BY <1>15 DEF Elapse, TypeOK, Checks!Later
  <2>3. Checks!Elapse
    BY <1>0, <1>15, <2>1, <2>2 DEF Elapse, Checks!Elapse, Checks!Schedules
  <2> QED
    BY <2>3 DEF Checks!Next
<1> QED
  BY <1>1, <1>2, <1>3, <1>4, <1>5, <1>6, <1>7, <1>8, <1>9, <1>10, <1>11, <1>12, <1>13,
     <1>14, <1>15, <1>16
  DEF Next, UserStep, SessionStep, Receiving, CheckingBulletins, Failure, World

\* What a session, the commands and failures do to the schedule of the bulletin
\* areas is what BulletinChecks says, as it is for Schedule.
THEOREM ChecksRefinement == Spec => ImplementsChecks
<1>1. Init => Checks!Init
  BY DEF Init, Off, Checks!Init, Checks!Off, Checks!Schedules, Checks!Kind, Schedule,
         Connected
<1>2. IInv /\ SchedInv /\ [Next]_vars => [Checks!Next]_(Checks!vars)
  <2>1. UNCHANGED vars => UNCHANGED Checks!vars
    BY DEF Checks!vars
  <2> QED
    BY <2>1, ChecksStep
<1> QED
  BY <1>1, <1>2, BulletinInvariance, PTL DEF Spec, ImplementsChecks, Checks!Spec

-----------------------------------------------------------------------------
(* Ctrl-C, immediate messages and the "NEW" flags: what a step may not do. *)

\* The commands at the prompt touch no traffic and no counts.
LEMMA UserTraffic ==
    UserStep => UNCHANGED <<delivered, receipts, recorded>>
BY DEF UserStep, Start, Enter, OtherSave, Quit, Terminate, Queue, Draft, Show, Reschedule,
       Connect

\* Between looking for a Ctrl-C and the operation that follows nothing was late;
\* after that one message or receipt may be, and it is looked for again before
\* there is another.
LateInv ==
    /\ late \in Nat /\ late <= 1
    /\ late > 0 => sigint
    /\ pc \in {"sending", "reading", "receipting"} => late = 0

LEMMA LateStep == ASSUME LateInv, Next PROVE LateInv'
<1> USE DEF LateInv
<1>1. CASE UserStep
  <2>1. UNCHANGED <<sigint, late>> \/ late' = 0
    BY <1>1 DEF UserStep, Start, Enter, OtherSave, Quit, Terminate, IdleSession, Queue,
                Draft, Show, Reschedule, Connect
  <2>2. pc' \notin {"sending", "reading", "receipting"}
    BY <1>1 DEF UserStep, Start, Enter, OtherSave, Quit, Terminate, Queue, Draft, Show,
                Reschedule, Connect
  <2> QED
    BY <2>1, <2>2
<1>2. CASE Dial \/ Checked
  BY <1>2 DEF Dial, NotInterrupted, Interrupted, Abort
<1>3. CASE Close \/ Saving
  BY <1>3 DEF Close, IdleSession, OpenConfig, WriteConfig
<1>4. CASE Sending
  BY <1>4 DEF Sending, SendMessage, RejectMessage, SaveMessage, EndOfSending, Abort, Traffic
<1>5. CASE ListImmediates \/ EndOfImmediates \/ Panic
  BY <1>5 DEF ListImmediates, EndOfImmediates, Panic, Terminate, IdleSession
<1>6. ASSUME NEW n \in Numbers, Receive(n) PROVE LateInv'
  BY <1>6 DEF Receive, AfterMessage, Traffic
<1>7. ASSUME NEW n \in Numbers, SendReceipt(n) \/ SaveReceipt(n) \/ Kill(n) \/ EndOfMailbox(n)
      PROVE LateInv'
  BY <1>7 DEF SendReceipt, SaveReceipt, Kill, EndOfMailbox, Traffic
<1>8. CASE CheckingBulletins
  BY <1>8 DEF CheckingBulletins, SetArea, ListArea, EndOfArea, EndOfBulletins
<1>9. CASE Failure
  BY <1>9 DEF Failure, OperationFails, ConnectionFails, SaveFails, Crash, SendUnconfirmed,
              ReceiptUnconfirmed, KillUnconfirmed, Abort, Terminate, IdleSession, Traffic
<1>10. CASE World
  BY <1>10 DEF World, SigInt, Arrive, Elapse
<1> QED
  BY <1>1, <1>2, <1>3, <1>4, <1>5, <1>6, <1>7, <1>8, <1>9, <1>10
  DEF Next, SessionStep, Receiving

\* A Ctrl-C that comes when it was just looked for lets one operation through, and
\* no more, wherever in sending, receiving or acknowledging it comes.
THEOREM InterruptHeeded == Spec => []OneMoreAfterInterrupt
<1>1. Init => LateInv
  BY DEF Init, LateInv
<1>2. LateInv /\ [Next]_vars => LateInv'
  <2>1. LateInv /\ UNCHANGED vars => LateInv'
    BY DEF LateInv
  <2> QED
    BY <2>1, LateStep
<1>3. LateInv => OneMoreAfterInterrupt
  BY DEF LateInv, OneMoreAfterInterrupt
<1> QED
  BY <1>1, <1>2, <1>3, PTL DEF Spec

\* What --immediate has left to send and to receive.
ModeInv ==
    /\ sendlevel = 2 => tosend \subseteq ImmediateOut
    /\ pc \in {"down", "shell", "dial", "send", "sending", "sent", "immediate", "save",
              "writing"} => nums = {}
    /\ rcvlevel = 2 =>
         /\ todo = {} /\ pc # "list"
         /\ \A n \in nums : n \in DOMAIN listing /\ listing[n] \in ImmediateMail

LEMMA ModeStep == ASSUME IInv, ModeInv, Next PROVE ModeInv'
<1> USE DEF ModeInv, IInv
<1>1. CASE UserStep
  <2>1. ASSUME NEW s \in BOOLEAN, NEW r \in BOOLEAN, NEW i \in BOOLEAN, Connect(s, r, i)
        PROVE ModeInv'
    <3>1. /\ tosend' = ToSend(sendlevel') /\ nums' = {} /\ pc' = "dial"
          /\ rcvlevel' = 2 => todo' = {}
      BY <2>1 DEF Connect
    <3>2. sendlevel' = 2 => tosend' \subseteq ImmediateOut
      <4> SUFFICES ASSUME NEW m \in ToSend(2) PROVE m \in ImmediateOut
        BY <3>1
      <4>1. m \in Queued /\ m \in Nat
        BY OutAssumption DEF ToSend, Queued
      <4>2. \A k \in Queued : k <= m => k \in ImmediateOut
        BY DEF ToSend
      <4> QED
        BY <4>1, <4>2
    <3> QED
      BY <3>1, <3>2
  <2>2. CASE ~ \E s, r, i \in BOOLEAN : Connect(s, r, i)
    BY <1>1, <2>2 DEF UserStep, Start, Enter, OtherSave, Quit, Terminate, IdleSession,
                      Queue, Draft, Show, Reschedule
  <2> QED
    BY <2>1, <2>2
<1>2. CASE Dial \/ Checked
  BY <1>2 DEF Dial, NotInterrupted, Interrupted, Abort
<1>3. CASE Close \/ Saving
  BY <1>3 DEF Close, IdleSession, OpenConfig, WriteConfig
<1>4. CASE Sending
  BY <1>4 DEF Sending, SendMessage, RejectMessage, SaveMessage, EndOfSending, Abort
<1>5. CASE ListImmediates \/ EndOfImmediates \/ \E n \in Numbers :
             SendReceipt(n) \/ SaveReceipt(n) \/ Kill(n) \/ EndOfMailbox(n)
  BY <1>5 DEF ListImmediates, EndOfImmediates, SendReceipt, SaveReceipt, Kill,
              EndOfMailbox
<1>6. ASSUME NEW n \in Numbers, Receive(n) PROVE ModeInv'
  BY <1>6 DEF Receive, AfterMessage
<1>7. CASE Panic \/ Crash
  BY <1>7 DEF Panic, Crash, Terminate, IdleSession
<1>8. CASE CheckingBulletins
  BY <1>8 DEF CheckingBulletins, SetArea, ListArea, EndOfArea, EndOfBulletins
<1>9. CASE ConnectionFails
  BY <1>9 DEF ConnectionFails, IdleSession
<1>10. CASE Failure /\ ~(ConnectionFails \/ Crash)
  BY <1>10 DEF Failure, OperationFails, SaveFails, SendUnconfirmed, ReceiptUnconfirmed,
               KillUnconfirmed, Abort
<1>11. ASSUME NEW m \in Mail, Arrive(m) PROVE ModeInv'
  <2>1. \A n \in DOMAIN listing : n \in DOMAIN listing' /\ listing'[n] = listing[n]
    BY <1>11 DEF Arrive, TypeOK
  <2> QED
    BY <1>11, <2>1 DEF Arrive
<1>12. CASE SigInt \/ \E a \in Areas : Elapse(a)
  BY <1>12 DEF SigInt, Elapse
<1> QED
  BY <1>1, <1>2, <1>3, <1>4, <1>5, <1>6, <1>7, <1>8, <1>9, <1>10, <1>11, <1>12
  DEF Next, SessionStep, Receiving, Failure, World

LEMMA ImmediateStep ==
    ASSUME IInv, ModeInv, Next
    PROVE  /\ sendlevel = 2 => \A m \in Out \ ImmediateOut : delivered'[m] = delivered[m]
           /\ rcvlevel = 2 => \A m \in Mail \ ImmediateMail : recorded'[m] = recorded[m]
<1> USE DEF IInv
<1>1. CASE UserStep
  BY <1>1, UserTraffic
<1>2. CASE Dial \/ Checked \/ Close \/ Saving
  BY <1>2 DEF Dial, NotInterrupted, Interrupted, Abort, Close, OpenConfig, WriteConfig
<1>3. ASSUME NEW m \in Out, SendMessage(m) \/ SendUnconfirmed(m)
      PROVE  /\ recorded' = recorded
             /\ sendlevel = 2 => \A k \in Out \ ImmediateOut : delivered'[k] = delivered[k]
  <2>1. /\ m \in tosend /\ recorded' = recorded
        /\ delivered' = [delivered EXCEPT ![m] = @ + 1]
    BY <1>3 DEF SendMessage, SendUnconfirmed, IsFirst
  <2> QED
    BY <2>1 DEF ModeInv, TypeOK
<1>4. ASSUME NEW n \in Numbers, Receive(n)
      PROVE  /\ delivered' = delivered
             /\ rcvlevel = 2 => \A k \in Mail \ ImmediateMail : recorded'[k] = recorded[k]
  <2>1. /\ n \in nums /\ delivered' = delivered
        /\ recorded' = [recorded EXCEPT ![listing[n]] = @ + 1]
    BY <1>4 DEF Receive, IsFirst
  <2> QED
    BY <2>1 DEF ModeInv, TypeOK
<1>5. CASE EndOfSending \/ \E m \in Out : RejectMessage(m) \/ SaveMessage(m)
  BY <1>5 DEF RejectMessage, SaveMessage, EndOfSending, Abort
<1>6. CASE ListImmediates \/ Panic \/ EndOfImmediates \/ \E n \in Numbers :
             SendReceipt(n) \/ SaveReceipt(n) \/ Kill(n) \/ EndOfMailbox(n)
  BY <1>6 DEF ListImmediates, Panic, Terminate, SendReceipt, SaveReceipt, Kill,
              EndOfMailbox, EndOfImmediates
<1>7. CASE CheckingBulletins
  BY <1>7 DEF CheckingBulletins, SetArea, ListArea, EndOfArea, EndOfBulletins
<1>8. CASE Failure /\ ~ \E m \in Out : SendUnconfirmed(m)
  BY <1>8 DEF Failure, OperationFails, ConnectionFails, SaveFails, Crash,
              ReceiptUnconfirmed, KillUnconfirmed, Abort, Terminate
<1>9. CASE World
  BY <1>9 DEF World, SigInt, Arrive, Elapse
<1> QED
  BY <1>1, <1>2, <1>3, <1>4, <1>5, <1>6, <1>7, <1>8, <1>9
  DEF Next, SessionStep, Sending, Receiving, Failure

\* With --immediate, no message that is not immediate is sent or received.
THEOREM ImmediatesOnly == Spec => ImmediateOnly
<1>1. Init => ModeInv
  BY DEF Init, ModeInv
<1>2. IInv /\ ModeInv /\ [Next]_vars => ModeInv'
  <2>1. ModeInv /\ UNCHANGED vars => ModeInv'
    BY DEF ModeInv
  <2> QED
    BY <2>1, ModeStep
<1>3. IInv /\ ModeInv /\ [Next]_vars =>
        [/\ sendlevel = 2 => \A m \in Out \ ImmediateOut : delivered'[m] = delivered[m]
         /\ rcvlevel = 2 => \A m \in Mail \ ImmediateMail : recorded'[m] = recorded[m]]_vars
  BY ImmediateStep
<1> QED
  BY <1>1, <1>2, <1>3, Invariance, PTL DEF Spec, ImmediateOnly

\* The flags that packet.conf should have are there when it is whole; and a
\* program that runs in this incident, unless it was started in another one and
\* has not saved since, has them all in memory.  That is why it may save anything
\* at any time; while it is at that, packet.conf is torn.
FlagInv ==
    /\ ~torn => kept \subseteq diskUnread
    /\ pc # "down" /\ ~away => kept \subseteq memUnread
    /\ pc = "down" => ~away
    /\ pc = "writing" => torn

LEMMA FlagStep == ASSUME FlagInv, Next PROVE FlagInv'
<1> USE DEF FlagInv
<1>1. CASE Start \/ Quit \/ OtherSave \/ \E m \in Out : Queue(m) \/ Draft(m)
  BY <1>1 DEF Start, Quit, OtherSave, Terminate, Queue, Draft
<1>2. ASSUME NEW c \in Elsewhere, Enter(c) PROVE FlagInv'
  BY <1>2 DEF Enter
<1>3. ASSUME NEW m \in Mail, NEW k \in 1 .. recorded[m], Show(m, k) PROVE FlagInv'
  BY <1>3 DEF Show
<1>4. CASE \/ \E a \in Areas : \E s \in {"off", "once", "due"} : Reschedule(a, s)
           \/ \E send, receive, immediate \in BOOLEAN : Connect(send, receive, immediate)
  BY <1>4 DEF Reschedule, Connect
<1>5. CASE Dial \/ Checked \/ Close
  BY <1>5 DEF Dial, NotInterrupted, Interrupted, Abort, Close
<1>6. CASE Saving
  BY <1>6 DEF OpenConfig, WriteConfig
<1>7. CASE Sending
  BY <1>7 DEF Sending, SendMessage, RejectMessage, SaveMessage, EndOfSending, Abort
<1>8. CASE Receiving
  BY <1>8 DEF Receiving, ListImmediates, Panic, Terminate, Receive, AfterMessage,
              SendReceipt, SaveReceipt, Kill, EndOfMailbox, EndOfImmediates
<1>9. CASE CheckingBulletins
  BY <1>9 DEF CheckingBulletins, SetArea, ListArea, EndOfArea, EndOfBulletins
<1>10. CASE Failure
  <2>1. CASE Crash
    BY <1>10, <2>1 DEF Crash, Fault, Terminate
  <2>2. CASE ~Crash
    BY <1>10, <2>2 DEF Failure, Fault, OperationFails, ConnectionFails, SaveFails,
                       SendUnconfirmed, ReceiptUnconfirmed, KillUnconfirmed, Abort
  <2> QED
    BY <2>1, <2>2
<1>11. CASE World
  BY <1>11 DEF World, SigInt, Arrive, Elapse
<1> QED
  BY <1>1, <1>2, <1>3, <1>4, <1>5, <1>6, <1>7, <1>8, <1>9, <1>10, <1>11
  DEF Next, UserStep, SessionStep

\* A "NEW" flag that was saved survives failed sessions, failed saves and
\* restarts, but for an end of the program with packet.conf torn and a save by
\* one that was started in another incident.
THEOREM UnreadKept == Spec => []FlagsSurvive
<1>1. Init => FlagInv
  BY DEF Init, FlagInv
<1>2. FlagInv /\ [Next]_vars => FlagInv'
  <2>1. FlagInv /\ UNCHANGED vars => FlagInv'
    BY DEF FlagInv
  <2> QED
    BY <2>1, FlagStep
<1>3. FlagInv => FlagsSurvive
  BY DEF FlagInv, FlagsSurvive
<1> QED
  BY <1>1, <1>2, <1>3, PTL DEF Spec

=============================================================================
