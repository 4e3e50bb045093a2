--------------------------- MODULE EditFormProofs ----------------------------
(***************************************************************************)
(* Proofs about the form in which a message is edited, for any number of   *)
(* fields and any of them passed over.                                     *)
(***************************************************************************)
EXTENDS EditForm, TLAPS

USE DEF Fields, QueueField, YesNo, vars

\* What the question at the end rests on: a message that was in the queue stays
\* ready as long as nothing was answered, and one that was not is not ready
\* until the question is on the screen or was answered with yes.
ReadyInv ==
    /\ end = "editing" /\ wasReady = "yes" /\ answer = "none" => ready = "yes"
    /\ at # QueueField /\ end \in {"editing", "finished", "left"} /\ ready = "yes"
         => "yes" \in {wasReady, answer}

IInv == TypeOK /\ AskedOnlyWhenValid /\ FinishedOnlyValid /\ ReadyInv

LEMMA InitInv == Init => IInv
BY NumFieldsAssumption DEF Init, IInv, TypeOK, AskedOnlyWhenValid, FinishedOnlyValid, ReadyInv

LEMMA RejectInv ==
    ASSUME IInv, NEW result \in Results, NEW changed \in BOOLEAN,
           NEW v \in SUBSET Fields, Reject(result, changed, v)
    PROVE  IInv'
BY NumFieldsAssumption
   DEF IInv, TypeOK, AskedOnlyWhenValid, FinishedOnlyValid, ReadyInv, Reject

\* What is true however the form moves on from a field of the message.
LEMMA AcceptInv ==
    ASSUME IInv, NEW result \in Results, NEW changed \in BOOLEAN,
           NEW v \in SUBSET Fields, Accept(result, changed, v)
    PROVE  IInv'
<1>. USE NumFieldsAssumption
<1>a. /\ valid' = v /\ restarted' = "no" /\ at \in Fields /\ end = "editing"
      /\ UNCHANGED <<errorsOnly, wasReady, answer>>
  BY DEF Accept, IInv, TypeOK
<1>b. Move(result, v, ready)
  BY DEF Accept
<1>. SUFFICES ASSUME Move(result, v, ready) PROVE IInv'
  BY <1>b
<1>1. CASE MoveToNext(v, ready) /\ Later(v) # {}
  <2>1. PICK f \in Later(v) : GoTo(f) /\ ready' = ready
    BY <1>1, <1>a DEF MoveToNext, GoToFirst, IInv, TypeOK
  <2>. QED
    BY <2>1, <1>a
       DEF IInv, TypeOK, AskedOnlyWhenValid, FinishedOnlyValid, ReadyInv, GoTo, Later
<1>2. CASE MoveToNext(v, ready) /\ Later(v) = {}
  <2>1. ToQueueField(v, ready)
    BY <1>2, <1>a DEF MoveToNext, GoToFirst
  <2>2. CASE Asks(v, ready)
    <3>1. Stops(QueueField, v)
      BY SkippedAssumption DEF Stops
    <3>. QED
      BY <2>1, <2>2, <3>1, <1>a
         DEF IInv, TypeOK, AskedOnlyWhenValid, FinishedOnlyValid, ReadyInv,
             ToQueueField, Asks, GoTo
  <2>3. CASE ~Asks(v, ready)
    BY <2>1, <2>3, <1>a
       DEF IInv, TypeOK, AskedOnlyWhenValid, FinishedOnlyValid, ReadyInv,
           ToQueueField, Asks, ReadyIfNotAsked, Leave
  <2>. QED  BY <2>2, <2>3
<1>3. CASE MoveToPrevious(v, ready)
  BY <1>3, <1>a
     DEF IInv, TypeOK, AskedOnlyWhenValid, FinishedOnlyValid, ReadyInv,
         MoveToPrevious, GoToLast, GoTo, Leave, Earlier
<1>4. CASE Leave("left") /\ ready' = ready
  BY <1>4, <1>a
     DEF IInv, TypeOK, AskedOnlyWhenValid, FinishedOnlyValid, ReadyInv, Leave
<1>. QED  BY <1>1, <1>2, <1>3, <1>4 DEF Move

LEMMA AnswerInv ==
    ASSUME IInv, NEW result \in Results, NEW r \in YesNo, Answer(result, r)
    PROVE  IInv'
<1>. USE NumFieldsAssumption
<1>a. /\ at = QueueField /\ end = "editing" /\ valid = Fields
      /\ answer' = r
      /\ ready' = r
      /\ UNCHANGED <<errorsOnly, wasReady, valid, restarted>>
  BY DEF Answer, IInv, TypeOK, AskedOnlyWhenValid, Move, MoveToNext, MoveToPrevious
<1>1. Later(valid) = {}
  BY <1>a DEF Later
<1>2. \/ Leave("finished")
      \/ Leave("left")
      \/ \E f \in Earlier(valid) : GoTo(f)
  BY <1>a, <1>1 DEF Answer, Move, MoveToNext, MoveToPrevious, GoToFirst, GoToLast
<1>3. CASE \E f \in Earlier(valid) : GoTo(f)
  BY <1>3, <1>a
     DEF IInv, TypeOK, AskedOnlyWhenValid, FinishedOnlyValid, ReadyInv, GoTo, Earlier
<1>4. CASE Leave("finished") \/ Leave("left")
  BY <1>4, <1>a
     DEF IInv, TypeOK, AskedOnlyWhenValid, FinishedOnlyValid, ReadyInv, Leave
<1>. QED  BY <1>2, <1>3, <1>4

LEMMA AbortInv == IInv /\ Abort => IInv'
BY NumFieldsAssumption
   DEF IInv, TypeOK, AskedOnlyWhenValid, FinishedOnlyValid, ReadyInv, Abort, Leave

THEOREM Invariance == Spec => []IInv
<1>1. IInv /\ [Next]_vars => IInv'
  <2>. SUFFICES ASSUME IInv, [Next]_vars PROVE IInv'
    OBVIOUS
  <2>1. CASE UNCHANGED vars
    BY <2>1 DEF IInv, TypeOK, AskedOnlyWhenValid, FinishedOnlyValid, ReadyInv
  <2>. QED  BY <2>1, RejectInv, AcceptInv, AnswerInv, AbortInv DEF Next
<1>. QED  BY InitInv, <1>1, PTL DEF Spec

\* The variables of the form stay in their types, and the form is on a field
\* exactly while it is being edited.
THEOREM TypeCorrect == Spec => []TypeOK
BY Invariance, PTL DEF IInv

\* The question at the end is asked only of a message that is valid, and that was
\* not in the queue (edit.go:272-283).
THEOREM AskedWhenValid == Spec => []AskedOnlyWhenValid
BY Invariance, PTL DEF IInv

\* The default of the question (edit.go:282) never puts a message into the queue
\* on its own.
THEOREM QueuedByAnswer == Spec => []QueuedOnlyWhenAnswered
<1>1. IInv => QueuedOnlyWhenAnswered
  BY NumFieldsAssumption DEF IInv, TypeOK, ReadyInv, QueuedOnlyWhenAnswered
<1>. QED  BY Invariance, <1>1, PTL

\* A form that is left past its last field leaves no invalid message in the queue.
THEOREM ValidWhenFinished == Spec => []FinishedOnlyValid
BY Invariance, PTL DEF IInv

=============================================================================
