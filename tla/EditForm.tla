------------------------------ MODULE EditForm -------------------------------
(***************************************************************************)
(* The form in which a message is edited: doEdit (src/cmd/edit.go) moves   *)
(* from field to field and, at the end, asks whether to queue the message; *)
(* editField (src/cio/editfield.go) presents one field until its value is  *)
(* accepted.  Of a value the form looks only at whether the field is       *)
(* valid.  A value can also make other fields valid or invalid: a field    *)
(* may be required only if another one is filled in.                       *)
(***************************************************************************)
EXTENDS Naturals

CONSTANTS
    NumFields,      \* the fields of the message; the first is To
    Skipped         \* the fields that are passed over (EditSkip)

ASSUME NumFieldsAssumption == NumFields \in Nat \ {0}
ASSUME SkippedAssumption == Skipped \subseteq 2 .. NumFields

VARIABLES
    errorsOnly,     \* the --errors flag
    wasReady,       \* ready when the form was opened
    at,             \* the field being edited, 0 when there is none
    valid,          \* the fields of the message that are valid
    ready,          \* env.ReadyToSend: "yes" or "no"
    restarted,      \* the user has seen the error in this field
    answer,         \* the last answer to "Queue for Sending?"
    end             \* how the form was left

vars == <<errorsOnly, wasReady, at, valid, ready, restarted, answer, end>>

-----------------------------------------------------------------------------

Fields == 1 .. NumFields

\* "Queue for Sending?" comes after the fields of the message.
QueueField == NumFields + 1

Results == {"next", "previous", "done"}

YesNo == {"yes", "no"}

TypeOK ==
    /\ errorsOnly \in BOOLEAN
    /\ wasReady \in YesNo
    /\ at \in 0 .. QueueField
    /\ valid \in SUBSET Fields
    /\ ready \in YesNo
    /\ restarted \in YesNo
    /\ answer \in YesNo \cup {"none"}
    /\ end \in {"editing", "finished", "left", "aborted"}
    /\ at = 0 <=> end # "editing"

\* The form opens on the first field, or on one that was named.
Init ==
    /\ errorsOnly \in BOOLEAN
    /\ wasReady \in YesNo
    /\ at \in Fields
    /\ valid \in SUBSET Fields
    /\ ready = wasReady
    /\ restarted = "no"
    /\ answer = "none"
    /\ end = "editing"

-----------------------------------------------------------------------------
(* EditSkip of the queue field, with what it does to ready.                *)

\* Mutant: the user is asked about an invalid message as well.
AsksAnyway(v, r) == r = "no"

Asks(v, r) == v = Fields /\ r = "no"

\* Mutant: an invalid message stays in the queue.
StaysQueued(v, r) == r

\* What it leaves in ready when the user is not asked.
ReadyIfNotAsked(v, r) == IF v = Fields THEN r ELSE "no"

-----------------------------------------------------------------------------
(* Moving on.                                                              *)

\* Mutant: with --errors, the form stops at the fields that have errors, and
\* at the queue field if that has one: the obvious repair of Stops.
StopsAtErrors(f, v) ==
    /\ f \notin Skipped
    /\ errorsOnly => f \in Fields \ v

\* A field is edited.  (The condition on errors is the one in the code; the
\* queue field has no errors.)
Stops(f, v) ==
    /\ f \notin Skipped
    /\ errorsOnly => f = QueueField \/ f \in v

Later(v) == {f \in Fields : f > at /\ Stops(f, v)}
Earlier(v) == {f \in Fields : f < at /\ Stops(f, v)}

GoTo(f) == at' = f /\ end' = "editing"
Leave(how) == at' = 0 /\ end' = how

GoToFirst(S) == \E f \in S : (\A g \in S : f <= g) /\ GoTo(f)
GoToLast(S) == \E f \in S : (\A g \in S : f >= g) /\ GoTo(f)

\* The field after the last one of the message is the queue field.
ToQueueField(v, r) ==
    IF Asks(v, r)
    THEN /\ IF Stops(QueueField, v) THEN GoTo(QueueField) ELSE Leave("finished")
         /\ ready' = "yes"
    ELSE /\ Leave("finished")
         /\ ready' = ReadyIfNotAsked(v, r)

MoveToNext(v, r) ==
    \/ GoToFirst(Later(v)) /\ ready' = r
    \/ Later(v) = {} /\ at # QueueField /\ ToQueueField(v, r)
    \/ at = QueueField /\ Leave("finished") /\ ready' = r

MoveToPrevious(v, r) ==
    /\ ready' = r
    /\ IF Earlier(v) # {} THEN GoToLast(Earlier(v)) ELSE Leave("left")

Move(result, v, r) ==
    \/ result = "next" /\ MoveToNext(v, r)
    \/ result = "previous" /\ MoveToPrevious(v, r)
    \/ result = "done" /\ Leave("left") /\ ready' = r

-----------------------------------------------------------------------------
(* Editing a field.                                                        *)

\* Mutant: an error that was seen is shown again.
InvalidAlways(result, changed, v) == at \notin v /\ result # "previous"

\* The value was invalid and the user has not confirmed it: once more.
Invalid(result, changed, v) == at \notin v /\ result # "previous" /\ (changed \/ restarted = "no")

\* The fields that are valid after the user has changed the value, or has not.
Entered(changed, v) == changed \/ v = valid

Reject(result, changed, v) ==
    /\ at \in Fields
    /\ Entered(changed, v)
    /\ Invalid(result, changed, v)
    /\ valid' = v
    /\ restarted' = "yes"
    /\ UNCHANGED <<errorsOnly, wasReady, at, ready, answer, end>>

Accept(result, changed, v) ==
    /\ at \in Fields
    /\ Entered(changed, v)
    /\ ~Invalid(result, changed, v)
    /\ valid' = v
    /\ restarted' = "no"
    /\ Move(result, v, ready)
    /\ UNCHANGED <<errorsOnly, wasReady, answer>>

\* The queue field: the answer goes to ready.
Answer(result, r) ==
    /\ at = QueueField
    /\ answer' = r
    /\ Move(result, valid, r)
    /\ UNCHANGED <<errorsOnly, wasReady, valid, restarted>>

\* Ctrl-C.
Abort ==
    /\ at # 0
    /\ Leave("aborted")
    /\ UNCHANGED <<errorsOnly, wasReady, valid, ready, restarted, answer>>

Next ==
    \/ \E result \in Results, changed \in BOOLEAN, v \in SUBSET Fields :
         Reject(result, changed, v) \/ Accept(result, changed, v)
    \/ \E result \in Results, r \in YesNo : Answer(result, r)
    \/ Abort

Spec == Init /\ [][Next]_vars

-----------------------------------------------------------------------------
(* Properties.                                                             *)

\* edit.go:55: "if the message is fully valid and not already queued to be sent,
\* the editor will ask whether to queue it" - and only then.
AskedOnlyWhenValid == at = QueueField => valid = Fields /\ (answer = "none" => wasReady = "no")

\* ready becomes true before the question is asked, as its default; all the same
\* a message is put into the queue only if the user has said so.
QueuedOnlyWhenAnswered ==
    end \in {"finished", "left"} /\ ready = "yes" => "yes" \in {wasReady, answer}

\* A message that is in the queue after the last field is valid.
FinishedOnlyValid == end = "finished" /\ ready = "yes" => valid = Fields

\* A user who in the end only presses Tab gets to the end of the form, whatever
\* errors there are: each is shown once.
PressTab ==
    \/ Reject("next", FALSE, valid)
    \/ Accept("next", FALSE, valid)
    \/ Answer("next", ready)

FormEnds == <>[][PressTab]_vars /\ WF_vars(PressTab) => <>(at = 0)

-----------------------------------------------------------------------------
(* What the documentation says, and the code does not keep to.             *)

\* edit.go:21: "edit only fields that have errors".  So moving on leads to a
\* field that has one, or to the question at the end.
OnlyErrorsEdited ==
    [][errorsOnly /\ at' \in Fields \ {at} => at' \notin valid']_vars

\* edit.go:55: "If the message is already queued but is not valid, it will be
\* removed from the queue."  It is not when the form is left by ESC, or by
\* Shift-Tab from its first field.
InvalidNotQueued == end \in {"finished", "left"} /\ ready = "yes" => valid = Fields

=============================================================================
