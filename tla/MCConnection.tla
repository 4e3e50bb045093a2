---------------------------- MODULE MCConnection ----------------------------
(* Instances of Connection for TLC: two outgoing messages, the second of   *)
(* them immediate; mail of each kind; one bulletin area.                   *)
EXTENDS Connection

MCOut == {1, 2}
MCImmediateOut == {2}
MCAreas == {"XSCEVENT"}

\* Safety: a delivery receipt, an immediate message, and a bulletin.
MCMail == 1 .. 3
MCAreaOf == <<"inbox", "inbox", "XSCEVENT">>
MCSubject == <<"p", "i", "b">>
MCOwed == {2}
MCSilent == {1}
MCImmediateMail == {2}

\* Liveness: an immediate message that calls for a receipt, and a bulletin.
MCLiveMail == {1, 2}
MCLiveAreaOf == <<"inbox", "XSCEVENT">>
MCLiveSubject == <<"i", "b">>

\* What a program brings from another incident: a flag on what has the ID of the
\* immediate message there, and a schedule.
MCElsewhere ==
    {[unread |-> {<<2, 1>>}, sched |-> [a \in MCAreas |-> "once"]]}

=============================================================================
