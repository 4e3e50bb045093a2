------------------------------- MODULE Schedule -------------------------------
(***************************************************************************)
(* The schedule of bulletin checks: the bulletins command                  *)
(* (src/cmd/bulletins.go), the choice of the areas that a connection       *)
(* checks and the times it notes (src/cmd/connect.go), and the packet.conf *)
(* they are kept in.  Time is a clock in units that divide every interval; *)
(* Connection has what happens inside a session.                           *)
(***************************************************************************)
EXTENDS Naturals

CONSTANTS
    Areas,
    Intervals,      \* those that are given with --frequency
    Hour,           \* the one that is taken when none is given
    MaxTime,        \* bound on the clock
    MaxFaults       \* bound on failed saves

ASSUME IntervalAssumption == Hour \in Intervals /\ Intervals \subseteq Nat \ {0}
ASSUME BoundAssumption == MaxTime \in Nat /\ MaxFaults \in Nat

VARIABLES
    clock,
    sched,          \* config.C.Bulletins
    saved,          \* packet.conf: Bulletins
    pc,
    todo,           \* the areas that the connection still has to check
    faults,
    \* History
    asked,          \* the areas that may be checked at any time
    checkedAt,      \* when each area was last checked
    begun           \* when the connection was begun, if it is to check bulletins

config == <<sched, saved, faults>>
vars   == <<clock, config, pc, todo, asked, checkedAt, begun>>

-----------------------------------------------------------------------------

\* LastCheck.IsZero()
Never == 0

\* Frequency 0 is "one time".
Bulletin == [freq : Intervals \cup {0}, last : Nat]

IsSchedule(s) == DOMAIN s \subseteq Areas /\ s \in [DOMAIN s -> Bulletin]

\* Mutant: an area is due before its interval has passed.
DueEarly(b) == b.last = Never \/ b.last + b.freq <= clock + 1

\* time.Since(bc.LastCheck) >= bc.Frequency, the time of no check being long ago.
IsDue(b) == b.last = Never \/ b.last + b.freq <= clock

TypeOK ==
    /\ clock \in Nat \ {0}
    /\ IsSchedule(sched)
    /\ IsSchedule(saved)
    /\ pc \in {"down", "shell", "connect"}
    /\ todo \subseteq DOMAIN sched
    /\ pc # "connect" => todo = {}
    /\ faults \in Nat
    /\ asked \subseteq Areas
    /\ checkedAt \in [Areas -> Nat]
    /\ begun \in Nat

Init ==
    /\ clock = 1
    /\ sched = <<>> /\ saved = <<>>
    /\ pc = "down" /\ todo = {}
    /\ faults = 0
    /\ asked = {}
    /\ checkedAt = [a \in Areas |-> 0]
    /\ begun = 0

\* What the program knows when it stops and the file does not is asked for again.
Unsaved == {a \in DOMAIN saved : a \in DOMAIN sched => sched[a] # saved[a]}

Start ==
    /\ pc = "down"
    /\ pc' = "shell"
    /\ sched' = saved
    /\ UNCHANGED <<clock, saved, todo, faults, asked, checkedAt, begun>>

Stop ==
    /\ pc # "down"
    /\ pc' = "down"
    /\ sched' = <<>>
    /\ todo' = {}
    /\ asked' = asked \cup Unsaved
    /\ UNCHANGED <<clock, saved, faults, checkedAt, begun>>

\* An error of the write is printed and otherwise ignored.  os.WriteFile empties
\* the file first: what a failed write leaves is not read back.
SaveConfig ==
    \/ saved' = sched' /\ UNCHANGED faults
    \/ faults < MaxFaults /\ faults' = faults + 1 /\ saved' \in {saved, <<>>}

\* The flags exclude each other.  --frequency has a default and is in force with
\* --now and --stop too.
Requests ==
    [freq : Intervals, now : {FALSE}, stop : {FALSE}]
        \cup {[freq |-> Hour, now |-> TRUE, stop |-> FALSE],
              [freq |-> Hour, now |-> FALSE, stop |-> TRUE]}

Updated(b, r) == [freq |-> r.freq, last |-> IF r.now THEN Never ELSE b.last]

New(r) == [freq |-> IF r.now THEN 0 ELSE r.freq, last |-> Never]

After(S, r) ==
    [a \in IF r.stop THEN DOMAIN sched \ S ELSE DOMAIN sched \cup S |->
        IF a \notin S THEN sched[a]
        ELSE IF a \in DOMAIN sched THEN Updated(sched[a], r) ELSE New(r)]

\* bulletins [flag] [areas]; no areas are all that are scheduled.
Bulletins(S, r) ==
    /\ pc = "shell"
    /\ LET T == IF S = {} THEN DOMAIN sched ELSE S
       IN  /\ sched' = After(T, r)
           /\ asked' = IF r.stop THEN asked \ T ELSE asked \cup T
    /\ IF sched' # sched THEN SaveConfig ELSE UNCHANGED <<saved, faults>>
    /\ UNCHANGED <<clock, pc, todo, checkedAt, begun>>

\* Every other command that saves the configuration.
OtherSave ==
    /\ pc = "shell"
    /\ UNCHANGED sched
    /\ SaveConfig
    /\ UNCHANGED <<clock, pc, todo, asked, checkedAt, begun>>

\* cmdConnect: bulletins are checked when everything is received.
Connect(rcvlevel) ==
    /\ pc = "shell"
    /\ pc' = "connect"
    /\ todo' = IF rcvlevel = 1 THEN {a \in DOMAIN sched : IsDue(sched[a])} ELSE {}
    /\ begun' = IF rcvlevel = 1 THEN clock ELSE 0
    /\ UNCHANGED <<clock, config, asked, checkedAt>>

\* Mutant: an area that was to be checked once keeps its place.
CheckKeepsOnce(a) ==
    /\ pc = "connect"
    /\ a \in todo
    /\ sched' = [sched EXCEPT ![a].last = clock]
    /\ todo' = todo \ {a}
    /\ checkedAt' = [checkedAt EXCEPT ![a] = clock]
    /\ asked' = asked \ {a}
    /\ UNCHANGED <<clock, saved, pc, faults, begun>>

\* The end of receiveBulletins for one area.
Check(a) ==
    /\ pc = "connect"
    /\ a \in todo
    /\ sched' = IF sched[a].freq = 0
                THEN [b \in DOMAIN sched \ {a} |-> sched[b]]
                ELSE [sched EXCEPT ![a].last = clock]
    /\ todo' = todo \ {a}
    /\ checkedAt' = [checkedAt EXCEPT ![a] = clock]
    /\ asked' = asked \ {a}
    /\ UNCHANGED <<clock, saved, pc, faults, begun>>

\* Mutant: an area that cannot be checked is passed over.
DisconnectEarly ==
    /\ pc = "connect"
    /\ pc' = "shell"
    /\ todo' = {}
    /\ UNCHANGED sched
    /\ SaveConfig
    /\ UNCHANGED <<clock, asked, checkedAt, begun>>

Disconnect ==
    /\ pc = "connect"
    /\ todo = {}
    /\ pc' = "shell"
    /\ UNCHANGED <<sched, todo>>
    /\ SaveConfig
    /\ UNCHANGED <<clock, asked, checkedAt, begun>>

\* An error or Ctrl-C: the checks that were made are in memory only.
Fail ==
    /\ pc = "connect"
    /\ pc' = "shell"
    /\ todo' = {}
    /\ begun' = 0
    /\ UNCHANGED <<clock, config, asked, checkedAt>>

Tick ==
    /\ clock < MaxTime
    /\ clock' = clock + 1
    /\ UNCHANGED <<config, pc, todo, asked, checkedAt, begun>>

Next ==
    \/ Start \/ Stop \/ OtherSave \/ Disconnect \/ Fail \/ Tick
    \/ \E S \in SUBSET Areas, r \in Requests : Bulletins(S, r)
    \/ \E l \in 0 .. 2 : Connect(l)
    \/ \E a \in Areas : Check(a)

Spec == Init /\ [][Next]_vars

-----------------------------------------------------------------------------
(* Properties.                                                             *)

KindOf(s, a) ==
    IF a \notin DOMAIN s THEN "off"
    ELSE IF s[a].freq = 0 THEN "once"
    ELSE IF IsDue(s[a]) THEN "due" ELSE "fresh"

Checks == INSTANCE BulletinChecks WITH
    mem <- [a \in Areas |-> KindOf(sched, a)],
    disk <- [a \in Areas |-> KindOf(saved, a)],
    Brought <- {},
    online <- pc = "connect"

\* The command, the clock and the connection do to an area's schedule only what
\* Connection takes them to do.
ImplementsChecks == Checks!Spec

\* No area is checked before its interval has passed since the last check, by
\* whatever sequence of commands, failed connections and restarts, unless the
\* user gave it a schedule since, or the program stopped before it had saved
\* that check.  (An area that is checked once has no interval that passes.)
NotTooOften ==
    [][\A a \in todo' \ todo :
         \/ a \in asked
         \/ sched[a].freq > 0 /\ checkedAt[a] + sched[a].freq <= clock]_vars

\* A connection that receives everything and succeeds leaves no area that was
\* due when it began: each was checked since, and those to be checked once are
\* off the schedule.
NothingLeftDue ==
    [][pc = "connect" /\ pc' = "shell" /\ begun' > 0 =>
         \A a \in DOMAIN sched' :
            LET b == sched'[a]
            IN  /\ b.freq > 0
                /\ b.last # Never
                /\ b.last >= begun \/ b.last + b.freq > begun]_vars

\* bulletins.go:26: with --now, "their existing schedules will resume unchanged
\* after that".  This does not hold: --frequency has its default of an hour
\* there too, so that --now gives every area that is scheduled an hourly check.
NowKeepsInterval ==
    [][\A a \in DOMAIN sched \cap DOMAIN sched' :
         sched[a].last > 0 /\ sched'[a].last = Never => sched'[a].freq = sched[a].freq]_vars

=============================================================================
