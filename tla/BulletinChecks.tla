---------------------------- MODULE BulletinChecks ----------------------------
(***************************************************************************)
(* What the schedule of bulletin checks promises, whatever the intervals   *)
(* and the clock: an area has no schedule, is to be checked once, or is    *)
(* checked at intervals with a check due or not; it is checked only when   *)
(* that is called for; a connection changes its schedule by checking it    *)
(* and the user changes it between connections; what is in packet.conf is  *)
(* what was in memory when it was last saved, or nothing if that went      *)
(* wrong.  Connection (which has this schedule for its own) and Schedule   *)
(* (which has the clock, the intervals and the command line) both          *)
(* implement it.                                                           *)
(***************************************************************************)
CONSTANTS
    Areas,
    Brought     \* the schedules a program may bring along from another incident

VARIABLES
    mem,        \* config.C.Bulletins
    disk,       \* packet.conf
    online      \* a connection is being made or is open

vars == <<mem, disk, online>>

\* none; checked once (Frequency = 0); at intervals, a check due or not.
Kind == {"off", "once", "due", "fresh"}

Schedules == [Areas -> Kind]

\* What is read from a packet.conf that was emptied, or cut short.
Off == [a \in Areas |-> "off"]

\* What the bulletins command may make of a schedule: a new area is checked at
\* the next connection, and a check at an interval never becomes a single one.
Changes ==
    {<<k, k>> : k \in Kind} \cup {<<k, "off">> : k \in Kind}
        \cup {<<k, "due">> : k \in Kind}
        \cup {<<"off", "once">>, <<"due", "fresh">>}

Init ==
    /\ mem = Off
    /\ disk \in Schedules
    /\ online = FALSE

\* readConfig; and what is in memory is gone when the program ends.
Start == ~online /\ mem' = disk /\ UNCHANGED <<disk, online>>

\* cd, which reads nothing.
Enter == ~online /\ mem' \in Brought /\ UNCHANGED <<disk, online>>

Stop == mem' = Off /\ online' = FALSE /\ UNCHANGED disk

\* The write of packet.conf may fail, before or after it was emptied; nobody is
\* told.
Reschedule ==
    /\ ~online
    /\ mem' \in Schedules
    /\ \A a \in Areas : <<mem[a], mem'[a]>> \in Changes
    /\ disk' \in {disk, mem', Off}
    /\ UNCHANGED online

Connect == ~online /\ online' = TRUE /\ UNCHANGED <<mem, disk>>

Check(a) ==
    /\ online
    /\ mem[a] \in {"once", "due"}
    /\ mem' = [mem EXCEPT ![a] = IF @ = "once" THEN "off" ELSE "fresh"]
    /\ UNCHANGED <<disk, online>>

Disconnect == online /\ online' = FALSE /\ mem' = mem /\ disk' \in {disk, mem, Off}

Save == ~online /\ disk' \in {mem, Off} /\ UNCHANGED <<mem, online>>

Later(k) == IF k = "fresh" THEN {"fresh", "due"} ELSE {k}

\* Time passes.
Elapse ==
    /\ mem' \in Schedules /\ \A a \in Areas : mem'[a] \in Later(mem[a])
    /\ disk' \in Schedules /\ \A a \in Areas : disk'[a] \in Later(disk[a])
    /\ UNCHANGED online

Next ==
    \/ Start \/ Enter \/ Stop \/ Reschedule \/ Save
    \/ Connect \/ Disconnect \/ Elapse
    \/ \E a \in Areas : Check(a)

Spec == Init /\ [][Next]_vars

=============================================================================
