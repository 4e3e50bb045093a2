---------------------------- MODULE ScheduleProofs ----------------------------
(***************************************************************************)
(* Proofs about the schedule of bulletin checks, for all areas, intervals  *)
(* and bounds.  The inductive invariant has, beside the types: an area     *)
(* that is to be checked once was never checked; what a connection still   *)
(* has to check is due; what it has to check no more is not; and the times *)
(* in memory, and while no program runs those on disk, are the times of    *)
(* the last checks, except where the user gave a schedule since.           *)
(***************************************************************************)
EXTENDS Schedule, TLAPS

OnceUnchecked(s) == \A a \in DOMAIN s : s[a].freq = 0 => s[a].last = Never

TodoDue == \A a \in todo : IsDue(sched[a])

Kept(b) == b.freq > 0 /\ b.last # Never /\ (b.last >= begun \/ b.last + b.freq > begun)

OthersKept ==
    pc = "connect" /\ begun > 0 =>
        begun <= clock /\ \A a \in DOMAIN sched \ todo : Kept(sched[a])

TrueTimes(s) ==
    \A a \in DOMAIN s \ asked :
        s[a].freq > 0 /\ s[a].last # Never /\ s[a].last = checkedAt[a]

IInv ==
    /\ TypeOK
    /\ OnceUnchecked(sched) /\ OnceUnchecked(saved)
    /\ TodoDue
    /\ OthersKept
    /\ TrueTimes(sched)
    /\ pc = "down" => TrueTimes(saved)

USE DEF Never

LEMMA BulletinNat == \A b \in Bulletin : b.freq \in Nat /\ b.last \in Nat
<1>1. Intervals \cup {0} \subseteq Nat
  BY IntervalAssumption
<1> QED BY <1>1 DEF Bulletin

\* What is asked for has an interval, and is not --now and --stop at once.
LEMMA RequestTyped ==
    ASSUME NEW r \in Requests
    PROVE  /\ r.freq \in Intervals /\ r.freq > 0 /\ r.freq \in Nat
           /\ r.now \in BOOLEAN /\ r.stop \in BOOLEAN
           /\ ~(r.now /\ r.stop)
<1>1. Hour \in Intervals /\ \A i \in Intervals : i \in Nat /\ i > 0
  BY IntervalAssumption
<1>2. CASE r \in [freq : Intervals, now : {FALSE}, stop : {FALSE}]
  BY <1>1, <1>2
<1>3. CASE r = [freq |-> Hour, now |-> TRUE, stop |-> FALSE]
  BY <1>1, <1>3
<1>4. CASE r = [freq |-> Hour, now |-> FALSE, stop |-> TRUE]
  BY <1>1, <1>4
<1> QED BY <1>2, <1>3, <1>4 DEF Requests

\* A schedule that the command gives keeps the form of schedules.
LEMMA AfterTyped ==
    ASSUME IsSchedule(sched), OnceUnchecked(sched),
           NEW S \in SUBSET Areas, NEW r \in Requests
    PROVE  /\ IsSchedule(After(S, r))
           /\ OnceUnchecked(After(S, r))
           /\ DOMAIN After(S, r) = IF r.stop THEN DOMAIN sched \ S ELSE DOMAIN sched \cup S
           /\ \A a \in DOMAIN After(S, r) :
                After(S, r)[a] = IF a \notin S THEN sched[a]
                                 ELSE IF a \in DOMAIN sched THEN Updated(sched[a], r)
                                 ELSE New(r)
<1> DEFINE D == IF r.stop THEN DOMAIN sched \ S ELSE DOMAIN sched \cup S
<1>1. /\ r.freq \in Intervals /\ r.freq > 0 /\ r.freq \in Nat
      /\ r.now \in BOOLEAN /\ r.stop \in BOOLEAN
  BY RequestTyped
<1>2. DOMAIN After(S, r) = D
  BY DEF After
<1>3. \A a \in D : After(S, r)[a] = IF a \notin S THEN sched[a]
                                    ELSE IF a \in DOMAIN sched THEN Updated(sched[a], r)
                                    ELSE New(r)
  BY DEF After
<1>4. D \subseteq Areas
  BY DEF IsSchedule
<1>5. ASSUME NEW a \in D
      PROVE  After(S, r)[a] \in Bulletin /\ (After(S, r)[a].freq = 0 => After(S, r)[a].last = 0)
  <2>1. CASE a \notin S
    BY <2>1, <1>3, <1>5 DEF IsSchedule, OnceUnchecked
  <2>2. CASE a \in S /\ a \in DOMAIN sched
    <3>1. sched[a] \in Bulletin
      BY <2>2 DEF IsSchedule
    <3>2. Updated(sched[a], r) \in Bulletin /\ Updated(sched[a], r).freq = r.freq
      BY <3>1, <1>1 DEF Updated, Bulletin
    <3> QED BY <2>2, <3>2, <1>3, <1>5, <1>1
  <2>3. CASE a \in S /\ a \notin DOMAIN sched
    <3>1. New(r) \in Bulletin /\ New(r).last = 0
      BY <1>1 DEF New, Bulletin
    <3> QED BY <2>3, <3>1, <1>3, <1>5
  <2> QED BY <2>1, <2>2, <2>3
<1>6. After(S, r) \in [D -> Bulletin]
  BY <1>5 DEF After
<1> QED BY <1>2, <1>3, <1>4, <1>5, <1>6 DEF IsSchedule, OnceUnchecked

LEMMA InitIInv == Init => IInv
BY DEF Init, IInv, TypeOK, IsSchedule, OnceUnchecked, TodoDue, OthersKept, TrueTimes, Bulletin

\* The parts of the invariant that a change of nothing but the clock, the fault
\* counter and the files can disturb.
LEMMA SaveTyped ==
    ASSUME TypeOK, IsSchedule(sched'), SaveConfig,
           OnceUnchecked(saved), OnceUnchecked(sched')
    PROVE  IsSchedule(saved') /\ faults' \in Nat /\ OnceUnchecked(saved')
<1>1. faults' \in Nat
  BY DEF TypeOK, SaveConfig
<1>2. IsSchedule(<<>>) /\ OnceUnchecked(<<>>)
  BY DEF IsSchedule, OnceUnchecked
<1>3. saved' \in {sched', saved, <<>>}
  BY DEF SaveConfig
<1> QED BY <1>1, <1>2, <1>3 DEF TypeOK

LEMMA StartStep == IInv /\ Start => IInv'
<1> SUFFICES ASSUME IInv, Start PROVE IInv'
  OBVIOUS
<1> USE DEF IInv, Start
<1>1. TypeOK'
  BY DEF TypeOK, IsSchedule
<1>2. OnceUnchecked(sched)' /\ OnceUnchecked(saved)'
  BY DEF OnceUnchecked
<1>3. TodoDue'
  BY DEF TypeOK, TodoDue
<1>4. OthersKept'
  BY DEF OthersKept
<1>5. TrueTimes(sched)' /\ (pc = "down" => TrueTimes(saved))'
  BY DEF TrueTimes
<1> QED BY <1>1, <1>2, <1>3, <1>4, <1>5

LEMMA StopStep == IInv /\ Stop => IInv'
<1> SUFFICES ASSUME IInv, Stop PROVE IInv'
  OBVIOUS
<1> USE DEF IInv, Stop
<1>1. TypeOK'
  <2>1. IsSchedule(sched')
    BY DEF IsSchedule
  <2>2. asked' \subseteq Areas
    BY DEF TypeOK, IsSchedule, Unsaved
  <2> QED BY <2>1, <2>2 DEF TypeOK, IsSchedule
<1>2. OnceUnchecked(sched)' /\ OnceUnchecked(saved)'
  BY DEF OnceUnchecked
<1>3. TodoDue' /\ OthersKept' /\ TrueTimes(sched)'
  BY DEF TodoDue, OthersKept, TrueTimes
<1>4. TrueTimes(saved)'
  BY DEF TrueTimes, Unsaved
<1> QED BY <1>1, <1>2, <1>3, <1>4

LEMMA BulletinsStep ==
    ASSUME IInv, NEW S \in SUBSET Areas, NEW r \in Requests, Bulletins(S, r)
    PROVE  IInv'
<1> DEFINE T == IF S = {} THEN DOMAIN sched ELSE S
<1> USE DEF IInv, Bulletins
<1>1. T \in SUBSET Areas
  BY DEF TypeOK, IsSchedule
<1> HIDE DEF T
<1>2. /\ sched' = After(T, r)
      /\ asked' = IF r.stop THEN asked \ T ELSE asked \cup T
  BY DEF T
<1>3. /\ IsSchedule(sched') /\ OnceUnchecked(sched')
      /\ DOMAIN sched' = IF r.stop THEN DOMAIN sched \ T ELSE DOMAIN sched \cup T
      /\ \A a \in DOMAIN sched' : a \notin T => sched'[a] = sched[a]
  <2>1. IsSchedule(sched) /\ OnceUnchecked(sched)
    BY DEF TypeOK
  <2>2. /\ IsSchedule(After(T, r)) /\ OnceUnchecked(After(T, r))
        /\ DOMAIN After(T, r) = IF r.stop THEN DOMAIN sched \ T ELSE DOMAIN sched \cup T
        /\ \A a \in DOMAIN After(T, r) : a \notin T => After(T, r)[a] = sched[a]
    BY <1>1, <2>1, AfterTyped
  <2> QED BY <1>2, <2>2
<1>4. IsSchedule(saved') /\ faults' \in Nat /\ OnceUnchecked(saved')
  <2>1. CASE SaveConfig
    BY <2>1, <1>3, SaveTyped
  <2>2. CASE UNCHANGED <<saved, faults>>
    BY <2>2 DEF TypeOK, IsSchedule, OnceUnchecked
  <2> QED BY <2>1, <2>2
<1>5. pc' = "shell" /\ pc = "shell" /\ todo = {} /\ todo' = {}
  BY DEF TypeOK
<1>6. TypeOK'
  BY <1>1, <1>2, <1>3, <1>4, <1>5 DEF TypeOK, IsSchedule
<1>7. OnceUnchecked(sched)' /\ OnceUnchecked(saved)'
  BY <1>3, <1>4 DEF OnceUnchecked
<1>8. TodoDue' /\ OthersKept' /\ pc' # "down"
  BY <1>5 DEF TodoDue, OthersKept
<1>9. TrueTimes(sched)'
  <2> SUFFICES ASSUME NEW a \in DOMAIN sched', a \notin asked'
               PROVE  sched'[a].freq > 0 /\ sched'[a].last # 0
                        /\ sched'[a].last = checkedAt'[a]
    BY DEF TrueTimes
  <2>1. a \notin T /\ a \in DOMAIN sched /\ a \notin asked
    BY <1>2, <1>3
  <2> QED BY <2>1, <1>3 DEF TrueTimes
<1> QED BY <1>6, <1>7, <1>8, <1>9

LEMMA OtherSaveStep == IInv /\ OtherSave => IInv'
<1> SUFFICES ASSUME IInv, OtherSave PROVE IInv'
  OBVIOUS
<1> USE DEF IInv, OtherSave
<1>1. IsSchedule(sched') /\ OnceUnchecked(sched')
  BY DEF TypeOK, IsSchedule, OnceUnchecked
<1>2. IsSchedule(saved') /\ faults' \in Nat /\ OnceUnchecked(saved')
  BY <1>1, SaveTyped
<1>3. TypeOK'
  BY <1>1, <1>2 DEF TypeOK, IsSchedule
<1>4. OnceUnchecked(sched)' /\ OnceUnchecked(saved)'
  BY <1>1, <1>2 DEF OnceUnchecked
<1>5. TodoDue' /\ OthersKept' /\ TrueTimes(sched)'
  BY DEF TodoDue, OthersKept, TrueTimes, TypeOK, IsDue
<1> QED BY <1>3, <1>4, <1>5

LEMMA ConnectStep == ASSUME IInv, NEW l \in 0 .. 2, Connect(l) PROVE IInv'
<1> USE DEF IInv, Connect, config
<1>1. TypeOK'
  BY DEF TypeOK, IsSchedule
<1>2. OnceUnchecked(sched)' /\ OnceUnchecked(saved)'
  BY DEF OnceUnchecked
<1>3. TodoDue'
  BY DEF TodoDue, IsDue
<1>4. OthersKept'
  <2> SUFFICES ASSUME begun' > 0 PROVE begun' <= clock' /\ \A a \in DOMAIN sched \ todo' : Kept(sched[a])'
    BY DEF OthersKept
  <2>1. l = 1 /\ begun' = clock /\ todo' = {a \in DOMAIN sched : IsDue(sched[a])}
    BY DEF TypeOK
  <2>2. ASSUME NEW a \in DOMAIN sched, ~IsDue(sched[a])
        PROVE  sched[a].freq > 0 /\ sched[a].last # 0 /\ sched[a].last + sched[a].freq > clock
    <3>1. sched[a] \in Bulletin /\ clock \in Nat
      BY DEF TypeOK, IsSchedule
    <3>2. sched[a].last \in Nat /\ sched[a].freq \in Nat
      BY <3>1, BulletinNat
    <3> QED BY <2>2, <3>1, <3>2 DEF IsDue, OnceUnchecked
  <2> QED BY <2>1, <2>2 DEF Kept, TypeOK
<1>5. TrueTimes(sched)' /\ pc' # "down"
  BY DEF TrueTimes
<1> QED BY <1>1, <1>2, <1>3, <1>4, <1>5

LEMMA CheckStep == ASSUME IInv, NEW a \in Areas, Check(a) PROVE IInv'
<1> USE DEF IInv, Check
<1>1. /\ a \in DOMAIN sched /\ sched[a] \in Bulletin /\ sched \in [DOMAIN sched -> Bulletin]
      /\ clock \in Nat \ {0} /\ DOMAIN sched \subseteq Areas
  BY DEF TypeOK, IsSchedule
<1>2. CASE sched[a].freq = 0
  <2>1. sched' = [b \in DOMAIN sched \ {a} |-> sched[b]]
    BY <1>2
  <2>2. IsSchedule(sched') /\ \A b \in DOMAIN sched' : b \in DOMAIN sched \ {a} /\ sched'[b] = sched[b]
    BY <1>1, <2>1 DEF IsSchedule
  <2>3. TypeOK'
    BY <1>1, <2>1, <2>2 DEF TypeOK, IsSchedule
  <2>4. OnceUnchecked(sched)' /\ OnceUnchecked(saved)'
    BY <2>2 DEF OnceUnchecked
  <2>5. TodoDue'
    BY <2>1, <1>1 DEF TodoDue, IsDue, TypeOK
  <2>6. OthersKept'
    BY <2>2, <2>1 DEF OthersKept, Kept
  <2>7. TrueTimes(sched)' /\ pc' # "down"
    <3> SUFFICES ASSUME NEW b \in DOMAIN sched', b \notin asked'
                 PROVE  sched'[b].freq > 0 /\ sched'[b].last # 0
                          /\ sched'[b].last = checkedAt'[b]
      BY DEF TrueTimes
    <3>1. b # a /\ b \in DOMAIN sched /\ b \notin asked /\ sched'[b] = sched[b]
      BY <2>2
    <3>2. checkedAt'[b] = checkedAt[b]
      BY <3>1, <1>1 DEF TypeOK
    <3> QED BY <3>1, <3>2 DEF TrueTimes
  <2> QED BY <2>3, <2>4, <2>5, <2>6, <2>7
<1>3. CASE sched[a].freq # 0
  <2>1. sched' = [sched EXCEPT ![a].last = clock]
    BY <1>3
  <2>2. /\ DOMAIN sched' = DOMAIN sched
        /\ sched'[a].freq = sched[a].freq /\ sched'[a].last = clock
        /\ sched'[a] \in Bulletin
        /\ \A b \in DOMAIN sched : b # a => sched'[b] = sched[b]
    BY <1>1, <2>1 DEF Bulletin
  <2>3. IsSchedule(sched')
    BY <1>1, <2>1, <2>2 DEF IsSchedule
  <2>4. TypeOK'
    BY <1>1, <2>2, <2>3 DEF TypeOK, IsSchedule
  <2>5. OnceUnchecked(sched)' /\ OnceUnchecked(saved)'
    BY <1>3, <2>2 DEF OnceUnchecked
  <2>6. TodoDue'
    BY <2>2, <1>1 DEF TodoDue, IsDue, TypeOK, IsSchedule
  <2>7. sched[a].freq \in Nat /\ sched[a].freq > 0
    BY <1>1, <1>3, IntervalAssumption DEF Bulletin
  <2>8. OthersKept'
    <3> SUFFICES ASSUME begun > 0, NEW b \in DOMAIN sched \ todo' PROVE Kept(sched[b])'
      BY <2>2 DEF OthersKept
    <3>1. begun <= clock /\ begun \in Nat
      BY DEF OthersKept, TypeOK
    <3>2. CASE b = a
      BY <3>1, <3>2, <2>2, <2>7, <1>1 DEF Kept
    <3>3. CASE b # a
      BY <3>3, <2>2 DEF OthersKept, Kept
    <3> QED BY <3>2, <3>3
  <2>9. TrueTimes(sched)' /\ pc' # "down"
    <3> SUFFICES ASSUME NEW b \in DOMAIN sched', b \notin asked'
                 PROVE  sched'[b].freq > 0 /\ sched'[b].last # 0
                          /\ sched'[b].last = checkedAt'[b]
      BY DEF TrueTimes
    <3>1. CASE b = a
      BY <3>1, <1>1, <2>2, <2>7 DEF TypeOK
    <3>2. CASE b # a
      <4>1. checkedAt'[b] = checkedAt[b] /\ sched'[b] = sched[b]
        BY <3>2, <2>2, <1>1 DEF TypeOK
      <4> QED BY <3>2, <4>1, <2>2 DEF TrueTimes
    <3> QED BY <3>1, <3>2
  <2> QED BY <2>4, <2>5, <2>6, <2>8, <2>9
<1> QED BY <1>2, <1>3

LEMMA DisconnectStep == IInv /\ Disconnect => IInv'
<1> SUFFICES ASSUME IInv, Disconnect PROVE IInv'
  OBVIOUS
<1> USE DEF IInv, Disconnect
<1>1. IsSchedule(sched') /\ OnceUnchecked(sched')
  BY DEF TypeOK, IsSchedule, OnceUnchecked
<1>2. IsSchedule(saved') /\ faults' \in Nat /\ OnceUnchecked(saved')
  BY <1>1, SaveTyped
<1>3. TypeOK'
  BY <1>1, <1>2 DEF TypeOK, IsSchedule
<1>4. OnceUnchecked(sched)' /\ OnceUnchecked(saved)'
  BY <1>1, <1>2 DEF OnceUnchecked
<1>5. TodoDue' /\ OthersKept' /\ TrueTimes(sched)' /\ pc' # "down"
  BY DEF TodoDue, OthersKept, TrueTimes
<1> QED BY <1>3, <1>4, <1>5

LEMMA FailStep == IInv /\ Fail => IInv'
<1> SUFFICES ASSUME IInv, Fail PROVE IInv'
  OBVIOUS
<1> USE DEF IInv, Fail, config
<1>1. TypeOK'
  BY DEF TypeOK, IsSchedule
<1>2. OnceUnchecked(sched)' /\ OnceUnchecked(saved)'
  BY DEF OnceUnchecked
<1>3. TodoDue' /\ OthersKept' /\ TrueTimes(sched)' /\ pc' # "down"
  BY DEF TodoDue, OthersKept, TrueTimes
<1> QED BY <1>1, <1>2, <1>3

LEMMA TickStep == IInv /\ Tick => IInv'
<1> SUFFICES ASSUME IInv, Tick PROVE IInv'
  OBVIOUS
<1> USE DEF IInv, Tick, config
<1>1. clock \in Nat /\ clock' \in Nat \ {0} /\ clock' = clock + 1
  BY DEF TypeOK
<1>2. TypeOK'
  BY <1>1 DEF TypeOK, IsSchedule
<1>3. OnceUnchecked(sched)' /\ OnceUnchecked(saved)'
  BY DEF OnceUnchecked
<1>4. TodoDue'
  <2> SUFFICES ASSUME NEW a \in todo PROVE IsDue(sched[a])'
    BY DEF TodoDue
  <2>1. sched[a] \in Bulletin /\ IsDue(sched[a])
    BY DEF TypeOK, IsSchedule, TodoDue
  <2>2. sched[a].last \in Nat /\ sched[a].freq \in Nat
    BY <2>1, BulletinNat
  <2> QED BY <2>1, <2>2, <1>1 DEF IsDue
<1>5. OthersKept'
  BY <1>1 DEF OthersKept, Kept, TypeOK
<1>6. TrueTimes(sched)' /\ (pc' = "down" => TrueTimes(saved)')
  BY DEF TrueTimes
<1> QED BY <1>2, <1>3, <1>4, <1>5, <1>6

LEMMA Stutter == IInv /\ UNCHANGED vars => IInv'
BY DEF IInv, vars, config, TypeOK, IsSchedule, OnceUnchecked, TodoDue, IsDue, OthersKept, Kept,
       TrueTimes

\* The inductive invariant.
THEOREM Invariance == Spec => []IInv
<1>1. IInv /\ [Next]_vars => IInv'
  BY StartStep, StopStep, BulletinsStep, OtherSaveStep, ConnectStep, CheckStep,
     DisconnectStep, FailStep, TickStep, Stutter DEF Next
<1> QED BY InitIInv, <1>1, PTL DEF Spec

\* Types, for every set of areas, every set of intervals and every bound.
THEOREM TypeCorrect == Spec => []TypeOK
<1>1. IInv => TypeOK
  BY DEF IInv
<1> QED BY Invariance, <1>1, PTL

-----------------------------------------------------------------------------
(* Action properties.                                                      *)

NotTooOftenStep ==
    \A a \in todo' \ todo :
        \/ a \in asked
        \/ sched[a].freq > 0 /\ checkedAt[a] + sched[a].freq <= clock

NothingLeftDueStep ==
    pc = "connect" /\ pc' = "shell" /\ begun' > 0 =>
        \A a \in DOMAIN sched' :
            LET b == sched'[a]
            IN  /\ b.freq > 0
                /\ b.last # Never
                /\ b.last >= begun \/ b.last + b.freq > begun

\* Only a connection that begins has areas to check, and those are due.
LEMMA CheckedWhenDue == IInv /\ [Next]_vars => NotTooOftenStep
<1> SUFFICES ASSUME IInv, [Next]_vars, NEW a \in todo' \ todo, a \notin asked
             PROVE  sched[a].freq > 0 /\ checkedAt[a] + sched[a].freq <= clock
  BY DEF NotTooOftenStep
<1>1. PICK l \in 0 .. 2 : Connect(l)
  BY DEF Next, vars, Start, Stop, Bulletins, OtherSave, Check, Disconnect, Fail, Tick
<1>2. a \in DOMAIN sched /\ IsDue(sched[a])
  BY <1>1 DEF Connect
<1>3. sched[a].freq > 0 /\ sched[a].last # 0 /\ sched[a].last = checkedAt[a]
  BY <1>2 DEF IInv, TrueTimes
<1> QED BY <1>2, <1>3 DEF IsDue

\* A connection that succeeds has nothing left to check, and what it had not to
\* check was not due when it began.
LEMMA LeftNotDue == IInv /\ [Next]_vars => NothingLeftDueStep
<1> SUFFICES ASSUME IInv, [Next]_vars, pc = "connect", pc' = "shell", begun' > 0,
                    NEW a \in DOMAIN sched'
             PROVE  Kept(sched'[a])
  BY DEF NothingLeftDueStep, Kept
<1>1. Disconnect
  BY DEF Next, vars, Start, Stop, Bulletins, OtherSave, Connect, Check, Fail, Tick
<1> QED BY <1>1 DEF Disconnect, IInv, OthersKept

\* No area is checked before its interval has passed, unless that was asked for.
THEOREM IntervalsKept == Spec => NotTooOften
<1>1. IInv /\ [Next]_vars => [NotTooOftenStep]_vars
  BY CheckedWhenDue
<1>2. Spec => [][NotTooOftenStep]_vars
  BY Invariance, <1>1, PTL DEF Spec
<1> QED BY <1>2 DEF NotTooOften, NotTooOftenStep

\* A connection that succeeds leaves no area that was due when it began.
THEOREM DueAreasChecked == Spec => NothingLeftDue
<1>1. IInv /\ [Next]_vars => [NothingLeftDueStep]_vars
  BY LeftNotDue
<1>2. Spec => [][NothingLeftDueStep]_vars
  BY Invariance, <1>1, PTL DEF Spec
<1> QED BY <1>2 DEF NothingLeftDue, NothingLeftDueStep

-----------------------------------------------------------------------------
(* Schedule implements BulletinChecks.                                     *)

Mem == [a \in Areas |-> KindOf(sched, a)]

Disk == [a \in Areas |-> KindOf(saved, a)]

USE DEF Checks!Kind, Checks!Off

LEMMA KindTyped == Mem \in Checks!Schedules /\ Disk \in Checks!Schedules
BY DEF Mem, Disk, KindOf, Checks!Schedules

\* The kinds of a schedule do not depend on anything but it and the clock.
LEMMA SameKinds ==
    /\ sched' = sched /\ clock' = clock => Mem' = Mem
    /\ saved' = saved /\ clock' = clock => Disk' = Disk
    /\ saved' = sched' => Disk' = Mem'
BY DEF Mem, Disk, KindOf, IsDue

LEMMA SavedKinds ==
    SaveConfig /\ clock' = clock => Disk' \in {Disk, Mem', Checks!Off}
<1>1. saved' = <<>> => Disk' = Checks!Off
  BY DEF Disk, KindOf
<1> QED BY <1>1, SameKinds DEF SaveConfig

LEMMA BulletinsMap ==
    ASSUME IInv, NEW S \in SUBSET Areas, NEW r \in Requests, Bulletins(S, r)
    PROVE  Checks!Reschedule
<1> DEFINE T == IF S = {} THEN DOMAIN sched ELSE S
<1>1. T \in SUBSET Areas
  BY DEF IInv, TypeOK, IsSchedule
<1>2. sched' = After(T, r) /\ clock' = clock
  BY DEF Bulletins
<1> HIDE DEF T
<1>3. IsSchedule(sched) /\ OnceUnchecked(sched)
  BY DEF IInv, TypeOK
<1>4. /\ DOMAIN sched' = IF r.stop THEN DOMAIN sched \ T ELSE DOMAIN sched \cup T
      /\ \A a \in DOMAIN sched' :
           sched'[a] = IF a \notin T THEN sched[a]
                       ELSE IF a \in DOMAIN sched THEN Updated(sched[a], r) ELSE New(r)
  <2>1. /\ DOMAIN After(T, r) = IF r.stop THEN DOMAIN sched \ T ELSE DOMAIN sched \cup T
        /\ \A a \in DOMAIN After(T, r) :
             After(T, r)[a] = IF a \notin T THEN sched[a]
                              ELSE IF a \in DOMAIN sched THEN Updated(sched[a], r) ELSE New(r)
    BY <1>1, <1>3, AfterTyped
  <2> QED BY <2>1, <1>2
<1>5. ASSUME NEW a \in Areas
      PROVE  <<Mem[a], Mem'[a]>> \in Checks!Changes
  <2>1. Mem[a] = KindOf(sched, a) /\ Mem[a] \in Checks!Kind
    BY KindTyped DEF Mem, Checks!Schedules
  <2>2. Mem'[a] = KindOf(sched, a)'
    BY DEF Mem
  <2>3. CASE a \notin DOMAIN sched'
    BY <2>1, <2>2, <2>3 DEF KindOf, Checks!Changes
  <2>4. CASE a \in DOMAIN sched' /\ a \notin T
    <3>1. a \in DOMAIN sched /\ sched'[a] = sched[a]
      BY <2>4, <1>4
    <3>2. Mem'[a] = Mem[a]
      BY <3>1, <2>1, <2>2, <2>4, <1>2 DEF KindOf, IsDue
    <3> QED BY <3>2, <2>1 DEF Checks!Changes
  <2>5. CASE a \in DOMAIN sched' /\ a \in T /\ a \in DOMAIN sched
    <3> sched'[a] = Updated(sched[a], r)
      BY <2>5, <1>4
    <3>1. sched'[a].freq = r.freq /\ r.freq > 0
      BY RequestTyped DEF Updated
    <3>2. sched'[a].last = 0 \/ sched'[a].last = sched[a].last
      BY DEF Updated
    <3>3. Mem'[a] \in {"due", "fresh"}
      BY <3>1, <2>2, <2>5 DEF KindOf
    <3>4. sched[a].freq = 0 => Mem'[a] = "due"
      BY <3>1, <3>2, <2>2, <2>5, <1>3 DEF KindOf, IsDue, OnceUnchecked
    <3>5. Mem[a] = IF sched[a].freq = 0 THEN "once" ELSE IF IsDue(sched[a]) THEN "due" ELSE "fresh"
      BY <2>1, <2>5 DEF KindOf
    <3> QED BY <3>3, <3>4, <3>5 DEF Checks!Changes
  <2>6. CASE a \in DOMAIN sched' /\ a \in T /\ a \notin DOMAIN sched
    <3>1. sched'[a].last = 0
      BY <2>6, <1>4 DEF New
    <3>2. Mem'[a] \in {"once", "due"}
      BY <3>1, <2>2, <2>6 DEF KindOf, IsDue
    <3>3. Mem[a] = "off"
      BY <2>1, <2>6 DEF KindOf
    <3> QED BY <3>2, <3>3 DEF Checks!Changes
  <2> QED BY <2>3, <2>4, <2>5, <2>6
<1>6. Mem' \in Checks!Schedules
  BY DEF Mem, KindOf, Checks!Schedules
<1>7. Disk' \in {Disk, Mem', Checks!Off}
  BY <1>2, SavedKinds, SameKinds DEF Bulletins
<1>8. pc # "connect" /\ pc' = pc
  BY DEF Bulletins
<1> QED BY <1>5, <1>6, <1>7, <1>8 DEF Checks!Reschedule, Mem, Disk

LEMMA CheckMap == ASSUME IInv, NEW a \in Areas, Check(a) PROVE Checks!Check(a)
<1>1. /\ a \in DOMAIN sched /\ IsDue(sched[a]) /\ clock' = clock /\ clock \in Nat \ {0}
      /\ sched[a] \in Bulletin
  BY DEF IInv, TypeOK, TodoDue, Check, IsSchedule
<1>2. Mem[a] = IF sched[a].freq = 0 THEN "once" ELSE "due"
  BY <1>1 DEF Mem, KindOf
<1>3. \A b \in Areas : Mem'[b] = KindOf(sched, b)' /\ Mem[b] = KindOf(sched, b)
  BY DEF Mem
<1>4. ASSUME sched[a].freq = 0
      PROVE  /\ \A b \in Areas \ {a} : Mem'[b] = Mem[b]
             /\ Mem'[a] = IF Mem[a] = "once" THEN "off" ELSE "fresh"
  <2>1. /\ DOMAIN sched' = DOMAIN sched \ {a}
        /\ \A b \in DOMAIN sched \ {a} : sched'[b] = sched[b]
    BY <1>4 DEF Check
  <2>2. \A b \in Areas \ {a} : Mem'[b] = Mem[b]
    BY <2>1, <1>1, <1>3 DEF KindOf, IsDue
  <2>3. Mem'[a] = "off"
    BY <2>1, <1>3 DEF KindOf
  <2> QED BY <1>2, <1>4, <2>2, <2>3
<1>5. ASSUME sched[a].freq # 0
      PROVE  /\ \A b \in Areas \ {a} : Mem'[b] = Mem[b]
             /\ Mem'[a] = IF Mem[a] = "once" THEN "off" ELSE "fresh"
  <2>1. sched' = [sched EXCEPT ![a].last = clock]
    BY <1>5 DEF Check
  <2>2. /\ DOMAIN sched' = DOMAIN sched
        /\ sched'[a].freq = sched[a].freq /\ sched'[a].last = clock
        /\ \A b \in DOMAIN sched \ {a} : sched'[b] = sched[b]
    BY <1>1, <2>1 DEF Bulletin, IInv, TypeOK, IsSchedule
  <2>3. \A b \in Areas \ {a} : Mem'[b] = Mem[b]
    BY <2>2, <1>1, <1>3 DEF KindOf, IsDue
  <2>4. sched[a].freq \in Nat /\ ~IsDue(sched[a])'
    BY <1>1, <1>5, <2>2, BulletinNat DEF IsDue
  <2>5. Mem'[a] = "fresh"
    BY <2>2, <2>4, <1>1, <1>3, <1>5 DEF KindOf
  <2> QED BY <1>2, <1>5, <2>3, <2>5
<1>6. /\ \A b \in Areas \ {a} : Mem'[b] = Mem[b]
      /\ Mem'[a] = IF Mem[a] = "once" THEN "off" ELSE "fresh"
  BY <1>4, <1>5
<1>7. Mem' \in Checks!Schedules
  BY DEF Mem, KindOf, Checks!Schedules
<1>8. Mem' = [Mem EXCEPT ![a] = IF @ = "once" THEN "off" ELSE "fresh"]
  BY <1>6, <1>7, KindTyped DEF Checks!Schedules
<1>9. Disk' = Disk /\ pc = "connect" /\ pc' = pc /\ Mem[a] \in {"once", "due"}
  BY <1>1, <1>2, SameKinds DEF Check
<1> QED BY <1>8, <1>9 DEF Checks!Check, Mem, Disk

LEMMA TickMap == IInv /\ Tick => Checks!Elapse
<1> SUFFICES ASSUME IInv, Tick PROVE Checks!Elapse
  OBVIOUS
<1>1. /\ clock \in Nat /\ clock' = clock + 1
      /\ sched' = sched /\ saved' = saved /\ pc' = pc
      /\ IsSchedule(sched) /\ IsSchedule(saved)
  BY DEF Tick, config, IInv, TypeOK
<1>2. \A b \in Bulletin : IsDue(b) => IsDue(b)'
  BY <1>1, BulletinNat DEF IsDue
<1>3. \A a \in Areas : Mem'[a] \in Checks!Later(Mem[a])
  <2> SUFFICES ASSUME NEW a \in Areas PROVE Mem'[a] \in Checks!Later(Mem[a])
    OBVIOUS
  <2>1. Mem'[a] = KindOf(sched, a)' /\ Mem[a] = KindOf(sched, a)
    BY DEF Mem
  <2>2. a \in DOMAIN sched => (IsDue(sched[a]) => IsDue(sched[a])')
    BY <1>1, <1>2 DEF IsSchedule
  <2> QED BY <1>1, <2>1, <2>2 DEF KindOf, Checks!Later
<1>4. \A a \in Areas : Disk'[a] \in Checks!Later(Disk[a])
  <2> SUFFICES ASSUME NEW a \in Areas PROVE Disk'[a] \in Checks!Later(Disk[a])
    OBVIOUS
  <2>1. Disk'[a] = KindOf(saved, a)' /\ Disk[a] = KindOf(saved, a)
    BY DEF Disk
  <2>2. a \in DOMAIN saved => (IsDue(saved[a]) => IsDue(saved[a])')
    BY <1>1, <1>2 DEF IsSchedule
  <2> QED BY <1>1, <2>1, <2>2 DEF KindOf, Checks!Later
<1>5. Mem' \in Checks!Schedules /\ Disk' \in Checks!Schedules
  BY DEF Mem, Disk, KindOf, Checks!Schedules
<1> QED BY <1>1, <1>3, <1>4, <1>5 DEF Checks!Elapse, Mem, Disk

LEMMA NextMap == IInv /\ [Next]_vars => [Checks!Next]_Checks!vars
<1> SUFFICES ASSUME IInv, [Next]_vars PROVE [Checks!Next]_Checks!vars
  OBVIOUS
<1>1. CASE Start
  <2>1. Mem' = Disk /\ Disk' = Disk
    BY <1>1 DEF Start, Mem, Disk, KindOf, IsDue
  <2> QED BY <1>1, <2>1 DEF Start, Checks!Next, Checks!Start, Mem, Disk
<1>2. CASE Stop
  <2>1. Mem' = [a \in Areas |-> "off"] /\ Disk' = Disk
    BY <1>2 DEF Stop, Mem, Disk, KindOf, IsDue
  <2> QED BY <1>2, <2>1 DEF Stop, Checks!Next, Checks!Stop, Mem, Disk
<1>3. ASSUME NEW S \in SUBSET Areas, NEW r \in Requests, Bulletins(S, r)
      PROVE  [Checks!Next]_Checks!vars
  BY <1>3, BulletinsMap DEF Checks!Next
<1>4. CASE OtherSave
  <2>1. Mem' = Mem /\ Disk' \in {Disk, Mem', Checks!Off} /\ pc # "connect" /\ pc' = pc
    BY <1>4, SameKinds, SavedKinds DEF OtherSave
  <2>2. CASE Disk' = Disk
    BY <2>1, <2>2 DEF Checks!vars, Mem, Disk
  <2>3. CASE Disk' \in {Mem', Checks!Off}
    BY <2>1, <2>3 DEF Checks!Next, Checks!Save, Mem, Disk
  <2> QED BY <2>1, <2>2, <2>3
<1>5. ASSUME NEW l \in 0 .. 2, Connect(l) PROVE [Checks!Next]_Checks!vars
  <2>1. Mem' = Mem /\ Disk' = Disk
    BY <1>5, SameKinds DEF Connect, config
  <2> QED BY <1>5, <2>1 DEF Connect, Checks!Next, Checks!Connect, Mem, Disk
<1>6. ASSUME NEW a \in Areas, Check(a) PROVE [Checks!Next]_Checks!vars
  BY <1>6, CheckMap DEF Checks!Next
<1>7. CASE Disconnect
  <2>1. /\ Mem' = Mem /\ Disk' \in {Disk, Mem', Checks!Off}
        /\ pc = "connect" /\ pc' # "connect"
    BY <1>7, SameKinds, SavedKinds DEF Disconnect
  <2> QED BY <2>1 DEF Checks!Next, Checks!Disconnect, Mem, Disk
<1>8. CASE Fail
  <2>1. Mem' = Mem /\ Disk' = Disk /\ pc = "connect" /\ pc' # "connect"
    BY <1>8, SameKinds DEF Fail, config
  <2> QED BY <2>1 DEF Checks!Next, Checks!Disconnect, Mem, Disk
<1>9. CASE Tick
  BY <1>9, TickMap DEF Checks!Next
<1>10. CASE UNCHANGED vars
  <2>1. Mem' = Mem /\ Disk' = Disk /\ pc' = pc
    BY <1>10, SameKinds DEF vars, config
  <2> QED BY <2>1 DEF Checks!vars, Mem, Disk
<1> QED BY <1>1, <1>2, <1>3, <1>4, <1>5, <1>6, <1>7, <1>8, <1>9, <1>10 DEF Next

\* The command, the clock, failed saves and connections do to the schedule of an
\* area only what BulletinChecks, and so Connection, takes them to do.
THEOREM ScheduleRefinement == Spec => ImplementsChecks
<1>1. Init => Checks!Init
  <2>1. Init => Mem = [a \in Areas |-> "off"] /\ pc # "connect"
    BY DEF Init, Mem, KindOf
  <2> QED BY <2>1, KindTyped DEF Checks!Init, Mem, Disk
<1> QED BY <1>1, Invariance, NextMap, PTL DEF Spec, ImplementsChecks, Checks!Spec

=============================================================================
