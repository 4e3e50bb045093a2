----------------------------- MODULE ConfigProofs -----------------------------
(***************************************************************************)
(* Proofs about the configuration, for any directories, any values of the  *)
(* settings and any number of faults.  The properties of Config speak of a *)
(* program at rest.  The inductive invariant says what holds at each step  *)
(* of the saving: as long as a directory is not doubtful, the program in   *)
(* it holds the confirmed name, packet.conf has it except until SaveConf,  *)
(* and the ICS-309 log has it except until SaveHome.                       *)
(***************************************************************************)
EXTENDS Config, TLAPS

USE DEF vars, files, program, history

\* The directory is being saved, and packet.conf is still to be written.
Unwritten(d) == d = dir /\ pc = "save"

\* The configuration of the directory is being saved, and its log is still to
\* be removed or generated.
LogPending(d) == d = dir /\ pc \in {"save", "saveHome"} /\ after # "prompt"

HomeIsNameless == home.name = Empty

EditFollowed == pc = "edit" => after # "prompt"

Confirmed ==
    \A d \in Dir \ doubtful :
        /\ d = dir => name = accepted[d]
        /\ ~Unwritten(d) => conf[d].name = accepted[d]
        /\ ~LogPending(d) => ics309[d] \in {NoLog, accepted[d]}

IInv == TypeOK /\ HomeIsNameless /\ EditFollowed /\ Confirmed

\* What every File has, as the fields the steps read.
LEMMA FileFields ==
    ASSUME NEW f \in File
    PROVE  f.op \in Ops /\ f.name \in Names
BY EmptyAssumption DEF File, Absent, Torn, Ops, Names

LEMMA SettingsAreFile == op \in Ops /\ name \in Names =>
    /\ Settings \in File
    /\ [Settings EXCEPT !.name = Empty] \in File
    /\ Settings.name = name
    /\ [Settings EXCEPT !.name = Empty].name = Empty
BY DEF Settings, File, Names

LEMMA NoFile ==
    /\ Absent \in File /\ Torn \in File
    /\ Absent.name = Empty /\ Torn.name = Empty
BY DEF File, Absent, Torn

\* The number of faults is kept within its bound.
LEMMA FaultCount ==
    /\ 0 \in 0 .. MaxFaults
    /\ \A n \in 0 .. MaxFaults : n < MaxFaults => n + 1 \in 0 .. MaxFaults
BY FaultAssumption

LEMMA InitHolds == Init => IInv
<1> SUFFICES ASSUME Init PROVE IInv
  OBVIOUS
<1>1. TypeOK
  <2>1. conf \in [Dir -> File] /\ home \in File
    BY NoFile, DirAssumption DEF Init, PC, After, Names, Ops
  <2>2. ics309 \in [Dir -> Names \cup {NoLog}]
    BY NoFile, DirAssumption DEF Init, PC, After, Names, Ops
  <2>3. dir \in Dir \cup {""} /\ op \in Ops /\ name \in Names
    BY NoFile, DirAssumption DEF Init, PC, After, Names, Ops
  <2>4. pc \in PC /\ after \in After /\ (pc # "down" <=> dir \in Dir)
    BY NoFile, DirAssumption DEF Init, PC, After, Names, Ops
  <2>5. accepted \in [Dir -> Names] /\ doubtful \subseteq Dir
    BY NoFile, DirAssumption DEF Init, PC, After, Names, Ops
  <2>6. faults \in 0 .. MaxFaults
    BY FaultCount DEF Init
  <2> QED BY <2>1, <2>2, <2>3, <2>4, <2>5, <2>6 DEF TypeOK
<1>2. HomeIsNameless /\ EditFollowed
  BY NoFile DEF Init, HomeIsNameless, EditFollowed
<1>3. Confirmed
  BY NoFile DEF Init, Confirmed, Unwritten, LogPending
<1> QED BY <1>1, <1>2, <1>3 DEF IInv

\* The steps keep the types.
LEMMA TypeStep == TypeOK /\ [Next]_vars => TypeOK'
<1> SUFFICES ASSUME TypeOK, [Next]_vars PROVE TypeOK'
  OBVIOUS
<1> USE DirAssumption DEF TypeOK, PC, After
<1>1. ASSUME NEW d \in Dir, Start(d) PROVE TypeOK'
  BY <1>1, FileFields DEF Start
<1>2. ASSUME NEW d \in Dir, Chdir(d) PROVE TypeOK'
  BY <1>2 DEF Chdir
<1>3. CASE Quit
  BY <1>3 DEF Quit, Exit, Ops, Names
<1>4. CASE EditConfig
  BY <1>4 DEF EditConfig
<1>5. CASE EditDone
  BY <1>5 DEF EditDone, Save
<1>6. CASE EditAborted
  BY <1>6 DEF EditAborted
<1>7. ASSUME NEW o \in Ops, NEW n \in Names, EditField(o, n) PROVE TypeOK'
  BY <1>7 DEF EditField
<1>8. ASSUME NEW o \in Ops, NEW n \in Names, SetRejected(o, n) PROVE TypeOK'
  BY <1>8 DEF SetRejected
<1>9. ASSUME NEW n \in Names, SetName(n) PROVE TypeOK'
  BY <1>9 DEF SetName, Save
<1>10. ASSUME NEW o \in Ops, SetOp(o) PROVE TypeOK'
  BY <1>10 DEF SetOp, Save
<1>11. ASSUME NEW o \in Ops, EditMessage(o) PROVE TypeOK'
  BY <1>11 DEF EditMessage, Save
<1>12. CASE OtherSave
  BY <1>12 DEF OtherSave, Save
<1>13. CASE Ics309
  BY <1>13 DEF Ics309, Generated
<1>14. CASE SaveConf
  BY <1>14, SettingsAreFile DEF SaveConf
<1>15. CASE SaveHome
  BY <1>15, SettingsAreFile DEF SaveHome, LogAfterSave
<1>16. CASE WriteFails
  <2>1. conf' \in [Dir -> File] /\ home' \in File
    BY <1>16, NoFile DEF WriteFails, Fault, LogAfterSave
  <2>2. ics309' \in [Dir -> Names \cup {NoLog}]
    BY <1>16, NoFile DEF WriteFails, Fault, LogAfterSave
  <2>3. dir' \in Dir \cup {""} /\ op' \in Ops /\ name' \in Names
    BY <1>16, NoFile DEF WriteFails, Fault, LogAfterSave
  <2>4. pc' \in PC /\ after' \in After /\ (pc' # "down" <=> dir' \in Dir)
    BY <1>16, NoFile DEF WriteFails, Fault, LogAfterSave
  <2>5. accepted' \in [Dir -> Names] /\ doubtful' \subseteq Dir
    BY <1>16, NoFile DEF WriteFails, Fault, LogAfterSave
  <2>6. faults' \in 0 .. MaxFaults
    BY <1>16, FaultCount DEF WriteFails, Fault
  <2> QED BY <2>1, <2>2, <2>3, <2>4, <2>5, <2>6
<1>17. CASE Stop
  <2>1. conf' \in [Dir -> File] /\ home' \in File
    BY <1>17, NoFile, SettingsAreFile DEF Stop, Fault, Exit, Ops, Names
  <2>2. ics309' \in [Dir -> Names \cup {NoLog}]
    BY <1>17, NoFile, SettingsAreFile DEF Stop, Fault, Exit, Ops, Names
  <2>3. dir' \in Dir \cup {""} /\ op' \in Ops /\ name' \in Names
    BY <1>17, NoFile, SettingsAreFile DEF Stop, Fault, Exit, Ops, Names
  <2>4. pc' \in PC /\ after' \in After /\ (pc' # "down" <=> dir' \in Dir)
    BY <1>17, NoFile, SettingsAreFile DEF Stop, Fault, Exit, Ops, Names
  <2>5. accepted' \in [Dir -> Names] /\ doubtful' \subseteq Dir
    BY <1>17, NoFile, SettingsAreFile DEF Stop, Fault, Exit, Ops, Names
  <2>6. faults' \in 0 .. MaxFaults
    BY <1>17, FaultCount DEF Stop, Fault
  <2> QED BY <2>1, <2>2, <2>3, <2>4, <2>5, <2>6
<1>18. CASE UNCHANGED vars
  BY <1>18
<1> QED
  BY <1>1, <1>2, <1>3, <1>4, <1>5, <1>6, <1>7, <1>8, <1>9, <1>10, <1>11, <1>12,
     <1>13, <1>14, <1>15, <1>16, <1>17, <1>18 DEF Next

\* The defaults never get a name, and an edit is always followed by a step that
\* removes the log.
LEMMA HomeStep == TypeOK /\ HomeIsNameless /\ EditFollowed /\ [Next]_vars
                    => HomeIsNameless' /\ EditFollowed'
<1> SUFFICES ASSUME TypeOK, HomeIsNameless, EditFollowed, [Next]_vars
             PROVE  HomeIsNameless' /\ EditFollowed'
  OBVIOUS
<1> USE DEF HomeIsNameless, EditFollowed
<1>1. CASE SaveHome
  BY <1>1, SettingsAreFile DEF SaveHome, TypeOK
<1>2. CASE WriteFails
  BY <1>2, NoFile DEF WriteFails
<1>3. CASE Stop
  BY <1>3, NoFile, SettingsAreFile DEF Stop, Exit, TypeOK
<1>4. CASE Ics309 \/ EditConfig \/ UNCHANGED vars
  BY <1>4 DEF Ics309, EditConfig
<1>5. CASE \/ \E d \in Dir : Start(d) \/ Chdir(d)
           \/ Quit \/ EditDone \/ EditAborted \/ OtherSave \/ SaveConf
  BY <1>5 DEF Start, Chdir, Quit, Exit, EditDone, EditAborted, OtherSave, SaveConf, Save
<1>6. CASE \/ \E o \in Ops, n \in Names : EditField(o, n) \/ SetRejected(o, n)
           \/ \E n \in Names : SetName(n)
           \/ \E o \in Ops : SetOp(o) \/ EditMessage(o)
  BY <1>6 DEF EditField, SetRejected, SetName, SetOp, EditMessage, Save
<1> QED BY <1>1, <1>2, <1>3, <1>4, <1>5, <1>6 DEF Next

\* The steps keep what Confirmed says of a directory that is not doubtful.
LEMMA ConfirmedStep == IInv /\ [Next]_vars => Confirmed'
<1> SUFFICES ASSUME IInv, [Next]_vars, NEW e \in Dir, e \notin doubtful'
             PROVE  /\ e = dir' => name' = accepted'[e]
                    /\ ~Unwritten(e)' => conf'[e].name = accepted'[e]
                    /\ ~LogPending(e)' => ics309'[e] \in {NoLog, accepted'[e]}
  BY DEF Confirmed
<1> DEFINE Goal == /\ e = dir' => name' = accepted'[e]
                   /\ ~Unwritten(e)' => conf'[e].name = accepted'[e]
                   /\ ~LogPending(e)' => ics309'[e] \in {NoLog, accepted'[e]}
<1> USE DirAssumption DEF IInv, Confirmed, TypeOK, Unwritten, LogPending
<1>1. ASSUME NEW d \in Dir, Start(d) PROVE Goal
  BY <1>1 DEF Start, HomeIsNameless
<1>2. ASSUME NEW d \in Dir, Chdir(d) PROVE Goal
  BY <1>2 DEF Chdir
<1>3. CASE Quit
  BY <1>3 DEF Quit, Exit
<1>4. CASE EditConfig
  BY <1>4 DEF EditConfig
<1>5. CASE EditDone
  BY <1>5 DEF EditDone, Save, EditFollowed
<1>6. CASE EditAborted
  BY <1>6 DEF EditAborted
<1>7. ASSUME NEW o \in Ops, NEW n \in Names, EditField(o, n) PROVE Goal
  BY <1>7 DEF EditField
<1>8. ASSUME NEW o \in Ops, NEW n \in Names, SetRejected(o, n) PROVE Goal
  BY <1>8 DEF SetRejected
<1>9. ASSUME NEW n \in Names, SetName(n) PROVE Goal
  BY <1>9 DEF SetName, Save
<1>10. ASSUME NEW o \in Ops, SetOp(o) PROVE Goal
  BY <1>10 DEF SetOp, Save
<1>11. ASSUME NEW o \in Ops, EditMessage(o) PROVE Goal
  BY <1>11 DEF EditMessage, Save
<1>12. CASE OtherSave
  BY <1>12 DEF OtherSave, Save
<1>13. CASE Ics309
  BY <1>13 DEF Ics309, Generated
<1>14. CASE SaveConf
  BY <1>14, SettingsAreFile DEF SaveConf
<1>15. CASE SaveHome
  BY <1>15 DEF SaveHome, LogAfterSave, After
<1>16. CASE WriteFails
  BY <1>16 DEF WriteFails, Fault
<1>17. CASE Stop
  BY <1>17 DEF Stop, Fault, Exit
<1>18. CASE UNCHANGED vars
  BY <1>18
<1> QED
  BY <1>1, <1>2, <1>3, <1>4, <1>5, <1>6, <1>7, <1>8, <1>9, <1>10, <1>11, <1>12,
     <1>13, <1>14, <1>15, <1>16, <1>17, <1>18 DEF Next

\* The inductive invariant holds of every state of every behaviour.
THEOREM Invariance == Spec => []IInv
<1>1. IInv /\ [Next]_vars => IInv'
  BY TypeStep, HomeStep, ConfirmedStep DEF IInv
<1> QED BY InitHolds, <1>1, PTL DEF Spec

\* Type correctness, for any directories, settings and number of faults.
THEOREM TypeCorrect == Spec => []TypeOK
<1>1. IInv => TypeOK
  BY DEF IInv
<1> QED BY Invariance, <1>1, PTL

\* A name that was confirmed in a directory (SaveConfig, config.go:161-198) is
\* in its packet.conf whatever was done in other directories.
THEOREM ConfirmedNamesKept == Spec => []ConfirmedKept
<1>1. IInv => ConfirmedKept
  BY DEF IInv, Confirmed, ConfirmedKept, AtRest, Unwritten
<1> QED BY Invariance, <1>1, PTL

\* An ICS-309 log that would be shown again (ics309.go:42-51) has the name that
\* the configuration has.
THEOREM LogsHaveCurrentName == Spec => []LogHasCurrentName
<1>1. IInv => LogHasCurrentName
  BY DEF IInv, Confirmed, TypeOK, LogHasCurrentName, LogPending
<1> QED BY Invariance, <1>1, PTL
===============================================================================
