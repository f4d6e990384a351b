------------------------------ MODULE Absences ------------------------------
(***************************************************************************)
(* The days of a branch while they are analysed, the streaks are shown and *)
(* the requests for leave are decided.  Deciding a request touches nothing *)
(* the other two read: those read the leaves table.                        *)
(***************************************************************************)
EXTENDS DailyAnalysis, Streaks, LeaveDesk

CONSTANT MaxActs     \* bound on changes, runs, views and desks

ASSUME AbsencesAssumption == MaxActs \in Nat

VARIABLE acts

vars == <<dayVars, analysisVars, streakVars, leaveVars, acts>>

TypeOK ==
  /\ WorkDaysTypeOK
  /\ AnalysisTypeOK
  /\ StreaksTypeOK
  /\ LeaveDeskTypeOK
  /\ acts \in 0..MaxActs

Init ==
  /\ WorkDaysInit
  /\ AnalysisInit
  /\ StreaksInit
  /\ LeaveDeskInit
  /\ acts = 0

Act == acts < MaxActs /\ acts' = acts + 1

\* The days D change, for users S.
Change(D, S) ==
  /\ Act
  /\ run' = Noted(D)
  /\ Touch(S)
  /\ UNCHANGED <<snapshots, alerts, clock, cache, view, leaveVars>>

DaysChange ==
  \/ \E u \in Users, d \in Days, s \in Status \cup {None} :
       LogChanges(u, d, s) /\ Change({d}, {u})
  \/ \E u \in Users, d \in Days, n \in 0..MaxLeaves :
       LeaveChanges(u, d, n) /\ Change({d}, {u})
  \/ \E d \in Days : HolidayChanges(d) /\ Change({d}, Users)
  \/ \E u \in Users : StaffChanges(u) /\ Change(Days, {})
  \/ NextDay /\ Change({}, Users)

Analyse(r) ==
  /\ UNCHANGED <<dayVars, streakVars, leaveVars>>
  /\ \/ Act /\ \E d \in Days : StartRun(r, d)
     \/ RunStep(r) /\ UNCHANGED acts

ShowStreak(v) ==
  /\ UNCHANGED <<dayVars, analysisVars, leaveVars>>
  /\ \/ Act /\ \E u \in Users : Miss(v, u)
     \/ ViewStep(v) /\ UNCHANGED acts

RequestLeave(q) ==
  /\ \/ \E s \in Statuses, reason \in BOOLEAN : Submit(q, s, reason)
     \/ Delete(q)
  /\ Act
  /\ UNCHANGED <<dayVars, analysisVars, streakVars>>

DecideLeave(m) ==
  /\ UNCHANGED <<dayVars, analysisVars, streakVars>>
  /\ \/ Act /\ DeskOpen(m)
     \/ DeskStep(m) /\ UNCHANGED acts

Next ==
  \/ DaysChange
  \/ \E r \in Runs : Analyse(r)
  \/ \E v \in Viewers : ShowStreak(v)
  \/ \E q \in Requests : RequestLeave(q)
  \/ \E m \in Desks : DecideLeave(m)
  \/ Tick /\ UNCHANGED <<dayVars, analysisVars, leaveVars, acts>>

Spec == Init /\ [][Next]_vars
=============================================================================
