------------------------------ MODULE WorkDays ------------------------------
(***************************************************************************)
(* What the streaks and the daily analysis read of one branch: who works   *)
(* there, the attendance logs (Attendance has how they come about), the    *)
(* approved leaves and the holidays.                                       *)
(***************************************************************************)
EXTENDS Staff, Integers, FiniteSets

CONSTANTS
  MaxDay,        \* bound on the days
  Weekend,       \* the Fridays and Saturdays among them
  MaxLeaves,     \* bound on the leaves of one employee that cover one day
  InitialLogs    \* the logs of the days gone by

Days == 0..MaxDay

Status == {"present", "late", "absent"}

ASSUME WorkDaysAssumption ==
  /\ MaxDay \in Nat \ {0} /\ MaxLeaves \in Nat /\ Weekend \subseteq Days
  /\ IsFiniteSet(Users) /\ None \notin Status
  /\ InitialLogs \in [Users -> [Days -> Status \cup {None}]]

VARIABLES
  today,
  active,        \* the employees with status active
  logs,          \* attendance_logs, the status of each day
  leaves,        \* leaves with status approved, how many cover a day
  holidays

dayVars == <<today, active, logs, leaves, holidays>>

WorkDaysTypeOK ==
  /\ today \in Days
  /\ active \subseteq Users
  /\ logs \in [Users -> [Days -> Status \cup {None}]]
  /\ leaves \in [Users -> [Days -> 0..MaxLeaves]]
  /\ holidays \subseteq Days

\* It is the last day but one.
WorkDaysInit ==
  /\ today = MaxDay - 1
  /\ active = Users
  /\ logs = InitialLogs
  /\ leaves = [u \in Users |-> [d \in Days |-> 0]]
  /\ holidays = {}

\* A log is written, corrected or deleted.
LogChanges(u, d, s) ==
  /\ d =< today /\ logs[u][d] # s
  /\ logs' = [logs EXCEPT ![u][d] = s]
  /\ UNCHANGED <<today, active, leaves, holidays>>

\* The leaves table is read here and written nowhere in the application.
LeaveChanges(u, d, n) ==
  /\ leaves[u][d] # n
  /\ leaves' = [leaves EXCEPT ![u][d] = n]
  /\ UNCHANGED <<today, active, logs, holidays>>

HolidayChanges(d) ==
  /\ holidays' = IF d \in holidays THEN holidays \ {d} ELSE holidays \cup {d}
  /\ UNCHANGED <<today, active, logs, leaves>>

StaffChanges(u) ==
  /\ active' = IF u \in active THEN active \ {u} ELSE active \cup {u}
  /\ UNCHANGED <<today, logs, leaves, holidays>>

NextDay ==
  /\ today < MaxDay
  /\ today' = today + 1
  /\ UNCHANGED <<active, logs, leaves, holidays>>

DayOff(d) == d \in Weekend \cup holidays
=============================================================================
