---------------------------- MODULE DailyAnalysis ----------------------------
(***************************************************************************)
(* AnalyticsService::runFullAnalysis() for one branch: a run counts who    *)
(* came and who did not, in one query after the other, saves the snapshot  *)
(* of the day, counts again and raises its alerts.  It is started from the *)
(* dashboard and by a command, and nothing keeps two of them apart.        *)
(*                                                                         *)
(* Of the figures the heads are modelled; the money they are multiplied by *)
(* is not, nor the alert that depends on it.                               *)
(***************************************************************************)
EXTENDS WorkDays

CONSTANTS
  Runs,      \* runs of the analysis
  Target     \* target_attendance_rate, in percent

AlertTypes == {"low_attendance", "mass_late"}

Figures == [present : Nat, late : Nat, absent : Nat, total : Nat]

Zero == [present |-> 0, late |-> 0, absent |-> 0, total |-> 0]

Run == [day : Days, half : {"snapshot", "alerts"},
        at : {"day", "logs", "staff", "leaves", "total", "find", "write",
              "low", "late", "done"},
        fig : Figures, row : Figures \cup {None}, staff : SUBSET Users,
        raised : SUBSET AlertTypes, still : BOOLEAN, moved : SUBSET Users]

ASSUME AnalysisAssumption == Target \in Nat /\ None \notin Figures \cup Run

VARIABLES
  run,         \* what a run holds in memory
  snapshots,   \* analytics_snapshots, the daily row of each day
  alerts       \* loss_alerts, how many of a type for a day

analysisVars == <<run, snapshots, alerts>>

AnalysisTypeOK ==
  /\ run \in [Runs -> Run \cup {None}]
  /\ snapshots \in [Days -> Figures \cup {None}]
  /\ alerts \in [Days -> [AlertTypes -> Nat]]

AnalysisInit ==
  /\ run = [r \in Runs |-> None]
  /\ snapshots = [d \in Days |-> None]
  /\ alerts = [d \in Days |-> [t \in AlertTypes |-> 0]]

\* Those of whom the log, a leave or the status changes, as to day d.
Moving(d) ==
  {u \in Users : \/ logs'[u][d] # logs[u][d] \/ leaves'[u][d] # leaves[u][d]
                 \/ ~(u \in active' <=> u \in active)}

\* What others change of these days is noted by the runs about them: that
\* there was something, and of whom since the run began to count.
Noted(D) ==
  [r \in Runs |->
     IF run[r] # None /\ run[r].day \in D
     THEN [run[r] EXCEPT !.still = FALSE, !.moved = @ \cup Moving(run[r].day)]
     ELSE run[r]]

Step(r, at, s) == run[r] # None /\ run[r].at = at /\ run' = [run EXCEPT ![r] = s]

\* The command takes any day, the dashboard the current one.
StartRun(r, d) ==
  /\ ~(run[r] # None /\ run[r].at # "done")
  /\ d =< today
  /\ run' = [run EXCEPT ![r] =
       [day |-> d, half |-> "snapshot", at |-> "day", fig |-> Zero, row |-> None,
        staff |-> {}, raised |-> {}, still |-> TRUE, moved |-> {}]]
  /\ UNCHANGED <<snapshots, alerts>>

-----------------------------------------------------------------------------
(* calculateTotalLoss(): the figures are zero on a day off. *)

CheckDay(r) ==
  /\ Step(r, "day", [run[r] EXCEPT !.fig = Zero, !.moved = {},
                       !.at = IF DayOff(run[r].day) THEN "total" ELSE "logs"])
  /\ UNCHANGED <<snapshots, alerts>>

\* Whoever has a log is present, with whatever status.
ReadLogs(r) ==
  LET logged == {u \in Users : logs[u][run[r].day] # None}
      late == {u \in logged : logs[u][run[r].day] = "late"}
  IN
  /\ Step(r, "logs", [run[r] EXCEPT !.at = "staff", !.fig =
       [@ EXCEPT !.present = Cardinality(logged), !.late = Cardinality(late)]])
  /\ UNCHANGED <<snapshots, alerts>>

ReadStaff(r) ==
  /\ Step(r, "staff", [run[r] EXCEPT !.at = "leaves", !.staff = active])
  /\ UNCHANGED <<snapshots, alerts>>

\* Mutant: those on leave are not taken off.
AbsentWithLeave(staff, present, onLeave) ==
  IF staff - present > 0 THEN staff - present ELSE 0

\* Mutant: the difference is not stopped at zero.
AbsentDifference(staff, present, onLeave) == staff - present - onLeave

Absent(staff, present, onLeave) ==
  IF staff - present - onLeave > 0 THEN staff - present - onLeave ELSE 0

\* How many leaves of the staff cover day d.
OnLeave(S, d) ==
  Cardinality({p \in S \X (1..MaxLeaves) : p[2] =< leaves[p[1]][d]})

ReadLeaves(r) ==
  /\ Step(r, "leaves", [run[r] EXCEPT !.at = "total", !.fig.absent =
       Absent(Cardinality(run[r].staff), run[r].fig.present,
              OnLeave(run[r].staff, run[r].day))])
  /\ UNCHANGED <<snapshots, alerts>>

\* The callers count the active employees themselves.
CountActive(r) ==
  /\ Step(r, "total", [run[r] EXCEPT !.fig.total = Cardinality(active),
                         !.at = IF run[r].half = "snapshot" THEN "find" ELSE "low"])
  /\ UNCHANGED <<snapshots, alerts>>

-----------------------------------------------------------------------------
(* generateDailySnapshot(): updateOrCreate() under a unique index. *)

FindSnapshot(r) ==
  /\ Step(r, "find", [run[r] EXCEPT !.at = "write", !.row = snapshots[run[r].day]])
  /\ UNCHANGED <<snapshots, alerts>>

\* Mutant: a snapshot that is there is left alone.
FirstSaved(stored, found, fig) == IF stored = None THEN fig ELSE stored

\* The row after a save: a new row, or the one stored with the figures that
\* differ from what was found.  A row that appeared meanwhile is found then.
Saved(stored, found, fig) ==
  IF stored = None \/ found = None THEN fig
  ELSE [f \in DOMAIN fig |-> IF fig[f] = found[f] THEN stored[f] ELSE fig[f]]

WriteSnapshot(r) == LET d == run[r].day IN
  /\ run[r] # None /\ run[r].at = "write"
  /\ snapshots' = [snapshots EXCEPT ![d] = Saved(@, run[r].row, run[r].fig)]
  /\ run' = [(IF snapshots' = snapshots THEN run ELSE Noted({d})) EXCEPT ![r] =
       [run[r] EXCEPT !.half = "alerts", !.at = "day", !.row = None, !.staff = {}]]
  /\ UNCHANGED alerts

-----------------------------------------------------------------------------
(* checkAndTriggerAlerts(), on figures of its own. *)

LowAttendance(fig) ==
  IF fig.total = 0 THEN Target > 10 ELSE 100 * fig.present < (Target - 10) * fig.total

MassLate(fig) == fig.total > 0 /\ 10 * fig.late > 3 * fig.total

Raise(r, type, condition, next) ==
  LET raised == IF condition THEN {type} ELSE {} IN
  /\ Step(r, run[r].at, [run[r] EXCEPT !.at = next, !.raised = @ \cup raised])
  /\ alerts' = IF condition THEN [alerts EXCEPT ![run[r].day][type] = @ + 1] ELSE alerts
  /\ UNCHANGED snapshots

RaiseLow(r) ==
  /\ run[r] # None /\ run[r].at = "low"
  /\ Raise(r, "low_attendance", LowAttendance(run[r].fig), "late")

RaiseLate(r) ==
  /\ run[r] # None /\ run[r].at = "late"
  /\ Raise(r, "mass_late", MassLate(run[r].fig), "done")

\* An exception ends the branch's turn and is logged; a kill is not.
KillRun(r) ==
  /\ run[r] # None /\ run[r].at # "done"
  /\ run' = [run EXCEPT ![r] = None]
  /\ UNCHANGED <<snapshots, alerts>>

RunStep(r) ==
  \/ CheckDay(r) \/ ReadLogs(r) \/ ReadStaff(r) \/ ReadLeaves(r) \/ CountActive(r)
  \/ FindSnapshot(r) \/ WriteSnapshot(r)
  \/ RaiseLow(r) \/ RaiseLate(r)
  \/ KillRun(r)

-----------------------------------------------------------------------------
(* Properties. *)

\* The staff who neither came nor had leave.
Missing(d) == {u \in active : logs[u][d] = None /\ leaves[u][d] = 0}

\* No absence is charged without a cause.  Though the three counts may overlap
\* (a leave and a log of one day, two leaves over one day, a log of someone
\* who has left) and others check in, go on leave or go between the queries,
\* the number is at most that of the employees who are missing together with
\* those who moved since the counting began: each of these adds one at most.
AbsencesAccountedFor ==
  \A r \in Runs : run[r] # None =>
    run[r].fig.absent =< Cardinality(Missing(run[r].day) \cup run[r].moved)

\* What the alerts say of a day is what its snapshot says, though the run
\* counts twice: when nothing was changed under a run, the snapshot it leaves
\* calls for the alerts it raised and for no other.
AlertsMatchSnapshot ==
  \A r \in Runs : run[r] # None /\ run[r].at = "done" /\ run[r].still =>
    LET snapshot == snapshots[run[r].day] IN
    /\ snapshot # None
    /\ "low_attendance" \in run[r].raised <=> LowAttendance(snapshot)
    /\ "mass_late" \in run[r].raised <=> MassLate(snapshot)
=============================================================================
