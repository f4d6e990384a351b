-------------------------- MODULE AttendanceDaily --------------------------
(* The attendance engine implements the daily log. *)
EXTENDS Attendance

EntryOf(row) == [user |-> row.user, day |-> row.date, in |-> row.in, out |-> row.out]

Sheet == {EntryOf(logs[i]) : i \in {k \in LogIds : logs[k] # None}}

Daily == INSTANCE DailyLog
           WITH Empty <- None, sheet <- Sheet, today <- day, corrections <- changes

\* Seen from outside the engine is a sheet of arrivals and departures: no
\* race of requests, queued check-ins, recalculations, retries and crashes
\* opens a day twice, moves an arrival, removes a departure or touches an
\* entry it was not about.
ImplementsDailyLog == Daily!Spec
=============================================================================
