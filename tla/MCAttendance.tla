---------------------------- MODULE MCAttendance ----------------------------
(***************************************************************************)
(* Values for model checking Attendance.  A minute is two ticks and a day  *)
(* a few minutes long.  Rates come out near 0.76 and 1.14 SAR per minute,  *)
(* so that rounding a cost of a few minutes matters.                       *)
(***************************************************************************)
EXTENDS AttendanceDaily, TLC

CONSTANTS u1, u2, w1, w2, p1, p2

\* A morning shift, and one that starts later with no grace at all.
Early == [start |-> 2, end |-> 7, grace |-> 1]
Late  == [start |-> 6, end |-> 14, grace |-> 0]
MCBranches == {Early, Late}
OneBranch  == {Early}

\* An overnight shift of a user of their own.
Night == [start |-> 12, end |-> 4, grace |-> 0, overnight |-> TRUE]
MCShifts == {Night}

\* An excuse that lets its holder in from anywhere and takes the grace away,
\* and one that changes nothing else.
Lenient == [start |-> None, grace |-> 0, fence |-> TRUE, late |-> TRUE]
Excused == [start |-> None, grace |-> None, fence |-> FALSE, late |-> TRUE]
LenientOnly == {Lenient}
ExcuseOnly  == {Excused}

OneSalary  == {800000}
MCSalaries == {800000, 1200000}

\* An absence entered by hand.
Absence     == [in |-> None, out |-> None, status |-> "on_leave", delay |-> 0, over |-> 0]
AbsenceForm == {Absence}

TwoTimes == {5, 11}

MCSymmetry == Permutations({w1, w2}) \cup Permutations({p1, p2})
=============================================================================
