----------------------------- MODULE MCAbsences -----------------------------
(***************************************************************************)
(* Two employees over a working day, a weekend day and two working days;   *)
(* the analysis and the streaks start on the third.                        *)
(***************************************************************************)
EXTENDS Absences, TLC

CONSTANTS u1, u2, r1, r2, m1, m2, v1, v2

Week(a, b, c) == [d \in Days |-> CASE d = 0 -> a [] d = 1 -> b [] d = 2 -> c [] OTHER -> None]

MCInitialLogs ==
  [u \in Users |-> IF u = u1 THEN Week("late", "present", "late")
                             ELSE Week("present", None, None)]

MCSymmetry ==
  Permutations({r1, r2}) \cup Permutations({m1, m2}) \cup Permutations({v1, v2})
=============================================================================
