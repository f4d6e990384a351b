---------------------------- MODULE MCPermissions ----------------------------
(***************************************************************************)
(* Three permissions of which the first implies the others and the second  *)
(* the third; and the two of a test.                                       *)
(***************************************************************************)
EXTENDS Permissions, TLC

CONSTANTS a1, a2

MCSlugs == {"finance.manage_salaries", "finance.view_all", "finance.view_own"}
TestedSlugs == {"attendance.manage", "attendance.view_own"}

MCSymmetry == Permutations({a1, a2})
=============================================================================
