------------------------------ MODULE MCPayroll ------------------------------
(***************************************************************************)
(* Values for model checking Payroll: months of one day, two texts of the  *)
(* first month and one of the second, and a salary whose minute costs      *)
(* 0.76 SAR.                                                               *)
(***************************************************************************)
EXTENDS Payroll, TLC

CONSTANTS u1, u2, g1, g2, a1

MCPeriods == {[month |-> 0, spelling |-> 0], [month |-> 0, spelling |-> 1],
              [month |-> 1, spelling |-> 0]}

MCPays == {[basic |-> 800000, rest |-> 200000]}
TwoPays == {[basic |-> b, rest |-> 200000] : b \in {800000, 1200000}}

MCWork == {[status |-> "late", delay |-> 10, over |-> 0, early |-> 7],
           [status |-> "absent", delay |-> 0, over |-> 0, early |-> 0]}

MCSymmetry == Permutations({g1, g2})
=============================================================================
