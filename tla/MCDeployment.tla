---------------------------- MODULE MCDeployment ----------------------------
(***************************************************************************)
(* Two employees and a super administrator, each on the night shift and    *)
(* once on the standard one.                                               *)
(***************************************************************************)
EXTENDS Deployment, TLC

CONSTANTS u1, u2, c1, c2, p1, p2, night

MCAssignments ==
  {<<[shift |-> night, over |-> FALSE, current |-> TRUE],
     [shift |-> Standard, over |-> TRUE, current |-> FALSE]>>}

MCDeltas == {-2, 1}

MCSymmetry ==
  Permutations({u1, u2}) \cup Permutations({c1, c2}) \cup Permutations({p1, p2})
=============================================================================
