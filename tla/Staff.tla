-------------------------------- MODULE Staff --------------------------------
(***************************************************************************)
(* The users table, as far as the points and the shifts share it.          *)
(***************************************************************************)
CONSTANTS
  Users,
  SuperAdmins,    \* those with is_super_admin, whom the resets pass over
  None            \* NULL

ASSUME StaffAssumption == SuperAdmins \subseteq Users

Employees == Users \ SuperAdmins
=============================================================================
