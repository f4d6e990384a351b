CONSTANTS
  None = None
  u1 = u1
  u2 = u2
  c1 = c1
  c2 = c2
  p1 = p1
  p2 = p2
  night = night
  Standard = day
  Users = {u1, u2, boss}
  SuperAdmins = {boss}
  Clerks = {c1, c2}
  Rewards = {1}
  Deltas <- MCDeltas
  Shifts = {day, night}
  Managers = {p1, p2, m1}
  Pages = {p1, p2}
  Assignments <- MCAssignments
  MaxRequests = 4
CHECK_DEADLOCK FALSE
SPECIFICATION Spec
SYMMETRY MCSymmetry
INVARIANTS
  TypeOK
  NoPointsFromNowhere
  LedgerReplays
  OneCurrent
  SwitchTakesEffect
