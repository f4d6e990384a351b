CONSTANTS
  None = None
  u1 = u1
  u2 = u2
  r1 = r1
  r2 = r2
  m1 = m1
  m2 = m2
  v1 = v1
  v2 = v2
  Users = {u1, u2}
  SuperAdmins = {}
  MaxDay = 3
  Weekend = {1}
  MaxLeaves = 2
  InitialLogs <- MCInitialLogs
  Runs = {r1, r2}
  Target = 95
  Viewers = {v1, v2}
  Window = 3
  TTL = 1
  MaxClock = 1
  Requests = {q1}
  Desks = {m1, m2}
  MaxActs = 3
CHECK_DEADLOCK FALSE
SPECIFICATION Spec
SYMMETRY MCSymmetry
INVARIANTS
  TypeOK
  AbsencesAccountedFor
  AlertsMatchSnapshot
  StreakIsRun
  StaleStreakExpires
  DecidedOnce
