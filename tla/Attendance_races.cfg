CONSTANTS
  None = None
  u1 = u1
  u2 = u2
  w1 = w1
  w2 = w2
  p1 = p1
  p2 = p2
  PerMinute = 2
  DayLength = 24
  MonthlyMinutes = 10560
  Users = {u1}
  Level10 = {u1}
  Web = {p1, p2}
  Workers = {w1, w2}
  MaxLogs = 1
  MaxJobs = 1
  Tries = 2
  MaxDay = 0
  DaysPerMonth = 1
  Times <- TwoTimes
  Branches <- MCBranches
  Shifts = {}
  Exceptions = {}
  Salaries <- OneSalary
  Forms = {}
  MaxChanges = 1
CHECK_DEADLOCK FALSE
SPECIFICATION Spec
SYMMETRY MCSymmetry
INVARIANTS
  CostsCoherent
  LatenessCoherent
  WorkTimeCoherent
PROPERTIES
  RateFrozen
  CheckOutKept
