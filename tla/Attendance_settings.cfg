CONSTANTS
  None = None
  u1 = u1
  u2 = u2
  w1 = w1
  w2 = w2
  p1 = p1
  p2 = p2
  PerMinute = 2
  DayLength = 24
  MonthlyMinutes = 10560
  Users = {u1}
  Level10 = {}
  Web = {p1}
  Workers = {w1}
  MaxLogs = 2
  MaxJobs = 1
  Tries = 1
  MaxDay = 1
  DaysPerMonth = 1
  Times <- TwoTimes
  Branches <- OneBranch
  Shifts <- MCShifts
  Exceptions <- LenientOnly
  Salaries <- MCSalaries
  Forms <- AbsenceForm
  MaxChanges = 1
CHECK_DEADLOCK FALSE
SPECIFICATION Spec
INVARIANTS
  TypeOK
  LatenessCoherent
  OneLogPerDay
  CostsCoherent
