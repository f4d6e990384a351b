CONSTANTS
  None = None
  u1 = u1
  u2 = u2
  w1 = w1
  w2 = w2
  p1 = p1
  p2 = p2
  PerMinute = 2
  DayLength = 24
  MonthlyMinutes = 10560
  Users = {u1}
  Level10 = {}
  Web = {p1}
  Workers = {w1}
  MaxLogs = 1
  MaxJobs = 1
  Tries = 1
  MaxDay = 0
  DaysPerMonth = 1
  Times <- TwoTimes
  Branches <- OneBranch
  Shifts = {}
  Exceptions <- ExcuseOnly
  Salaries <- OneSalary
  Forms = {}
  MaxChanges = 0
CHECK_DEADLOCK FALSE
SPECIFICATION Spec
PROPERTIES
  ExemptNeverLate
