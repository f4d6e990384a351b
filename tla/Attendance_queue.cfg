CONSTANTS
  None = None
  u1 = u1
  u2 = u2
  w1 = w1
  w2 = w2
  p1 = p1
  p2 = p2
  PerMinute = 2
  DayLength = 24
  MonthlyMinutes = 10560
  Users = {u1}
  Level10 = {}
  Web = {p1}
  Workers = {w1, w2}
  MaxLogs = 2
  MaxJobs = 1
  Tries = 2
  MaxDay = 1
  DaysPerMonth = 1
  Times <- TwoTimes
  Branches <- OneBranch
  Shifts = {}
  Exceptions = {}
  Salaries <- OneSalary
  Forms = {}
  MaxChanges = 0
CHECK_DEADLOCK FALSE
SPECIFICATION FairSpec
PROPERTIES
  QueuedCheckInSettled
  ImplementsDailyLog
