CONSTANTS
  None = None
  u1 = u1
  u2 = u2
  g1 = g1
  g2 = g2
  a1 = a1
  PerMinute = 1
  DayLength = 1440
  Employees = {u1}
  Approvers = {a1}
  Generators = {g1, g2}
  Periods <- MCPeriods
  MaxSlips = 2
  MaxMonth = 1
  DaysPerMonth = 1
  Pays <- TwoPays
  Work <- MCWork
  MonthlyMinutes = 10560
  WorkingDays = 22
  Bonuses = {5000}
  MaxRuns = 3
  MaxChanges = 2
CHECK_DEADLOCK FALSE
SPECIFICATION Spec
SYMMETRY MCSymmetry
INVARIANTS
  TypeOK
  OneSlipPerPeriod
  SlipAddsUp
PROPERTIES
  ApprovalNotOverrun
  ApprovedAmountsStand
  CountedIsServed
