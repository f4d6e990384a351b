--------------------------- MODULE AttendanceRules ---------------------------
(***************************************************************************)
(* The arithmetic of one attendance_logs row: how lateness, worked time    *)
(* and their cost are computed from a check-in, a check-out, a shift and a *)
(* rate.  Pure operators on a row; the module has no state.                *)
(*                                                                         *)
(* Units.  Times of day are in ticks, PerMinute ticks to the minute, so    *)
(* that the truncation of diffInMinutes() is visible.  Salaries are in     *)
(* 1/100 SAR (decimal:2), rates in 1/10000 SAR per minute (decimal:4),     *)
(* costs in 1/100 SAR (decimal:2).                                         *)
(***************************************************************************)
EXTENDS Integers

CONSTANTS
  None,            \* SQL NULL, and "no row", "no exception", "no shift"
  PerMinute,       \* ticks per minute
  DayLength        \* ticks per day, added to an overnight shift's end

ASSUME UnitsAssumption == /\ PerMinute \in Nat \ {0}
                          /\ DayLength \in Nat

-----------------------------------------------------------------------------
\* $a ?? $b
Coalesce(a, b) == IF a # None THEN a ELSE b

\* (int) $a->diffInMinutes($b): signed, truncated towards zero.
MinutesBetween(a, b) ==
  IF b >= a THEN (b - a) \div PerMinute ELSE -((a - b) \div PerMinute)

Excess(a, b) == IF a > b THEN a - b ELSE 0

\* round($minutes * $rate, 2), half away from zero on nonnegative amounts.
Cost(minutes, rate) == (minutes * rate + 50) \div 100

\* round($minutes * $rate * 1.5, 2)
OvertimeValue(minutes, rate) == (3 * minutes * rate + 100) \div 200

\* User::getCostPerMinuteAttribute: round(basic_salary / minutes, 4), and 0
\* when the user's working days or hours are not set.
CostPerMinute(salary, minutes) ==
  IF minutes <= 0 THEN 0 ELSE (200 * salary + minutes) \div (2 * minutes)

\* Shift::getDurationMinutesAttribute: the end moves to the next day only
\* when the shift is flagged overnight.
ShiftMinutes(s) ==
  MinutesBetween(s.start,
    IF s.overnight /\ s.end < s.start THEN s.end + DayLength ELSE s.end)

\* AttendanceService::calculateBranchShiftMinutes: a branch has no flag, an
\* end before the start is enough.
BranchShiftMinutes(b) ==
  MinutesBetween(b.start, IF b.end < b.start THEN b.end + DayLength ELSE b.end)

-----------------------------------------------------------------------------
\* Mutant: the operands of diffInMinutes, signed since Carbon 3, swapped.
SwappedEvaluate(row, start, grace) ==
  IF row.in = None \/ row.in <= start + grace * PerMinute
  THEN [row EXCEPT !.status = "present", !.delay = 0]
  ELSE [row EXCEPT !.status = "late", !.delay = MinutesBetween(row.in, start)]

\* Mutant: only the status is reassigned when the employee was on time.
LingeringEvaluate(row, start, grace) ==
  IF row.in <= start + grace * PerMinute
  THEN [row EXCEPT !.status = "present"]
  ELSE [row EXCEPT !.status = "late", !.delay = MinutesBetween(start, row.in)]

\* AttendanceLog::evaluateAttendance.  Without a check-in only the status is
\* assigned.
Evaluate(row, start, grace) ==
  IF row.in = None THEN [row EXCEPT !.status = "absent"]
  ELSE IF row.in <= start + grace * PerMinute
       THEN [row EXCEPT !.status = "present", !.delay = 0]
       ELSE [row EXCEPT !.status = "late",
                        !.delay  = MinutesBetween(start, row.in)]

\* Mutant: the excuse changes the status and forgets the delay.
HalfExcuse(row) == IF row.status = "late" THEN [row EXCEPT !.status = "present"] ELSE row

\* The bypass_late_flag branch of checkIn.
Excuse(row) ==
  IF row.status = "late"
  THEN [row EXCEPT !.status = "present", !.delay = 0]
  ELSE row

\* The three products, shared by calculateFinancials and checkOut.
Priced(row) ==
  [row EXCEPT !.delayCost = Cost(row.delay, row.rate),
              !.earlyCost = Cost(row.early, row.rate),
              !.overVal   = OvertimeValue(row.over, row.rate)]

\* Mutant: a recalculation that prices the delay only.
DelayOnlyFinancials(row, rate) ==
  [row EXCEPT !.rate = rate, !.delayCost = Cost(row.delay, rate)]

\* AttendanceLog::calculateFinancials: takes a new snapshot of the rate.
Financials(row, rate) == Priced([row EXCEPT !.rate = rate])

\* Mutant: the check-out stores its minutes and leaves the costs alone.
UnpricedCheckedOut(row, t, expected) ==
  LET worked == MinutesBetween(row.in, t)
  IN  [row EXCEPT !.out = t, !.worked = worked,
                  !.over = Excess(worked, expected), !.early = Excess(expected, worked)]

\* Mutant: the branch for overtime does not reset early_leave_minutes.
StickyCheckedOut(row, t, expected) ==
  LET worked == MinutesBetween(row.in, t)
  IN  Priced([row EXCEPT !.out = t, !.worked = worked, !.over = Excess(worked, expected),
                         !.early = IF worked < expected THEN expected - worked ELSE @])

\* AttendanceService::checkOut, on the loaded row: keeps the frozen rate.
CheckedOut(row, t, expected) ==
  LET worked == MinutesBetween(row.in, t)
  IN  Priced([row EXCEPT !.out    = t,
                         !.worked = worked,
                         !.over   = Excess(worked, expected),
                         !.early  = Excess(expected, worked)])

\* One iteration of RecalculateMonthlyAttendanceJob.
Recalculated(row, branch, rate) ==
  Financials(Evaluate(row, branch.start, branch.grace), rate)

\* Model::save() of a row loaded as base and now equal to target: the UPDATE
\* names the dirty columns only, so cur keeps the others.
Dirty(cur, base, target) == IF target = base THEN cur ELSE target

\* Mutant: save() writes every column of the model.
SaveAll(cur, base, target) == target

SaveTo(cur, base, target) ==
  [cur EXCEPT
     !.status    = Dirty(cur.status, base.status, target.status),
     !.delay     = Dirty(cur.delay, base.delay, target.delay),
     !.out       = Dirty(cur.out, base.out, target.out),
     !.worked    = Dirty(cur.worked, base.worked, target.worked),
     !.over      = Dirty(cur.over, base.over, target.over),
     !.early     = Dirty(cur.early, base.early, target.early),
     !.rate      = Dirty(cur.rate, base.rate, target.rate),
     !.delayCost = Dirty(cur.delayCost, base.delayCost, target.delayCost),
     !.earlyCost = Dirty(cur.earlyCost, base.earlyCost, target.earlyCost),
     !.overVal   = Dirty(cur.overVal, base.overVal, target.overVal)]

-----------------------------------------------------------------------------
(* What the columns of one row owe each other. *)

DelayPriced(row) == row.delayCost = Cost(row.delay, row.rate)
EarlyPriced(row) == row.earlyCost = Cost(row.early, row.rate)
OverPriced(row)  == row.overVal = OvertimeValue(row.over, row.rate)

Lateness(row) == /\ row.status \in {"present", "late"}
                 /\ row.status = "present" => row.delay = 0

WorkTime(row) ==
  IF row.out = None
  THEN row.worked = 0 /\ row.over = 0 /\ row.early = 0
  ELSE /\ row.worked = MinutesBetween(row.in, row.out)
       /\ row.over = 0 \/ row.early = 0
=============================================================================
