# Verification of SARH

SARH is a Laravel 11 / Filament 3 application that records attendance, prices
lateness and overtime per minute, and builds rewards, payroll and analytics on
those records. This directory holds TLA+ models of its core logic, TLC
configurations that check them on small instances, and TLAPS proofs of the
main results for every value of the constants.

## 1. Inventory

| Component | State | Operations | Talks to | Hard part | Correct when |
|---|---|---|---|---|---|
| Attendance engine (`AttendanceService`, `ProcessAttendanceJob`, `RecalculateMonthlyAttendanceJob`, `CreateAttendance` of the employees' panel, `AttendanceLogResource`) | `attendance_logs`, `jobs` | check-in (direct, queued, panel), check-out, recalculation, manual entry, edit, delete | exceptions, shifts, branches, salaries; audit event | no transactions or row locks; two queue workers; `retry_after` 90 s under a 300 s job; stale models in memory; midnight | one log a day; columns of a row agree; nothing recorded is lost |
| Attendance exceptions | `attendance_exceptions` | create, edit, start and end by date | read at check-in only | forgotten by two of the paths | an exempt employee is not late |
| Shifts of users (`UserShift`) | `user_shifts.is_current`, dates | assign, makeCurrent, terminate | read by both check-ins and check-out | two updates without a transaction; the deployment page does the same | one current shift, the one given last |
| Geofence | none | haversine verdict | check-in, check-out | floating point | verdict monotone in distance |
| Audit (`HandleAttendanceRecorded`) | `audit_logs` | insert after the save | event of check-in | crash between save and event | one row per check-in |
| Points (`UserBadge::award`, `adjust_points`) | `users.total_points`, `points_transactions` | award, adjust | badge events | read, add, save; ledger after balance; the deployment page resets both | no points from nowhere; the ledger replays to the balance |
| Payroll | `payrolls` | generate (button, command), approve, create, edit, delete | sums attendance rows, reads salaries | generation is several statements whose failures are swallowed; regenerating after approval; soft delete under a unique key; the month is cut out of a text | one payroll per text of a month; totals agree with columns; an approval is not overrun; who is counted is served |
| Permissions | permissions, `user_permissions` | grant, revoke, bulk grant, expiry | gates, policies, pages | implication, expiry, two pieces of code that read the table | both readings agree; revoking only takes; a bulk grant grants |
| Leaves | `leave_requests`, `leaves` | request, approve, reject | two panels, two tables | double decision | one decision per request |
| Analytics, alerts, snapshots | `loss_alerts`, `analytics_snapshots` | daily run | scheduler, dashboard | concurrent runs; counts that overlap; the run counts twice | every absence has its cause; alerts say what the snapshot says |
| Streaks | cache | calculate, read through the cache | attendance rows, leaves, holidays | cache never invalidated; three queries | equals its definition; a wrong one is gone in ten minutes |
| Settings and report caches | cache, `settings` | read through, write and clear | everything | refill with an old value | a reader eventually sees the last write |
| Telemetry | sensor readings, anomalies | ingest, daily statistics | attendance rows | thresholds, deduplication | – |
| Formula engines | – | substitute, tokenize, convert, evaluate | report formulas | grammar, signs, division by zero | equals the usual arithmetic |
| Messaging, circulars, whistleblower, reminders, documents, holidays | own tables | single inserts and flags | widgets | one `is_read` flag for a group | – |
| Deployment and demo tools, widgets, pages | – | maintenance, presentation | – | – | – |

`PROJECT.json` lists every component with its status, and every hazard with
the line where it bites and the properties that cover it.

## 2. What is modelled

### AttendanceRules (pure)

The arithmetic of one row: `Evaluate` (`AttendanceLog::evaluateAttendance`),
`Financials` (`calculateFinancials`), `CheckedOut` and `Excuse` (the bodies in
`AttendanceService`), `Recalculated` (one iteration of the recalculation),
shift lengths, the rate per minute, and `SaveTo`: Eloquent's `save()` writes
the columns that differ from what was loaded, and no others.

Rounding is exact on integers: salaries in 1/100 SAR, rates in 1/10000 SAR per
minute, costs in 1/100 SAR, rounded half up at the code's two places.
`diffInMinutes` is signed and truncates, so times are in ticks of which
`PerMinute` make a minute; a log can then be late by less than a minute.

### Attendance (state machine)

| Variable | Stands for |
|---|---|
| `logs`, `nextId` | `attendance_logs` and its auto-increment |
| `fresh[p]` | a model process `p` has built and not yet inserted |
| `held[p]`, `pending[p]` | the rows `p` loaded, and the same models with its assignments |
| `jobs`, `running` | the `jobs` table with attempts and reservations; what each worker runs |
| `branch`, `shift`, `exception`, `salary` | the settings in force |
| `day`, `time` | the clock |
| `handled`, `overlapped`, `reclocked`, `changes` | history and a bound, see the module |

Requests and jobs take several steps because no code path opens a transaction:

| Action | Code |
|---|---|
| `CheckIn`, then `StoreLog` or `StoreFails` | `AttendanceService::checkIn`: refuse outside the fence, resolve exception, shift, branch; evaluate, excuse, price; insert under the unique index |
| `SelfCheckIn`, then `StoreLog` or `StoreFails` | `CreateAttendance` of the employees' panel: date and time of when the page was opened, no evaluation, no rate |
| `CheckOut`, then `Save` | `AttendanceService::checkOut`: load today's log, compute, save dirty columns |
| `QueueCheckIn`, `RunCheckIn` or `TurnAway`, `StoreLog`/`StoreFails`, `Finish` | `queueCheckIn` and `ProcessAttendanceJob`: its early returns, and its `catch (\Exception)` that ends the job as if it were done |
| `RequestRecalculation`, `RunRecalculation`, `Save`*, `Finish` | the two buttons, the monthly schedule and `RecalculateMonthlyAttendanceJob`: all rows loaded first, each saved on its own |
| `Kill`, `Lapse`, `GiveUp` | a process dies; `retry_after` passes; `$tries` are used up |
| `ChangeBranch`, `AssignShift`, `ChangeException`, `ChangeSalary`, `EnterLog`, `EditLog`, `DeleteLog` | administrators' screens |
| `Tick`, `NextDay` | the clock |

A recalculation can be delivered to the second worker while the first still
runs it (`Lapse` needs no dead worker then), since its timeout of 300 s exceeds
`retry_after` = 90 s; a check-in job (30 s) cannot.

Abstractions, each with its reason:

- one branch, to which everybody belongs: branches never meet in a row;
- times of day are relative to the log's own date; a panel log submitted on a
  later day has a check-in beyond `DayLength`, as in the code. An administrator's
  entry uses times of the log's own date;
- the `fence` verdict is an input; distances and coordinates are left out;
- dates of exceptions and shifts are folded into `ChangeException` and
  `AssignShift`;
- a form an administrator opened earlier is covered by arbitrary form values:
  the page writes what the form holds, whatever the row holds by then;
- a negative `worked_minutes` is refused by the unsigned column (MySQL strict
  mode), so the request fails before its save;
- the NULL fallbacks of the branch's hours are left out: the columns are NOT NULL
  with defaults. Working days and hours of a user are the constant `MonthlyMinutes`;
- a recalculation saves its rows in any order: its query has no ORDER BY;
- `StoreFails` stands for whatever fails between the insert and its answer without
  leaving a row: the unique index, a lost connection, a deadlock. In a job it leaves a
  line in the error log, and so does `TurnAway` (an unknown user or branch, a position
  that cannot be judged, no start of a shift); `noted` keeps of which jobs;
- the audit row, which nothing reads back, and the truncation of all tables by
  the deployment page are left out.

### Payroll (state machine)

| Variable | Stands for |
|---|---|
| `slips`, `nextId` | `payrolls` and its auto-increment; deletions are soft, so rows stay |
| `logs`, `pay`, `active` | what generation reads: attendance rows, salaries, employment status |
| `runs[g]` | a generation: its period, the employees left, the salaries it loaded, the employee in hand, the amounts computed, the row it found, the employees counted as done |
| `approving[a]`, `form[a]` | the row behind an approval request or an open edit form |
| `alone`, `edited`, `mixed`, `exposed` | history: the generations with a row to themselves; ids written by hand, opened by two generations at once (both until a generation that is alone writes the row), approved while a generation had them open |

| Action | Code |
|---|---|
| `Generate` | `ListPayrolls` / `sarh:payroll`: active employees loaded once (a `--branch` subset is a run that stops early) |
| `ReadAttendance` | `Payroll::generateForUser` up to `net_salary`: sums of the month, priced at the salary loaded |
| `FindSlip`, `InsertSlip`, `InsertRefused`, `FindSlip`, `UpdateSlip` | `updateOrCreate` as Laravel 11 runs it: select, insert, on a unique violation select again, save dirty columns; a soft-deleted row is invisible to the selects but not to the index |
| `Swallow`, `Fail` | `catch (\Throwable)` of the loop: any statement fails, before or after its effect, the employee is not counted and the loop goes on |
| `Stop` | the end of the loop, or the death of the process |
| `OpenApproval`, `Approve` | the approve action of `PayrollResource` |
| `OpenForm`, `SubmitForm`, `EnterSlip`, `TrashSlip` | edit, create and (bulk) delete |
| `RecordAttendance`, `ChangePay`, `ChangeStatus` | the attendance engine and the user form, as far as payroll reads them |

A period is a text, and `generateForUser` cuts year and month out of it by `substr`; the
unique index is over the text. The model's period is therefore a month and a spelling: two
spellings of one month (`2025-06` and `2025-6` or `2025-06-01`, which form and `--period` accept) are
two periods for the index and one month for the sums.

Money is in 1/100 SAR. The four components of a salary are two, basic and rest;
the day counts of a payslip, `notes` and the branch are left out; `bonuses`
stands for every amount a form lets one type, and `gross`, `total` and `net`
are disabled there. Working days are the constant `WorkingDays`. A log of
attendance is any value the engine can store, not composed with `Attendance`.

### DailyLog (abstract) and AttendanceDaily (refinement)

`DailyLog` is what the engine promises, without requests, queue, retries or
models in memory: a sheet of entries, one for a user and a day, each with an
arrival and perhaps a departure. `Arrive` opens an entry of today or an earlier
day, `Leave` gives it a departure, `Correct` is one administrator's step and
touches at most one entry, `NextDay` is the calendar.

`AttendanceDaily` instantiates it: `sheet` is `Sheet`, the `EntryOf` every row
of `attendance_logs`, `today` is `day`, `corrections` is `changes`. `StoreLog` is then
an arrival, the `Save` of a check-out a departure, `EnterLog`, `EditLog` and
`DeleteLog` corrections; everything else, the saves of a recalculation above all,
is a stutter.

### FormulaGrammar (pure) and FormulaEngine (state machine)

`FormulaGrammar` says, apart from any engine, which sequences of symbols are
expressions and what they are worth (`Meaning`, a recursive function over a level of
precedence and the two ends of a part). `FormulaEngine` is `SafeFormulaEngine`:

| Action | Code |
|---|---|
| `Read` | `evaluate` up to the conversion: length, substitution, characters, `checkParentheses`, `tokenize` |
| `ConvertNumber`, `PopOperator`, `PushOperator`, `OpenParen`, `PopToParen`, `CloseParen`, `Drain`, `Converted` | one turn of a loop of `toRPN` |
| `PushNumber`, `Negate`, `Combine`, `Return` | one turn of `evaluateRPN`; `Return` rounds |

Symbols are strings, so the characters inside a numeral, white space and
values that PHP prints with an exponent (the engine refuses the letter) are
left out; `MaxLength` counts symbols. Numbers are exact fractions where PHP has
floats. A `%` by zero is PHP's own `DivisionByZeroError`, which
`ReportFormula::evaluate` catches with the rest. The engine also accepts some
sequences that are no expressions (`2 3 +`); no property asks that it refuse
them, only that an expression has its value. `validate` runs the same
loops with every variable at 1.0, so it calls a formula that divides by the
difference of two variables invalid; it is not an action of its own.

### Permissions (state machine)

| Action | Code |
|---|---|
| `AddRow`, `EditRow`, `DeleteRow` | the relation manager's create, edit and delete; `unique(user_id, permission_id)` |
| `BulkGrant`, then `Look` and `Create`, `Update` or `Conflict` for each permission | the `bulk_grant` action: `exists()`, then an insert or an update of a revocation; an insert the index refuses ends the loop |
| `ChangeLevel` | `setSecurityLevel`, `promoteToSuperAdmin`: the bypass |
| `Tick` | the clock that `expires_at` is compared with |

`HasPermission` and `EffectivePermissions` are the two readings, with the whole of
`$permissionImplies`. A request loads the active rows once, so each of its
answers is that of one state. Roles carry no permissions in either reading.
`granted`, `broken` and `disturbed` are history.

### Staff, PointsLedger, UserShifts, Deployment (state machines)

| Action | Code |
|---|---|
| `GrantBadge`, `ReadUser`, `SaveUser`, `Book` | `UserBadge::award`: the badge, the read, the save of the balance, the ledger row and its event |
| `LoadRecord`, `AdjustPoints` | the `adjust_points` action: the balance of the record loaded before is saved; the ledger row names keys that are not fillable and is always refused |
| `KillClerk`, `KillSwitch`, `KillPage` | a request dies between two statements |
| `LoadAssignment`, `ClearOthers`, `SetCurrent` | `UserShift::makeCurrent`; a model that is current in memory saves nothing |
| `LoadAssignment`, `Terminate` | `UserShift::terminate` |
| `OpenPage`, `Truncate`, `Zero` | `resetAllRecords`: the ledger, then the balances of all but super administrators |
| `DetachNext`, `SeekStandard`, `AttachStandard`, `ShiftsDone` | `applyStandardShift` for one employee after the other: an update, then the two statements of `updateOrInsert` |

`Deployment` composes the two ledgers with the page (`runFullDeploymentReset` runs both
parts). In this repository `award`, `makeCurrent` and `terminate` are called by tests
only; the model has them at any time, as their public interface allows. History: `opening` and `worth` say what a balance
should come to, `astray` that two writers met on a balance or one died, `carried` that a
balance from before a reset was written after it; `crossed` and `chosen` do the same
for assignments. `over` folds the dates of an assignment. The standard shift that
`applyStandardShift` attaches is taken to exist: `shifts.name_ar` is not unique, so the first two
requests of an installation might each create one, which no property here depends on.

### WorkDays, DailyAnalysis, Streaks, LeaveDesk, Absences (state machines)

`WorkDays` has what the other three read of a branch: logs, leaves, holidays, who
is active, and the calendar, each of which changes at any time.

| Action | Code |
|---|---|
| `StartRun`, `CheckDay`, `ReadLogs`, `ReadStaff`, `ReadLeaves`, `CountActive` | `runFullAnalysis` and the queries of `calculateTotalLoss`; `CountActive` is the caller's own count |
| `FindSnapshot`, `WriteSnapshot` | `updateOrCreate` of the daily snapshot: select, then the insert or the columns that differ (`Saved`) |
| `RaiseLow`, `RaiseLate` | `checkAndTriggerAlerts`, after a second pass of the counts |
| `Miss`, `QueryLogs`, `QueryLeaves`, `Store` | `calculateCached`: the expiry, the queries, the loop (`Streak`), the entry |
| `Submit`, `Delete`, `LoadPending`, `Approve`, `Reject`, `OpenForm`, `SaveForm`, `CloseDesk` | `CreateLeave` and `LeaveRequestResource`: the record is loaded and its status checked before the closure writes |
| `KillRun`, `KillView` | a process dies |

What the code does and the model keeps: "present" counts logs of any status; the
`leaves` table is written nowhere in the application, and `leave_requests`, which are
decided here, are read by neither the analysis nor the streaks; on a day off the
figures are zero and the low attendance alert is raised; a rerun raises its
alerts again; `StreakService::invalidate` has no caller, so an entry lives for its
ten minutes. What it leaves out: money (the figures times a cost), the threshold alert,
which depends on it, and the statistical patterns. `run[r].still` (nothing was
changed under the run), `run[r].moved` (of whom something was, since it began to count), `changedAt`, `decisions` and `tangled` are history.

## 3. Runs

All runs say `CHECK_DEADLOCK FALSE`: the calendar, the ids, the jobs, the requests
and the administrators' steps are bounded, so that behaviours end where a bound
does, and a formula ends with its value. `MCAttendance` gives the
constants their values: a minute is two ticks, salaries give rates near 0.76
and 1.14 SAR a minute, the two times of day are before and after a check-out.

| Run | Bounds | Shows |
|---|---|---|
| `races` | 1 employee, 2 requests, 2 workers, 1 recalculation with 2 attempts, 2 sets of hours, 1 change | `CostsCoherent`, `LatenessCoherent`, `WorkTimeCoherent`, `RateFrozen`, `CheckOutKept` |
| `settings` | 2 days, 2 logs, a night shift, an exception, two salaries, 1 job, 1 administrator step (a setting, an absence entered or edited in by hand, a deletion) | `TypeOK`, `LatenessCoherent`, `OneLogPerDay`, `CostsCoherent` |
| `queue` | 2 workers, 2 days, 1 job with 2 attempts, fairness | `QueuedCheckInSettled`, `ImplementsDailyLog` |
| `payroll_races` | 1 employee, 2 months of a day under 3 texts, 3 generations by 2 processes, 1 approver, 2 salaries, 2 rows, 2 other steps | `TypeOK`, `OneSlipPerPeriod`, `SlipAddsUp`, `ApprovalNotOverrun`, `ApprovedAmountsStand`, `CountedIsServed` |
| `formula` | every sequence of up to 4 of 11 symbols; expressions of 5 and 7 over 2 operands, signs, brackets and 3 operators; nesting at and over its limit | `TypeOK`, `ValueIsArithmetic`, `StackSorted`, `ParenthesesSettled` |
| `permissions` | 3 permissions, two of which imply others, 2 bulk grants, 2 instants, 3 changes | `TypeOK`, `ReadingsAgree`, `ImpliedToTheEnd`, `BulkGrantHolds`, `BulkGrantFinishes`, `RevokingOnlyTakes` |
| `deployment` | 2 employees and a super administrator, 2 clerks, 2 requests of the page, 1 other manager, 4 requests | `TypeOK`, `NoPointsFromNowhere`, `LedgerReplays`, `OneCurrent`, `SwitchTakesEffect` |
| `absences` | 2 employees, 4 days with a weekend, 2 runs, 2 viewers, 1 leave request on 2 desks, 3 acts, entries of 1 tick, a window of 3 days | `TypeOK`, `AbsencesAccountedFor`, `AlertsMatchSnapshot`, `StreakIsRun`, `StaleStreakExpires`, `DecidedOnce` |

Two processes of each kind are enough for every overlap the code can have: a
row is lost or mixed by two writers, and a third only repeats what one of the
two did. One row suffices for the properties about a row's columns, because a
save touches one row; `OneLogPerDay` has two rows and two days. The rates
are 0 (a panel's log before its first recalculation) and those of the salaries.

What the properties say, and what they do not:

- **`CostsCoherent`, `LatenessCoherent`** hold for rows no administrator has
  touched and no two processes ever had open at once. Both restrictions are
  needed: `early_cost` shows the code without the second.
- **`WorkTimeCoherent`** needs less: recalculations may overlap with anything,
  only two simultaneous check-outs (and forms) are excluded.
- **`CheckOutKept`**: no recalculation that loaded a row before its check-out
  erases it. This rests on Eloquent saving dirty columns only.
- **`RateFrozen`**: only a recalculation replaces the rate.
- **`ImplementsDailyLog`**: `DailyLog`'s specification under the mapping of section 2.
- **`QueuedCheckInSettled`** (leadsto): no queued check-in vanishes. In the end there is
  a log of that day or later (the job takes its own clock), or the job is among the failed
  ones, or it has left a line in the error log. More the code does not give: a job that is turned
  away, or whose save fails, ends as if it were done, and nobody sees it but in that line.
- **`OneSlipPerPeriod`** is about the text, as the index is, and counts the deleted
  rows, as the index does. Of one month there may be two payrolls under two texts.
- **`SlipAddsUp`**: with a salary change between two generations that have a row open at
  once, each saves the columns that differ from what it found, and the total may
  belong to neither. Those rows are `mixed` until a generation has the row to itself
  again, which puts every column right although it writes only those that differ.
- **`ApprovalNotOverrun`, `ApprovedAmountsStand`**: regenerating a payroll found
  approved makes it a draft with the same save that replaces its amounts. A
  generation overtaken by the approval leaves the status alone (it is not dirty)
  but not the amounts; those rows are `exposed`.
- **`CountedIsServed`**: the loops swallow whatever fails, so an employee may be left
  without a payroll; but one that is counted has it, under the text of the generation and
  with the amounts it computed. The converse is false: a row may be written and its
  answer lost. A payroll in the bin counts, because the code cannot generate another then.

In `payroll_races` one employee is enough: generations meet in a row, and the
loop passes on with an empty hand (`Advance`); the second row is for another
month or the refused duplicate. A third process would only repeat one of the two.

Points, shifts, permissions and days:

- **`NoPointsFromNowhere`**: a race of two awards loses points, and never makes any;
  the exception is a balance carried over a reset.
- **`LedgerReplays`** holds until two writers meet, one dies or somebody adjusts by
  hand, and again after a clean reset: three of the four hazards of the ledger are the
  ways out of it.
- **`OneCurrent`, `SwitchTakesEffect`**: the next switch that is alone with a user mends
  what two overlapping ones left, because it clears every other mark.
- **`ReadingsAgree`, `ImpliedToTheEnd`**: two pieces of code and a table spelled out
  by hand. They take the table as it is written; that it lacks an entry a test of the
  repository expects is what `rbac_test` shows; **`RevokingOnlyTakes`** is about steps.
- **`BulkGrantHolds`**: an expired grant found by `exists()` keeps its expiry and is not
  in force, hence its third conjunct.
- **`AbsencesAccountedFor`**: log, leave and staff are counted apart. They may overlap, and
  people check in, go on leave or leave between the queries, so that somebody who
  came may be charged; but every absence is somebody who is missing or somebody who moved
  while the run was counting, one for each. This holds of every run, disturbed or not.
- **`AlertsMatchSnapshot`**: without changes under a run, though a second run writes
  the same row.
- **`StreakIsRun`** compares the loop with a definition that has no loop.
- **`StaleStreakExpires`** bounds the staleness by the change that caused it.
- **`DecidedOnce`** is what the pending check buys; two screens or a form void it.

Four requests are enough in `deployment` for two writers, a reset and a fourth that
mends or reads; three acts in `absences` for two processes and a change under both;
two permissions implying a third, and two bulk grants over them, give every order of
an `exists()` and a write. In `formula`, four symbols hold every neighbourhood a token
is classified by, and seven hold three operators with a bracket or a sign.

Four runs refute what the repository says of itself (details in `PROJECT.json`):

| Run | Claim | Why it fails |
|---|---|---|
| `exempt` | an exempt employee is never late | the queued path ignores exceptions |
| `early_cost` | `early_leave_cost` = minutes × rate | a check-out prices at the rate 0 of a panel's log, while a recalculation that loaded the log before that save gives it its rate; no salary changes |
| `payroll_rerun` | `sarh:payroll` is idempotent | a rerun makes an approved payroll a draft |
| `rbac_test` | `attendance.manage` implies `attendance.view_own` (TC-RBAC-005) | the map has no entry for it |

**Fairness** (`FairSpec`): each worker is weakly fair, because supervisord
restarts it (`autorestart=true`, README_PROD.md) and `queue:work` loops; a
reservation of a dead worker eventually lapses, because `retry_after` is a time.
Requests, administrators, crashes and the calendar have no fairness.

## 4. Proofs

Every safety property of the passing runs, invariant or action property, is a theorem
for every value of the constants. Seven modules prove them, two on attendance and one on
each of the rest, and `Induction` has what they share. There is no assumption beyond the
ones named in the models (`UnitsAssumption`, `SizesAssumption`, `PayrollAssumption`,
`PermissionsAssumption`, `PointsAssumption`, `ShiftsAssumption`, `WorkDaysAssumption` and the
like): at least one tick per minute, settings and bounds of the right type, requests and
workers disjoint, a finite staff, users who start with one current shift at most, NULL not
a value. TLC evaluates each of them.

1. `Induction`: induction and recursion without operator parameters. A statement about
   numbers is given as the set of those it holds of (`Induction`), and follows from
   `NatLessThanWellFounded` of the library. `Iteration`: a step makes a function on the
   numbers. **`Recursion`**: a recursive definition whose calls go down a measure has a
   solution. TLA+ defines a recursive function by `CHOOSE`, so nothing can be said of its
   values before a solution is known to exist. Sums over a month, the loop of a streak
   and the meaning of a formula are opened with it.
2. `AttendanceProofs`: **`TypeCorrect`**. One lemma per rule, then one per action.
   The arithmetic shows that no count of minutes turns negative whatever hours,
   grace, salary and clock times are chosen. **`OneLogADay`**, **`CheckOutsKept`**,
   **`RatesFrozen`**: the last two need to know what processes hold in memory. `MemoryInv`
   says that a worker's models have clean clock columns (so its save cannot name them),
   that a request's models have a clean rate, a check-out set and the same check-in, and
   that nobody holds a row that does not exist yet. `OneLogPerDay` alone is
   inductive, because every write of owner or date goes past the unique index.
3. `AttendanceLogProofs`: **`WorkTimeCorrect`**, **`CostsCorrect`**,
   **`LatenessCorrect`**. A row's columns are written by `Save` from a copy loaded
   earlier, so their agreement is not inductive alone. `ClockInv` adds that a
   check-out in flight has seen the clock columns the table still has, and that it
   is the only one; `CostInv` adds that who has an undisturbed row open sees it as
   the table has it, will leave it coherent, and is the only one. Recalculations
   may come and go under `ClockInv` because of `MemoryInv`.
   **`DailyLogImplemented`**, `Spec => ImplementsDailyLog`: `FreshInv` says that a log not
   yet inserted is of today or earlier and without a check-out; with `OneLogPerDay` and
   `MemoryInv` each action is sorted by what it does to the table (`StepKinds`: an insert,
   one save, a correction, or nothing), and each kind is mapped. A save maps to `Leave` or
   a stutter because its row is the only one of its entry.
4. `PayrollProofs`: **`OneSlip`**, **`ApprovalsNotOverrun`**, **`ApprovedStand`**,
   **`SlipsAddUp`**, **`CountedAreServed`**. All rest on `Shape`: the table has no holes,
   values have their columns, and whoever holds an id holds that of an existing
   row. `AloneInv` says what a generation that is `alone` may rely on: no other has its row,
   and the row still has the amounts, owner and period it found, so that its save stores
   all of its own. `SlipsAddUp` needs `TotalsInv` besides: what a generation has computed adds
   up, and an open row whose generation is not alone is marked `edited` or `mixed`.
   `ApprovedStand` needs `Overtaken` (a row decided since a generation found it a draft is
   exposed, or edited behind its back), `CountedAreServed` only `AloneInv`.
   **`PayrollsTyped`**: the sum of a column over a
   finite set of attendance rows, a fold in any order, is a natural number
   (`SumIsNumber`), so every amount computed from them is an integer.
5. `PermissionsProofs`: **`PermissionsTyped`**, **`ReadingsAlwaysAgree`**, **`RevokingTakes`**,
   **`ImplicationComplete`** (over the map, for any set of permissions), **`BulkGrantsHold`** and
   **`BulkGrantsFinish`**. The last two rest on `LookInv` (what `exists()` answered is still
   so, or the row is disturbed) and `GrantInv`.
6. `DeploymentProofs`: **`PointsComeFromSomewhere`**, **`LedgerCanBeReplayed`**, **`OneCurrentKept`**,
   **`SwitchesTakeEffect`**, **`DeploymentTyped`**. `ReadInv` bounds a balance read earlier by
   what its user is worth unless it is stale; `ReplayInv` splits the ledger into a chain
   of rows and its last balance; `ShiftsInv` (`GoodUser`, `GoodSwitch`) says what a switch
   alone with its user may rely on between its two updates.
7. `AbsencesProofs`: **`RequestsDecidedOnce`**, **`WrongStreaksExpire`**,
   **`AbsencesAreAccountedFor`**, **`AlertsAgreeWithSnapshots`**. `DeskInv`: a desk nobody
   overtook has a pending request. `StreakInv`: what a request is about to store is
   what the queries would find now, or expires in time; the streak itself stays a
   black box there, the same for the same arguments. `RunsInv` (`GoodRun`): the part of the
   figures an undisturbed run has come to is that of `TrueFig`. `CountsInv` (`GoodCount`) is about
   every run: of those who have not moved since it began to count, it has counted the logs
   there are, and its staff are the active ones. From it `DifferenceBounded` bounds
   a difference of three counts, with the library's theorems on finite sets: a leave
   injects into the pairs that are counted, and active employees have moved, or are
   missing, or absent with leave, or came.
   **`StreaksAreRuns`** opens the black box: the backward loop has a solution
   (`LoopDefined`), and day by day it counts the attended working days of the run that
   ends there, inside the window (`LoopCounts`). With it **`AbsencesTyped`**.
8. `FormulaProofs`, the largest: what the engine returns is what the formula means,
   however long it is.
   - *The grammar.* `Meaning` is a recursive function of a level and two ends; `Reads` says
     of a table what its defining equation says, and `Recursion` gives one. What can be
     read has a form (`Formed`: operands and operators take turns, its parentheses close in
     it, and outside them no operator is of a lower level), and a part of that form can be
     split in one way only: at its last operator of its level outside parentheses.
     Hence **`MeaningIsUnique`**: an expression has one value, whatever the formula.
   - *The text.* A symbol prints as one or, for a negative value, two symbols, each in its
     place (`Printing`); the printed text reads as the same value as the formula, and an
     expression passes the checks.
   - *The stack.* `Shape` says what each stage has settled. **`FormulasTyped`**.
     **`OperatorsSorted`**: `StackSorted` is inductive with it, because an operator is
     pushed only after all that it yields to are gone. **`ParenthesesAgree`**: the depth at
     a token changes with the parentheses on the stack, and the text passed the check.
   - *The values.* `Evaluates` describes a run of `evaluateRPN` over a postfix output, apart
     from the machine. `Converting` is the invariant of the conversion: the operators that
     wait on the stack split the text read so far into parts, and the output leaves on the
     evaluation stack the value of each part, in order (`Laid`, `Rung`); what comes next is
     an operand, or an operator that the last part may be given to (`Awaited`, `Held`). When the last
     operator is popped one value is left, the formula's. `Valued` joins it with the
     evaluation, where the stack is that of `Evaluates` at the token read.
     **`FormulasMean`**, `Spec => []ValueIsArithmetic`.
   - *The steps.* **`StepsRunOut`**: every step takes from `StepsLeft`, a natural number that
     starts at three per symbol of the text plus four.

Only model-checked, and why:

- `QueuedCheckInSettled`: liveness under fairness, which needs `ENABLED`;
- the four refutations.

## 5. Plan

Done, in this order: attendance and its proofs; payroll and its proofs; the daily
log and its refinement; formulas; permissions; points, shifts and the deployment
page; analysis, streaks and leaves; the proofs on each of them; induction over data, with
the types, the streaks and the formulas it opens.

Left:

1. the composition of `Payroll` with `Attendance`, so that payslips sum rows that
   recalculations still change and the monthly job's wrong month shows. The product of
   the two state spaces is beyond the bounds that make either interesting; it wants
   `DailyLog` extended by a price, to stand for the engine;
2. what `DailyLog` itself promises of its sheet, as theorems of the abstract specification
   that the engine then inherits;
3. `Settings` on the cache of `Streaks`, once a property of the settings can be named.

## 6. Not modelled

- **Telemetry and anomalies**: floating-point windows over sensor readings, inserted one
  by one; nothing TLC can evaluate decides anything there.
- **Messaging, circulars, whistleblower, reminders, documents, holidays' own pages**:
  single inserts and flags without an order to get wrong. `SendCircularJob` does not
  parse in this commit and nothing dispatches it.
- **Settings and report caches**: one cached row, cleared after each save; the window
  of a refill with an old value is that of `Streaks`.
- **Score adjustments and competition, widgets, panels, demo data, installer**: sums for
  display and generated data.
- **Audit row of a check-in**: nothing reads it back.
- **Floating point** wherever it decides (haversine distance, money of the analysis): the
  models take the verdict as an input or leave the figure out.
- **JavaScript**: the repository's `.js` files are the minified assets that Filament
  publishes (`public/js/filament`), the build's output (`public/build`), and the
  configuration of Vite, Tailwind and PostCSS; `resources/js` imports axios. The program is
  PHP, and no JavaScript of its own has state or control to model.
