----------------------------- MODULE Attendance -----------------------------
(***************************************************************************)
(* The attendance engine: the attendance_logs table, the requests and      *)
(* queue jobs that write it, and the settings they read.                   *)
(*                                                                         *)
(* No code path opens a database transaction, so a request and a job are   *)
(* each split where they touch the database: rows are loaded in one step   *)
(* and every row is saved in a step of its own.  Between the two other     *)
(* requests, the two queue workers and the administrators take steps.      *)
(*                                                                         *)
(* One branch is modelled, to which every user belongs.                    *)
(***************************************************************************)
EXTENDS AttendanceRules, FiniteSets

CONSTANTS
  Users, Level10,          \* employees, and those the bypass-geofence gate lets through
  Web, Workers,            \* request processes, and queue:work processes
  MaxLogs, MaxJobs,        \* bounds on rows and jobs ever created
  Tries,                   \* $tries of both jobs
  MaxDay, DaysPerMonth,    \* bound on the calendar
  Times,                   \* times of day at which something happens
  Branches, Shifts,        \* settings an administrator chooses from
  Exceptions, Salaries,
  Forms,                   \* what an administrator types into the log form
  MaxChanges,              \* bound on administrator steps
  MonthlyMinutes           \* working_days_per_month * working_hours_per_day * 60

LogIds == 1..MaxLogs
JobIds == 1..MaxJobs
Days   == 0..MaxDay
Procs  == Web \cup Workers

ASSUME SizesAssumption ==
  /\ MaxLogs \in Nat /\ MaxJobs \in Nat /\ Tries \in Nat /\ MaxDay \in Nat
  /\ MaxChanges \in Nat /\ MonthlyMinutes \in Int
  /\ DaysPerMonth \in Nat \ {0}
  /\ Times \subseteq Nat /\ Times # {}
  /\ Level10 \subseteq Users
  /\ Web \cap Workers = {}

Statuses == {"present", "late", "absent", "on_leave", "holiday", "remote", "half_day"}
BranchType == [start : Nat, end : Nat, grace : Nat]
ShiftType  == [start : Nat, end : Nat, grace : Nat, overnight : BOOLEAN]
\* custom_shift_start and custom_grace_minutes may be NULL.
ExceptionType == [start : Nat \cup {None}, grace : Nat \cup {None},
                  fence : BOOLEAN, late : BOOLEAN]
FormType == [in : Times \cup {None}, out : Times \cup {None}, status : Statuses,
             delay : Nat, over : Nat]

ASSUME SettingsAssumption ==
  /\ Branches \subseteq BranchType /\ Branches # {}
  /\ Shifts \subseteq ShiftType
  /\ Exceptions \subseteq ExceptionType
  /\ Salaries \subseteq Nat /\ Salaries # {}
  /\ Forms \subseteq FormType

\* A check-in is a time of the log's own date, beyond DayLength when it was
\* submitted on a later one.
Row == [user : Users, date : Days, in : Nat \cup {None}, out : Times \cup {None},
        fence : BOOLEAN, status : Statuses,
        delay : Nat, early : Nat, over : Nat, worked : Nat,
        rate : Nat, delayCost : Nat, earlyCost : Nat, overVal : Nat]

Job == [kind : {"checkin", "recalc"}, scope : SUBSET Users, inside : BOOLEAN,
        attempts : 0..Tries, state : {"queued", "reserved", "done", "failed"}]

ASSUME NoneAssumption == None \notin Row \cup Job /\ None \notin Nat

VARIABLES
  logs, nextId,                           \* attendance_logs and its auto-increment
  fresh, held, pending,                   \* memory of the processes
  jobs, running,                          \* the jobs table, and what each worker runs
  branch, shift, exception, salary,       \* settings
  day, time,
  changes,                                \* administrator steps taken
  handled, overlapped, reclocked, noted   \* history, see below

(***************************************************************************)
(* fresh[p] is the new model p is about to insert; held[p][i] is row i as  *)
(* p loaded it and pending[p][i] the same model with p's assignments.      *)
(*                                                                         *)
(* History: handled are the ids an administrator entered, edited or        *)
(* deleted; overlapped those for which two processes were, at some time,   *)
(* both between their load and their save; reclocked those for which two   *)
(* check-out requests were; noted are the jobs that wrote an error line.   *)
(***************************************************************************)
table    == <<logs, nextId>>
memory   == <<fresh, held, pending>>
queue    == <<jobs, running>>
settings == <<branch, shift, exception, salary>>
clock    == <<day, time>>
history  == <<handled, overlapped, reclocked, noted>>
vars     == <<table, memory, queue, settings, clock, changes, history>>

TableOK == /\ logs \in [LogIds -> Row \cup {None}]
           /\ nextId \in 1..(MaxLogs + 1)

MemoryOK == /\ fresh \in [Procs -> Row \cup {None}]
            /\ held \in [Procs -> [LogIds -> Row \cup {None}]]
            /\ pending \in [Procs -> [LogIds -> Row \cup {None}]]
            /\ \A p \in Procs, i \in LogIds : held[p][i] # None => pending[p][i] # None

QueueOK == /\ jobs \in [JobIds -> Job \cup {None}]
           /\ running \in [Workers -> JobIds \cup {None}]
           /\ \A w \in Workers : running[w] # None => jobs[running[w]] # None

SettingsOK == /\ branch \in Branches
              /\ shift \in [Users -> Shifts \cup {None}]
              /\ exception \in [Users -> Exceptions \cup {None}]
              /\ salary \in [Users -> Salaries]

ClockOK == day \in Days /\ time \in Times /\ changes \in 0..MaxChanges

HistoryOK == handled \subseteq LogIds /\ overlapped \subseteq LogIds
             /\ reclocked \subseteq overlapped /\ noted \subseteq JobIds

TypeOK == TableOK /\ MemoryOK /\ QueueOK /\ SettingsOK /\ ClockOK /\ HistoryOK

NoRows == [i \in LogIds |-> None]

Init ==
  /\ logs = NoRows /\ nextId = 1
  /\ fresh = [p \in Procs |-> None]
  /\ held = [p \in Procs |-> NoRows] /\ pending = [p \in Procs |-> NoRows]
  /\ jobs = [j \in JobIds |-> None] /\ running = [w \in Workers |-> None]
  /\ SettingsOK
  /\ day = 0 /\ time \in Times
  /\ changes = 0
  /\ handled = {} /\ overlapped = {} /\ reclocked = {} /\ noted = {}

-----------------------------------------------------------------------------
(* Reading the settings. *)

Rate(u) == CostPerMinute(salary[u], MonthlyMinutes)

Expected(u) == IF shift[u] # None THEN ShiftMinutes(shift[u])
                                  ELSE BranchShiftMinutes(branch)

\* The user's own shift, else the branch's: what ProcessAttendanceJob uses.
ShiftStart(u) == IF shift[u] # None THEN shift[u].start ELSE branch.start
Grace(u)      == IF shift[u] # None THEN shift[u].grace ELSE branch.grace

\* A model filled by the constructor: the database's defaults elsewhere.
NewLog(u, fence) ==
  [user |-> u, date |-> day, in |-> time, out |-> None, fence |-> fence,
   status |-> "present", delay |-> 0, early |-> 0, over |-> 0, worked |-> 0,
   rate |-> 0, delayCost |-> 0, earlyCost |-> 0, overVal |-> 0]

LogsOf(u, d) == {i \in LogIds : logs[i] # None /\ logs[i].user = u /\ logs[i].date = d}

Month(d) == d \div DaysPerMonth

Idle(p) == fresh[p] = None /\ held[p] = NoRows

-----------------------------------------------------------------------------
(* The steps between a process and the table. *)

\* Rows S enter p's memory, with the values p will assign.
Load(p, S, target) ==
  /\ held' = [held EXCEPT ![p] = [i \in LogIds |-> IF i \in S THEN logs[i] ELSE None]]
  /\ pending' = [pending EXCEPT ![p] = [i \in LogIds |-> IF i \in S THEN target[i] ELSE None]]
  /\ overlapped' = overlapped \cup
       {i \in S : \E q \in Procs \ {p} : held[q][i] # None}
  /\ reclocked' = reclocked \cup
       {i \in S : p \in Web /\ \E q \in Web \ {p} : held[q][i] # None}

\* UPDATE ... WHERE id = i: nothing happens when the row is gone.
Save(p, i) ==
  /\ held[p][i] # None
  /\ logs' = IF logs[i] = None THEN logs
             ELSE [logs EXCEPT ![i] = SaveTo(logs[i], held[p][i], pending[p][i])]
  /\ held' = [held EXCEPT ![p][i] = None]
  /\ pending' = [pending EXCEPT ![p][i] = None]
  /\ UNCHANGED <<nextId, fresh, queue, settings, clock, changes, history>>

\* Mutant: no unique index.
UncheckedInsert(row) ==
  /\ nextId \in LogIds
  /\ logs' = [logs EXCEPT ![nextId] = row]
  /\ nextId' = nextId + 1

\* INSERT under unique(user_id, attendance_date).
Insert(row) ==
  /\ LogsOf(row.user, row.date) = {}
  /\ nextId \in LogIds
  /\ logs' = [logs EXCEPT ![nextId] = row]
  /\ nextId' = nextId + 1

StoreLog(p) ==
  /\ fresh[p] # None
  /\ Insert(fresh[p])
  /\ fresh' = [fresh EXCEPT ![p] = None]
  /\ UNCHANGED <<held, pending, queue, settings, clock, changes, history>>

\* What p runs is noted in the error log.
Note(p) == noted' = noted \cup {j \in JobIds : p \in Workers /\ running[p] = j}

\* The row is not stored: the index refuses it, or whatever else can fail on
\* the way does.  A 500 for a request; the job catches it, writes a line and
\* ends as if it were done, without another try.
StoreFails(p) ==
  /\ fresh[p] # None
  /\ fresh' = [fresh EXCEPT ![p] = None]
  /\ Note(p)
  /\ UNCHANGED <<table, held, pending, queue, settings, clock, changes,
                 handled, overlapped, reclocked>>

-----------------------------------------------------------------------------
(* Employees' requests. *)

\* AttendanceService::checkIn up to its save.
CheckIn(p, u, inside) ==
  LET exc    == exception[u]
      fence  == inside \/ u \in Level10 \/ (exc # None /\ exc.fence)
      start  == IF exc = None THEN ShiftStart(u) ELSE Coalesce(exc.start, ShiftStart(u))
      grace  == IF exc = None THEN Grace(u) ELSE Coalesce(exc.grace, Grace(u))
      judged == Evaluate(NewLog(u, fence), start, grace)
  IN  /\ Idle(p)
      /\ fence
      /\ fresh' = [fresh EXCEPT ![p] =
           Financials(IF exc # None /\ exc.late THEN Excuse(judged) ELSE judged, Rate(u))]
      /\ UNCHANGED <<table, held, pending, queue, settings, clock, changes, history>>

\* CreateAttendance of the employees' panel.  The page proposed date d and
\* time t, in whole minutes, when it was opened; the submission keeps both,
\* but the time is read as one of the day of submission.  No geofence, no
\* evaluation, no rate.
SelfLog(u, d, t) ==
  [NewLog(u, FALSE) EXCEPT !.date = d,
                           !.in   = (t \div PerMinute) * PerMinute + (day - d) * DayLength]

\* Mutant: the proposed date may be changed to a later one.
EagerSelfCheckIn(p, u, d, t) ==
  /\ Idle(p)
  /\ LogsOf(u, d) = {}
  /\ fresh' = [fresh EXCEPT ![p] = SelfLog(u, d, t)]
  /\ UNCHANGED <<table, held, pending, queue, settings, clock, changes, history>>

SelfCheckIn(p, u, d, t) ==
  /\ Idle(p)
  /\ d < day \/ (d = day /\ t <= time)
  /\ LogsOf(u, d) = {}
  /\ fresh' = [fresh EXCEPT ![p] = SelfLog(u, d, t)]
  /\ UNCHANGED <<table, held, pending, queue, settings, clock, changes, history>>

\* Mutant: the check-out calls calculateFinancials, which reads the salary.
ResnappingCheckOut(p, u) ==
  /\ Idle(p)
  /\ \E i \in LogsOf(u, day) :
       /\ logs[i].in # None
       /\ MinutesBetween(logs[i].in, time) >= 0
       /\ Load(p, {i}, [k \in {i} |->
            Financials(CheckedOut(logs[k], time, Expected(u)), Rate(u))])
  /\ UNCHANGED <<table, fresh, queue, settings, clock, changes, handled, noted>>

\* AttendanceService::checkOut up to its save.  A log without a check-in
\* fails on null, a negative worked_minutes on the unsigned column.
CheckOut(p, u) ==
  /\ Idle(p)
  /\ \E i \in LogsOf(u, day) :
       /\ logs[i].in # None
       /\ MinutesBetween(logs[i].in, time) >= 0
       /\ Load(p, {i}, [k \in {i} |-> CheckedOut(logs[k], time, Expected(u))])
  /\ UNCHANGED <<table, fresh, queue, settings, clock, changes, handled, noted>>

-----------------------------------------------------------------------------
(* The queue: Laravel's database driver with two workers. *)

Dispatch(kind, scope, inside) ==
  \E j \in JobIds :
    /\ jobs[j] = None
    /\ \A k \in JobIds : k < j => jobs[k] # None
    /\ jobs' = [jobs EXCEPT ![j] = [kind |-> kind, scope |-> scope, inside |-> inside,
                                    attempts |-> 0, state |-> "queued"]]
    /\ UNCHANGED <<table, memory, running, settings, clock, changes, history>>

QueueCheckIn(u, inside) == Dispatch("checkin", {u}, inside)

\* The button of EditUser, of EditBranch, and the monthly schedule.
RequestRecalculation(scope) == Dispatch("recalc", scope, TRUE)

IsQueued(j) == jobs[j] # None /\ jobs[j].state = "queued"

\* The pop takes the first available job.
FirstQueued(j) == IsQueued(j) /\ \A k \in JobIds : k < j => ~IsQueued(k)

\* Mutant: the job is deleted when it is popped.
ForgetfulReserve(w, j) ==
  /\ running[w] = None
  /\ FirstQueued(j)
  /\ jobs[j].attempts < Tries
  /\ jobs' = [jobs EXCEPT ![j].state = "done", ![j].attempts = @ + 1]
  /\ running' = [running EXCEPT ![w] = j]

Reserve(w, j) ==
  /\ running[w] = None
  /\ FirstQueued(j)
  /\ jobs[j].attempts < Tries
  /\ jobs' = [jobs EXCEPT ![j].state = "reserved", ![j].attempts = @ + 1]
  /\ running' = [running EXCEPT ![w] = j]

\* ProcessAttendanceJob::handle up to its save: the user's shift, the clock
\* at this moment, no exception, no refusal outside the geofence.
RunCheckIn(w, j) ==
  /\ Reserve(w, j)
  /\ jobs[j].kind = "checkin"
  /\ \E u \in jobs[j].scope :
       fresh' = [fresh EXCEPT ![w] =
         Financials(Evaluate(NewLog(u, jobs[j].inside), ShiftStart(u), Grace(u)), Rate(u))]
  /\ UNCHANGED <<table, held, pending, settings, clock, changes, history>>

\* The job ends early, with a line in the log: the user has no branch, the
\* position cannot be judged, or there is no start of a shift.
TurnAway(w, j) ==
  /\ Reserve(w, j)
  /\ jobs[j].kind = "checkin"
  /\ noted' = noted \cup {j}
  /\ UNCHANGED <<table, memory, settings, clock, changes, handled, overlapped, reclocked>>

\* RecalculateMonthlyAttendanceJob::handle up to its first save: the logs of
\* the month that is current now, with their users and branch.
RunRecalculation(w, j) ==
  /\ Reserve(w, j)
  /\ jobs[j].kind = "recalc"
  /\ Load(w, {i \in LogIds : /\ logs[i] # None
                             /\ logs[i].user \in jobs[j].scope
                             /\ Month(logs[i].date) = Month(day)},
          [i \in LogIds |-> IF logs[i] = None THEN None
                            ELSE Recalculated(logs[i], branch, Rate(logs[i].user))])
  /\ UNCHANGED <<table, fresh, settings, clock, changes, handled, noted>>

\* handle() returned: the jobs row is deleted, even if another worker has
\* reserved it in the meantime.
Finish(w) ==
  /\ running[w] # None
  /\ Idle(w)
  /\ running' = [running EXCEPT ![w] = None]
  /\ jobs' = IF jobs[running[w]].state = "failed" THEN jobs
             ELSE [jobs EXCEPT ![running[w]].state = "done"]
  /\ UNCHANGED <<table, memory, settings, clock, changes, history>>

\* A process dies (deployment, timeout, crash) and loses its memory, or an
\* exception escapes the job and it is released.
Kill(p) ==
  /\ ~Idle(p) \/ (p \in Workers /\ running[p] # None)
  /\ fresh' = [fresh EXCEPT ![p] = None]
  /\ held' = [held EXCEPT ![p] = NoRows]
  /\ pending' = [pending EXCEPT ![p] = NoRows]
  /\ running' = IF p \in Workers THEN [running EXCEPT ![p] = None] ELSE running
  /\ UNCHANGED <<table, jobs, settings, clock, changes, history>>

Orphaned(j) == \A w \in Workers : running[w] # j

\* retry_after passes.  At 90 s it outlasts a check-in job (timeout 30) but
\* not a recalculation (timeout 300), which is offered to the other worker
\* while the first still runs it.
Lapse(j) ==
  /\ jobs[j] # None
  /\ jobs[j].state = "reserved"
  /\ jobs[j].kind = "recalc" \/ Orphaned(j)
  /\ jobs' = [jobs EXCEPT ![j].state = "queued"]
  /\ UNCHANGED <<table, memory, running, settings, clock, changes, history>>

\* A worker pops a job whose attempts are used up.
GiveUp(w, j) ==
  /\ running[w] = None
  /\ FirstQueued(j)
  /\ jobs[j].attempts = Tries
  /\ jobs' = [jobs EXCEPT ![j].state = "failed"]
  /\ UNCHANGED <<table, memory, running, settings, clock, changes, history>>

-----------------------------------------------------------------------------
(* Administrators. *)

Change == changes < MaxChanges /\ changes' = changes + 1

ChangeBranch ==
  /\ Change
  /\ branch' \in Branches \ {branch}
  /\ UNCHANGED <<table, memory, queue, shift, exception, salary, clock, history>>

AssignShift(u) ==
  /\ Change
  /\ \E s \in (Shifts \cup {None}) \ {shift[u]} : shift' = [shift EXCEPT ![u] = s]
  /\ UNCHANGED <<table, memory, queue, branch, exception, salary, clock, history>>

\* Also stands for an exception whose first or last day is reached.
ChangeException(u) ==
  /\ Change
  /\ \E e \in (Exceptions \cup {None}) \ {exception[u]} :
       exception' = [exception EXCEPT ![u] = e]
  /\ UNCHANGED <<table, memory, queue, branch, shift, salary, clock, history>>

ChangeSalary(u) ==
  /\ Change
  /\ \E s \in Salaries \ {salary[u]} : salary' = [salary EXCEPT ![u] = s]
  /\ UNCHANGED <<table, memory, queue, branch, shift, exception, clock, history>>

\* CreateAttendanceLog: the disabled rate and cost fields are not submitted,
\* so the columns take their default 0.
EnterLog(u, d, form) ==
  /\ Change
  /\ d <= day
  /\ Insert([user |-> u, date |-> d, in |-> form.in, out |-> form.out, fence |-> FALSE,
             status |-> form.status, delay |-> form.delay, early |-> 0,
             over |-> form.over, worked |-> 0,
             rate |-> 0, delayCost |-> 0, earlyCost |-> 0, overVal |-> 0])
  /\ handled' = handled \cup {nextId}
  /\ UNCHANGED <<memory, queue, settings, clock, overlapped, reclocked, noted>>

\* EditAttendanceLog: every enabled field is written from the form.
EditLog(i, u, d, form) ==
  /\ Change
  /\ logs[i] # None
  /\ d <= day
  /\ LogsOf(u, d) \subseteq {i}
  /\ logs' = [logs EXCEPT ![i] =
       [@ EXCEPT !.user = u, !.date = d, !.in = form.in, !.out = form.out,
                 !.status = form.status, !.delay = form.delay, !.over = form.over]]
  /\ handled' = handled \cup {i}
  /\ UNCHANGED <<nextId, memory, queue, settings, clock, overlapped, reclocked, noted>>

DeleteLog(i) ==
  /\ Change
  /\ logs[i] # None
  /\ logs' = [logs EXCEPT ![i] = None]
  /\ handled' = handled \cup {i}
  /\ UNCHANGED <<nextId, memory, queue, settings, clock, overlapped, reclocked, noted>>

-----------------------------------------------------------------------------
Tick ==
  /\ time' \in {t \in Times : t > time}
  /\ UNCHANGED <<table, memory, queue, settings, day, changes, history>>

NextDay ==
  /\ day < MaxDay
  /\ day' = day + 1
  /\ time' \in Times
  /\ UNCHANGED <<table, memory, queue, settings, changes, history>>

WorkerStep(w) ==
  \/ \E j \in JobIds : RunCheckIn(w, j) \/ TurnAway(w, j) \/ RunRecalculation(w, j)
                        \/ GiveUp(w, j)
  \/ StoreLog(w)
  \/ StoreFails(w)
  \/ \E i \in LogIds : Save(w, i)
  \/ Finish(w)

WebStep(p) ==
  \/ \E u \in Users, inside \in BOOLEAN : CheckIn(p, u, inside)
  \/ \E u \in Users, d \in Days, t \in Times : SelfCheckIn(p, u, d, t)
  \/ \E u \in Users : CheckOut(p, u)
  \/ StoreLog(p)
  \/ StoreFails(p)
  \/ \E i \in LogIds : Save(p, i)

Administer ==
  \/ ChangeBranch
  \/ \E u \in Users : AssignShift(u) \/ ChangeException(u) \/ ChangeSalary(u)
  \/ \E u \in Users, d \in Days, form \in Forms : EnterLog(u, d, form)
  \/ \E i \in LogIds, u \in Users, d \in Days, form \in Forms : EditLog(i, u, d, form)
  \/ \E i \in LogIds : DeleteLog(i)

Next ==
  \/ \E w \in Workers : WorkerStep(w)
  \/ \E p \in Web : WebStep(p)
  \/ \E p \in Procs : Kill(p)
  \/ \E u \in Users, inside \in BOOLEAN : QueueCheckIn(u, inside)
  \/ \E scope \in {{u} : u \in Users} \cup {Users} : RequestRecalculation(scope)
  \/ \E j \in JobIds : Lapse(j)
  \/ Administer
  \/ Tick
  \/ NextDay

Spec == Init /\ [][Next]_vars

\* supervisord keeps the workers running, and a reservation nobody serves
\* any more expires.
Fairness ==
  /\ \A w \in Workers : WF_vars(WorkerStep(w))
  /\ \A j \in JobIds : WF_vars(Orphaned(j) /\ Lapse(j))

FairSpec == Spec /\ Fairness

-----------------------------------------------------------------------------
(* Properties. *)

\* However check-in requests, queued check-ins, retries and administrators
\* race, an employee has at most one log for a day.
OneLogPerDay ==
  \A i, k \in LogIds :
    logs[i] # None /\ logs[k] # None /\ logs[i].user = logs[k].user
      /\ logs[i].date = logs[k].date => i = k

\* The rows the engine alone has written, never two writers at a time.
Undisturbed(i) == logs[i] # None /\ i \notin handled \cup overlapped

\* The three cost columns of a stored log are its minutes times its own
\* frozen rate, through check-ins, check-outs, recalculations, retries and
\* crashes, as long as no two of them had the row open at once.
CostsCoherent ==
  \A i \in LogIds : Undisturbed(i) =>
    DelayPriced(logs[i]) /\ EarlyPriced(logs[i]) /\ OverPriced(logs[i])

\* A stored log says present or late, and a present one carries no delay:
\* in particular one excused by an exception, and one a recalculation
\* turned from late to present.
LatenessCoherent ==
  \A i \in LogIds : Undisturbed(i) => Lateness(logs[i])

\* Worked minutes match the two clock times and are split into overtime or
\* early leave, whatever recalculations had the row open meanwhile.
WorkTimeCoherent ==
  \A i \in LogIds :
    logs[i] # None /\ i \notin handled \cup reclocked => WorkTime(logs[i])

\* The rate frozen at check-in only ever changes when a worker saves a
\* recalculation: no check-out, retry or duplicate takes a new snapshot.
RateFrozen ==
  [][\A i \in LogIds :
       logs[i] # None /\ logs'[i] # None /\ logs'[i].rate # logs[i].rate
       => \E w \in Workers : held[w][i] # None /\ held'[w][i] = None]_vars

\* A recorded check-out is never taken back: neither by a recalculation that
\* loaded the row before it, nor by a second check-out.
CheckOutKept ==
  [][\A i \in LogIds :
       logs[i] # None /\ logs'[i] # None /\ i \notin handled'
         /\ logs[i].out # None
       => /\ logs'[i].out # None
          /\ (\A p \in Web : held'[p][i] = held[p][i])
               => logs'[i].out = logs[i].out /\ logs'[i].worked = logs[i].worked]_vars

\* No queued check-in vanishes, however often workers die on it: the employee
\* has a log of that day or later, or the job is among the failed ones, or it
\* has left a line in the error log (or an administrator has worked on the
\* table).  The line is all there is of one that was turned away or whose
\* save failed: the job swallows the error and is not tried again.
QueuedCheckInSettled ==
  \A j \in JobIds, d \in Days :
    (jobs[j] # None /\ jobs[j].kind = "checkin" /\ jobs[j].state = "queued" /\ day = d)
      ~> /\ jobs[j] # None
         /\ \/ jobs[j].state = "failed"
            \/ j \in noted
            \/ handled # {}
            \/ \E i \in LogIds : logs[i] # None /\ logs[i].user \in jobs[j].scope
                                                /\ logs[i].date >= d

-----------------------------------------------------------------------------
(* Claims of the documentation that the code does not keep. *)

\* bypass_late_flag: the employee is not registered late even when arriving
\* after the start.
ExemptNeverLate ==
  [][\A i \in LogIds :
       /\ logs'[i] # None /\ i \notin handled'
       /\ logs'[i].date = day
       /\ exception[logs'[i].user] # None /\ exception[logs'[i].user].late
       /\ logs'[i].status = "late"
       => logs[i] # None /\ logs[i].status = "late"]_vars

\* early_leave_cost = early_leave_minutes x cost_per_minute.
EarlyLeaveCostIsProduct ==
  \A i \in LogIds : logs[i] # None => EarlyPriced(logs[i])
=============================================================================
