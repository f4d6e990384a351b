------------------------------ MODULE Payroll ------------------------------
(***************************************************************************)
(* Payroll: the payrolls table, the generation that fills it from the      *)
(* attendance of a month (the button of ListPayrolls and sarh:payroll),    *)
(* the approval of PayrollResource and its forms.                          *)
(*                                                                         *)
(* A payroll is kept under a text that somebody typed.  The month is what  *)
(* two substr and a conversion to a number take out of it; "2025-6",       *)
(* "2025-06" and "2025-06-01" are three texts of one month, and neither    *)
(* the forms nor the command refuse any.                                   *)
(*                                                                         *)
(* generateForUser opens no transaction.  It reads the attendance logs,    *)
(* then updateOrCreate looks for the row, and inserts it or saves the      *)
(* columns that differ from the row it found: each is a step of its own.   *)
(***************************************************************************)
EXTENDS AttendanceRules, FiniteSets, Functions

CONSTANTS
  Employees, Approvers,    \* whom payrolls are for, and who works on the screens
  Generators,              \* requests and commands that generate
  Periods,                 \* the texts that are typed
  MaxSlips, MaxMonth,      \* bounds on rows and months
  DaysPerMonth,
  Pays,                    \* [basic, rest]: basic salary and the allowances
  Work,                    \* what a day's log says: [status, delay, over, early]
  MonthlyMinutes, WorkingDays,
  Bonuses,                 \* typed into the form
  MaxRuns, MaxChanges      \* bounds on generations and on other steps

SlipIds == 1..MaxSlips
Months  == 0..MaxMonth
Days    == 0..((MaxMonth + 1) * DaysPerMonth - 1)
Month(d) == d \div DaysPerMonth

\* A text is the month taken out of it, and which of its spellings it is
\* (what the conversion drops, as far as the database tells texts apart).
PeriodType == [month : Months, spelling : Nat]

PayType  == [basic : Nat, rest : Nat]
WorkType == [status : {"present", "late", "absent"}, delay : Nat, over : Nat, early : Nat]

ASSUME PayrollAssumption ==
  /\ MaxSlips \in Nat /\ MaxMonth \in Nat /\ MaxRuns \in Nat /\ MaxChanges \in Nat
  /\ DaysPerMonth \in Nat \ {0} /\ WorkingDays \in Nat \ {0}
  /\ MonthlyMinutes \in Int
  /\ Periods \subseteq PeriodType
  /\ Pays \subseteq PayType /\ Pays # {} /\ Work \subseteq WorkType
  /\ Bonuses \subseteq Nat

Log == [status : {"present", "late", "absent"}, delay : Nat, over : Nat, earlyCost : Nat]

Amounts == [gross : Nat, delay : Nat, early : Nat, absence : Nat, total : Nat,
            overtime : Nat, bonuses : Nat, net : Int]

SlipStatus == {"draft", "approved", "paid"}

Slip == [user : Employees, period : Periods, amounts : Amounts, status : SlipStatus,
         approver : Approvers \cup {None}, trashed : BOOLEAN]

Stages == {"read", "find", "insert", "refind", "update"}

\* counted stands for $success of the command and $count of the button.
Run == [period : Periods, todo : SUBSET Employees, seen : [Employees -> Pays],
        stage : Stages, user : Employees \cup {None}, found : Amounts \cup {None},
        id : SlipIds \cup {None}, base : Slip \cup {None}, counted : SUBSET Employees]

Held == [id : SlipIds, base : Slip]

ASSUME NoPayroll ==
  /\ None \notin Slip \cup Run \cup Held \cup Log \cup Amounts \cup Employees
  /\ None \notin Approvers \cup Nat

VARIABLES
  logs, pay, active,          \* attendance, salaries, who is employed
  slips, nextId,              \* the payrolls table
  runs, started,              \* the generations at work, and how many began
  approving, form,            \* rows in the hands of approvers
  changes,                    \* other steps taken
  alone, edited, mixed, exposed   \* history

(***************************************************************************)
(* History: alone are the generations with a row open that no other has    *)
(* had open and nobody has written by hand since it was found; edited are  *)
(* the rows written by hand, and mixed those two generations had open at   *)
(* once, in both cases until a generation that is alone writes the row;    *)
(* exposed are those a generation had open when they were approved.        *)
(***************************************************************************)
inputs  == <<logs, pay, active>>
table   == <<slips, nextId>>
work    == <<runs, started>>
screens == <<approving, form>>
history == <<alone, edited, mixed, exposed>>
vars    == <<inputs, table, work, screens, changes, history>>

TypeOK ==
  /\ logs \in [Employees -> [Days -> Log \cup {None}]]
  /\ pay \in [Employees -> Pays] /\ active \subseteq Employees
  /\ slips \in [SlipIds -> Slip \cup {None}] /\ nextId \in 1..(MaxSlips + 1)
  /\ runs \in [Generators -> Run \cup {None}] /\ started \in 0..MaxRuns
  /\ approving \in [Approvers -> Held \cup {None}]
  /\ form \in [Approvers -> Held \cup {None}]
  /\ \A g \in Generators : runs[g] # None =>
       /\ runs[g].stage = "read" <=> runs[g].user = None
       /\ runs[g].stage = "read" <=> runs[g].found = None
       /\ runs[g].stage = "update" <=> runs[g].id # None
       /\ runs[g].stage = "update" <=> runs[g].base # None
  /\ changes \in 0..MaxChanges
  /\ alone \subseteq {g \in Generators : runs[g] # None /\ runs[g].stage = "update"}
  /\ edited \subseteq SlipIds /\ mixed \subseteq SlipIds /\ exposed \subseteq SlipIds

Init ==
  /\ logs = [u \in Employees |-> [d \in Days |-> None]]
  /\ pay \in [Employees -> Pays] /\ active = Employees
  /\ slips = [i \in SlipIds |-> None] /\ nextId = 1
  /\ runs = [g \in Generators |-> None] /\ started = 0
  /\ approving = [a \in Approvers |-> None] /\ form = [a \in Approvers |-> None]
  /\ changes = 0
  /\ alone = {} /\ edited = {} /\ mixed = {} /\ exposed = {}

-----------------------------------------------------------------------------
(* The amounts of a payslip. *)

\* The logs of u dated in month m.
Sheet(u, m) == [d \in {d \in Days : Month(d) = m /\ logs[u][d] # None} |-> logs[u][d]]

Total(sheet, column) == SumFunction([d \in DOMAIN sheet |-> sheet[d][column]])

Absences(sheet) == Cardinality({d \in DOMAIN sheet : sheet[d].status = "absent"})

\* round($days * ($gross / $workingDays), 2)
AbsenceCost(days, gross) == (2 * days * gross + WorkingDays) \div (2 * WorkingDays)

\* Mutant: the absences are not deducted.
LenientPayslip(p, sheet) ==
  LET rate     == CostPerMinute(p.basic, MonthlyMinutes)
      gross    == p.basic + p.rest
      delay    == Cost(Total(sheet, "delay"), rate)
      early    == Total(sheet, "earlyCost")
      overtime == OvertimeValue(Total(sheet, "over"), rate)
  IN  [gross |-> gross, delay |-> delay, early |-> early,
       absence |-> AbsenceCost(Absences(sheet), gross),
       total |-> delay + early, overtime |-> overtime, bonuses |-> 0,
       net |-> gross - (delay + early) + overtime]

\* Delay and overtime are priced again, at the rate of the salary; only the
\* early leave takes the costs of the logs.
Payslip(p, sheet) ==
  LET rate     == CostPerMinute(p.basic, MonthlyMinutes)
      gross    == p.basic + p.rest
      delay    == Cost(Total(sheet, "delay"), rate)
      early    == Total(sheet, "earlyCost")
      absence  == AbsenceCost(Absences(sheet), gross)
      overtime == OvertimeValue(Total(sheet, "over"), rate)
      total    == delay + early + absence
  IN  [gross |-> gross, delay |-> delay, early |-> early, absence |-> absence,
       total |-> total, overtime |-> overtime, bonuses |-> 0,
       net |-> gross - total + overtime]

Nothing == [gross |-> 0, delay |-> 0, early |-> 0, absence |-> 0, total |-> 0,
            overtime |-> 0, bonuses |-> 0, net |-> 0]

\* The rows of the table: deletions are soft, so a row never leaves it.
Rows == 1..(nextId - 1)

\* unique(user_id, period) is over the text, and counts soft-deleted rows; a
\* query does not.
Taken(u, p) == {i \in Rows : slips[i].user = u /\ slips[i].period = p}

\* Mutant: the payroll of another text of the month is as good.
LiveAnyText(u, p) == {i \in Rows : /\ slips[i].user = u
                                   /\ slips[i].period.month = p.month
                                   /\ ~slips[i].trashed}

Live(u, p) == {i \in Taken(u, p) : ~slips[i].trashed}

\* Mutant: save() writes the whole row.
SaveWhole(cur, base, target) ==
  [cur EXCEPT !.amounts = target.amounts, !.status = target.status,
              !.approver = target.approver]

\* save(): the columns that differ from the row as it was found.
SaveSlip(cur, base, target) ==
  [cur EXCEPT !.amounts  = [c \in DOMAIN @ |->
                              Dirty(@[c], base.amounts[c], target.amounts[c])],
              !.status   = Dirty(@, base.status, target.status),
              !.approver = Dirty(@, base.approver, target.approver)]

-----------------------------------------------------------------------------
(* Generation. *)

\* The active employees are loaded once, with the salaries of this moment.
Generate(g, p) ==
  /\ runs[g] = None
  /\ started < MaxRuns
  /\ started' = started + 1
  /\ runs' = [runs EXCEPT ![g] =
       [period |-> p, todo |-> active, seen |-> pay, stage |-> "read",
        user |-> None, found |-> None, id |-> None, base |-> None, counted |-> {}]]
  /\ UNCHANGED <<inputs, table, screens, changes, history>>

ReadAttendance(g, u) ==
  /\ runs[g] # None
  /\ runs[g].stage = "read"
  /\ u \in runs[g].todo
  /\ runs' = [runs EXCEPT ![g].stage = "find", ![g].user = u, ![g].todo = @ \ {u},
                          ![g].found = Payslip(runs[g].seen[u],
                                           Sheet(u, runs[g].period.month))]
  /\ UNCHANGED <<inputs, table, started, screens, changes, history>>

\* Mutant: the row of the previous employee is kept.
StickyAdvance(r, counted) ==
  [r EXCEPT !.stage = "read", !.user = None, !.found = None, !.counted = counted]

\* The generation turns to its next employee.
Advance(r, counted) ==
  [r EXCEPT !.stage = "read", !.user = None, !.found = None, !.id = None,
            !.base = None, !.counted = counted]

Turn(g, counted) ==
  /\ runs' = [runs EXCEPT ![g] = Advance(@, counted)]
  /\ alone' = alone \ {g}

Succeed(g) == Turn(g, runs[g].counted \cup {runs[g].user})

\* catch (\Throwable): on to the next employee, and this one is not counted.
Fail(g) == Turn(g, runs[g].counted)

\* Any statement for the employee in hand may fail, and has changed nothing.
Swallow(g) ==
  /\ runs[g] # None
  /\ runs[g].user # None
  /\ Fail(g)
  /\ UNCHANGED <<inputs, table, started, screens, changes, edited, mixed, exposed>>

\* The generations with row i open.
Holding(i) == {h \in Generators : runs[h] # None /\ runs[h].id = i}

\* firstOrCreate, and its second look after a refused insert: now a missing
\* (soft-deleted) row is an error.
FindSlip(g) ==
  /\ runs[g] # None
  /\ runs[g].stage \in {"find", "refind"}
  /\ LET found == Live(runs[g].user, runs[g].period)
     IN  \/ \E i \in found :
              /\ runs' = [runs EXCEPT ![g].stage = "update", ![g].id = i, ![g].base = slips[i]]
              /\ IF Holding(i) = {} THEN alone' = alone \cup {g} /\ UNCHANGED mixed
                 ELSE alone' = alone \ Holding(i) /\ mixed' = mixed \cup {i}
         \/ /\ found = {}
            /\ IF runs[g].stage = "find"
               THEN runs' = [runs EXCEPT ![g].stage = "insert"] /\ UNCHANGED alone
               ELSE Fail(g)
            /\ UNCHANGED mixed
  /\ UNCHANGED <<inputs, table, started, screens, changes, edited, exposed>>

\* Mutant: no unique index.
UncheckedInsertSlip(g) ==
  /\ runs[g] # None
  /\ runs[g].stage = "insert"
  /\ nextId \in SlipIds
  /\ slips' = [slips EXCEPT ![nextId] =
       [user |-> runs[g].user, period |-> runs[g].period, amounts |-> runs[g].found,
        status |-> "draft", approver |-> None, trashed |-> FALSE]]
  /\ nextId' = nextId + 1
  /\ Succeed(g) \/ Fail(g)
  /\ UNCHANGED <<inputs, started, screens, changes, edited, mixed, exposed>>

\* The answer may be lost: the row is written, and the employee not counted.
InsertSlip(g) ==
  /\ runs[g] # None
  /\ runs[g].stage = "insert"
  /\ Taken(runs[g].user, runs[g].period) = {}
  /\ nextId \in SlipIds
  /\ slips' = [slips EXCEPT ![nextId] =
       [user |-> runs[g].user, period |-> runs[g].period, amounts |-> runs[g].found,
        status |-> "draft", approver |-> None, trashed |-> FALSE]]
  /\ nextId' = nextId + 1
  /\ Succeed(g) \/ Fail(g)
  /\ UNCHANGED <<inputs, started, screens, changes, edited, mixed, exposed>>

InsertRefused(g) ==
  /\ runs[g] # None
  /\ runs[g].stage = "insert"
  /\ Taken(runs[g].user, runs[g].period) # {}
  /\ runs' = [runs EXCEPT ![g].stage = "refind"]
  /\ UNCHANGED <<inputs, table, started, screens, changes, history>>

\* Mutant: the amounts only.
RestatedAmounts(base, found) == [base EXCEPT !.amounts = found]

\* Every amount is assigned, and the status is draft again.
Regenerated(base, found) == [base EXCEPT !.amounts = found, !.status = "draft"]

UpdateSlip(g) ==
  /\ runs[g] # None
  /\ runs[g].stage = "update"
  /\ slips' = [slips EXCEPT ![runs[g].id] =
       SaveSlip(@, runs[g].base, Regenerated(runs[g].base, runs[g].found))]
  /\ LET mended == IF g \in alone THEN {runs[g].id} ELSE {}
     IN  edited' = edited \ mended /\ mixed' = mixed \ mended
  /\ Succeed(g) \/ Fail(g)
  /\ UNCHANGED <<inputs, nextId, started, screens, changes, exposed>>

\* The loop is over, or the process dies wherever it is.
Stop(g) ==
  /\ runs[g] # None
  /\ runs' = [runs EXCEPT ![g] = None]
  /\ alone' = alone \ {g}
  /\ UNCHANGED <<inputs, table, started, screens, changes, edited, mixed, exposed>>

-----------------------------------------------------------------------------
(* The screens. *)

Change == changes < MaxChanges /\ changes' = changes + 1

\* The button shows on drafts; the request loads the row again and asks the
\* same question.
OpenApproval(a, i) ==
  /\ approving[a] = None
  /\ i \in Rows
  /\ ~slips[i].trashed /\ slips[i].status = "draft"
  /\ Change
  /\ approving' = [approving EXCEPT ![a] = [id |-> i, base |-> slips[i]]]
  /\ UNCHANGED <<inputs, table, work, form, history>>

Approve(a) ==
  /\ approving[a] # None
  /\ LET i    == approving[a].id
         base == approving[a].base
     IN  /\ slips' = [slips EXCEPT ![i] =
              SaveSlip(@, base, [base EXCEPT !.status = "approved", !.approver = a])]
         /\ exposed' = IF \E g \in Generators : runs[g] # None /\ runs[g].id = i
                       THEN exposed \cup {i} ELSE exposed
  /\ approving' = [approving EXCEPT ![a] = None]
  /\ UNCHANGED <<inputs, nextId, work, form, changes, alone, edited, mixed>>

OpenForm(a, i) ==
  /\ form[a] = None
  /\ i \in Rows
  /\ ~slips[i].trashed
  /\ Change
  /\ form' = [form EXCEPT ![a] = [id |-> i, base |-> slips[i]]]
  /\ UNCHANGED <<inputs, table, work, approving, history>>

\* EditPayroll::save: the enabled fields as they were shown, with what the
\* administrator typed (bonuses stand for every amount); gross, total and net
\* are disabled and stay.
SubmitForm(a, u, p, status, bonuses) ==
  /\ form[a] # None
  /\ LET i     == form[a].id
         shown == form[a].base
     IN  /\ Taken(u, p) \subseteq {i}
         /\ slips' = [slips EXCEPT ![i] =
              [@ EXCEPT !.user = u, !.period = p, !.status = status,
                 !.amounts = [shown.amounts EXCEPT !.gross = slips[i].amounts.gross,
                                                   !.total = slips[i].amounts.total,
                                                   !.net   = slips[i].amounts.net,
                                                   !.bonuses = bonuses]]]
         /\ edited' = edited \cup {i}
         /\ alone' = alone \ Holding(i)
  /\ form' = [form EXCEPT ![a] = None]
  /\ UNCHANGED <<inputs, nextId, work, approving, changes, mixed, exposed>>

\* CreatePayroll: the disabled columns take their default 0.
EnterSlip(u, p, status, bonuses) ==
  /\ Change
  /\ Taken(u, p) = {}
  /\ nextId \in SlipIds
  /\ slips' = [slips EXCEPT ![nextId] =
       [user |-> u, period |-> p, amounts |-> [Nothing EXCEPT !.bonuses = bonuses],
        status |-> status, approver |-> None, trashed |-> FALSE]]
  /\ nextId' = nextId + 1
  /\ edited' = edited \cup {nextId}
  /\ UNCHANGED <<inputs, work, screens, alone, mixed, exposed>>

TrashSlip(i) ==
  /\ Change
  /\ i \in Rows
  /\ ~slips[i].trashed
  /\ slips' = [slips EXCEPT ![i].trashed = TRUE]
  /\ UNCHANGED <<inputs, nextId, work, screens, history>>

-----------------------------------------------------------------------------
(* What payroll reads. *)

\* Any step of the attendance engine that writes u's log of day d.
RecordAttendance(u, d) ==
  /\ Change
  /\ \E w \in Work :
       logs' = [logs EXCEPT ![u][d] =
         [status |-> w.status, delay |-> w.delay, over |-> w.over,
          earlyCost |-> Cost(w.early, CostPerMinute(pay[u].basic, MonthlyMinutes))]]
  /\ UNCHANGED <<pay, active, table, work, screens, history>>

ChangePay(u) ==
  /\ Change
  /\ \E p \in Pays \ {pay[u]} : pay' = [pay EXCEPT ![u] = p]
  /\ UNCHANGED <<logs, active, table, work, screens, history>>

ChangeStatus(u) ==
  /\ Change
  /\ active' = IF u \in active THEN active \ {u} ELSE active \cup {u}
  /\ UNCHANGED <<logs, pay, table, work, screens, history>>

GeneratorStep(g) ==
  \/ \E p \in Periods : Generate(g, p)
  \/ \E u \in Employees : ReadAttendance(g, u)
  \/ Swallow(g)
  \/ FindSlip(g)
  \/ InsertSlip(g)
  \/ InsertRefused(g)
  \/ UpdateSlip(g)
  \/ Stop(g)

ApproverStep(a) ==
  \/ \E i \in SlipIds : OpenApproval(a, i)
  \/ Approve(a)
  \/ \E i \in SlipIds : OpenForm(a, i)
  \/ \E u \in Employees, p \in Periods, status \in SlipStatus, bonuses \in Bonuses :
       SubmitForm(a, u, p, status, bonuses)

Next ==
  \/ \E g \in Generators : GeneratorStep(g)
  \/ \E a \in Approvers : ApproverStep(a)
  \/ \E u \in Employees, p \in Periods, status \in SlipStatus, bonuses \in Bonuses :
       EnterSlip(u, p, status, bonuses)
  \/ \E i \in SlipIds : TrashSlip(i)
  \/ \E u \in Employees, d \in Days : RecordAttendance(u, d)
  \/ \E u \in Employees : ChangePay(u) \/ ChangeStatus(u)

Spec == Init /\ [][Next]_vars

-----------------------------------------------------------------------------
(* Properties. *)

\* Two generations, forms and deletions may race for an employee's period, and
\* there is one payroll under each text, in the table or in the bin.  (Under
\* another text of the month there may be another: the index knows no months.)
OneSlipPerPeriod ==
  \A i, k \in Rows :
    slips[i].user = slips[k].user /\ slips[i].period = slips[k].period => i = k

\* The totals of a payroll are those of its columns, although a regeneration
\* writes only the columns that changed since it found the row.  Two that
\* overlap may leave a mixture behind, which the next one that has the row to
\* itself puts right; rows written by hand are not included.
SlipAddsUp ==
  \A i \in Rows \ (edited \cup mixed) :
    LET s == slips[i].amounts
    IN  /\ s.total = s.delay + s.early + s.absence
        /\ s.net = s.gross - s.total + s.overtime
        /\ s.bonuses = 0

\* An approval is withdrawn only by a generation that found it approved,
\* never by one that found a draft and was overtaken by the approver.
ApprovalNotOverrun ==
  [][\A i \in Rows :
       /\ slips[i].status # "draft"
       /\ slips'[i].status = "draft"
       /\ i \notin edited'
       => \E g \in Generators : /\ runs[g] # None /\ runs[g].id = i
                                /\ runs[g].base.status # "draft"]_vars

\* The amounts of an approved payroll stay what they were approved as while
\* it is approved, unless a generation had it open when it was approved.
ApprovedAmountsStand ==
  [][\A i \in Rows :
       /\ slips[i].status # "draft" /\ slips'[i].status # "draft"
       /\ i \notin edited' \cup exposed
       => slips'[i].amounts = slips[i].amounts]_vars

\* The row that g is writing when it counts its employee.
Written(g) == IF runs[g].stage = "update" THEN runs[g].id ELSE nextId

\* An employee counts as generated only when his payroll is there under the
\* text of the generation, in the table or in the bin, with the amounts that
\* were computed for him, whichever steps of others overtook it and whichever
\* of its own failed and was swallowed; unless another generation had the row
\* open, or somebody wrote it by hand, since this one found it.
CountedIsServed ==
  [][\A g \in Generators :
       runs[g] # None /\ runs'[g] # None =>
         \A u \in runs'[g].counted \ runs[g].counted :
           LET i == Written(g)
           IN  /\ i \in Rows'
               /\ runs[g].stage = "insert" \/ g \in alone =>
                    /\ slips'[i].user = u
                    /\ slips'[i].period = runs[g].period
                    /\ slips'[i].amounts = runs[g].found]_vars

-----------------------------------------------------------------------------
(* A claim of the documentation that the code does not keep. *)

\* sarh:payroll is safe to run again (idempotent): a generation that finds the
\* amounts it has computed leaves the payroll as it is.
RerunIsIdempotent ==
  [][\A g \in Generators :
       /\ runs[g] # None /\ runs[g].stage = "update"
       /\ runs'[g] # None /\ runs'[g].stage = "read"
       /\ runs[g].found = slips[runs[g].id].amounts
       => slips'[runs[g].id] = slips[runs[g].id]]_vars
=============================================================================
