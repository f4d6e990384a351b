---------------------------- MODULE PayrollProofs ----------------------------
(***************************************************************************)
(* What no interleaving of generations, approvals and forms does to the    *)
(* payrolls table.  Of the amounts of a payslip, sums over a month, it     *)
(* matters only that they are integers, which is shown by induction over   *)
(* the attendance rows that are summed.                                    *)
(***************************************************************************)
EXTENDS Payroll, Induction, FiniteSetTheorems, TLAPS

AmountColumns == {"gross", "delay", "early", "absence", "total", "overtime", "bonuses", "net"}
SlipColumns   == {"user", "period", "amounts", "status", "approver", "trashed"}
RunFields     == {"period", "todo", "seen", "stage", "user", "found", "id", "base",
                  "counted"}

\* The columns a value has, whatever they hold.
IsAmounts(a) == a = [c \in AmountColumns |-> a[c]]
IsSlip(s)    == s = [c \in SlipColumns |-> s[c]] /\ IsAmounts(s.amounts)
IsRun(r)     == r = [f \in RunFields |-> r[f]]

\* Rows fill the table from 1 on.
TableInv ==
  /\ slips = [i \in SlipIds |-> slips[i]]
  /\ nextId \in 1..(MaxSlips + 1)
  /\ \A i \in Rows : IsSlip(slips[i])

\* Id and base name a row that exists.
IsOpen(id, base) == id \in Rows /\ IsSlip(base)

RunsInv ==
  /\ runs = [g \in Generators |-> runs[g]]
  /\ \A g \in Generators : runs[g] # None =>
       /\ IsRun(runs[g])
       /\ runs[g].stage # "read" => IsAmounts(runs[g].found)
       /\ runs[g].id \in SlipIds => runs[g].stage = "update"
       /\ runs[g].stage = "update" => IsOpen(runs[g].id, runs[g].base)

ScreensInv ==
  /\ approving = [a \in Approvers |-> approving[a]]
  /\ form = [a \in Approvers |-> form[a]]
  /\ \A a \in Approvers : approving[a] # None => IsOpen(approving[a].id, approving[a].base)
  /\ \A a \in Approvers : form[a] # None => IsOpen(form[a].id, form[a].base)

Shape == TableInv /\ RunsInv /\ ScreensInv

-----------------------------------------------------------------------------
(* The operators keep the columns. *)

\* A payslip has every column, its totals are right and it has no bonuses.
LEMMA PayslipColumns ==
  ASSUME NEW p, NEW sheet
  PROVE  LET a == Payslip(p, sheet) IN
         /\ IsAmounts(a)
         /\ a.total = a.delay + a.early + a.absence
         /\ a.net = a.gross - a.total + a.overtime
         /\ a.bonuses = 0
  BY DEF Payslip, IsAmounts, AmountColumns

\* A save keeps the columns, the owner and the text of the row.
LEMMA SaveSlipColumns ==
  ASSUME NEW cur, NEW base, NEW target, IsSlip(cur), IsSlip(base), IsSlip(target)
  PROVE  LET new == SaveSlip(cur, base, target) IN
         /\ IsSlip(new)
         /\ new.user = cur.user /\ new.period = cur.period
         /\ new.status = Dirty(cur.status, base.status, target.status)
         /\ target.amounts = base.amounts => new.amounts = cur.amounts
         /\ cur.amounts = base.amounts => new.amounts = target.amounts
<1> DEFINE new == SaveSlip(cur, base, target)
           Col(c) == Dirty(cur.amounts[c], base.amounts[c], target.amounts[c])
<1>1. DOMAIN cur = SlipColumns /\ DOMAIN cur.amounts = AmountColumns
  BY DEF IsSlip, IsAmounts
<1>2. /\ new = [c \in SlipColumns |-> new[c]]
      /\ new.user = cur.user /\ new.period = cur.period
      /\ new.status = Dirty(cur.status, base.status, target.status)
      /\ new.amounts = [c \in AmountColumns |-> Col(c)]
  BY <1>1 DEF SaveSlip, SlipColumns
<1> HIDE DEF new
<1>3. IsSlip(new)
  BY <1>2 DEF IsSlip, IsAmounts
<1>4. ASSUME target.amounts = base.amounts PROVE new.amounts = cur.amounts
  BY <1>2, <1>4 DEF Dirty, IsSlip, IsAmounts
<1>5. ASSUME cur.amounts = base.amounts PROVE new.amounts = target.amounts
  BY <1>2, <1>5 DEF Dirty, IsSlip, IsAmounts
<1> QED
  BY <1>2, <1>3, <1>4, <1>5 DEF new

-----------------------------------------------------------------------------
(* The table's steps. *)

\* Rows are ids.
LEMMA RowsAreIds == TableInv => Rows \subseteq SlipIds
  BY PayrollAssumption DEF TableInv, Rows, SlipIds

\* An insert fills the next row.
LEMMA InsertRow ==
  ASSUME TableInv, nextId \in SlipIds, NEW s, IsSlip(s),
         slips' = [slips EXCEPT ![nextId] = s], nextId' = nextId + 1
  PROVE  /\ TableInv'
         /\ slips'[nextId] = s
         /\ \A k \in SlipIds \ {nextId} : slips'[k] = slips[k]
         /\ nextId' >= nextId
<1>1. slips' = [i \in SlipIds |-> slips'[i]] /\ nextId' \in 1..(MaxSlips + 1)
  <2>1. nextId' \in 1..(MaxSlips + 1)
    BY PayrollAssumption DEF SlipIds
  <2> QED
    BY <2>1 DEF TableInv
<1>2. slips'[nextId] = s /\ \A k \in SlipIds \ {nextId} : slips'[k] = slips[k]
  BY DEF TableInv
<1>3. \A i \in Rows' : IsSlip(slips'[i])
  <2> SUFFICES ASSUME NEW i \in Rows' PROVE IsSlip(slips'[i])
    OBVIOUS
  <2>1. CASE i = nextId
    BY <1>2, <2>1
  <2>2. CASE i # nextId
    <3>1. i \in Rows /\ i \in SlipIds
      BY <2>2, RowsAreIds DEF TableInv, Rows
    <3> QED
      BY <1>2, <2>2, <3>1 DEF TableInv
  <2> QED
    BY <2>1, <2>2
<1> QED
  BY <1>1, <1>2, <1>3 DEF TableInv

\* An update replaces a row that exists.
LEMMA ReplaceRow ==
  ASSUME TableInv, NEW i \in Rows, NEW s, IsSlip(s),
         slips' = [slips EXCEPT ![i] = s], nextId' = nextId
  PROVE  /\ TableInv'
         /\ slips'[i] = s
         /\ \A k \in SlipIds \ {i} : slips'[k] = slips[k]
<1>1. slips' = [k \in SlipIds |-> slips'[k]]
  BY DEF TableInv
<1>2. slips'[i] = s /\ \A k \in SlipIds \ {i} : slips'[k] = slips[k]
  BY RowsAreIds DEF TableInv
<1>3. \A k \in Rows' : IsSlip(slips'[k])
  BY <1>2, RowsAreIds DEF TableInv, Rows
<1> QED
  BY <1>1, <1>2, <1>3 DEF TableInv

\* What an insert of a generation stores.
LEMMA InsertStores ==
  ASSUME Shape, NEW g \in Generators, InsertSlip(g)
  PROVE  LET s == [user |-> runs[g].user, period |-> runs[g].period,
                   amounts |-> runs[g].found, status |-> "draft", approver |-> None,
                   trashed |-> FALSE]
         IN  /\ IsSlip(s) /\ nextId \in SlipIds
             /\ TableInv' /\ slips'[nextId] = s /\ nextId' = nextId + 1
             /\ \A k \in SlipIds \ {nextId} : slips'[k] = slips[k]
<1> DEFINE s == [user |-> runs[g].user, period |-> runs[g].period, amounts |-> runs[g].found,
                 status |-> "draft", approver |-> None, trashed |-> FALSE]
<1>1. IsSlip(s)
  <2>1. IsAmounts(runs[g].found)
    BY DEF InsertSlip, Shape, RunsInv
  <2> QED
    BY <2>1 DEF IsSlip, SlipColumns
<1>2. nextId \in SlipIds /\ slips' = [slips EXCEPT ![nextId] = s] /\ nextId' = nextId + 1
  BY DEF InsertSlip
<1> HIDE DEF s
<1>3. TableInv
  BY DEF Shape
<1>4. /\ TableInv' /\ slips'[nextId] = s
      /\ \A k \in SlipIds \ {nextId} : slips'[k] = slips[k]
  BY <1>1, <1>2, <1>3, InsertRow
<1> QED
  BY <1>1, <1>2, <1>4 DEF s

\* What an update of a generation stores.
LEMMA UpdateStores ==
  ASSUME Shape, NEW g \in Generators, UpdateSlip(g)
  PROVE  LET i    == runs[g].id
             base == runs[g].base
         IN  /\ i \in Rows
             /\ IsSlip(slips[i]) /\ IsSlip(base) /\ IsAmounts(runs[g].found)
             /\ slips'[i] = SaveSlip(slips[i], base, Regenerated(base, runs[g].found))
             /\ IsSlip(Regenerated(base, runs[g].found))
             /\ IsSlip(slips'[i])
             /\ slips'[i].user = slips[i].user /\ slips'[i].period = slips[i].period
             /\ slips'[i].status = Dirty(slips[i].status, base.status, "draft")
             /\ slips[i].amounts = base.amounts => slips'[i].amounts = runs[g].found
             /\ TableInv' /\ nextId' = nextId
             /\ \A k \in SlipIds \ {i} : slips'[k] = slips[k]
<1> DEFINE i == runs[g].id
           base == runs[g].base
           target == Regenerated(base, runs[g].found)
           new == SaveSlip(slips[i], base, target)
<1>1. /\ i \in Rows /\ IsSlip(base) /\ IsAmounts(runs[g].found)
      /\ slips' = [slips EXCEPT ![i] = new] /\ nextId' = nextId
  BY DEF UpdateSlip, Shape, RunsInv, IsOpen
<1>2. IsSlip(slips[i])
  BY <1>1 DEF Shape, TableInv
<1>3. IsSlip(target) /\ target.amounts = runs[g].found /\ target.status = "draft"
  BY <1>1 DEF Regenerated, IsSlip, SlipColumns
<1> HIDE DEF target
<1>4. /\ IsSlip(new)
      /\ new.user = slips[i].user /\ new.period = slips[i].period
      /\ new.status = Dirty(slips[i].status, base.status, target.status)
      /\ slips[i].amounts = base.amounts => new.amounts = target.amounts
  BY <1>1, <1>2, <1>3, SaveSlipColumns
<1> HIDE DEF new, base, i
<1>5. TableInv' /\ slips'[i] = new /\ \A k \in SlipIds \ {i} : slips'[k] = slips[k]
  BY <1>1, <1>4, ReplaceRow DEF Shape
<1> QED
  BY <1>1, <1>2, <1>3, <1>4, <1>5 DEF new, target, base, i
\* What an approval stores.
LEMMA ApproveStores ==
  ASSUME Shape, NEW a \in Approvers, Approve(a)
  PROVE  LET i    == approving[a].id
             base == approving[a].base
         IN  /\ i \in Rows
             /\ IsSlip(slips[i]) /\ IsSlip(slips'[i])
             /\ slips'[i].user = slips[i].user /\ slips'[i].period = slips[i].period
             /\ slips'[i].status = Dirty(slips[i].status, base.status, "approved")
             /\ slips'[i].amounts = slips[i].amounts
             /\ TableInv' /\ nextId' = nextId
             /\ \A k \in SlipIds \ {i} : slips'[k] = slips[k]
<1> DEFINE i == approving[a].id
           base == approving[a].base
           target == [base EXCEPT !.status = "approved", !.approver = a]
           new == SaveSlip(slips[i], base, target)
<1>1. /\ i \in Rows /\ IsSlip(base)
      /\ slips' = [slips EXCEPT ![i] = new] /\ nextId' = nextId
  BY DEF Approve, Shape, ScreensInv, IsOpen
<1>2. IsSlip(slips[i])
  BY <1>1 DEF Shape, TableInv
<1>3. IsSlip(target) /\ target.amounts = base.amounts /\ target.status = "approved"
  BY <1>1 DEF IsSlip, SlipColumns
<1> HIDE DEF target
<1>4. /\ IsSlip(new)
      /\ new.user = slips[i].user /\ new.period = slips[i].period
      /\ new.status = Dirty(slips[i].status, base.status, target.status)
      /\ new.amounts = slips[i].amounts
  BY <1>1, <1>2, <1>3, SaveSlipColumns
<1> HIDE DEF new, base, i
<1>5. TableInv' /\ slips'[i] = new /\ \A k \in SlipIds \ {i} : slips'[k] = slips[k]
  BY <1>1, <1>4, ReplaceRow DEF Shape
<1> QED
  BY <1>1, <1>2, <1>3, <1>4, <1>5 DEF new, target, base, i

\* What a submitted form stores.
LEMMA SubmitStores ==
  ASSUME Shape, NEW a \in Approvers, NEW u \in Employees, NEW p \in Periods,
         NEW status \in SlipStatus, NEW bonuses \in Bonuses,
         SubmitForm(a, u, p, status, bonuses)
  PROVE  LET i == form[a].id
         IN  /\ i \in Rows
             /\ Taken(u, p) \subseteq {i} /\ edited' = edited \cup {i}
             /\ IsSlip(slips'[i]) /\ slips'[i].user = u /\ slips'[i].period = p
             /\ TableInv' /\ nextId' = nextId
             /\ \A k \in SlipIds \ {i} : slips'[k] = slips[k]
<1> DEFINE i == form[a].id
           shown == form[a].base
           paid == [shown.amounts EXCEPT !.gross = slips[i].amounts.gross,
                                         !.total = slips[i].amounts.total,
                                         !.net   = slips[i].amounts.net,
                                         !.bonuses = bonuses]
           new == [slips[i] EXCEPT !.user = u, !.period = p, !.status = status,
                                   !.amounts = paid]
<1>1. /\ i \in Rows /\ IsSlip(shown)
      /\ Taken(u, p) \subseteq {i} /\ edited' = edited \cup {i}
      /\ slips' = [slips EXCEPT ![i] = new] /\ nextId' = nextId
  BY DEF SubmitForm, Shape, ScreensInv, IsOpen
<1>2. IsSlip(slips[i])
  BY <1>1 DEF Shape, TableInv
<1>3. IsAmounts(paid)
  BY <1>1 DEF IsSlip, IsAmounts, AmountColumns
<1> HIDE DEF paid, shown
<1>4. IsSlip(new) /\ new.user = u /\ new.period = p
  BY <1>2, <1>3 DEF IsSlip, SlipColumns
<1> HIDE DEF new, i
<1>5. TableInv' /\ slips'[i] = new /\ \A k \in SlipIds \ {i} : slips'[k] = slips[k]
  BY <1>1, <1>4, ReplaceRow DEF Shape
<1> QED
  BY <1>1, <1>4, <1>5 DEF i

\* What CreatePayroll stores.
LEMMA EnterStores ==
  ASSUME Shape, NEW u \in Employees, NEW p \in Periods, NEW status \in SlipStatus,
         NEW bonuses \in Bonuses, EnterSlip(u, p, status, bonuses)
  PROVE  /\ nextId \in SlipIds /\ nextId' = nextId + 1
         /\ edited' = edited \cup {nextId}
         /\ IsSlip(slips'[nextId]) /\ slips'[nextId].user = u /\ slips'[nextId].period = p
         /\ TableInv'
         /\ \A k \in SlipIds \ {nextId} : slips'[k] = slips[k]
<1> DEFINE s == [user |-> u, period |-> p, amounts |-> [Nothing EXCEPT !.bonuses = bonuses],
                 status |-> status, approver |-> None, trashed |-> FALSE]
<1>1. IsSlip(s) /\ s.user = u /\ s.period = p
  <2>1. IsAmounts([Nothing EXCEPT !.bonuses = bonuses])
    BY DEF Nothing, IsAmounts, AmountColumns
  <2> QED
    BY <2>1 DEF IsSlip, SlipColumns
<1>2. /\ nextId \in SlipIds /\ nextId' = nextId + 1 /\ edited' = edited \cup {nextId}
      /\ slips' = [slips EXCEPT ![nextId] = s]
  BY DEF EnterSlip
<1> HIDE DEF s
<1> QED
  BY <1>1, <1>2, InsertRow DEF Shape

\* What a deletion stores.
LEMMA TrashStores ==
  ASSUME Shape, NEW i \in SlipIds, TrashSlip(i)
  PROVE  /\ i \in Rows /\ IsSlip(slips'[i])
         /\ slips'[i].user = slips[i].user /\ slips'[i].period = slips[i].period
         /\ slips'[i].status = slips[i].status /\ slips'[i].amounts = slips[i].amounts
         /\ TableInv' /\ nextId' = nextId
         /\ \A k \in SlipIds \ {i} : slips'[k] = slips[k]
<1> DEFINE new == [slips[i] EXCEPT !.trashed = TRUE]
<1>1. i \in Rows /\ slips' = [slips EXCEPT ![i] = new] /\ nextId' = nextId
  BY DEF TrashSlip, table
<1>2. IsSlip(slips[i])
  BY <1>1 DEF Shape, TableInv
<1>3. /\ IsSlip(new) /\ new.user = slips[i].user /\ new.period = slips[i].period
      /\ new.status = slips[i].status /\ new.amounts = slips[i].amounts
  BY <1>2 DEF IsSlip, SlipColumns
<1> HIDE DEF new
<1> QED
  BY <1>1, <1>2, <1>3, ReplaceRow DEF Shape
-----------------------------------------------------------------------------
(* The shape of the state. *)

\* Steps that leave the table and the generations alone.
Aside ==
  \/ \E a \in Approvers, i \in SlipIds : OpenApproval(a, i) \/ OpenForm(a, i)
  \/ \E u \in Employees, d \in Days : RecordAttendance(u, d)
  \/ \E u \in Employees : ChangePay(u) \/ ChangeStatus(u)
  \/ UNCHANGED vars

\* Aside writes no payroll, and no generation moves.
LEMMA AsideChangesNothing ==
  Aside => UNCHANGED <<slips, nextId, runs, alone, edited, mixed, exposed>>
  BY DEF Aside, OpenApproval, OpenForm, RecordAttendance, ChangePay, ChangeStatus, vars,
     inputs, table, work, screens, history

\* Steps of a generation that leave the table alone.
Reading ==
  \/ \E g \in Generators, p \in Periods : Generate(g, p)
  \/ \E g \in Generators, u \in Employees : ReadAttendance(g, u)
  \/ \E g \in Generators : Swallow(g)
  \/ \E g \in Generators : FindSlip(g)
  \/ \E g \in Generators : InsertRefused(g)
  \/ \E g \in Generators : Stop(g)

\* Steps that write a payroll.
Writing ==
  \/ \E g \in Generators : InsertSlip(g)
  \/ \E g \in Generators : UpdateSlip(g)
  \/ \E a \in Approvers : Approve(a)
  \/ \E a \in Approvers, u \in Employees, p \in Periods, status \in SlipStatus,
        bonuses \in Bonuses : SubmitForm(a, u, p, status, bonuses)
  \/ \E u \in Employees, p \in Periods, status \in SlipStatus, bonuses \in Bonuses :
        EnterSlip(u, p, status, bonuses)
  \/ \E i \in SlipIds : TrashSlip(i)

\* Every step is one of the three.
LEMMA StepCases == [Next]_vars => Aside \/ Reading \/ Writing
<1>1. ASSUME NEW g \in Generators, GeneratorStep(g) PROVE Reading \/ Writing
  BY <1>1 DEF GeneratorStep, Reading, Writing
<1>2. ASSUME NEW a \in Approvers, ApproverStep(a) PROVE Aside \/ Writing
  BY <1>2 DEF ApproverStep, Aside, Writing
<1> QED
  BY <1>1, <1>2 DEF Next, Aside, Writing

\* What a reading step does to the generations and to the table.
LEMMA ReadingLeavesTable ==
  ASSUME Reading
  PROVE  UNCHANGED <<slips, nextId, approving, form, edited, exposed>>
  BY DEF Reading, Generate, ReadAttendance, Swallow, FindSlip, InsertRefused, Stop, table,
     screens, history

\* A reading step of g, seen from the generations: h # g keeps its place.
ReadingOf(g) ==
  \/ \E p \in Periods : Generate(g, p)
  \/ \E u \in Employees : ReadAttendance(g, u)
  \/ Swallow(g)
  \/ FindSlip(g)
  \/ InsertRefused(g)
  \/ Stop(g)

\* The generation that turns to its next employee is empty-handed.
LEMMA TurnRuns ==
  ASSUME RunsInv, NEW g \in Generators, runs[g] # None, Succeed(g) \/ Fail(g)
  PROVE  /\ runs' = [h \in Generators |-> runs'[h]]
         /\ \A h \in Generators \ {g} : runs'[h] = runs[h]
         /\ IsRun(runs'[g]) /\ runs'[g].stage = "read" /\ runs'[g].id = None
         /\ Fail(g) => runs'[g].counted = runs[g].counted
         /\ runs'[g].counted \subseteq runs[g].counted \cup {runs[g].user}
         /\ alone' = alone \ {g}
<1>1. IsRun(runs[g]) /\ DOMAIN runs = Generators
  BY DEF RunsInv
<1>2. ASSUME NEW c, Turn(g, c)
      PROVE  /\ runs' = [h \in Generators |-> runs'[h]]
             /\ \A h \in Generators \ {g} : runs'[h] = runs[h]
             /\ IsRun(runs'[g]) /\ runs'[g].stage = "read" /\ runs'[g].id = None
             /\ runs'[g].counted = c
             /\ alone' = alone \ {g}
  <2> DEFINE t == [runs[g] EXCEPT !.stage = "read", !.user = None, !.found = None,
                                  !.id = None, !.base = None, !.counted = c]
  <2>1. IsRun(t) /\ t.stage = "read" /\ t.id = None /\ t.counted = c
    BY <1>1 DEF IsRun, RunFields
  <2>2. runs' = [runs EXCEPT ![g] = t] /\ alone' = alone \ {g}
    BY <1>2 DEF Turn, Advance
  <2> HIDE DEF t
  <2> QED
    BY <1>1, <2>1, <2>2
<1> QED
  BY <1>2 DEF Succeed, Fail

\* The run of g after it found a row, and whether it has the row to itself.
TakesRow(g) ==
  /\ runs[g] # None /\ IsRun(runs'[g])
  /\ runs[g].stage \in {"find", "refind"} /\ runs'[g].stage = "update"
  /\ runs'[g].found = runs[g].found
  /\ runs'[g].user = runs[g].user /\ runs'[g].period = runs[g].period
  /\ runs'[g].todo = runs[g].todo /\ runs'[g].seen = runs[g].seen
  /\ runs'[g].counted = runs[g].counted
  /\ runs'[g].id \in Live(runs[g].user, runs[g].period)
  /\ runs'[g].base = slips[runs'[g].id]
  /\ IF Holding(runs'[g].id) = {}
     THEN alone' = alone \cup {g} /\ mixed' = mixed
     ELSE alone' = alone \ Holding(runs'[g].id) /\ mixed' = mixed \cup {runs'[g].id}

\* g takes no row, and has none left.
TakesNoRow(g) ==
  /\ mixed' = mixed
  /\ \/ alone' = alone \ {g}
     \/ alone' = alone /\ (runs[g] = None \/ runs[g].stage # "update")

\* The run of g after one of its own reading steps, in every case.
LEMMA ReadingRuns ==
  ASSUME Shape, NEW g \in Generators, ReadingOf(g)
  PROVE  /\ runs' = [h \in Generators |-> runs'[h]]
         /\ \A h \in Generators \ {g} : runs'[h] = runs[h]
         /\ runs[g] # None /\ runs'[g] # None => runs'[g].counted = runs[g].counted
         /\ \/ TakesRow(g)
            \/ /\ TakesNoRow(g)
               /\ \/ runs'[g] = None
                  \/ IsRun(runs'[g]) /\ runs'[g].stage = "read" /\ runs'[g].id = None
                  \/ /\ IsRun(runs'[g]) /\ runs'[g].stage = "find"
                     /\ runs'[g].id \notin SlipIds
                     /\ \E p, sheet : runs'[g].found = Payslip(p, sheet)
                  \/ /\ runs[g] # None /\ IsRun(runs'[g])
                     /\ runs[g].stage \in {"find", "refind", "insert"}
                     /\ runs'[g].stage \in {"insert", "refind"}
                     /\ runs'[g].found = runs[g].found /\ runs'[g].id = runs[g].id
<1> USE DEF Shape, RunsInv
<1>1. CASE \E p \in Periods : Generate(g, p)
  <2>1. PICK p \in Periods : Generate(g, p)
    BY <1>1
  <2> DEFINE new == [period |-> p, todo |-> active, seen |-> pay, stage |-> "read",
                     user |-> None, found |-> None, id |-> None, base |-> None,
                     counted |-> {}]
  <2>2. runs[g] = None /\ runs' = [runs EXCEPT ![g] = new] /\ TakesNoRow(g)
    BY <2>1 DEF Generate, TakesNoRow, history
  <2>3. IsRun(new) /\ new.stage = "read" /\ new.id = None
    BY DEF IsRun, RunFields
  <2> HIDE DEF new
  <2> QED
    BY <2>2, <2>3
<1>2. CASE \E u \in Employees : ReadAttendance(g, u)
  <2>1. PICK u \in Employees : ReadAttendance(g, u)
    BY <1>2
  <2> DEFINE found == Payslip(runs[g].seen[u], Sheet(u, runs[g].period.month))
             new == [runs[g] EXCEPT !.stage = "find", !.user = u, !.todo = @ \ {u},
                                    !.found = found]
  <2>2. /\ runs[g] # None /\ runs[g].stage = "read"
        /\ runs' = [runs EXCEPT ![g] = new]
        /\ TakesNoRow(g)
    BY <2>1 DEF ReadAttendance, TakesNoRow, history
  <2>3. new = [f \in RunFields |-> new[f]] /\ new.stage = "find" /\ new.found = found
        /\ new.id = runs[g].id /\ new.counted = runs[g].counted
    BY <2>2 DEF IsRun, RunFields
  <2>4. runs[g].id \notin SlipIds
    BY <2>2
  <2> HIDE DEF new, found
  <2>5. runs'[g] = new
    BY <2>2
  <2> QED
    BY <2>2, <2>3, <2>4, <2>5 DEF IsRun, found
<1>3. CASE FindSlip(g)
  <2>1. runs[g] # None /\ IsRun(runs[g]) /\ runs[g].stage \in {"find", "refind"}
    BY <1>3 DEF FindSlip
  <2>2. ASSUME NEW i \in Live(runs[g].user, runs[g].period),
               runs' = [runs EXCEPT ![g].stage = "update", ![g].id = i, ![g].base = slips[i]],
               IF Holding(i) = {} THEN alone' = alone \cup {g} /\ UNCHANGED mixed
               ELSE alone' = alone \ Holding(i) /\ mixed' = mixed \cup {i}
        PROVE  /\ runs' = [h \in Generators |-> runs'[h]]
               /\ \A h \in Generators \ {g} : runs'[h] = runs[h]
               /\ runs'[g].counted = runs[g].counted
               /\ TakesRow(g)
    <3>1. /\ runs' = [h \in Generators |-> runs'[h]]
          /\ \A h \in Generators \ {g} : runs'[h] = runs[h]
          /\ IsRun(runs'[g]) /\ runs'[g].stage = "update"
          /\ runs'[g].found = runs[g].found /\ runs'[g].counted = runs[g].counted
          /\ runs'[g].todo = runs[g].todo /\ runs'[g].seen = runs[g].seen
          /\ runs'[g].user = runs[g].user /\ runs'[g].period = runs[g].period
          /\ runs'[g].id = i /\ runs'[g].base = slips[i]
      BY <2>1, <2>2 DEF IsRun, RunFields
    <3>2. IF Holding(runs'[g].id) = {} THEN alone' = alone \cup {g} /\ mixed' = mixed
          ELSE alone' = alone \ Holding(runs'[g].id) /\ mixed' = mixed \cup {runs'[g].id}
      BY ONLY <2>2, <3>1, Zenon
    <3>3. runs'[g].id \in Live(runs[g].user, runs[g].period) /\ runs'[g].base = slips[runs'[g].id]
      BY ONLY i \in Live(runs[g].user, runs[g].period), <3>1, Zenon
    <3>4. TakesRow(g)
      BY ONLY <2>1, <3>1, <3>2, <3>3, Zenon DEF TakesRow
    <3> QED
      BY ONLY <3>1, <3>4, Zenon
  <2>3. CASE \E i \in Live(runs[g].user, runs[g].period) :
              /\ runs' = [runs EXCEPT ![g].stage = "update", ![g].id = i, ![g].base = slips[i]]
              /\ IF Holding(i) = {} THEN alone' = alone \cup {g} /\ UNCHANGED mixed
                 ELSE alone' = alone \ Holding(i) /\ mixed' = mixed \cup {i}
    BY <2>2, <2>3
  <2>4. CASE /\ runs[g].stage = "find" /\ runs' = [runs EXCEPT ![g].stage = "insert"]
             /\ UNCHANGED <<alone, mixed>>
    BY <2>1, <2>4 DEF TakesNoRow, IsRun, RunFields
  <2>5. CASE Fail(g) /\ UNCHANGED mixed
    BY <2>1, <2>5, TurnRuns DEF TakesNoRow
  <2> HIDE DEF Shape, RunsInv
  <2> QED
    BY <1>3, <2>1, <2>3, <2>4, <2>5 DEF FindSlip
<1>4. CASE InsertRefused(g)
  BY <1>4 DEF InsertRefused, TakesNoRow, history, IsRun, RunFields
<1>5. CASE Stop(g)
  BY <1>5 DEF Stop, TakesNoRow
<1>6. CASE Swallow(g)
  <2>1. runs[g] # None /\ Fail(g) /\ mixed' = mixed
    BY <1>6 DEF Swallow
  <2> QED
    BY <2>1, TurnRuns DEF TakesNoRow
<1> QED
  BY <1>1, <1>2, <1>3, <1>4, <1>5, <1>6 DEF ReadingOf

\* Every reading step is one of some generation.
LEMMA ReadingHasGenerator == Reading => \E g \in Generators : ReadingOf(g)
  BY DEF Reading, ReadingOf

\* None is not an id.
LEMMA NoneIsNoId == None \notin SlipIds
  BY NoPayroll DEF SlipIds

\* A longer range has the numbers of a shorter one.
LEMMA LongerRange ==
  ASSUME NEW a \in Nat, NEW b \in Nat, b >= a PROVE 1..(a - 1) \subseteq 1..(b - 1)
  OBVIOUS

\* What is open stays open, because ids are never taken back.
LEMMA StaysOpen ==
  ASSUME NEW id, NEW base, nextId \in Nat, nextId' \in Nat, nextId' >= nextId,
         IsOpen(id, base)
  PROVE  IsOpen(id, base)'
<1>1. id \in Rows'
  BY LongerRange DEF IsOpen, Rows
<1>2. IsSlip(base)'
  BY DEF IsOpen
<1> QED
  BY <1>1, <1>2 DEF IsOpen

\* The empty table has the shape.
LEMMA ShapeInit == Init => Shape
<1> SUFFICES ASSUME Init PROVE Shape
  OBVIOUS
<1>1. TableInv
  BY PayrollAssumption DEF Init, TableInv, SlipIds, Rows
<1>2. RunsInv
  BY DEF Init, RunsInv
<1>3. ScreensInv
  BY DEF Init, ScreensInv
<1> QED
  BY <1>1, <1>2, <1>3 DEF Shape

\* Runs keep their shape when the table only grows and g turns to its next
\* employee.
LEMMA RunsAfterTurn ==
  ASSUME Shape, TableInv', nextId' >= nextId, NEW g \in Generators, runs[g] # None,
         Succeed(g) \/ Fail(g)
  PROVE  RunsInv'
<1>1. /\ runs' = [h \in Generators |-> runs'[h]]
      /\ \A h \in Generators \ {g} : runs'[h] = runs[h]
      /\ IsRun(runs'[g]) /\ runs'[g].stage = "read" /\ runs'[g].id = None
  BY TurnRuns DEF Shape
<1>2. nextId \in Nat /\ nextId' \in Nat
  BY DEF Shape, TableInv
<1>3. \A h \in Generators \ {g} :
        runs[h] # None /\ runs[h].stage = "update" => IsOpen(runs[h].id, runs[h].base)'
  BY <1>1, <1>2, StaysOpen DEF Shape, RunsInv, IsOpen
<1> QED
  BY <1>1, <1>3, NoneIsNoId DEF Shape, RunsInv, IsOpen

\* Runs that do not move keep their shape.
LEMMA RunsStand ==
  ASSUME Shape, nextId' \in Nat, nextId' >= nextId, UNCHANGED runs
  PROVE  RunsInv'
<1>1. nextId \in Nat
  BY DEF Shape, TableInv
<1> QED
  BY <1>1 DEF Shape, RunsInv, IsOpen, Rows

\* Screens that do not move keep their shape.
LEMMA ScreensStand ==
  ASSUME Shape, nextId' \in Nat, nextId' >= nextId, UNCHANGED <<approving, form>>
  PROVE  ScreensInv'
<1>1. nextId \in Nat
  BY DEF Shape, TableInv
<1> QED
  BY <1>1 DEF Shape, ScreensInv, IsOpen, Rows
\* The shape survives the reading steps of generations.
LEMMA ShapeReading == Shape /\ Reading => Shape'
<1> SUFFICES ASSUME Shape, Reading PROVE Shape'
  OBVIOUS
<1>1. UNCHANGED <<slips, nextId, approving, form, edited, exposed>>
  BY ReadingLeavesTable
<1>2. TableInv'
  BY <1>1 DEF Shape, TableInv, IsSlip, IsAmounts, Rows
<1>3. nextId' \in Nat /\ nextId' >= nextId
  BY <1>1 DEF Shape, TableInv
<1>4. ScreensInv'
  BY <1>1, <1>3, ScreensStand
<1>5. PICK g \in Generators : ReadingOf(g)
  BY ReadingHasGenerator
<1>6. /\ runs' = [h \in Generators |-> runs'[h]]
      /\ \A h \in Generators \ {g} : runs'[h] = runs[h]
  BY <1>5, ReadingRuns
<1>7. ASSUME runs'[g] # None
      PROVE  /\ IsRun(runs'[g])
             /\ runs'[g].stage # "read" => IsAmounts(runs'[g].found)
             /\ runs'[g].id \in SlipIds => runs'[g].stage = "update"
             /\ runs'[g].stage = "update" => IsOpen(runs'[g].id, runs'[g].base)
  <2>1. CASE IsRun(runs'[g]) /\ runs'[g].stage = "read" /\ runs'[g].id = None
    BY <2>1, NoneIsNoId
  <2>2. CASE /\ IsRun(runs'[g]) /\ runs'[g].stage = "find" /\ runs'[g].id \notin SlipIds
             /\ \E q, sheet : runs'[g].found = Payslip(q, sheet)
    BY <2>2, PayslipColumns
  <2>3. CASE /\ runs[g] # None /\ IsRun(runs'[g])
             /\ runs[g].stage \in {"find", "refind", "insert"}
             /\ runs'[g].stage \in {"insert", "refind"}
             /\ runs'[g].found = runs[g].found /\ runs'[g].id = runs[g].id
    BY <2>3 DEF Shape, RunsInv
  <2>4. CASE TakesRow(g)
    <3>1. runs'[g].id \in Rows
      BY <2>4 DEF TakesRow, Live, Taken
    <3>2. IsOpen(runs'[g].id, runs'[g].base)
      BY <2>4, <3>1 DEF TakesRow, Shape, TableInv, IsOpen
    <3>3. IsAmounts(runs'[g].found)
      BY <2>4 DEF TakesRow, Shape, RunsInv
    <3> QED
      BY <2>4, <3>2, <3>3 DEF TakesRow
  <2> QED
    BY <1>5, <1>7, <2>1, <2>2, <2>3, <2>4, ReadingRuns
<1>8. RunsInv'
  BY <1>1, <1>6, <1>7 DEF Shape, RunsInv, IsOpen, Rows
<1> QED
  BY <1>2, <1>4, <1>8 DEF Shape

\* The shape survives every write of a payroll.
LEMMA ShapeWriting == Shape /\ Writing => Shape'
<1> SUFFICES ASSUME Shape, Writing PROVE Shape'
  OBVIOUS
<1>1. nextId \in Nat
  BY DEF Shape, TableInv
<1>2. ASSUME NEW g \in Generators, InsertSlip(g) PROVE Shape'
  <2>1. TableInv' /\ nextId' = nextId + 1
    BY <1>2, InsertStores
  <2>2. runs[g] # None /\ (Succeed(g) \/ Fail(g)) /\ UNCHANGED <<approving, form>>
    BY <1>2 DEF InsertSlip, screens
  <2> QED
    BY <1>1, <2>1, <2>2, RunsAfterTurn, ScreensStand DEF Shape
<1>3. ASSUME NEW g \in Generators, UpdateSlip(g) PROVE Shape'
  <2>1. TableInv' /\ nextId' = nextId
    BY <1>3, UpdateStores
  <2>2. runs[g] # None /\ (Succeed(g) \/ Fail(g)) /\ UNCHANGED <<approving, form>>
    BY <1>3 DEF UpdateSlip, screens
  <2> QED
    BY <1>1, <2>1, <2>2, RunsAfterTurn, ScreensStand DEF Shape
<1>4. ASSUME NEW a \in Approvers, Approve(a) PROVE Shape'
  <2>1. TableInv' /\ nextId' = nextId
    BY <1>4, ApproveStores
  <2>2. UNCHANGED <<runs, form>> /\ approving' = [approving EXCEPT ![a] = None]
    BY <1>4 DEF Approve, work
  <2>3. ScreensInv'
    BY <2>1, <2>2 DEF Shape, ScreensInv, IsOpen, Rows
  <2> QED
    BY <1>1, <2>1, <2>2, <2>3, RunsStand DEF Shape
<1>5. ASSUME NEW a \in Approvers, NEW u \in Employees, NEW p \in Periods,
             NEW status \in SlipStatus, NEW bonuses \in Bonuses,
             SubmitForm(a, u, p, status, bonuses)
      PROVE  Shape'
  <2>1. TableInv' /\ nextId' = nextId
    BY <1>5, SubmitStores
  <2>2. UNCHANGED <<runs, approving>> /\ form' = [form EXCEPT ![a] = None]
    BY <1>5 DEF SubmitForm, work
  <2>3. ScreensInv'
    BY <2>1, <2>2 DEF Shape, ScreensInv, IsOpen, Rows
  <2> QED
    BY <1>1, <2>1, <2>2, <2>3, RunsStand DEF Shape
<1>6. ASSUME NEW u \in Employees, NEW p \in Periods, NEW status \in SlipStatus,
             NEW bonuses \in Bonuses, EnterSlip(u, p, status, bonuses)
      PROVE  Shape'
  <2>1. TableInv' /\ nextId' = nextId + 1
    BY <1>6, EnterStores
  <2>2. UNCHANGED <<runs, approving, form>>
    BY <1>6 DEF EnterSlip, work, screens
  <2> QED
    BY <1>1, <2>1, <2>2, RunsStand, ScreensStand DEF Shape
<1>7. ASSUME NEW i \in SlipIds, TrashSlip(i) PROVE Shape'
  <2>1. TableInv' /\ nextId' = nextId
    BY <1>7, TrashStores
  <2>2. UNCHANGED <<runs, approving, form>>
    BY <1>7 DEF TrashSlip, work, screens
  <2> QED
    BY <1>1, <2>1, <2>2, RunsStand, ScreensStand DEF Shape
<1> QED
  BY <1>2, <1>3, <1>4, <1>5, <1>6, <1>7 DEF Writing

\* The shape survives the other screens, and what payroll reads.
LEMMA ShapeAside == Shape /\ Aside => Shape'
<1> SUFFICES ASSUME Shape, Aside PROVE Shape'
  OBVIOUS
<1>1. UNCHANGED <<slips, nextId, runs, alone, edited, mixed, exposed>>
  BY AsideChangesNothing
<1>2. TableInv' /\ nextId' \in Nat /\ nextId' >= nextId
  <2>1. TableInv'
    BY <1>1 DEF Shape, TableInv, IsSlip, IsAmounts, Rows
  <2> QED
    BY <1>1, <2>1 DEF TableInv
<1>3. ASSUME NEW a \in Approvers, NEW i \in SlipIds, OpenApproval(a, i) PROVE ScreensInv'
  <2>1. IsOpen(i, slips[i])
    BY <1>3 DEF OpenApproval, Shape, TableInv, IsOpen
  <2>2. approving' = [approving EXCEPT ![a] = [id |-> i, base |-> slips[i]]] /\ form' = form
    BY <1>3 DEF OpenApproval
  <2> QED
    BY <1>1, <2>1, <2>2 DEF Shape, ScreensInv, IsOpen, Rows
<1>4. ASSUME NEW a \in Approvers, NEW i \in SlipIds, OpenForm(a, i) PROVE ScreensInv'
  <2>1. IsOpen(i, slips[i])
    BY <1>4 DEF OpenForm, Shape, TableInv, IsOpen
  <2>2. form' = [form EXCEPT ![a] = [id |-> i, base |-> slips[i]]] /\ approving' = approving
    BY <1>4 DEF OpenForm
  <2> QED
    BY <1>1, <2>1, <2>2 DEF Shape, ScreensInv, IsOpen, Rows
<1>5. ASSUME \/ \E u \in Employees, d \in Days : RecordAttendance(u, d)
             \/ \E u \in Employees : ChangePay(u) \/ ChangeStatus(u)
             \/ UNCHANGED vars
      PROVE  ScreensInv'
  <2>1. UNCHANGED <<approving, form>>
    BY <1>5 DEF RecordAttendance, ChangePay, ChangeStatus, vars, screens
  <2> QED
    BY <1>2, <2>1, ScreensStand
<1>6. ScreensInv'
  BY <1>3, <1>4, <1>5 DEF Aside
<1>7. RunsInv'
  BY <1>1, <1>2, RunsStand
<1> QED
  BY <1>2, <1>6, <1>7 DEF Shape

\* Whatever happens, the state keeps its shape.
LEMMA ShapeStep == Shape /\ [Next]_vars => Shape'
  BY StepCases, ShapeAside, ShapeReading, ShapeWriting

-----------------------------------------------------------------------------
(* One payroll per employee and text. *)

\* An insert finds the text free.
LEMMA OneSlipInsert ==
  ASSUME OneSlipPerPeriod, TableInv, nextId \in SlipIds, nextId' = nextId + 1,
         \A k \in SlipIds \ {nextId} : slips'[k] = slips[k],
         Taken(slips'[nextId].user, slips'[nextId].period) = {}
  PROVE  OneSlipPerPeriod'
<1>1. \A k \in Rows : slips'[k] = slips[k]
  BY RowsAreIds DEF Rows, TableInv
<1>2. Rows' = Rows \cup {nextId}
  BY DEF Rows, TableInv
<1>3. \A k \in Rows : ~(slips[k].user = slips'[nextId].user /\ slips[k].period = slips'[nextId].period)
  BY DEF Taken
<1> QED
  BY <1>1, <1>2, <1>3 DEF OneSlipPerPeriod

\* A row that keeps its owner and its text disturbs nobody.
LEMMA OneSlipUpdate ==
  ASSUME OneSlipPerPeriod, TableInv, NEW i \in Rows, nextId' = nextId,
         slips'[i].user = slips[i].user, slips'[i].period = slips[i].period,
         \A k \in SlipIds \ {i} : slips'[k] = slips[k]
  PROVE  OneSlipPerPeriod'
<1>1. \A k \in Rows : slips'[k].user = slips[k].user /\ slips'[k].period = slips[k].period
  BY RowsAreIds
<1> QED
  BY <1>1 DEF OneSlipPerPeriod, Rows

\* Every step keeps one payroll per employee and text.
LEMMA OneSlipStep == Shape /\ OneSlipPerPeriod /\ [Next]_vars => OneSlipPerPeriod'
<1> SUFFICES ASSUME Shape, OneSlipPerPeriod, [Next]_vars PROVE OneSlipPerPeriod'
  OBVIOUS
<1>1. TableInv
  BY DEF Shape
<1>2. ASSUME UNCHANGED <<slips, nextId>> PROVE OneSlipPerPeriod'
  BY <1>2 DEF OneSlipPerPeriod, Rows
<1>3. ASSUME NEW g \in Generators, InsertSlip(g) PROVE OneSlipPerPeriod'
  <2>1. /\ nextId \in SlipIds /\ nextId' = nextId + 1
        /\ slips'[nextId].user = runs[g].user /\ slips'[nextId].period = runs[g].period
        /\ \A k \in SlipIds \ {nextId} : slips'[k] = slips[k]
    <3> DEFINE s == [user |-> runs[g].user, period |-> runs[g].period,
                     amounts |-> runs[g].found, status |-> "draft", approver |-> None,
                     trashed |-> FALSE]
    <3>1. s.user = runs[g].user /\ s.period = runs[g].period
      OBVIOUS
    <3>2. /\ nextId \in SlipIds /\ nextId' = nextId + 1 /\ slips'[nextId] = s
          /\ \A k \in SlipIds \ {nextId} : slips'[k] = slips[k]
      BY ONLY <1>3, Shape, InsertStores
    <3> HIDE DEF s
    <3> QED
      BY <3>1, <3>2
  <2>2. Taken(slips'[nextId].user, slips'[nextId].period) = {}
    BY <1>3, <2>1 DEF InsertSlip
  <2> QED
    BY <1>1, <2>1, <2>2, OneSlipInsert
<1>4. ASSUME NEW g \in Generators, UpdateSlip(g) PROVE OneSlipPerPeriod'
  BY <1>1, <1>4, UpdateStores, OneSlipUpdate
<1>5. ASSUME NEW a \in Approvers, Approve(a) PROVE OneSlipPerPeriod'
  BY <1>1, <1>5, ApproveStores, OneSlipUpdate
<1>6. ASSUME NEW a \in Approvers, NEW u \in Employees, NEW p \in Periods,
             NEW status \in SlipStatus, NEW bonuses \in Bonuses,
             SubmitForm(a, u, p, status, bonuses)
      PROVE  OneSlipPerPeriod'
  <2> DEFINE i == form[a].id
  <2>1. /\ i \in Rows /\ nextId' = nextId
        /\ Taken(u, p) \subseteq {i}
        /\ slips'[i].user = u /\ slips'[i].period = p
        /\ \A k \in SlipIds \ {i} : slips'[k] = slips[k]
    BY <1>6, SubmitStores
  <2> HIDE DEF i
  <2>2. Rows' = Rows /\ \A k \in Rows \ {i} : slips'[k] = slips[k]
    BY <1>1, <2>1, RowsAreIds DEF Rows
  <2>3. \A k \in Rows \ {i} : ~(slips[k].user = u /\ slips[k].period = p)
    BY <2>1 DEF Taken
  <2> QED
    BY <2>1, <2>2, <2>3 DEF OneSlipPerPeriod
<1>7. ASSUME NEW u \in Employees, NEW p \in Periods, NEW status \in SlipStatus,
             NEW bonuses \in Bonuses, EnterSlip(u, p, status, bonuses)
      PROVE  OneSlipPerPeriod'
  <2>1. /\ nextId \in SlipIds /\ nextId' = nextId + 1
        /\ slips'[nextId].user = u /\ slips'[nextId].period = p
        /\ \A k \in SlipIds \ {nextId} : slips'[k] = slips[k]
    BY <1>7, EnterStores
  <2>2. Taken(slips'[nextId].user, slips'[nextId].period) = {}
    BY <1>7, <2>1 DEF EnterSlip
  <2> QED
    BY <1>1, <2>1, <2>2, OneSlipInsert
<1>8. ASSUME NEW i \in SlipIds, TrashSlip(i) PROVE OneSlipPerPeriod'
  BY <1>1, <1>8, TrashStores, OneSlipUpdate
<1> QED
  BY <1>2, <1>3, <1>4, <1>5, <1>6, <1>7, <1>8, StepCases, AsideChangesNothing,
     ReadingLeavesTable DEF Writing

\* An employee never has two payrolls under one text, in the table or in the
\* bin, whoever generates, types and deletes at the same time.
THEOREM OneSlip == Spec => []OneSlipPerPeriod
<1>1. Init => Shape /\ OneSlipPerPeriod
  <2>1. Init => OneSlipPerPeriod
    BY DEF Init, OneSlipPerPeriod, Rows
  <2> QED
    BY <2>1, ShapeInit
<1>2. Shape /\ OneSlipPerPeriod /\ [Next]_vars => (Shape /\ OneSlipPerPeriod)'
  BY ShapeStep, OneSlipStep
<1> QED
  BY <1>1, <1>2, PTL DEF Spec

-----------------------------------------------------------------------------
(* The amounts are numbers: sums over a month, and what is made of them. *)

\* A sum over finitely many natural numbers is one, in whatever order they
\* are taken.
LEMMA SumIsNumber ==
  ASSUME NEW S, IsFiniteSet(S), NEW f \in [S -> Nat]
  PROVE  SumFunction(f) \in Nat
<1> DEFINE P == SUBSET S
           some(s) == CHOOSE x \in s : TRUE
           measure == [s \in P |-> Cardinality(s)]
           value(s, g) == IF s = {} THEN 0 ELSE f[some(s)] + g[s \ {some(s)}]
           body == [s \in P |-> [g \in [P -> Nat] |-> value(s, g)]]
<1>1. \A s \in P : IsFiniteSet(s) /\ Cardinality(s) \in Nat
  BY FS_Subset, FS_CardinalityType
<1>2. measure \in [P -> Nat]
  BY <1>1
<1>3. ASSUME NEW s \in P, s # {}
      PROVE  /\ some(s) \in s /\ some(s) \in S /\ s \ {some(s)} \in P
             /\ Cardinality(s \ {some(s)}) = Cardinality(s) - 1
  <2>1. some(s) \in s
    BY <1>3
  <2> HIDE DEF some
  <2>2. Cardinality(s \ {some(s)}) = Cardinality(s) - 1
    BY <1>1, <2>1, FS_RemoveElement
  <2> QED
    BY <2>1, <2>2
<1> HIDE DEF some
<1>4. ASSUME NEW s \in P, NEW g \in [P -> Nat] PROVE value(s, g) \in Nat
  <2>1. CASE s = {}
    BY <2>1
  <2>2. CASE s # {}
    <3>1. f[some(s)] \in Nat /\ g[s \ {some(s)}] \in Nat
      BY <1>3, <2>2
    <3> QED
      BY <2>2, <3>1
  <2> QED
    BY <2>1, <2>2
<1>5. body \in [P -> [[P -> Nat] -> Nat]]
  BY <1>4
<1>6. ASSUME NEW s \in P, NEW g \in [P -> Nat], NEW h \in [P -> Nat],
             \A y \in P : measure[y] < measure[s] => g[y] = h[y]
      PROVE  value(s, g) = value(s, h)
  <2>1. CASE s = {}
    BY <2>1
  <2>2. CASE s # {}
    <3>1. measure[s \ {some(s)}] < measure[s]
      BY <1>1, <1>3, <2>2
    <3>2. g[s \ {some(s)}] = h[s \ {some(s)}]
      BY <1>3, <1>6, <2>2, <3>1
    <3> QED
      BY <3>2
  <2> QED
    BY <2>1, <2>2
<1>7. Descends(P, Nat, measure, body)
  <2>1. \A s \in P, g, h \in [P -> Nat] :
          (\A y \in P : measure[y] < measure[s] => g[y] = h[y]) => body[s][g] = body[s][h]
    BY <1>6
  <2> HIDE DEF P, measure, body
  <2> QED
    BY <1>2, <1>5, <2>1 DEF Descends
<1>8. PICK sum : Solves(P, Nat, body, sum)
  <2> HIDE DEF P, measure, body
  <2> QED
    BY <1>7, Recursion
<1>9. sum = [s \in P |-> value(s, sum)]
  BY <1>8 DEF Solves
<1> DEFINE iter == CHOOSE it : it = [s \in P |-> value(s, it)]
<1>10. iter = [s \in P |-> value(s, iter)]
  BY <1>9
<1>11. SumFunction(f) = iter[S]
  BY DEF SumFunction, SumFunctionOnSet, FoldFunctionOnSet, MapThenFoldSet, some
<1> HIDE DEF iter
<1>12. \A s \in P : iter[s] = value(s, iter)
  BY <1>10
\* By induction on the number of terms.
<1> DEFINE T == {n \in Nat : \A s \in P : Cardinality(s) = n => iter[s] \in Nat}
<1>13. 0 \in T
  <2>1. \A s \in P : Cardinality(s) = 0 => s = {}
    BY <1>1, FS_EmptySet
  <2>2. {} \in P /\ iter[{}] = 0
    BY <1>12
  <2> HIDE DEF P
  <2> QED
    BY <2>1, <2>2
<1>14. ASSUME NEW n \in Nat, n \in T PROVE n + 1 \in T
  <2>1. SUFFICES ASSUME NEW s \in P, Cardinality(s) = n + 1 PROVE iter[s] \in Nat
    OBVIOUS
  <2>2. s # {}
    <3>1. Cardinality({}) = 0 /\ n + 1 # 0
      BY FS_EmptySet
    <3> QED
      BY <2>1, <3>1
  <2>3. iter[s \ {some(s)}] \in Nat
    <3>1. Cardinality(s \ {some(s)}) = n
      BY <1>3, <2>1, <2>2
    <3> QED
      BY <1>3, <1>14, <2>2, <3>1
  <2>4. f[some(s)] \in Nat /\ iter[s] = f[some(s)] + iter[s \ {some(s)}]
    BY <1>3, <1>12, <2>2
  <2> QED
    BY <2>3, <2>4
<1>15. Nat \subseteq T
  <2> HIDE DEF T
  <2> QED
    BY <1>13, <1>14, Induction
<1>16. S \in P /\ Cardinality(S) \in T
  BY <1>1, <1>15
<1> QED
  BY <1>11, <1>16

\* A price and a rate are numbers.
LEMMA PriceIsNumber ==
  ASSUME NEW m \in Nat, NEW r \in Nat
  PROVE  Cost(m, r) \in Nat /\ OvertimeValue(m, r) \in Nat
<1>1. m * r \in Nat
  BY SMT
<1>2. PICK n \in Nat : n = m * r
  BY <1>1
<1>3. 3 * m * r = 3 * n
  BY <1>2
<1>4. (n + 50) \div 100 \in Nat /\ (3 * n + 100) \div 200 \in Nat
  BY SMT
<1> QED
  BY <1>2, <1>3, <1>4 DEF Cost, OvertimeValue

LEMMA RateIsNumber ==
  ASSUME NEW s \in Nat
  PROVE  CostPerMinute(s, MonthlyMinutes) \in Nat
<1>1. CASE MonthlyMinutes <= 0
  BY <1>1 DEF CostPerMinute
<1>2. CASE ~(MonthlyMinutes <= 0)
  <2>1. PICK m \in Nat \ {0} : m = MonthlyMinutes
    BY <1>2, PayrollAssumption
  <2>2. (200 * s + m) \div (2 * m) \in Nat
    BY SMT
  <2> QED
    BY <1>2, <2>1, <2>2 DEF CostPerMinute
<1> QED
  BY <1>1, <1>2

\* The days are finitely many.
LEMMA DaysFinite == IsFiniteSet(Days)
<1>1. (MaxMonth + 1) * DaysPerMonth \in Nat
  BY PayrollAssumption
<1>2. (MaxMonth + 1) * DaysPerMonth - 1 \in Int
  BY <1>1
<1> QED
  BY <1>2, FS_Interval DEF Days

\* Every amount of a payslip but the net is a natural number.
LEMMA PayslipTyped ==
  ASSUME NEW p \in PayType, NEW S \in SUBSET Days, NEW sheet \in [S -> Log]
  PROVE  Payslip(p, sheet) \in Amounts
<1>1. IsFiniteSet(S)
  BY DaysFinite, FS_Subset
<1>2. ASSUME NEW column \in {"delay", "over", "earlyCost"}
      PROVE  Total(sheet, column) \in Nat
  <2>1. \A d \in S : sheet[d][column] \in Nat
    BY DEF Log
  <2>2. [d \in S |-> sheet[d][column]] \in [S -> Nat]
    BY <2>1
  <2>3. SumFunction([d \in S |-> sheet[d][column]]) \in Nat
    BY <1>1, <2>2, SumIsNumber
  <2> QED
    BY <2>3 DEF Total
<1>3. Absences(sheet) \in Nat
  <2>1. IsFiniteSet({d \in S : sheet[d].status = "absent"})
    BY <1>1, FS_Subset
  <2> QED
    BY <2>1, FS_CardinalityType DEF Absences
<1>4. p.basic \in Nat /\ p.rest \in Nat /\ CostPerMinute(p.basic, MonthlyMinutes) \in Nat
  BY RateIsNumber DEF PayType
<1>5. ASSUME NEW days \in Nat, NEW gross \in Nat PROVE AbsenceCost(days, gross) \in Nat
  <2>1. PICK n \in Nat : n = days * gross
    OBVIOUS
  <2>2. 2 * days * gross = 2 * n
    BY <2>1
  <2>3. WorkingDays \in Nat \ {0}
    BY PayrollAssumption
  <2>4. (2 * n + WorkingDays) \div (2 * WorkingDays) \in Nat
    BY <2>3
  <2> QED
    BY <2>2, <2>4 DEF AbsenceCost
<1> DEFINE rate == CostPerMinute(p.basic, MonthlyMinutes)
<1>6. PICK delay \in Nat : delay = Cost(Total(sheet, "delay"), rate)
  BY <1>2, <1>4, PriceIsNumber
<1>7. PICK early \in Nat : early = Total(sheet, "earlyCost")
  BY <1>2
<1>8. PICK overtime \in Nat : overtime = OvertimeValue(Total(sheet, "over"), rate)
  BY <1>2, <1>4, PriceIsNumber
<1>9. PICK gross \in Nat : gross = p.basic + p.rest
  BY <1>4
<1>10. PICK absence \in Nat : absence = AbsenceCost(Absences(sheet), gross)
  BY <1>3, <1>5
<1>11. Payslip(p, sheet) =
         [gross |-> gross, delay |-> delay, early |-> early, absence |-> absence,
          total |-> delay + early + absence, overtime |-> overtime, bonuses |-> 0,
          net |-> gross - (delay + early + absence) + overtime]
  BY <1>6, <1>7, <1>8, <1>9, <1>10 DEF Payslip
<1> QED
  BY <1>11 DEF Amounts

-----------------------------------------------------------------------------
(* The types, by what they are about. *)

InputsTyped ==
  /\ logs \in [Employees -> [Days -> Log \cup {None}]]
  /\ pay \in [Employees -> Pays] /\ active \subseteq Employees

\* Rows are payrolls.
TableTyped ==
  /\ slips \in [SlipIds -> Slip \cup {None}] /\ nextId \in 1..(MaxSlips + 1)
  /\ \A i \in Rows : slips[i] \in Slip

\* A generation has an employee and his amounts after it read, and a row
\* while it updates.
Whole(r) ==
  /\ r.stage = "read" <=> r.user = None
  /\ r.stage = "read" <=> r.found = None
  /\ r.stage = "update" <=> r.id # None
  /\ r.stage = "update" <=> r.base # None

RunsTyped ==
  /\ runs \in [Generators -> Run \cup {None}]
  /\ \A g \in Generators : runs[g] # None => Whole(runs[g])

ScreensTyped ==
  /\ approving \in [Approvers -> Held \cup {None}]
  /\ form \in [Approvers -> Held \cup {None}]

CountsTyped ==
  /\ started \in 0..MaxRuns /\ changes \in 0..MaxChanges
  /\ edited \subseteq SlipIds /\ mixed \subseteq SlipIds /\ exposed \subseteq SlipIds

Types == InputsTyped /\ TableTyped /\ RunsTyped /\ ScreensTyped /\ CountsTyped

\* A row takes a payroll, or the next id does.
LEMMA RowStored ==
  ASSUME Types, NEW i \in SlipIds, NEW s \in Slip, slips' = [slips EXCEPT ![i] = s],
         nextId' = nextId \/ (i = nextId /\ nextId' = nextId + 1)
  PROVE  TableTyped'
<1>1. slips \in [SlipIds -> Slip \cup {None}] /\ nextId \in 1..(MaxSlips + 1)
  BY DEF Types, TableTyped
<1>2. slips' \in [SlipIds -> Slip \cup {None}] /\ nextId' \in 1..(MaxSlips + 1)
  BY <1>1, PayrollAssumption DEF SlipIds
<1>3. ASSUME NEW k \in Rows' PROVE slips'[k] \in Slip
  <2>1. CASE k = i
    BY <1>1, <2>1
  <2>2. CASE k # i
    <3>1. k \in Rows
      BY <1>1, <1>3, <2>2 DEF Rows
    <3>2. slips[k] \in Slip /\ k \in SlipIds
      BY <1>1, <3>1, PayrollAssumption DEF Types, TableTyped, Rows, SlipIds
    <3> QED
      BY <1>1, <2>2, <3>2
  <2> QED
    BY <2>1, <2>2
<1> QED
  BY <1>2, <1>3 DEF TableTyped

\* A generation moves.
LEMMA RunStored ==
  ASSUME RunsTyped, NEW g \in Generators, NEW r \in Run \cup {None},
         runs' = [runs EXCEPT ![g] = r], r # None => Whole(r)
  PROVE  RunsTyped'
<1>1. runs' \in [Generators -> Run \cup {None}]
  BY DEF RunsTyped
<1>2. ASSUME NEW h \in Generators, runs'[h] # None PROVE Whole(runs'[h])
  BY <1>2 DEF RunsTyped
<1> QED
  BY <1>1, <1>2 DEF RunsTyped, Whole

LEMMA RunFieldsTyped ==
  ASSUME RunsTyped, NEW g \in Generators, runs[g] # None
  PROVE  /\ runs[g] \in Run /\ Whole(runs[g])
         /\ runs[g] = [period |-> runs[g].period, todo |-> runs[g].todo, seen |-> runs[g].seen,
                       stage |-> runs[g].stage, user |-> runs[g].user,
                       found |-> runs[g].found, id |-> runs[g].id, base |-> runs[g].base,
                       counted |-> runs[g].counted]
         /\ runs[g].period \in Periods /\ runs[g].todo \in SUBSET Employees
         /\ runs[g].seen \in [Employees -> Pays] /\ runs[g].stage \in Stages
         /\ runs[g].user \in Employees \cup {None} /\ runs[g].found \in Amounts \cup {None}
         /\ runs[g].id \in SlipIds \cup {None} /\ runs[g].base \in Slip \cup {None}
         /\ runs[g].counted \in SUBSET Employees
<1>1. PICK r \in Run : r = runs[g]
  BY DEF RunsTyped
<1>2. /\ r = [period |-> r.period, todo |-> r.todo, seen |-> r.seen, stage |-> r.stage,
              user |-> r.user, found |-> r.found, id |-> r.id, base |-> r.base,
              counted |-> r.counted]
      /\ r.period \in Periods /\ r.todo \in SUBSET Employees
      /\ r.seen \in [Employees -> Pays] /\ r.stage \in Stages
      /\ r.user \in Employees \cup {None} /\ r.found \in Amounts \cup {None}
      /\ r.id \in SlipIds \cup {None} /\ r.base \in Slip \cup {None}
      /\ r.counted \in SUBSET Employees
  BY DEF Run
<1> QED
  BY <1>1, <1>2 DEF RunsTyped

\* A generation that turns to its next employee has nothing in hand.
LEMMA TurnTyped ==
  ASSUME RunsTyped, NEW g \in Generators, runs[g] # None, NEW c \in SUBSET Employees,
         Turn(g, c)
  PROVE  RunsTyped'
<1>1. PICK r \in Run : r = runs[g]
  BY DEF RunsTyped
<1> DEFINE t == [r EXCEPT !.stage = "read", !.user = None, !.found = None,
                          !.id = None, !.base = None, !.counted = c]
<1>2. t \in Run /\ Whole(t)
  BY DEF Run, Whole, Stages
<1>3. runs' = [runs EXCEPT ![g] = t]
  BY <1>1 DEF Turn, Advance
<1> HIDE DEF t
<1> QED
  BY <1>2, <1>3, RunStored

\* So it is whether the employee counts or not.
LEMMA OutcomeTyped ==
  ASSUME RunsTyped, NEW g \in Generators, runs[g] # None,
         Fail(g) \/ (Succeed(g) /\ runs[g].user # None)
  PROVE  RunsTyped'
<1>1. runs[g].counted \in SUBSET Employees /\ runs[g].user \in Employees \cup {None}
  BY RunFieldsTyped
<1> QED
  BY <1>1, TurnTyped DEF Succeed, Fail

LEMMA GenerateTyped ==
  ASSUME Types, NEW g \in Generators, NEW p \in Periods, Generate(g, p)
  PROVE  Types'
<1> DEFINE t == [period |-> p, todo |-> active, seen |-> pay, stage |-> "read",
                 user |-> None, found |-> None, id |-> None, base |-> None, counted |-> {}]
<1>1. t \in Run /\ Whole(t)
  BY DEF Run, Whole, Stages, Types, InputsTyped
<1>2. /\ runs' = [runs EXCEPT ![g] = t] /\ started' = started + 1 /\ started < MaxRuns
      /\ UNCHANGED <<inputs, table, screens, changes, history>>
  BY DEF Generate
<1> HIDE DEF t
<1>3. RunsTyped'
  BY <1>1, <1>2, RunStored DEF Types
<1>4. started' \in 0..MaxRuns
  BY <1>2, PayrollAssumption DEF Types, CountsTyped
<1> QED
  BY <1>2, <1>3, <1>4 DEF Types, InputsTyped, TableTyped, ScreensTyped, CountsTyped, Rows,
     inputs, table, screens, history

LEMMA ReadAttendanceTyped ==
  ASSUME Types, NEW g \in Generators, NEW u \in Employees, ReadAttendance(g, u)
  PROVE  Types'
<1>1. runs[g] # None /\ RunsTyped
  BY DEF ReadAttendance, Types
<1>2. PICK r \in Run : r = runs[g] /\ Whole(r) /\ r.stage = "read"
  BY <1>1, RunFieldsTyped DEF ReadAttendance
<1> DEFINE S == {d \in Days : Month(d) = r.period.month /\ logs[u][d] # None}
<1>3. Sheet(u, r.period.month) \in [S -> Log] /\ S \in SUBSET Days
  BY DEF Sheet, Types, InputsTyped
<1>4. r.seen[u] \in PayType
  BY PayrollAssumption DEF Run
<1>5. PICK found \in Amounts : found = Payslip(r.seen[u], Sheet(u, r.period.month))
  BY <1>3, <1>4, PayslipTyped
<1> DEFINE t == [r EXCEPT !.stage = "find", !.user = u, !.todo = @ \ {u}, !.found = found]
<1>6. t \in Run /\ Whole(t)
  <2>1. u # None /\ found # None
    BY NoPayroll
  <2> QED
    BY <1>2, <2>1 DEF Run, Whole, Stages
<1>7. /\ runs' = [runs EXCEPT ![g] = t]
      /\ UNCHANGED <<inputs, table, started, screens, changes, history>>
  BY <1>2, <1>5 DEF ReadAttendance
<1> HIDE DEF t
<1>8. RunsTyped'
  BY <1>1, <1>6, <1>7, RunStored
<1> QED
  BY <1>7, <1>8 DEF Types, InputsTyped, TableTyped, ScreensTyped, CountsTyped, Rows,
     inputs, table, screens, history

LEMMA SwallowTyped ==
  ASSUME Types, NEW g \in Generators, Swallow(g)
  PROVE  Types'
<1>1. /\ runs[g] # None /\ Fail(g) /\ RunsTyped
      /\ UNCHANGED <<inputs, table, started, screens, changes, edited, mixed, exposed>>
  BY DEF Swallow, Types
<1>2. RunsTyped'
  BY <1>1, OutcomeTyped
<1> QED
  BY <1>1, <1>2 DEF Types, InputsTyped, TableTyped, ScreensTyped, CountsTyped, Rows,
     inputs, table, screens

LEMMA FindSlipTyped ==
  ASSUME Types, NEW g \in Generators, FindSlip(g)
  PROVE  Types'
<1>1. runs[g] # None /\ RunsTyped /\ UNCHANGED <<inputs, table, started, screens, changes, edited, exposed>>
  BY DEF FindSlip, Types
<1>2. PICK r \in Run : r = runs[g] /\ Whole(r) /\ r.stage \in {"find", "refind"}
  BY <1>1, RunFieldsTyped DEF FindSlip
<1>3. ASSUME NEW i \in Live(r.user, r.period),
             runs' = [runs EXCEPT ![g].stage = "update", ![g].id = i, ![g].base = slips[i]]
      PROVE  RunsTyped' /\ i \in SlipIds
  <2>1. i \in Rows
    BY DEF Live, Taken
  <2>2. i \in SlipIds /\ i # None
    BY <2>1, NoPayroll, PayrollAssumption DEF Rows, SlipIds, Types, TableTyped
  <2>3. PICK s \in Slip : s = slips[i]
    BY <2>1 DEF Types, TableTyped
  <2>4. s # None
    BY NoPayroll
  <2> DEFINE t == [r EXCEPT !.stage = "update", !.id = i, !.base = s]
  <2>5. t \in Run /\ Whole(t)
    BY <1>2, <2>2, <2>4 DEF Run, Whole, Stages
  <2>6. runs' = [runs EXCEPT ![g] = t]
    BY <1>2, <1>3, <2>3
  <2> HIDE DEF t
  <2> QED
    BY <1>1, <2>2, <2>5, <2>6, RunStored
<1>4. ASSUME r.stage = "find", runs' = [runs EXCEPT ![g].stage = "insert"]
      PROVE  RunsTyped'
  <2> DEFINE t == [r EXCEPT !.stage = "insert"]
  <2>1. t \in Run /\ Whole(t)
    BY <1>2, <1>4 DEF Run, Whole, Stages
  <2>2. runs' = [runs EXCEPT ![g] = t]
    BY <1>2, <1>4
  <2> HIDE DEF t
  <2> QED
    BY <1>1, <2>1, <2>2, RunStored
<1>5. RunsTyped' /\ mixed' \subseteq SlipIds
  <2>1. ASSUME NEW i \in Live(r.user, r.period),
               runs' = [runs EXCEPT ![g].stage = "update", ![g].id = i, ![g].base = slips[i]],
               mixed' = mixed \/ mixed' = mixed \cup {i}
        PROVE  RunsTyped' /\ mixed' \subseteq SlipIds
    BY <1>3, <2>1 DEF Types, CountsTyped
  <2>2. CASE r.stage = "find" /\ runs' = [runs EXCEPT ![g].stage = "insert"] /\ UNCHANGED mixed
    BY <1>4, <2>2 DEF Types, CountsTyped
  <2>3. CASE Fail(g) /\ UNCHANGED mixed
    BY <1>1, <2>3, OutcomeTyped DEF Types, CountsTyped
  <2> QED
    BY <1>2, <2>1, <2>2, <2>3 DEF FindSlip
<1> QED
  BY <1>1, <1>5 DEF Types, InputsTyped, TableTyped, ScreensTyped, CountsTyped, Rows,
     inputs, table, screens

LEMMA InsertSlipTyped ==
  ASSUME Types, NEW g \in Generators, InsertSlip(g)
  PROVE  Types'
<1>1. /\ runs[g] # None /\ RunsTyped /\ (Succeed(g) \/ Fail(g))
      /\ nextId \in SlipIds /\ nextId' = nextId + 1
      /\ UNCHANGED <<inputs, started, screens, changes, edited, mixed, exposed>>
  BY DEF InsertSlip, Types
<1>2. PICK r \in Run : r = runs[g] /\ Whole(r) /\ r.stage = "insert"
  BY <1>1, RunFieldsTyped DEF InsertSlip
<1> DEFINE s == [user |-> r.user, period |-> r.period, amounts |-> r.found,
                 status |-> "draft", approver |-> None, trashed |-> FALSE]
<1>3. s \in Slip
  <2>1. r.user \in Employees /\ r.found \in Amounts /\ r.period \in Periods
    BY <1>2 DEF Run, Whole
  <2> QED
    BY <2>1 DEF Slip, SlipStatus
<1>4. slips' = [slips EXCEPT ![nextId] = s]
  BY <1>2 DEF InsertSlip
<1> HIDE DEF s
<1>5. TableTyped'
  BY <1>1, <1>3, <1>4, RowStored
<1>6. RunsTyped'
  BY <1>1, <1>2, OutcomeTyped DEF Whole
<1> QED
  BY <1>1, <1>5, <1>6 DEF Types, InputsTyped, ScreensTyped, CountsTyped, inputs, screens

LEMMA InsertRefusedTyped ==
  ASSUME Types, NEW g \in Generators, InsertRefused(g)
  PROVE  Types'
<1>1. /\ runs[g] # None /\ RunsTyped
      /\ UNCHANGED <<inputs, table, started, screens, changes, history>>
  BY DEF InsertRefused, Types
<1>2. PICK r \in Run : r = runs[g] /\ Whole(r) /\ r.stage = "insert"
  BY <1>1, RunFieldsTyped DEF InsertRefused
<1> DEFINE t == [r EXCEPT !.stage = "refind"]
<1>3. t \in Run /\ Whole(t)
  BY <1>2 DEF Run, Whole, Stages
<1>4. runs' = [runs EXCEPT ![g] = t]
  BY <1>2 DEF InsertRefused
<1> HIDE DEF t
<1>5. RunsTyped'
  BY <1>1, <1>3, <1>4, RunStored
<1> QED
  BY <1>1, <1>5 DEF Types, InputsTyped, TableTyped, ScreensTyped, CountsTyped, Rows,
     inputs, table, screens, history

\* A save takes each column from the row or from the memory of the writer.
LEMMA SaveSlipTyped ==
  ASSUME NEW cur \in Slip, NEW base \in Slip, NEW target \in Slip
  PROVE  SaveSlip(cur, base, target) \in Slip
<1>1. cur.amounts \in Amounts /\ target.amounts \in Amounts
  BY DEF Slip
<1>2. PICK a \in Amounts, b \in Amounts : a = cur.amounts /\ b = target.amounts
  BY <1>1
<1> DEFINE c == [k \in DOMAIN a |-> Dirty(a[k], base.amounts[k], b[k])]
<1>3. c \in Amounts
  BY DEF Amounts, Dirty
<1>4. /\ Dirty(cur.status, base.status, target.status) \in SlipStatus
      /\ Dirty(cur.approver, base.approver, target.approver) \in Approvers \cup {None}
  BY DEF Slip, Dirty
<1>5. SaveSlip(cur, base, target) =
        [cur EXCEPT !.amounts = c,
                    !.status = Dirty(cur.status, base.status, target.status),
                    !.approver = Dirty(cur.approver, base.approver, target.approver)]
  BY <1>2 DEF SaveSlip, Slip
<1> HIDE DEF c
<1> QED
  BY <1>3, <1>4, <1>5 DEF Slip

LEMMA UpdateSlipTyped ==
  ASSUME Shape, Types, NEW g \in Generators, UpdateSlip(g)
  PROVE  Types'
<1>1. /\ runs[g] # None /\ RunsTyped /\ (Succeed(g) \/ Fail(g))
      /\ edited' \subseteq edited /\ mixed' \subseteq mixed
      /\ UNCHANGED <<inputs, nextId, started, screens, changes, exposed>>
  BY DEF UpdateSlip, Types
<1>2. PICK r \in Run : r = runs[g] /\ Whole(r) /\ r.stage = "update"
  BY <1>1, RunFieldsTyped DEF UpdateSlip
<1>3. r.id \in Rows /\ r.id \in SlipIds
  BY <1>1, <1>2, RowsAreIds DEF Shape, RunsInv, IsOpen
<1>4. /\ r.base \in Slip /\ r.found \in Amounts
      /\ slips[r.id] \in Slip
  BY <1>2, <1>3 DEF Run, Whole, Types, TableTyped
<1>5. Regenerated(r.base, r.found) \in Slip
  BY <1>4 DEF Regenerated, Slip, SlipStatus
<1> DEFINE s == SaveSlip(slips[r.id], r.base, Regenerated(r.base, r.found))
<1>6. s \in Slip
  BY <1>4, <1>5, SaveSlipTyped
<1>7. slips' = [slips EXCEPT ![r.id] = s]
  BY <1>2 DEF UpdateSlip
<1> HIDE DEF s
<1>8. TableTyped'
  BY <1>1, <1>3, <1>6, <1>7, RowStored
<1>9. RunsTyped'
  BY <1>1, <1>2, OutcomeTyped DEF Whole
<1> QED
  BY <1>1, <1>8, <1>9 DEF Types, InputsTyped, ScreensTyped, CountsTyped, inputs, screens

LEMMA StopTyped ==
  ASSUME Types, NEW g \in Generators, Stop(g)
  PROVE  Types'
<1>1. /\ runs' = [runs EXCEPT ![g] = None] /\ RunsTyped
      /\ UNCHANGED <<inputs, table, started, screens, changes, edited, mixed, exposed>>
  BY DEF Stop, Types
<1>2. RunsTyped'
  BY <1>1, RunStored
<1> QED
  BY <1>1, <1>2 DEF Types, InputsTyped, TableTyped, ScreensTyped, CountsTyped, Rows,
     inputs, table, screens

LEMMA ApproveTyped ==
  ASSUME Shape, Types, NEW a \in Approvers, Approve(a)
  PROVE  Types'
<1>1. /\ approving[a] # None
      /\ UNCHANGED <<inputs, nextId, work, form, changes, edited, mixed>>
      /\ approving' = [approving EXCEPT ![a] = None]
  BY DEF Approve
<1>2. PICK h \in Held : h = approving[a]
  BY <1>1 DEF Types, ScreensTyped
<1>3. h.id \in Rows /\ h.id \in SlipIds /\ h.base \in Slip
  BY <1>1, <1>2, RowsAreIds DEF Shape, ScreensInv, IsOpen, Held
<1>4. slips[h.id] \in Slip
  BY <1>3 DEF Types, TableTyped
<1> DEFINE target == [h.base EXCEPT !.status = "approved", !.approver = a]
<1>5. target \in Slip
  BY <1>3 DEF Slip, SlipStatus
<1> DEFINE s == SaveSlip(slips[h.id], h.base, target)
<1>6. s \in Slip
  <2> HIDE DEF target
  <2> QED
    BY <1>3, <1>4, <1>5, SaveSlipTyped
<1>7. slips' = [slips EXCEPT ![h.id] = s]
  BY <1>2 DEF Approve
<1>8. exposed' \subseteq SlipIds
  BY <1>2, <1>3 DEF Approve, Types, CountsTyped
<1> HIDE DEF s, target
<1>9. TableTyped'
  BY <1>1, <1>3, <1>6, <1>7, RowStored
<1> QED
  BY <1>1, <1>8, <1>9 DEF Types, InputsTyped, RunsTyped, Whole, ScreensTyped, CountsTyped,
     inputs, work

\* A form types whole amounts and keeps those it does not show.
LEMMA SubmitFormTyped ==
  ASSUME Shape, Types, NEW a \in Approvers, NEW u \in Employees, NEW p \in Periods,
         NEW status \in SlipStatus, NEW bonuses \in Bonuses,
         SubmitForm(a, u, p, status, bonuses)
  PROVE  Types'
<1>1. /\ form[a] # None
      /\ UNCHANGED <<inputs, nextId, work, approving, changes, mixed, exposed>>
      /\ form' = [form EXCEPT ![a] = None]
  BY DEF SubmitForm
<1>2. PICK h \in Held : h = form[a]
  BY <1>1 DEF Types, ScreensTyped
<1>3. h.id \in Rows /\ h.id \in SlipIds /\ h.base \in Slip
  BY <1>1, <1>2, RowsAreIds DEF Shape, ScreensInv, IsOpen, Held
<1>4. PICK cur \in Slip : cur = slips[h.id]
  BY <1>3 DEF Types, TableTyped
<1>5. PICK b \in Amounts, c \in Amounts : b = h.base.amounts /\ c = cur.amounts
  BY <1>3 DEF Slip
<1> DEFINE paid == [b EXCEPT !.gross = c.gross, !.total = c.total, !.net = c.net,
                             !.bonuses = bonuses]
<1>6. paid \in Amounts
  BY PayrollAssumption DEF Amounts
<1> DEFINE s == [cur EXCEPT !.user = u, !.period = p, !.status = status, !.amounts = paid]
<1>7. slips' = [slips EXCEPT ![h.id] = s] /\ edited' = edited \cup {h.id}
  BY <1>2, <1>3, <1>4, <1>5 DEF SubmitForm, Types, TableTyped
<1> HIDE DEF paid
<1>8. s \in Slip
  BY <1>6 DEF Slip
<1> HIDE DEF s
<1>9. TableTyped'
  BY <1>1, <1>3, <1>7, <1>8, RowStored
<1> QED
  BY <1>1, <1>3, <1>7, <1>9 DEF Types, InputsTyped, RunsTyped, Whole, ScreensTyped,
     CountsTyped, inputs, work

LEMMA EnterSlipTyped ==
  ASSUME Types, NEW u \in Employees, NEW p \in Periods, NEW status \in SlipStatus,
         NEW bonuses \in Bonuses, EnterSlip(u, p, status, bonuses)
  PROVE  Types'
<1> DEFINE s == [user |-> u, period |-> p, amounts |-> [Nothing EXCEPT !.bonuses = bonuses],
                 status |-> status, approver |-> None, trashed |-> FALSE]
<1>1. s \in Slip
  <2>1. [Nothing EXCEPT !.bonuses = bonuses] \in Amounts
    BY PayrollAssumption DEF Nothing, Amounts
  <2> QED
    BY <2>1 DEF Slip
<1>2. /\ slips' = [slips EXCEPT ![nextId] = s] /\ nextId \in SlipIds /\ nextId' = nextId + 1
      /\ Change /\ edited' = edited \cup {nextId}
      /\ UNCHANGED <<inputs, work, screens, mixed, exposed>>
  BY DEF EnterSlip
<1> HIDE DEF s
<1>3. TableTyped'
  BY <1>1, <1>2, RowStored
<1>4. changes' \in 0..MaxChanges
  BY <1>2, PayrollAssumption DEF Change, Types, CountsTyped
<1> QED
  BY <1>2, <1>3, <1>4 DEF Types, InputsTyped, RunsTyped, Whole, ScreensTyped, CountsTyped,
     inputs, work, screens

LEMMA TrashSlipTyped ==
  ASSUME Types, NEW i \in SlipIds, TrashSlip(i)
  PROVE  Types'
<1>1. PICK cur \in Slip : cur = slips[i]
  BY DEF TrashSlip, Types, TableTyped
<1> DEFINE s == [cur EXCEPT !.trashed = TRUE]
<1>2. s \in Slip
  BY DEF Slip
<1>3. /\ slips' = [slips EXCEPT ![i] = s] /\ Change
      /\ UNCHANGED <<inputs, nextId, work, screens, history>>
  BY <1>1 DEF TrashSlip
<1> HIDE DEF s
<1>4. TableTyped'
  BY <1>2, <1>3, RowStored
<1>5. changes' \in 0..MaxChanges
  BY <1>3, PayrollAssumption DEF Change, Types, CountsTyped
<1> QED
  BY <1>3, <1>4, <1>5 DEF Types, InputsTyped, RunsTyped, Whole, ScreensTyped, CountsTyped,
     inputs, work, screens, history

\* What payroll reads, and the screens that open.
LEMMA AsideTyped ==
  ASSUME Types, Aside
  PROVE  Types'
<1>1. UNCHANGED <<slips, nextId, runs, alone, edited, mixed, exposed>>
  BY AsideChangesNothing
<1>2. TableTyped' /\ RunsTyped'
  BY <1>1 DEF Types, TableTyped, RunsTyped, Whole, Rows
<1>3. Change => changes' \in 0..MaxChanges
  BY PayrollAssumption DEF Change, Types, CountsTyped
<1>4. ASSUME NEW a \in Approvers, NEW i \in SlipIds, OpenApproval(a, i) \/ OpenForm(a, i)
      PROVE  Types'
  <2>1. PICK h \in Held : h = [id |-> i, base |-> slips[i]]
    BY <1>4 DEF OpenApproval, OpenForm, Types, TableTyped, Held
  <2>2. ScreensTyped'
    BY <1>4, <2>1 DEF OpenApproval, OpenForm, Types, ScreensTyped
  <2> QED
    BY <1>1, <1>2, <1>3, <1>4, <2>2 DEF OpenApproval, OpenForm, Types, InputsTyped,
       CountsTyped, inputs, work
<1>5. ASSUME NEW u \in Employees, NEW d \in Days, RecordAttendance(u, d) PROVE Types'
  <2>1. PICK w \in Work : logs' = [logs EXCEPT ![u][d] =
           [status |-> w.status, delay |-> w.delay, over |-> w.over,
            earlyCost |-> Cost(w.early, CostPerMinute(pay[u].basic, MonthlyMinutes))]]
    BY <1>5 DEF RecordAttendance
  <2>2. w \in WorkType /\ pay[u] \in PayType
    BY PayrollAssumption DEF Types, InputsTyped
  <2>3. PICK cost \in Nat : cost = Cost(w.early, CostPerMinute(pay[u].basic, MonthlyMinutes))
    <3>1. w.early \in Nat /\ pay[u].basic \in Nat
      BY <2>2 DEF WorkType, PayType
    <3> QED
      BY <3>1, RateIsNumber, PriceIsNumber
  <2>4. PICK log \in Log : log = [status |-> w.status, delay |-> w.delay, over |-> w.over,
                                  earlyCost |-> cost]
    BY <2>2 DEF WorkType, Log
  <2>5. logs' = [logs EXCEPT ![u][d] = log]
    BY <2>1, <2>3, <2>4
  <2>6. logs' \in [Employees -> [Days -> Log \cup {None}]]
    BY <2>5 DEF Types, InputsTyped
  <2> QED
    BY <1>1, <1>2, <1>3, <1>5, <2>6 DEF RecordAttendance, Types, InputsTyped, ScreensTyped,
       CountsTyped, work, screens
<1>6. ASSUME NEW u \in Employees, ChangePay(u) \/ ChangeStatus(u) PROVE Types'
  BY <1>1, <1>2, <1>3, <1>6 DEF ChangePay, ChangeStatus, Types, InputsTyped, ScreensTyped,
     CountsTyped, work, screens
<1>7. ASSUME UNCHANGED vars PROVE Types'
  BY <1>1, <1>2, <1>7 DEF vars, inputs, work, screens, history, Types, InputsTyped,
     ScreensTyped, CountsTyped
<1> QED
  BY <1>4, <1>5, <1>6, <1>7 DEF Aside

\* The empty table is of the types, and every step keeps them.
LEMMA TypesInit == Init => Types
  BY PayrollAssumption DEF Init, Types, InputsTyped, TableTyped, RunsTyped, ScreensTyped,
     CountsTyped, Rows

LEMMA TypesStep == Shape /\ Types /\ [Next]_vars => Types'
<1> SUFFICES ASSUME Shape, Types, [Next]_vars PROVE Types'
  OBVIOUS
<1>1. CASE Aside
  BY <1>1, AsideTyped
<1>2. CASE Reading
  BY <1>2, GenerateTyped, ReadAttendanceTyped, SwallowTyped, FindSlipTyped,
     InsertRefusedTyped, StopTyped DEF Reading
<1>3. CASE Writing
  BY <1>3, InsertSlipTyped, UpdateSlipTyped, ApproveTyped, SubmitFormTyped, EnterSlipTyped,
     TrashSlipTyped DEF Writing
<1> QED
  BY <1>1, <1>2, <1>3, StepCases

\* A generation that found a row is still one.
LEMMA TakerIsRun ==
  ASSUME Types, NEW g \in Generators, TakesRow(g)
  PROVE  runs'[g] # None
<1>1. PICK r \in Run : r = runs[g]
  BY RunFieldsTyped DEF TakesRow, Types
<1>2. runs'[g].id \in SlipIds /\ runs'[g].base \in Slip
  <2>1. runs'[g].id \in Rows /\ runs'[g].base = slips[runs'[g].id]
    BY DEF TakesRow, Live, Taken
  <2>2. runs'[g].id \in SlipIds
    BY <2>1, PayrollAssumption DEF Rows, SlipIds, Types, TableTyped
  <2> QED
    BY <2>1, <2>2 DEF Types, TableTyped
<1> DEFINE t == [r EXCEPT !.stage = "update", !.id = runs'[g].id, !.base = runs'[g].base]
<1>3. t \in Run
  BY <1>2 DEF Run, Stages
<1>4. runs'[g] = t
  BY <1>1 DEF TakesRow, Run, IsRun, RunFields
<1> QED
  BY <1>3, <1>4, NoPayroll

-----------------------------------------------------------------------------
(* A row to oneself. *)

\* A step that writes a payroll leaves a generation as it is, or ends its work
\* for an employee.
LEMMA WritingRuns ==
  ASSUME Shape, Writing, NEW g \in Generators
  PROVE  \/ runs'[g] = runs[g]
         \/ runs'[g].stage = "read" /\ runs'[g].id = None /\ alone' = alone \ {g}
<1>1. ASSUME NEW h \in Generators, InsertSlip(h) \/ UpdateSlip(h)
      PROVE  \/ runs'[g] = runs[g]
             \/ runs'[g].stage = "read" /\ runs'[g].id = None /\ alone' = alone \ {g}
  <2>1. runs[h] # None /\ (Succeed(h) \/ Fail(h))
    BY <1>1 DEF InsertSlip, UpdateSlip
  <2> QED
    BY <2>1, TurnRuns DEF Shape
<1>2. CASE UNCHANGED runs
  BY <1>2
<1> QED
  BY <1>1, <1>2 DEF Writing, Approve, SubmitForm, EnterSlip, TrashSlip, work

\* The generation that inserts or updates has nothing in hand afterwards.
LEMMA WriterTurns ==
  ASSUME Shape, NEW g \in Generators, InsertSlip(g) \/ UpdateSlip(g)
  PROVE  runs'[g].stage = "read" /\ alone' = alone \ {g}
<1>1. runs[g] # None /\ (Succeed(g) \/ Fail(g))
  BY DEF InsertSlip, UpdateSlip
<1> QED
  BY <1>1, TurnRuns DEF Shape

\* A write gives nobody a row to himself.
LEMMA WritingAlone == Shape /\ Writing => alone' \subseteq alone
<1> SUFFICES ASSUME Shape, Writing PROVE alone' \subseteq alone
  OBVIOUS
<1>1. ASSUME NEW g \in Generators, InsertSlip(g) \/ UpdateSlip(g) PROVE alone' \subseteq alone
  BY <1>1, WriterTurns
<1> QED
  BY <1>1 DEF Writing, Approve, SubmitForm, EnterSlip, TrashSlip, history

\* Those about to update after a write are as they were, and name a row that
\* is there.
LEMMA UpdatingStands ==
  ASSUME Shape, Writing, NEW g \in Generators, runs'[g] # None, runs'[g].stage = "update"
  PROVE  /\ runs'[g] = runs[g]
         /\ runs[g].id \in Rows /\ runs[g].id \in SlipIds /\ IsSlip(runs[g].base)
         /\ runs[g].id # nextId
<1>1. runs'[g] = runs[g]
  BY WritingRuns
<1>2. runs[g].id \in Rows /\ IsSlip(runs[g].base)
  BY <1>1 DEF Shape, RunsInv, IsOpen
<1> QED
  BY <1>1, <1>2, RowsAreIds DEF Shape, TableInv, Rows

\* A generation that is alone is the only one with its row open, and the row is
\* still what it found, but for its status, its approver and the bin.
AloneAt(g) ==
  /\ g \in Generators /\ runs[g] # None /\ runs[g].stage = "update"
  /\ Holding(runs[g].id) = {g}
  /\ slips[runs[g].id].amounts = runs[g].base.amounts
  /\ slips[runs[g].id].user = runs[g].user
  /\ slips[runs[g].id].period = runs[g].period

AloneInv == \A g \in alone : AloneAt(g)

\* A row is open with one generation that is alone, or with others.
LEMMA AloneHolds ==
  ASSUME AloneInv, NEW g \in alone, NEW h \in Generators, runs[h] # None,
         runs[h].id = runs[g].id
  PROVE  h = g
  BY DEF AloneInv, AloneAt, Holding

\* No step gives a row to two generations that are alone, or changes what one
\* that is alone has found.
LEMMA AloneStep == Shape /\ Types /\ AloneInv /\ [Next]_vars => AloneInv'
<1> SUFFICES ASSUME Shape, Types, AloneInv, [Next]_vars, NEW g \in alone' PROVE AloneAt(g)'
  BY DEF AloneInv
<1>1. ASSUME g \in alone, runs'[g] = runs[g],
             \A h \in Generators \ {g} : runs'[h] = None \/ runs'[h].id # runs[g].id,
             slips'[runs[g].id].amounts = slips[runs[g].id].amounts,
             slips'[runs[g].id].user = slips[runs[g].id].user,
             slips'[runs[g].id].period = slips[runs[g].id].period
      PROVE  AloneAt(g)'
  BY <1>1 DEF AloneInv, AloneAt, Holding
<1>2. CASE Aside
  BY <1>2, AsideChangesNothing DEF AloneInv, AloneAt, Holding
<1>3. CASE Reading
  <2>1. PICK h \in Generators : ReadingOf(h)
    BY <1>3, ReadingHasGenerator
  <2>2. UNCHANGED slips /\ \A k \in Generators \ {h} : runs'[k] = runs[k]
    BY <1>3, <2>1, ReadingLeavesTable, ReadingRuns
  <2>3. CASE TakesRow(h) /\ h = g
    <3>1. runs[g].stage # "update"
      BY <2>3 DEF TakesRow
    <3>2. Holding(runs'[g].id) = {}
      BY <2>3, <3>1 DEF TakesRow, AloneInv, AloneAt
    <3>3. runs'[g] # None
      BY <2>3, TakerIsRun
    <3>4. Holding(runs[g].id)' = {g}
      BY <2>2, <2>3, <3>2, <3>3 DEF Holding
    <3>5. /\ slips[runs'[g].id].user = runs'[g].user
          /\ slips[runs'[g].id].period = runs'[g].period
      BY <2>3 DEF TakesRow, Live, Taken
    <3>6. /\ slips'[runs'[g].id].amounts = runs'[g].base.amounts
          /\ slips'[runs'[g].id].user = runs'[g].user
          /\ slips'[runs'[g].id].period = runs'[g].period
      BY <2>2, <2>3, <3>5 DEF TakesRow
    <3> QED
      BY <2>3, <3>3, <3>4, <3>6 DEF TakesRow, AloneAt
  <2>4. CASE TakesRow(h) /\ h # g
    <3>1. g \in alone /\ g \notin Holding(runs'[h].id)
      BY <2>4 DEF TakesRow, AloneInv, AloneAt
    <3>2. runs[g] # None /\ g \in Generators
      BY <3>1 DEF AloneInv, AloneAt
    <3>3. runs'[h].id # runs[g].id
      BY <3>1, <3>2 DEF Holding
    <3>4. \A k \in Generators \ {g} : runs'[k] = None \/ runs'[k].id # runs[g].id
      BY <2>2, <3>1, <3>3, AloneHolds
    <3> QED
      BY <1>1, <2>2, <2>4, <3>1, <3>2, <3>4
  <2>5. CASE TakesNoRow(h)
    <3>1. g \in alone /\ h # g
      BY <2>5 DEF TakesNoRow, AloneInv, AloneAt
    <3>2. g \in Generators /\ runs[g] # None /\ runs[g].stage = "update"
      BY <3>1 DEF AloneInv, AloneAt
    <3>3. runs[g].id \in Rows /\ runs[g].id \in SlipIds
      BY <3>2, RowsAreIds DEF Shape, RunsInv, IsOpen
    <3>4. runs'[h] = None \/ runs'[h].id # runs[g].id
      <4>1. CASE /\ runs[h] # None /\ runs'[h].id = runs[h].id
        BY <3>1, <4>1, AloneHolds
      <4>2. CASE runs'[h].id = None \/ runs'[h].id \notin SlipIds
        BY <3>3, <4>2, NoneIsNoId
      <4>3. ~TakesRow(h) \/ runs'[h].id # runs[g].id
        <5>1. ASSUME TakesRow(h), runs'[h].id = runs[g].id PROVE FALSE
          <6>1. g \in Holding(runs'[h].id)
            BY <3>2, <5>1 DEF Holding
          <6> QED
            BY <2>5, <3>1, <5>1, <6>1 DEF TakesRow, TakesNoRow
        <5> QED
          BY <5>1
      <4> QED
        BY <2>1, <4>1, <4>2, <4>3, ReadingRuns
    <3>5. \A k \in Generators \ {g} : runs'[k] = None \/ runs'[k].id # runs[g].id
      BY <2>2, <3>1, <3>4, AloneHolds
    <3> QED
      BY <1>1, <2>2, <3>1, <3>2, <3>5
  <2> QED
    BY <2>1, <2>3, <2>4, <2>5, ReadingRuns
<1>4. CASE Writing
  <2> DEFINE i == runs[g].id
  <2>1. g \in alone
    BY <1>4, WritingAlone
  <2>2. g \in Generators /\ runs[g] # None /\ runs[g].stage = "update" /\ g \in Holding(i)
    BY <2>1 DEF AloneInv, AloneAt, Holding
  <2>3. runs'[g] = runs[g]
    BY <1>4, <2>2, WritingRuns
  <2>4. i \in Rows /\ i \in SlipIds /\ i # nextId
    BY <1>4, <2>2, <2>3, UpdatingStands
  <2>5. \A h \in Generators \ {g} : runs'[h] = None \/ runs'[h].id # i
    <3> SUFFICES ASSUME NEW h \in Generators \ {g} PROVE runs'[h] = None \/ runs'[h].id # i
      OBVIOUS
    <3>1. CASE runs'[h] = runs[h]
      BY <2>1, <3>1, AloneHolds
    <3>2. CASE runs'[h].id = None
      BY <2>4, <3>2, NoneIsNoId
    <3> QED
      BY <1>4, <3>1, <3>2, WritingRuns
  <2> DEFINE Stands == /\ slips'[i].amounts = slips[i].amounts
                       /\ slips'[i].user = slips[i].user
                       /\ slips'[i].period = slips[i].period
  <2> HIDE DEF i
  <2>6. ASSUME NEW h \in Generators, InsertSlip(h) PROVE Stands
    BY <2>4, <2>6, InsertStores
  <2>7. ASSUME NEW h \in Generators, UpdateSlip(h) PROVE Stands
    <3>1. runs[h] # None /\ g # h
      BY <2>7, WriterTurns DEF UpdateSlip
    <3>2. runs[h].id # i
      BY <2>1, <3>1, AloneHolds DEF i
    <3> QED
      BY <2>4, <2>7, <3>2, UpdateStores
  <2>8. ASSUME NEW a \in Approvers, Approve(a) PROVE Stands
    <3>1. CASE approving[a].id = i
      BY <2>8, <3>1, ApproveStores
    <3>2. CASE approving[a].id # i
      BY <2>4, <2>8, <3>2, ApproveStores
    <3> QED
      BY <3>1, <3>2
  <2>9. ASSUME NEW a \in Approvers, NEW u \in Employees, NEW p \in Periods,
               NEW status \in SlipStatus, NEW bonuses \in Bonuses,
               SubmitForm(a, u, p, status, bonuses)
        PROVE  Stands
    <3>1. alone' = alone \ Holding(form[a].id)
      BY <2>9 DEF SubmitForm
    <3>2. form[a].id # i
      BY <2>2, <3>1
    <3> QED
      BY <2>4, <2>9, <3>2, SubmitStores
  <2>10. ASSUME NEW u \in Employees, NEW p \in Periods, NEW status \in SlipStatus,
                NEW bonuses \in Bonuses, EnterSlip(u, p, status, bonuses)
         PROVE  Stands
    BY <2>4, <2>10, EnterStores
  <2>11. ASSUME NEW k \in SlipIds, TrashSlip(k) PROVE Stands
    <3>1. CASE k = i
      BY <2>11, <3>1, TrashStores
    <3>2. CASE k # i
      BY <2>4, <2>11, <3>2, TrashStores
    <3> QED
      BY <3>1, <3>2
  <2> HIDE DEF Stands
  <2>12. Stands
    BY <1>4, <2>6, <2>7, <2>8, <2>9, <2>10, <2>11 DEF Writing
  <2> QED
    BY <1>1, <2>1, <2>3, <2>5, <2>12 DEF Stands, i
<1> QED
  BY <1>2, <1>3, <1>4, StepCases

\* i is written by a generation that has it to itself.
Mended(i) == \E g \in Generators : g \in alone /\ UpdateSlip(g) /\ runs[g].id = i

\* What was written by hand or mixed stays marked until it is mended.
LEMMA MarksKept ==
  ASSUME [Next]_vars, NEW i
  PROVE  /\ i \in edited => i \in edited' \/ Mended(i)
         /\ i \in mixed => i \in mixed' \/ Mended(i)
<1>1. CASE Aside
  BY <1>1, AsideChangesNothing
<1>2. CASE Reading
  BY <1>2, ReadingLeavesTable
     DEF Reading, Generate, ReadAttendance, Swallow, FindSlip, InsertRefused, Stop, history
<1>3. ASSUME NEW g \in Generators, UpdateSlip(g)
      PROVE  /\ i \in edited => i \in edited' \/ Mended(i)
             /\ i \in mixed => i \in mixed' \/ Mended(i)
  <2>1. LET mended == IF g \in alone THEN {runs[g].id} ELSE {}
        IN  edited' = edited \ mended /\ mixed' = mixed \ mended
    BY <1>3 DEF UpdateSlip
  <2> QED
    BY <1>3, <2>1 DEF Mended
<1>4. CASE edited \subseteq edited' /\ mixed \subseteq mixed'
  BY <1>4
<1>5. CASE Writing
  BY <1>3, <1>4, <1>5
     DEF Writing, InsertSlip, Approve, SubmitForm, EnterSlip, TrashSlip, history
<1> QED
  BY <1>1, <1>2, <1>5, StepCases

-----------------------------------------------------------------------------
(* Approvals. *)

\* Where a generation found a draft and somebody has since decided, it is
\* known that he decided with the generation at work, or wrote by hand and
\* left it alone no longer.
Overtaken ==
  \A g \in Generators :
    /\ runs[g] # None /\ runs[g].stage = "update"
    /\ runs[g].base.status = "draft" /\ slips[runs[g].id].status # "draft"
    => runs[g].id \in exposed \/ (g \notin alone /\ runs[g].id \in edited)

\* Every step keeps track of the decisions a generation did not see.
LEMMA OvertakenStep == Shape /\ AloneInv /\ Overtaken /\ [Next]_vars => Overtaken'
<1> SUFFICES ASSUME Shape, AloneInv, Overtaken, [Next]_vars, NEW g \in Generators,
                    runs'[g] # None, runs'[g].stage = "update",
                    runs'[g].base.status = "draft", slips'[runs'[g].id].status # "draft"
             PROVE  runs'[g].id \in exposed' \/ (g \notin alone' /\ runs'[g].id \in edited')
  BY DEF Overtaken
<1>1. CASE Aside
  BY <1>1, AsideChangesNothing DEF Overtaken
<1>2. CASE Reading
  <2>1. PICK h \in Generators : ReadingOf(h)
    BY <1>2, ReadingHasGenerator
  <2>2. UNCHANGED <<slips, edited, exposed>>
    BY <1>2, ReadingLeavesTable
  <2>3. CASE h = g
    <3>1. runs'[g].base = slips[runs'[g].id]
      BY <2>1, <2>3, ReadingRuns DEF TakesRow
    <3> QED
      BY <2>2, <3>1
  <2>4. CASE h # g
    <3>1. runs'[g] = runs[g]
      BY <2>1, <2>4, ReadingRuns
    <3>2. g \in alone' => g \in alone
      BY <2>1, <2>4, ReadingRuns DEF TakesRow, TakesNoRow
    <3> QED
      BY <2>2, <3>1, <3>2 DEF Overtaken
  <2> QED
    BY <2>3, <2>4
<1>3. CASE Writing
  <2> DEFINE i == runs[g].id
             Known == i \in exposed' \/ (g \notin alone' /\ i \in edited')
  <2>1. /\ runs'[g] = runs[g] /\ i \in Rows /\ i \in SlipIds /\ i # nextId
    BY <1>3, UpdatingStands
  <2>2. slips[i].status # "draft" => i \in exposed \/ (g \notin alone /\ i \in edited)
    BY <2>1 DEF Overtaken
  <2>3. slips'[i].status # "draft"
    BY <2>1
  <2>4. g \in alone' => g \in alone
    BY <1>3, WritingAlone
  <2>5. g \in Holding(i)
    BY <2>1 DEF Holding
  <2>6. ASSUME NEW h \in Generators, UpdateSlip(h) PROVE h # g
    BY <2>1, <2>6, WriterTurns
  <2>7. ASSUME NEW h \in Generators, h # g, h \in alone, runs[h].id = i PROVE FALSE
    BY <2>1, <2>7, AloneHolds
  <2> HIDE DEF i
  <2>8. ASSUME slips'[i].status = slips[i].status, edited \subseteq edited', exposed \subseteq exposed'
        PROVE  Known
    BY <2>2, <2>3, <2>4, <2>8
  <2>9. ASSUME NEW h \in Generators, InsertSlip(h) PROVE Known
    <3>1. slips'[i] = slips[i]
      BY <2>1, <2>9, InsertStores
    <3>2. UNCHANGED <<edited, exposed>>
      BY <2>9 DEF InsertSlip
    <3> QED
      BY <2>8, <3>1, <3>2
  <2>10. ASSUME NEW h \in Generators, UpdateSlip(h) PROVE Known
    <3>1. /\ slips'[runs[h].id].status
               = Dirty(slips[runs[h].id].status, runs[h].base.status, "draft")
          /\ \A k \in SlipIds \ {runs[h].id} : slips'[k] = slips[k]
      BY <2>10, UpdateStores
    <3>2. UNCHANGED exposed /\ (i \in edited => i \in edited')
      <4>1. LET mended == IF h \in alone THEN {runs[h].id} ELSE {}
            IN  edited' = edited \ mended /\ exposed' = exposed
        BY <2>10 DEF UpdateSlip
      <4> QED
        BY <2>6, <2>7, <2>10, <4>1
    <3>3. slips[i].status # "draft"
      BY <2>1, <2>3, <3>1 DEF Dirty
    <3> QED
      BY <2>2, <2>4, <3>2, <3>3
  <2>11. ASSUME NEW a \in Approvers, Approve(a) PROVE Known
    <3>1. CASE approving[a].id = i
      <4>1. runs[g] # None /\ runs[g].id = i
        BY <2>1 DEF i
      <4> QED
        BY <2>11, <3>1, <4>1 DEF Approve
    <3>2. CASE approving[a].id # i
      <4>1. slips'[i] = slips[i]
        BY <2>1, <2>11, <3>2, ApproveStores
      <4>2. edited \subseteq edited' /\ exposed \subseteq exposed'
        BY <2>11 DEF Approve
      <4> QED
        BY <2>8, <4>1, <4>2
    <3> QED
      BY <3>1, <3>2
  <2>12. ASSUME NEW a \in Approvers, NEW u \in Employees, NEW p \in Periods,
                NEW status \in SlipStatus, NEW bonuses \in Bonuses,
                SubmitForm(a, u, p, status, bonuses)
         PROVE  Known
    <3>1. /\ edited' = edited \cup {form[a].id} /\ UNCHANGED exposed
          /\ alone' = alone \ Holding(form[a].id)
      BY <2>12 DEF SubmitForm
    <3>2. form[a].id # i => slips'[i] = slips[i]
      BY <2>1, <2>12, SubmitStores
    <3> QED
      BY <2>5, <2>8, <3>1, <3>2
  <2>13. ASSUME NEW u \in Employees, NEW p \in Periods, NEW status \in SlipStatus,
                NEW bonuses \in Bonuses, EnterSlip(u, p, status, bonuses)
         PROVE  Known
    <3>1. slips'[i] = slips[i]
      BY <2>1, <2>13, EnterStores
    <3>2. edited \subseteq edited' /\ exposed \subseteq exposed'
      BY <2>13 DEF EnterSlip
    <3> QED
      BY <2>8, <3>1, <3>2
  <2>14. ASSUME NEW k \in SlipIds, TrashSlip(k) PROVE Known
    <3>1. slips'[i].status = slips[i].status
      BY <2>1, <2>14, TrashStores
    <3>2. UNCHANGED <<edited, exposed>>
      BY <2>14 DEF TrashSlip, history
    <3> QED
      BY <2>8, <3>1, <3>2
  <2> QED
    BY <1>3, <2>1, <2>9, <2>10, <2>11, <2>12, <2>13, <2>14 DEF Writing, i
<1> QED
  BY <1>1, <1>2, <1>3, StepCases

\* What a step can do to a payroll that it does not write by hand.
LEMMA RowSteps ==
  ASSUME Shape, [Next]_vars, NEW i \in Rows, i \notin edited'
  PROVE  /\ slips'[i].user = slips[i].user /\ slips'[i].period = slips[i].period
         /\ \/ /\ slips'[i].amounts = slips[i].amounts
               /\ slips'[i].status \in {slips[i].status, "approved"}
            \/ \E g \in Generators :
                 /\ UpdateSlip(g) /\ runs[g] # None /\ runs[g].stage = "update"
                 /\ runs[g].id = i
                 /\ slips'[i].status = Dirty(slips[i].status, runs[g].base.status, "draft")
                 /\ slips[i].amounts = runs[g].base.amounts
                      => slips'[i].amounts = runs[g].found
<1> DEFINE Owned == slips'[i].user = slips[i].user /\ slips'[i].period = slips[i].period
           Stands == /\ Owned /\ slips'[i].amounts = slips[i].amounts
                     /\ slips'[i].status \in {slips[i].status, "approved"}
           By(g) == /\ Owned /\ UpdateSlip(g) /\ runs[g] # None /\ runs[g].stage = "update"
                    /\ runs[g].id = i
                    /\ slips'[i].status = Dirty(slips[i].status, runs[g].base.status, "draft")
                    /\ slips[i].amounts = runs[g].base.amounts
                         => slips'[i].amounts = runs[g].found
<1>1. i \in SlipIds /\ i # nextId
  BY RowsAreIds DEF Shape, TableInv, Rows
<1>2. ASSUME slips'[i] = slips[i] PROVE Stands
  BY <1>2
<1>3. ASSUME UNCHANGED slips PROVE Stands
  BY <1>3
<1>4. ASSUME NEW g \in Generators, InsertSlip(g) PROVE Stands
  BY <1>1, <1>2, <1>4, InsertStores
<1>5. ASSUME NEW g \in Generators, UpdateSlip(g) PROVE Stands \/ By(g)
  <2>1. CASE runs[g].id = i
    <3>1. runs[g] # None /\ runs[g].stage = "update"
      BY <1>5 DEF UpdateSlip
    <3>2. /\ slips'[i].status = Dirty(slips[i].status, runs[g].base.status, "draft")
          /\ slips[i].amounts = runs[g].base.amounts => slips'[i].amounts = runs[g].found
          /\ Owned
      BY <1>5, <2>1, UpdateStores
    <3> QED
      BY <1>5, <2>1, <3>1, <3>2
  <2>2. CASE runs[g].id # i
    BY <1>1, <1>2, <1>5, <2>2, UpdateStores
  <2> QED
    BY <2>1, <2>2
<1>6. ASSUME NEW a \in Approvers, Approve(a) PROVE Stands
  <2>1. CASE approving[a].id = i
    <3>1. /\ slips'[i].status = Dirty(slips[i].status, approving[a].base.status, "approved")
          /\ slips'[i].amounts = slips[i].amounts
          /\ Owned
      BY <1>6, <2>1, ApproveStores
    <3> QED
      BY <3>1 DEF Dirty
  <2>2. CASE approving[a].id # i
    BY <1>1, <1>2, <1>6, <2>2, ApproveStores
  <2> QED
    BY <2>1, <2>2
<1>7. ASSUME NEW a \in Approvers, NEW u \in Employees, NEW p \in Periods,
             NEW status \in SlipStatus, NEW bonuses \in Bonuses,
             SubmitForm(a, u, p, status, bonuses)
      PROVE  Stands
  <2>1. /\ edited' = edited \cup {form[a].id}
        /\ \A k \in SlipIds \ {form[a].id} : slips'[k] = slips[k]
    BY <1>7, SubmitStores
  <2> QED
    BY <1>1, <1>2, <2>1
<1>8. ASSUME NEW u \in Employees, NEW p \in Periods, NEW status \in SlipStatus,
             NEW bonuses \in Bonuses, EnterSlip(u, p, status, bonuses)
      PROVE  Stands
  BY <1>1, <1>2, <1>8, EnterStores
<1>9. ASSUME NEW k \in SlipIds, TrashSlip(k) PROVE Stands
  <2>1. CASE k = i
    BY <1>9, <2>1, TrashStores
  <2>2. CASE k # i
    BY <1>1, <1>2, <1>9, <2>2, TrashStores
  <2> QED
    BY <2>1, <2>2
<1> HIDE DEF Stands
<1>10. Stands \/ \E g \in Generators : By(g)
  BY <1>3, <1>4, <1>5, <1>6, <1>7, <1>8, <1>9, StepCases, AsideChangesNothing,
     ReadingLeavesTable DEF Writing
<1> QED
  BY <1>10 DEF Stands

\* Whoever makes a decided payroll a draft again is a generation that found it
\* decided.
LEMMA ApprovalNotOverrunStep ==
  ASSUME Shape, [Next]_vars, NEW i \in Rows, i \notin edited',
         slips[i].status # "draft", slips'[i].status = "draft"
  PROVE  \E g \in Generators : /\ runs[g] # None /\ runs[g].id = i
                               /\ runs[g].base.status # "draft"
<1>1. slips'[i].status \notin {slips[i].status, "approved"}
  OBVIOUS
<1>2. PICK g \in Generators :
        /\ runs[g] # None /\ runs[g].id = i
        /\ slips'[i].status = Dirty(slips[i].status, runs[g].base.status, "draft")
  BY <1>1, RowSteps
<1>3. runs[g].base.status # "draft"
  BY <1>2 DEF Dirty
<1> QED
  BY <1>2, <1>3

\* A generation that found a draft never takes back the approval that
\* overtook it, because save() writes the status only if it differs from the
\* one that was found.
THEOREM ApprovalsNotOverrun == Spec => ApprovalNotOverrun
<1>1. Shape /\ [Next]_vars =>
        \A i \in Rows :
          /\ slips[i].status # "draft"
          /\ slips'[i].status = "draft"
          /\ i \notin edited'
          => \E g \in Generators : /\ runs[g] # None /\ runs[g].id = i
                                   /\ runs[g].base.status # "draft"
  BY ApprovalNotOverrunStep
<1> QED
  BY <1>1, ShapeInit, ShapeStep, PTL DEF Spec, ApprovalNotOverrun

\* No step changes the amounts of a payroll and leaves it decided.
LEMMA ApprovedAmountsStep ==
  ASSUME Shape, AloneInv, Overtaken, [Next]_vars, NEW i \in Rows,
         i \notin edited' \cup exposed,
         slips[i].status # "draft", slips'[i].status # "draft"
  PROVE  slips'[i].amounts = slips[i].amounts
<1>1. ASSUME NEW g \in Generators, UpdateSlip(g), runs[g] # None, runs[g].stage = "update",
             runs[g].id = i,
             slips'[i].status = Dirty(slips[i].status, runs[g].base.status, "draft")
      PROVE  FALSE
  <2>1. runs[g].base.status = "draft"
    BY <1>1 DEF Dirty
  <2>2. g \notin alone /\ i \in edited
    BY <1>1, <2>1 DEF Overtaken
  <2>3. edited' = edited
    BY <1>1, <2>2 DEF UpdateSlip
  <2> QED
    BY <2>2, <2>3
<1> QED
  BY <1>1, RowSteps

\* The amounts of an approved payroll change with its approval only, unless a
\* generation was at work on it when it was approved: a generation that finds
\* it approved makes it a draft again with the very same save().
THEOREM ApprovedStand == Spec => ApprovedAmountsStand
<1>1. Init => Shape /\ Types /\ AloneInv /\ Overtaken
  <2>1. Init => AloneInv /\ Overtaken
    BY DEF Init, AloneInv, Overtaken
  <2> QED
    BY <2>1, ShapeInit, TypesInit
<1>2. Shape /\ Types /\ AloneInv /\ Overtaken /\ [Next]_vars
        => (Shape /\ Types /\ AloneInv /\ Overtaken)'
  BY ShapeStep, TypesStep, AloneStep, OvertakenStep
<1>3. Shape /\ AloneInv /\ Overtaken /\ [Next]_vars =>
        \A i \in Rows :
          /\ slips[i].status # "draft" /\ slips'[i].status # "draft"
          /\ i \notin edited' \cup exposed
          => slips'[i].amounts = slips[i].amounts
  BY ApprovedAmountsStep
<1> QED
  BY <1>1, <1>2, <1>3, PTL DEF Spec, ApprovedAmountsStand

-----------------------------------------------------------------------------
(* The totals. *)

AddsUp(a) ==
  /\ a.total = a.delay + a.early + a.absence
  /\ a.net = a.gross - a.total + a.overtime
  /\ a.bonuses = 0

\* What a generation has computed adds up.
FoundsAddUp ==
  \A g \in Generators :
    runs[g] # None /\ runs[g].stage # "read" => AddsUp(runs[g].found)

\* A payroll open with a generation that is not alone was written by hand, or
\* two have it open.
Marked ==
  \A g \in Generators :
    /\ runs[g] # None /\ runs[g].stage = "update" /\ g \notin alone
    => runs[g].id \in edited \cup mixed

TotalsInv == FoundsAddUp /\ AloneInv /\ Marked /\ SlipAddsUp

\* No step makes a generation hold amounts that do not add up.
LEMMA FoundsStep == Shape /\ FoundsAddUp /\ [Next]_vars => FoundsAddUp'
<1> SUFFICES ASSUME Shape, FoundsAddUp, [Next]_vars, NEW g \in Generators,
                    runs'[g] # None, runs'[g].stage # "read"
             PROVE  AddsUp(runs'[g].found)
  BY DEF FoundsAddUp, AddsUp
<1>1. ASSUME runs[g] # None, runs[g].stage # "read", runs'[g].found = runs[g].found
      PROVE  AddsUp(runs'[g].found)
  BY <1>1 DEF FoundsAddUp
<1>2. CASE Aside
  BY <1>1, <1>2, AsideChangesNothing
<1>3. CASE Reading
  <2>1. PICK h \in Generators : ReadingOf(h)
    BY <1>3, ReadingHasGenerator
  <2>2. CASE h = g
    <3>1. \/ \E q, sheet : runs'[g].found = Payslip(q, sheet)
          \/ /\ runs[g] # None /\ runs[g].stage \in {"find", "refind", "insert"}
             /\ runs'[g].found = runs[g].found
      BY <2>1, <2>2, ReadingRuns DEF TakesRow
    <3>2. ASSUME NEW q, NEW sheet, runs'[g].found = Payslip(q, sheet)
          PROVE  AddsUp(runs'[g].found)
      BY <3>2, PayslipColumns DEF AddsUp
    <3> QED
      BY <1>1, <3>1, <3>2
  <2>3. CASE h # g
    BY <1>1, <2>1, <2>3, ReadingRuns
  <2> QED
    BY <2>2, <2>3
<1>4. CASE Writing
  BY <1>1, <1>4, WritingRuns
<1> QED
  BY <1>2, <1>3, <1>4, StepCases

\* No step takes a mark away while the row is open with one that is not alone.
LEMMA MarkedStep == Shape /\ AloneInv /\ Marked /\ [Next]_vars => Marked'
<1> SUFFICES ASSUME Shape, AloneInv, Marked, [Next]_vars, NEW g \in Generators,
                    runs'[g] # None, runs'[g].stage = "update", g \notin alone'
             PROVE  runs'[g].id \in edited' \cup mixed'
  BY DEF Marked
<1>1. ASSUME runs'[g] = runs[g], g \notin alone PROVE runs'[g].id \in edited' \cup mixed'
  <2>1. runs[g].id \in edited \cup mixed
    BY <1>1 DEF Marked
  <2>2. ~Mended(runs[g].id)
    BY <1>1, AloneHolds DEF Mended
  <2> QED
    BY <1>1, <2>1, <2>2, MarksKept
<1>2. CASE Aside
  BY <1>1, <1>2, AsideChangesNothing
<1>3. CASE Reading
  <2>1. PICK h \in Generators : ReadingOf(h)
    BY <1>3, ReadingHasGenerator
  <2>2. CASE h = g
    BY <2>1, <2>2, ReadingRuns DEF TakesRow
  <2>3. CASE h # g /\ g \in alone
    <3>1. runs'[g] = runs[g]
      BY <2>1, <2>3, ReadingRuns
    <3>2. TakesRow(h) /\ g \in Holding(runs'[h].id)
      BY <2>1, <2>3, ReadingRuns DEF TakesRow, TakesNoRow
    <3>3. runs'[h].id = runs[g].id /\ runs'[h].id \in mixed'
      BY <3>2 DEF TakesRow, Holding
    <3> QED
      BY <3>1, <3>3
  <2>4. CASE h # g /\ g \notin alone
    BY <1>1, <2>1, <2>4, ReadingRuns
  <2> QED
    BY <2>2, <2>3, <2>4
<1>4. CASE Writing
  <2>1. runs'[g] = runs[g]
    BY <1>4, UpdatingStands
  <2>2. ASSUME NEW h \in Generators, InsertSlip(h) \/ UpdateSlip(h) PROVE g \notin alone
    BY <2>2, WriterTurns
  <2>3. ASSUME NEW a \in Approvers, NEW u \in Employees, NEW p \in Periods,
               NEW status \in SlipStatus, NEW bonuses \in Bonuses,
               SubmitForm(a, u, p, status, bonuses), g \in alone
        PROVE  runs'[g].id \in edited'
    BY <2>1, <2>3 DEF SubmitForm, Holding
  <2> QED
    BY <1>1, <1>4, <2>1, <2>2, <2>3 DEF Writing, Approve, EnterSlip, TrashSlip, history
<1> QED
  BY <1>2, <1>3, <1>4, StepCases

\* A row that was not there is a generation's, or written by hand.
LEMMA NewRow ==
  ASSUME Shape, [Next]_vars, NEW i \in Rows', i \notin Rows, i \notin edited'
  PROVE  \E g \in Generators : /\ runs[g] # None /\ runs[g].stage = "insert"
                               /\ slips'[i].amounts = runs[g].found
<1>1. nextId' # nextId
  BY DEF Rows
<1>2. ASSUME nextId \in SlipIds, nextId' = nextId + 1 PROVE i = nextId
  BY <1>2 DEF Rows, Shape, TableInv
<1>3. ASSUME NEW g \in Generators, InsertSlip(g)
      PROVE  /\ runs[g] # None /\ runs[g].stage = "insert"
             /\ slips'[i].amounts = runs[g].found
  <2> DEFINE s == [user |-> runs[g].user, period |-> runs[g].period,
                   amounts |-> runs[g].found, status |-> "draft", approver |-> None,
                   trashed |-> FALSE]
  <2>1. s.amounts = runs[g].found
    OBVIOUS
  <2>2. nextId \in SlipIds /\ nextId' = nextId + 1 /\ slips'[nextId] = s
    BY ONLY <1>3, Shape, InsertStores
  <2> HIDE DEF s
  <2>3. runs[g] # None /\ runs[g].stage = "insert"
    BY <1>3 DEF InsertSlip
  <2> QED
    BY <1>2, <2>1, <2>2, <2>3
<1>4. ASSUME NEW u \in Employees, NEW p \in Periods, NEW status \in SlipStatus,
             NEW bonuses \in Bonuses, EnterSlip(u, p, status, bonuses)
      PROVE  FALSE
  BY <1>2, <1>4, EnterStores
<1>5. ~Aside /\ ~Reading
  BY <1>1, AsideChangesNothing, ReadingLeavesTable
<1>6. \E g \in Generators : InsertSlip(g)
  BY <1>1, <1>4, <1>5, StepCases DEF Writing, UpdateSlip, Approve, SubmitForm, TrashSlip
<1> QED
  BY <1>3, <1>6

\* No step stores totals that are not those of the columns.
LEMMA SlipAddsUpStep == Shape /\ TotalsInv /\ [Next]_vars => SlipAddsUp'
<1> SUFFICES ASSUME Shape, TotalsInv, [Next]_vars, NEW i \in Rows', i \notin edited' \cup mixed'
             PROVE  AddsUp(slips'[i].amounts)
  BY DEF SlipAddsUp, AddsUp
<1>1. ASSUME NEW g \in Generators, UpdateSlip(g), runs[g].id = i, g \in alone
      PROVE  AddsUp(slips'[i].amounts)
  <2>1. /\ runs[g] # None /\ runs[g].stage = "update"
        /\ slips[i].amounts = runs[g].base.amounts
    BY <1>1 DEF TotalsInv, AloneInv, AloneAt
  <2>2. AddsUp(runs[g].found)
    BY <2>1 DEF TotalsInv, FoundsAddUp
  <2>3. slips'[i].amounts = runs[g].found
    BY <1>1, <2>1, UpdateStores
  <2> QED
    BY <2>2, <2>3
<1>2. CASE i \in Rows /\ ~Mended(i)
  <2>1. i \notin edited \cup mixed
    BY <1>2, MarksKept
  <2>2. AddsUp(slips[i].amounts)
    BY <1>2, <2>1 DEF TotalsInv, SlipAddsUp, AddsUp
  <2>3. ASSUME NEW g \in Generators, UpdateSlip(g), runs[g] # None, runs[g].stage = "update",
               runs[g].id = i
        PROVE  FALSE
    BY <1>2, <2>1, <2>3 DEF Mended, TotalsInv, Marked
  <2> QED
    BY <1>2, <2>2, <2>3, RowSteps
<1>3. CASE Mended(i)
  BY <1>1, <1>3 DEF Mended
<1>4. CASE i \notin Rows
  <2>1. PICK g \in Generators : /\ runs[g] # None /\ runs[g].stage = "insert"
                                /\ slips'[i].amounts = runs[g].found
    BY <1>4, NewRow
  <2> QED
    BY <2>1 DEF TotalsInv, FoundsAddUp
<1> QED
  BY <1>2, <1>3, <1>4

\* The totals of a payroll are those of its columns, although a regeneration
\* saves only the columns that differ: a generation that has the row to itself
\* finds it unchanged but for status and approver, and so stores all of what it
\* computed, whatever mixture or typing was there before.
THEOREM SlipsAddUp == Spec => []SlipAddsUp
<1>1. Init => Shape /\ Types /\ TotalsInv
  <2>1. Init => TotalsInv
    BY DEF Init, TotalsInv, FoundsAddUp, AloneInv, Marked, SlipAddsUp, Rows
  <2> QED
    BY <2>1, ShapeInit, TypesInit
<1>2. Shape /\ Types /\ TotalsInv /\ [Next]_vars => (Shape /\ Types /\ TotalsInv)'
  BY ShapeStep, TypesStep, FoundsStep, AloneStep, MarkedStep, SlipAddsUpStep DEF TotalsInv
<1>3. TotalsInv => SlipAddsUp
  BY DEF TotalsInv
<1> QED
  BY <1>1, <1>2, <1>3, PTL DEF Spec

-----------------------------------------------------------------------------
(* Who is counted is served. *)

\* The amounts that an employee is counted with are those in his row.
LEMMA CountedStep ==
  ASSUME Shape, AloneInv, [Next]_vars, NEW g \in Generators, runs[g] # None,
         runs'[g] # None, NEW u \in runs'[g].counted \ runs[g].counted
  PROVE  LET i == Written(g)
         IN  /\ i \in Rows'
             /\ runs[g].stage = "insert" \/ g \in alone =>
                  /\ slips'[i].user = u
                  /\ slips'[i].period = runs[g].period
                  /\ slips'[i].amounts = runs[g].found
<1> DEFINE Good(i) == /\ i \in Rows'
                      /\ runs[g].stage = "insert" \/ g \in alone =>
                           /\ slips'[i].user = u
                           /\ slips'[i].period = runs[g].period
                           /\ slips'[i].amounts = runs[g].found
<1>1. runs'[g] # runs[g]
  OBVIOUS
<1>2. ~Aside
  BY <1>1, AsideChangesNothing
<1>3. ~Reading
  <2> SUFFICES ASSUME Reading PROVE FALSE
    OBVIOUS
  <2>1. PICK h \in Generators : ReadingOf(h)
    BY ReadingHasGenerator
  <2>2. h = g
    BY <1>1, <2>1, ReadingRuns
  <2> QED
    BY <2>1, <2>2, ReadingRuns
<1>4. InsertSlip(g) \/ UpdateSlip(g)
  <2>1. ASSUME NEW h \in Generators, InsertSlip(h) \/ UpdateSlip(h) PROVE h = g
    <3>1. runs[h] # None /\ (Succeed(h) \/ Fail(h))
      BY <2>1 DEF InsertSlip, UpdateSlip
    <3> QED
      BY <1>1, <3>1, TurnRuns DEF Shape
  <2>2. \E h \in Generators : InsertSlip(h) \/ UpdateSlip(h)
    BY <1>1, <1>2, <1>3, StepCases DEF Writing, Approve, SubmitForm, EnterSlip, TrashSlip, work
  <2> QED
    BY <2>1, <2>2
<1>5. u = runs[g].user
  <2>1. Succeed(g) \/ Fail(g)
    BY <1>4 DEF InsertSlip, UpdateSlip
  <2> QED
    BY <2>1, TurnRuns DEF Shape
<1>6. CASE InsertSlip(g)
  <2> DEFINE s == [user |-> runs[g].user, period |-> runs[g].period,
                   amounts |-> runs[g].found, status |-> "draft", approver |-> None,
                   trashed |-> FALSE]
  <2>1. /\ s.user = runs[g].user /\ s.period = runs[g].period
        /\ s.amounts = runs[g].found
    OBVIOUS
  <2>2. nextId \in SlipIds /\ nextId' = nextId + 1 /\ slips'[nextId] = s
    BY ONLY <1>6, Shape, InsertStores
  <2> HIDE DEF s
  <2>3. nextId \in Rows'
    BY <2>2 DEF Rows, Shape, TableInv
  <2>4. Written(g) = nextId
    BY <1>6 DEF InsertSlip, Written
  <2> QED
    BY <1>5, <2>1, <2>2, <2>3, <2>4
<1>7. CASE UpdateSlip(g)
  <2>1. runs[g].stage = "update" /\ Written(g) = runs[g].id
    BY <1>7 DEF UpdateSlip, Written
  <2> DEFINE i == runs[g].id
  <2>2. /\ i \in Rows /\ nextId' = nextId
        /\ slips'[i].user = slips[i].user /\ slips'[i].period = slips[i].period
        /\ slips[i].amounts = runs[g].base.amounts => slips'[i].amounts = runs[g].found
    BY <1>7, UpdateStores
  <2>3. i \in Rows'
    BY <2>2 DEF Rows
  <2>4. g \in alone => /\ slips[i].user = runs[g].user /\ slips[i].period = runs[g].period
                       /\ slips[i].amounts = runs[g].base.amounts
    BY DEF AloneInv, AloneAt
  <2> HIDE DEF i
  <2>5. Good(i)
    BY <1>5, <2>1, <2>2, <2>3, <2>4
  <2> QED
    BY <2>1, <2>5 DEF i
<1> QED
  BY <1>4, <1>6, <1>7

\* However generations, forms and deletions overtake one another, and whatever
\* fails and is swallowed, the employees a generation reports as done have
\* their payrolls, with the amounts it computed unless another had the row
\* open too or it was written by hand meanwhile.
THEOREM CountedAreServed == Spec => CountedIsServed
<1>1. Init => Shape /\ Types /\ AloneInv
  BY ShapeInit, TypesInit DEF Init, AloneInv
<1>2. Shape /\ Types /\ AloneInv /\ [Next]_vars => (Shape /\ Types /\ AloneInv)'
  BY ShapeStep, TypesStep, AloneStep
<1>3. Shape /\ AloneInv /\ [Next]_vars =>
        \A g \in Generators :
          runs[g] # None /\ runs'[g] # None =>
            \A u \in runs'[g].counted \ runs[g].counted :
              LET i == Written(g)
              IN  /\ i \in Rows'
                  /\ runs[g].stage = "insert" \/ g \in alone =>
                       /\ slips'[i].user = u
                       /\ slips'[i].period = runs[g].period
                       /\ slips'[i].amounts = runs[g].found
  BY CountedStep
<1> QED
  BY <1>1, <1>2, <1>3, PTL DEF Spec, CountedIsServed

-----------------------------------------------------------------------------
(* The types. *)

\* They say what TypeOK says, and that the rows are filled; who is alone is
\* about to update.
LEMMA TypesTypeOK == Types /\ AloneInv => TypeOK
<1> SUFFICES ASSUME Types, AloneInv PROVE TypeOK
  OBVIOUS
<1>1. alone \subseteq {g \in Generators : runs[g] # None /\ runs[g].stage = "update"}
  BY DEF AloneInv, AloneAt
<1> QED
  BY <1>1 DEF Types, InputsTyped, TableTyped, RunsTyped, ScreensTyped, CountsTyped, Whole, TypeOK

\* Whatever overlaps, a row of the table is a payroll of an employee and a
\* period with amounts that are numbers, and a generation has in hand what
\* its step needs: a month's sums end, and no save mixes columns up.
THEOREM PayrollsTyped == Spec => []TypeOK
<1>1. Init => Shape /\ Types /\ AloneInv
  BY ShapeInit, TypesInit DEF Init, AloneInv
<1>2. Shape /\ Types /\ AloneInv /\ [Next]_vars => (Shape /\ Types /\ AloneInv)'
  BY ShapeStep, TypesStep, AloneStep
<1> QED
  BY <1>1, <1>2, TypesTypeOK, PTL DEF Spec
=============================================================================
