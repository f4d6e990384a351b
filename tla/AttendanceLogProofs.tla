------------------------ MODULE AttendanceLogProofs ------------------------
(***************************************************************************)
(* The logs of the attendance engine: that the columns of a log keep       *)
(* agreeing with one another, and that the engine implements the daily     *)
(* log.                                                                    *)
(***************************************************************************)
EXTENDS AttendanceDaily, AttendanceProofs

\* How a step that is not one of Save, Load, StoreLog or an administrator's
\* leaves the table and the memory.
LEMMA QuietSteps ==
  ASSUME TypeOK,
         \/ Aside
         \/ \E p \in Procs : StoreFails(p)
         \/ \E p \in Procs : Kill(p)
         \/ \E p \in Web, u \in Users, inside \in BOOLEAN : CheckIn(p, u, inside)
         \/ \E p \in Web, u \in Users, d \in Days, t \in Times : SelfCheckIn(p, u, d, t)
         \/ \E w \in Workers, j \in JobIds : RunCheckIn(w, j)
  PROVE  /\ UNCHANGED <<logs, handled, overlapped, reclocked>>
         /\ \A q \in Procs, k \in LogIds : held'[q][k] # None =>
              held'[q][k] = held[q][k] /\ pending'[q][k] = pending[q][k]
<1>1. CASE Aside
  BY <1>1, AsideChangesNothing
<1>2. ASSUME NEW p \in Procs, StoreFails(p)
      PROVE  UNCHANGED <<logs, held, pending, handled, overlapped, reclocked>>
  BY <1>2 DEF StoreFails, table, history
<1>3. ASSUME NEW p \in Web, NEW u \in Users, NEW inside \in BOOLEAN, CheckIn(p, u, inside)
      PROVE  UNCHANGED <<logs, held, pending, handled, overlapped, reclocked>>
  BY <1>3 DEF CheckIn, table, history
<1>4. ASSUME NEW w \in Workers, NEW j \in JobIds, RunCheckIn(w, j)
      PROVE  UNCHANGED <<logs, held, pending, handled, overlapped, reclocked>>
  BY <1>4 DEF RunCheckIn, table, history
<1>5. ASSUME NEW p \in Procs, Kill(p)
      PROVE  /\ UNCHANGED <<logs, handled, overlapped, reclocked>>
             /\ \A q \in Procs, k \in LogIds : held'[q][k] # None =>
                  held'[q][k] = held[q][k] /\ pending'[q][k] = pending[q][k]
  <2>1. UNCHANGED <<logs, handled, overlapped, reclocked>>
    BY <1>5 DEF Kill, table, history
  <2> QED
    BY <1>5, <2>1, KillHeld
<1>6. ASSUME NEW p \in Web, NEW u \in Users, NEW d \in Days, NEW t \in Times,
             SelfCheckIn(p, u, d, t)
      PROVE  UNCHANGED <<logs, held, pending, handled, overlapped, reclocked>>
  BY <1>6 DEF SelfCheckIn, table, history
<1> QED
  BY <1>1, <1>2, <1>3, <1>4, <1>5, <1>6

\* What enters fresh: a model just built by one of the three check-in paths.
LEMMA FreshSteps ==
  ASSUME TypeOK, [Next]_vars, NEW p \in Procs, fresh'[p] # None
  PROVE  \/ fresh'[p] = fresh[p]
         \/ \E u \in Users, d \in Days, t \in Times :
              fresh'[p] = SelfLog(u, d, t) /\ d <= day
         \/ \E u \in Users, fence \in BOOLEAN, start \in Nat, grace \in Nat, r \in Nat :
              \/ fresh'[p] = Financials(Evaluate(NewLog(u, fence), start, grace), r)
              \/ fresh'[p] = Financials(Excuse(Evaluate(NewLog(u, fence), start, grace)), r)
<1>1. ASSUME NEW q \in Web, NEW u \in Users, NEW inside \in BOOLEAN, CheckIn(q, u, inside)
      PROVE  \/ fresh'[p] = fresh[p]
             \/ \E fence \in BOOLEAN, start \in Nat, grace \in Nat, r \in Nat :
                  \/ fresh'[p] = Financials(Evaluate(NewLog(u, fence), start, grace), r)
                  \/ fresh'[p] = Financials(Excuse(Evaluate(NewLog(u, fence), start, grace)), r)
  <2> DEFINE exc    == exception[u]
             fence  == inside \/ u \in Level10 \/ (exc # None /\ exc.fence)
             start  == IF exc = None THEN ShiftStart(u)
                                     ELSE Coalesce(exc.start, ShiftStart(u))
             grace  == IF exc = None THEN Grace(u) ELSE Coalesce(exc.grace, Grace(u))
             judged == Evaluate(NewLog(u, fence), start, grace)
  <2>1. exc \in ExceptionType \cup {None}
    BY SettingsAssumption DEF TypeOK, SettingsOK
  <2>2. start \in Nat /\ grace \in Nat
    BY <2>1, JudgeType DEF TypeOK, Coalesce, ExceptionType
  <2>3. Rate(u) \in Nat
    BY RateType DEF TypeOK
  <2>4. fence \in BOOLEAN
    OBVIOUS
  <2>5. fresh' = [fresh EXCEPT ![q] =
          Financials(IF exc # None /\ exc.late THEN Excuse(judged) ELSE judged, Rate(u))]
    BY <1>1 DEF CheckIn
  <2> HIDE DEF exc, fence, start, grace
  <2>6. \/ fresh'[p] = fresh[p]
        \/ fresh'[p] = Financials(judged, Rate(u))
        \/ fresh'[p] = Financials(Excuse(judged), Rate(u))
    BY <2>5 DEF TypeOK, MemoryOK
  <2> QED
    BY <2>2, <2>3, <2>4, <2>6
<1>2. ASSUME NEW w \in Workers, NEW j \in JobIds, RunCheckIn(w, j)
      PROVE  \/ fresh'[p] = fresh[p]
             \/ \E u \in Users, fence \in BOOLEAN, start \in Nat, grace \in Nat, r \in Nat :
                  fresh'[p] = Financials(Evaluate(NewLog(u, fence), start, grace), r)
  <2>1. jobs[j] \in Job
    BY <1>2, ReserveType DEF RunCheckIn
  <2>2. PICK u \in jobs[j].scope :
          fresh' = [fresh EXCEPT ![w] =
            Financials(Evaluate(NewLog(u, jobs[j].inside), ShiftStart(u), Grace(u)), Rate(u))]
    BY <1>2 DEF RunCheckIn
  <2>3. u \in Users /\ jobs[j].inside \in BOOLEAN
    BY <2>1 DEF Job
  <2>4. ShiftStart(u) \in Nat /\ Grace(u) \in Nat /\ Rate(u) \in Nat
    BY <2>3, JudgeType, RateType DEF TypeOK
  <2>5. \/ fresh'[p] = fresh[p]
        \/ fresh'[p] = Financials(Evaluate(NewLog(u, jobs[j].inside), ShiftStart(u), Grace(u)),
                                  Rate(u))
    BY <2>2 DEF TypeOK, MemoryOK
  <2> QED
    BY <2>3, <2>4, <2>5
<1>3. ASSUME NEW q \in Procs, \/ StoreLog(q) \/ StoreFails(q) \/ Kill(q)
                              \/ \E i \in LogIds : Save(q, i)
      PROVE  fresh'[p] = fresh[p]
  BY <1>3 DEF StoreLog, StoreFails, Kill, Save, TypeOK, MemoryOK
<1>4. ASSUME \/ \E q \in Web, u \in Users : CheckOut(q, u)
             \/ \E w \in Workers, j \in JobIds : RunRecalculation(w, j)
             \/ \E u \in Users, d \in Days, form \in Forms : EnterLog(u, d, form)
             \/ \E i \in LogIds, u \in Users, d \in Days, form \in Forms :
                  EditLog(i, u, d, form)
             \/ \E i \in LogIds : DeleteLog(i)
      PROVE  fresh'[p] = fresh[p]
  BY <1>4 DEF CheckOut, RunRecalculation, EnterLog, EditLog, DeleteLog, memory
<1>5. CASE Aside
  BY <1>5, AsideChangesNothing
<1>6. ASSUME NEW q \in Web, NEW u \in Users, NEW d \in Days, NEW t \in Times,
             SelfCheckIn(q, u, d, t)
      PROVE  fresh'[p] = fresh[p] \/ (fresh'[p] = SelfLog(u, d, t) /\ d <= day)
  <2>1. d <= day
    BY <1>6, SizesAssumption DEF SelfCheckIn, TypeOK, ClockOK, Days
  <2>2. fresh' = [fresh EXCEPT ![q] = SelfLog(u, d, t)]
    BY <1>6 DEF SelfCheckIn
  <2> QED
    BY <2>1, <2>2 DEF TypeOK, MemoryOK
<1>7. CASE Moving
  BY <1>1, <1>2, <1>3, <1>4, <1>6, <1>7 DEF Moving
<1> QED
  BY <1>5, <1>7, StepCases

\* An administrator's step touches one row, and says which.
LEMMA AdminSteps ==
  ASSUME TypeOK,
         \/ \E u \in Users, d \in Days, form \in Forms : EnterLog(u, d, form)
         \/ \E i \in LogIds, u \in Users, d \in Days, form \in Forms : EditLog(i, u, d, form)
         \/ \E i \in LogIds : DeleteLog(i)
  PROVE  \E i \in LogIds :
           /\ handled' = handled \cup {i}
           /\ \A k \in LogIds \ {i} : logs'[k] = logs[k]
           /\ UNCHANGED <<fresh, held, pending, overlapped, reclocked>>
<1>1. ASSUME NEW u \in Users, NEW d \in Days, NEW form \in Forms, EnterLog(u, d, form)
      PROVE  /\ nextId \in LogIds
             /\ handled' = handled \cup {nextId}
             /\ \A k \in LogIds \ {nextId} : logs'[k] = logs[k]
             /\ UNCHANGED <<fresh, held, pending, overlapped, reclocked>>
  BY <1>1 DEF EnterLog, Insert, memory, TypeOK, TableOK
<1>2. ASSUME NEW i \in LogIds,
             \/ DeleteLog(i)
             \/ \E u \in Users, d \in Days, form \in Forms : EditLog(i, u, d, form)
      PROVE  /\ handled' = handled \cup {i}
             /\ \A k \in LogIds \ {i} : logs'[k] = logs[k]
             /\ UNCHANGED <<fresh, held, pending, overlapped, reclocked>>
  BY <1>2 DEF DeleteLog, EditLog, memory, TypeOK, TableOK
<1> QED
  BY <1>1, <1>2

\* The row StoreLog adds is one nobody has open.
LEMMA StoreSteps ==
  ASSUME TypeOK, MemoryInv, NEW p \in Procs, StoreLog(p)
  PROVE  /\ nextId \in LogIds /\ fresh[p] # None /\ logs'[nextId] = fresh[p]
         /\ \A k \in LogIds \ {nextId} : logs'[k] = logs[k]
         /\ \A q \in Procs : held[q][nextId] = None
         /\ UNCHANGED <<held, pending, handled, overlapped, reclocked>>
<1>1. nextId \in LogIds
  BY DEF StoreLog, Insert
<1>2. \A q \in Procs : held[q][nextId] = None
  BY <1>1, SizesAssumption DEF MemoryInv, IdsInOrder, LogIds
<1> QED
  BY <1>1, <1>2 DEF StoreLog, Insert, history, TypeOK, TableOK

-----------------------------------------------------------------------------
(* Worked time. *)

TimedRows ==
  \A i \in LogIds : logs[i] # None /\ i \notin handled \cup reclocked =>
    logs[i].in # None /\ WorkTime(logs[i])

\* A check-out in flight has seen the clock columns the table still has.
WebSeesClock ==
  \A p \in Web, i \in LogIds : held[p][i] # None /\ i \notin handled \cup reclocked =>
    /\ logs[i] # None
    /\ ClockColumns(held[p][i]) = ClockColumns(logs[i])
    /\ WorkTime(pending[p][i])

OneCheckOut ==
  \A p, q \in Web, i \in LogIds :
    held[p][i] # None /\ held[q][i] # None /\ i \notin reclocked => p = q

FreshTimed == \A p \in Procs : fresh[p] # None => fresh[p].in # None /\ WorkTime(fresh[p])

ClockInv == TimedRows /\ WebSeesClock /\ OneCheckOut /\ FreshTimed

\* WorkTime depends on the clock columns alone.
LEMMA WorkTimeOfClock ==
  ASSUME NEW a \in Row, NEW b \in Row, ClockColumns(a) = ClockColumns(b)
  PROVE  WorkTime(a) <=> WorkTime(b)
  BY DEF ClockColumns, WorkTime

\* Saving over unchanged clock columns stores the model's own.
LEMMA SaveToTakesClock ==
  ASSUME NEW cur \in Row, NEW base \in Row, NEW target \in Row,
         ClockColumns(base) = ClockColumns(cur), target.in = base.in
  PROVE  ClockColumns(SaveTo(cur, base, target)) = ClockColumns(target)
<1>1. /\ base.in = cur.in /\ base.out = cur.out /\ base.worked = cur.worked
      /\ base.over = cur.over /\ base.early = cur.early
  BY DEF ClockColumns
<1> QED
  BY <1>1 DEF ClockColumns, SaveTo, Dirty, Row

\* A model with clean clock columns leaves the table's alone.
LEMMA SaveToKeepsClock ==
  ASSUME NEW cur \in Row, NEW base \in Row, NEW target \in Row,
         ClockColumns(base) = ClockColumns(target)
  PROVE  ClockColumns(SaveTo(cur, base, target)) = ClockColumns(cur)
<1>1. /\ base.out = target.out /\ base.worked = target.worked
      /\ base.over = target.over /\ base.early = target.early
  BY DEF ClockColumns
<1> QED
  BY <1>1, SaveToKeeps DEF ClockColumns

\* A check-out settles the worked time of its model.
LEMMA CheckedOutWorkTime ==
  ASSUME NEW row \in Row, NEW t \in Times, NEW expected \in Int,
         row.in # None, MinutesBetween(row.in, t) >= 0
  PROVE  WorkTime(CheckedOut(row, t, expected))
<1> DEFINE worked == MinutesBetween(row.in, t)
           timed == [row EXCEPT !.out = t, !.worked = worked,
                                !.over = Excess(worked, expected),
                                !.early = Excess(expected, worked)]
<1>1. CheckedOut(row, t, expected) = Priced(timed)
  BY DEF CheckedOut
<1>2. row.in \in Nat /\ t \in Nat
  BY SizesAssumption DEF Row
<1>3. worked \in Nat
  BY <1>2, MinutesInt
<1>4. worked = MinutesBetween(row.in, t)
  OBVIOUS
<1> HIDE DEF worked
<1>5. /\ Excess(worked, expected) \in Nat /\ Excess(expected, worked) \in Nat
      /\ Excess(worked, expected) = 0 \/ Excess(expected, worked) = 0
  BY <1>3 DEF Excess
<1>6. /\ timed \in Row /\ timed.in = row.in /\ timed.out = t /\ timed.worked = worked
      /\ timed.over = Excess(worked, expected) /\ timed.early = Excess(expected, worked)
  BY <1>3, <1>5 DEF Row
<1>7. t # None
  BY <1>2, NoneAssumption
<1> HIDE DEF timed
<1>8. WorkTime(timed)
  BY <1>4, <1>5, <1>6, <1>7 DEF WorkTime
<1>9. Priced(timed) \in Row /\ ClockColumns(Priced(timed)) = ClockColumns(timed)
  BY <1>6, PricedType, PricedKeeps
<1> QED
  BY <1>1, <1>6, <1>8, <1>9, WorkTimeOfClock

\* A new log has a check-in and no worked time.
LEMMA FreshModelTimed ==
  ASSUME ClockOK, NEW u \in Users, NEW fence \in BOOLEAN, NEW start \in Nat,
         NEW grace \in Nat, NEW r \in Nat, NEW row,
         \/ row = Financials(Evaluate(NewLog(u, fence), start, grace), r)
         \/ row = Financials(Excuse(Evaluate(NewLog(u, fence), start, grace)), r)
  PROVE  row.in # None /\ WorkTime(row)
<1> DEFINE blank == NewLog(u, fence)
           judged == Evaluate(blank, start, grace)
<1>1. blank \in Row /\ WorkTime(blank) /\ blank.in # None
  BY NewLogType, SizesAssumption, NoneAssumption DEF NewLog, WorkTime, ClockOK
<1> HIDE DEF blank
<1>2. judged \in Row /\ ClockColumns(judged) = ClockColumns(blank)
  BY <1>1, EvaluateType, EvaluateKeeps
<1> HIDE DEF judged
<1>3. Excuse(judged) \in Row /\ ClockColumns(Excuse(judged)) = ClockColumns(judged)
  BY <1>2, ExcuseType DEF Excuse, ClockColumns, Row
<1>4. row \in Row /\ ClockColumns(row) = ClockColumns(blank)
  BY <1>2, <1>3, FinancialsType, FinancialsKeeps DEF judged, blank
<1> QED
  BY <1>1, <1>4, WorkTimeOfClock DEF ClockColumns

\* A log of the employees' panel differs from the constructor's in two columns.
LEMMA SelfLogColumns ==
  ASSUME ClockOK, NEW u \in Users, NEW d \in Days, NEW t \in Times, d <= day
  PROVE  LET row == SelfLog(u, d, t) IN
         /\ row.in # None /\ row.out = None /\ row.status = "present"
         /\ row.worked = 0 /\ row.delay = 0 /\ row.early = 0 /\ row.over = 0
         /\ row.rate = 0 /\ row.delayCost = 0 /\ row.earlyCost = 0 /\ row.overVal = 0
<1>1. SelfLog(u, d, t).in # None
  BY SelfLogType, NoneAssumption
<1> QED
  BY <1>1 DEF SelfLog, NewLog

\* So has every model waiting to be inserted.
LEMMA FreshTimedStep == TypeOK /\ FreshTimed /\ [Next]_vars => FreshTimed'
<1> SUFFICES ASSUME TypeOK, FreshTimed, [Next]_vars, NEW p \in Procs, fresh'[p] # None
             PROVE  fresh'[p].in # None /\ WorkTime(fresh'[p])
  BY DEF FreshTimed, WorkTime
<1>1. CASE fresh'[p] = fresh[p]
  BY <1>1 DEF FreshTimed
<1>2. CASE fresh'[p] # fresh[p]
  BY <1>2, FreshSteps, FreshModelTimed, SelfLogColumns DEF TypeOK, WorkTime
<1> QED
  BY <1>1, <1>2

\* Save: only a check-out moves clock columns, and it saw the current ones.
LEMMA SaveClock ==
  ASSUME TypeOK, MemoryInv, ClockInv, NEW p \in Procs, NEW i \in LogIds, Save(p, i)
  PROVE  TimedRows' /\ WebSeesClock' /\ OneCheckOut'
<1>1. UNCHANGED <<handled, overlapped, reclocked>>
  BY DEF Save, history
<1>2. \A k \in LogIds \ {i} : logs'[k] = logs[k]
  BY SaveElsewhere
<1>3. OneCheckOut'
  BY <1>1, SaveHeld DEF ClockInv, OneCheckOut, Procs
<1>4. ASSUME logs'[i] # None, i \notin handled \cup reclocked
      PROVE  /\ logs'[i].in # None /\ WorkTime(logs'[i])
             /\ p \in Workers => ClockColumns(logs'[i]) = ClockColumns(logs[i])
  <2>1. logs[i] # None
    BY <1>4, SaveElsewhere
  <2>2. /\ logs[i] \in Row /\ held[p][i] \in Row /\ pending[p][i] \in Row
        /\ logs'[i] = SaveTo(logs[i], held[p][i], pending[p][i])
    BY <2>1, SavedRows
  <2>3. logs[i].in # None /\ WorkTime(logs[i])
    BY <1>4, <2>1 DEF ClockInv, TimedRows
  <2>4. logs'[i] \in Row /\ logs'[i].in = logs[i].in
    <3>1. SaveTo(logs[i], held[p][i], pending[p][i]) \in Row
      BY <2>2, SaveToType
    <3>2. SaveTo(logs[i], held[p][i], pending[p][i]).in = logs[i].in
      BY <2>2, SaveToKeeps
    <3> QED
      BY <2>2, <3>1, <3>2
  <2>5. CASE p \in Workers
    <3>1. ClockColumns(pending[p][i]) = ClockColumns(held[p][i])
      BY <2>5 DEF MemoryInv, WorkersKeepClock, Save
    <3>2. ClockColumns(logs'[i]) = ClockColumns(logs[i])
      BY <2>2, <3>1, SaveToKeepsClock
    <3> QED
      BY <2>2, <2>3, <2>4, <3>2, WorkTimeOfClock
  <2>6. CASE p \in Web
    <3>1. /\ ClockColumns(held[p][i]) = ClockColumns(logs[i])
          /\ WorkTime(pending[p][i])
      BY <1>4, <2>6 DEF ClockInv, WebSeesClock, Save
    <3>2. pending[p][i].in = held[p][i].in
      BY <2>6 DEF MemoryInv, WebKeepsRate, Save
    <3>3. ClockColumns(logs'[i]) = ClockColumns(pending[p][i])
      BY <2>2, <3>1, <3>2, SaveToTakesClock
    <3>4. p \notin Workers
      BY <2>6, SizesAssumption
    <3> QED
      BY <2>2, <2>3, <2>4, <3>1, <3>3, <3>4, WorkTimeOfClock
  <2> QED
    BY <2>5, <2>6 DEF Procs
<1>5. TimedRows'
  BY <1>1, <1>2, <1>4 DEF ClockInv, TimedRows, WorkTime
<1>6. ASSUME NEW q \in Web, NEW k \in LogIds, held'[q][k] # None,
             k \notin handled' \cup reclocked'
      PROVE  /\ logs'[k] # None
             /\ ClockColumns(held'[q][k]) = ClockColumns(logs'[k])
             /\ WorkTime(pending'[q][k])
  <2>1. /\ q \in Procs /\ ~(q = p /\ k = i)
        /\ held'[q][k] = held[q][k] /\ pending'[q][k] = pending[q][k]
    BY <1>6, SaveHeld DEF Procs
  <2>2. /\ logs[k] # None
        /\ ClockColumns(held[q][k]) = ClockColumns(logs[k])
        /\ WorkTime(pending[q][k])
    BY <1>1, <1>6, <2>1 DEF ClockInv, WebSeesClock
  <2>3. CASE k # i
    BY <1>2, <2>1, <2>2, <2>3 DEF WorkTime
  <2>4. CASE k = i
    <3>1. p \notin Web
      BY <1>1, <1>6, <2>1, <2>4 DEF ClockInv, OneCheckOut, Save
    <3>2. logs'[i] # None
      <4>1. logs[i] \in Row /\ logs'[i] = SaveTo(logs[i], held[p][i], pending[p][i])
            /\ held[p][i] \in Row /\ pending[p][i] \in Row
        BY <2>2, <2>4, SavedRows
      <4> QED
        BY <4>1, SaveToType, NoneAssumption
    <3>3. ClockColumns(logs'[i]) = ClockColumns(logs[i])
      BY <1>1, <1>4, <1>6, <2>4, <3>1, <3>2 DEF Procs
    <3> QED
      BY <2>1, <2>2, <2>4, <3>2, <3>3 DEF WorkTime
  <2> QED
    BY <2>3, <2>4
<1>7. WebSeesClock'
  BY <1>6 DEF WebSeesClock, WorkTime
<1> QED
  BY <1>3, <1>5, <1>7

\* CheckOut: the row enters memory as the table has it.
LEMMA CheckOutClock ==
  ASSUME TypeOK, MemoryInv, ClockInv, NEW p \in Web, NEW u \in Users, CheckOut(p, u)
  PROVE  TimedRows' /\ WebSeesClock' /\ OneCheckOut'
<1>1. PICK i \in LogIds, target \in [LogIds -> Row \cup {None}] :
         /\ logs[i] \in Row /\ logs[i].in # None
         /\ MinutesBetween(logs[i].in, time) >= 0
         /\ target[i] = CheckedOut(logs[i], time, Expected(u))
         /\ Load(p, {i}, target)
         /\ Expected(u) \in Int /\ time \in Times
  BY CheckOutLoads
<1>2. UNCHANGED <<logs, handled>>
  BY DEF CheckOut, table
<1>3. /\ held'[p][i] = logs[i] /\ pending'[p][i] = target[i]
      /\ \A k \in LogIds \ {i} : held'[p][k] = None
      /\ \A q \in Procs \ {p}, k \in LogIds :
           held'[q][k] = held[q][k] /\ pending'[q][k] = pending[q][k]
  <2>1. p \in Procs /\ {i} \in SUBSET LogIds /\ i \in {i}
    BY DEF Procs
  <2>2. /\ \A k \in {i} : held'[p][k] = logs[k] /\ pending'[p][k] = target[k]
        /\ \A k \in LogIds \ {i} : held'[p][k] = None
        /\ \A q \in Procs \ {p}, k \in LogIds :
             held'[q][k] = held[q][k] /\ pending'[q][k] = pending[q][k]
    BY <1>1, <2>1, LoadHeld
  <2> QED
    BY <2>1, <2>2
<1>4. /\ reclocked \subseteq reclocked'
      /\ (\E q \in Web \ {p} : held[q][i] # None) => i \in reclocked'
  BY <1>1 DEF Load
<1>5. WorkTime(target[i])
  BY <1>1, CheckedOutWorkTime
<1>6. TimedRows'
  BY <1>2, <1>4 DEF ClockInv, TimedRows, WorkTime
<1>7. OneCheckOut'
  BY <1>3, <1>4 DEF ClockInv, OneCheckOut, Procs
<1>8. ASSUME NEW q \in Web, NEW k \in LogIds, held'[q][k] # None,
             k \notin handled' \cup reclocked'
      PROVE  /\ logs'[k] # None
             /\ ClockColumns(held'[q][k]) = ClockColumns(logs'[k])
             /\ WorkTime(pending'[q][k])
  <2>1. CASE q = p
    <3>1. k = i
      BY <1>3, <1>8, <2>1
    <3> QED
      BY <1>1, <1>2, <1>3, <1>5, <2>1, <3>1, NoneAssumption DEF WorkTime
  <2>2. CASE q # p
    <3>1. held'[q][k] = held[q][k] /\ pending'[q][k] = pending[q][k]
      BY <1>3, <2>2 DEF Procs
    <3> QED
      BY <1>2, <1>4, <1>8, <3>1 DEF ClockInv, WebSeesClock, WorkTime
  <2> QED
    BY <2>1, <2>2
<1>9. WebSeesClock'
  BY <1>8 DEF WebSeesClock, WorkTime
<1> QED
  BY <1>6, <1>7, <1>9

\* RunRecalculation: no request's memory is touched.
LEMMA RecalculationClock ==
  ASSUME TypeOK, MemoryInv, ClockInv, NEW w \in Workers, NEW j \in JobIds,
         RunRecalculation(w, j)
  PROVE  TimedRows' /\ WebSeesClock' /\ OneCheckOut'
<1>1. PICK S \in SUBSET LogIds, target \in [LogIds -> Row \cup {None}], r \in [LogIds -> Nat] :
         /\ \A i \in S : /\ logs[i] \in Row
                         /\ target[i] \in Row
                         /\ target[i] = Recalculated(logs[i], branch, r[i])
         /\ Load(w, S, target)
         /\ branch \in BranchType
  BY RecalculationLoads
<1>2. UNCHANGED <<logs, handled>> /\ reclocked \subseteq reclocked'
  BY <1>1 DEF RunRecalculation, table, Load
<1>3. \A q \in Web, k \in LogIds :
        held'[q][k] = held[q][k] /\ pending'[q][k] = pending[q][k]
  BY <1>1, LoadHeld, SizesAssumption DEF Procs
<1>4. TimedRows' /\ OneCheckOut'
  BY <1>2, <1>3 DEF ClockInv, TimedRows, OneCheckOut, WorkTime
<1>5. WebSeesClock'
  BY <1>2, <1>3 DEF ClockInv, WebSeesClock, WorkTime
<1> QED
  BY <1>4, <1>5

\* Every step preserves the invariant on worked time.
LEMMA ClockStep == TypeOK /\ MemoryInv /\ ClockInv /\ [Next]_vars => ClockInv'
<1> SUFFICES ASSUME TypeOK, MemoryInv, ClockInv, [Next]_vars
             PROVE  TimedRows' /\ WebSeesClock' /\ OneCheckOut'
  BY FreshTimedStep DEF ClockInv
<1>1. ASSUME UNCHANGED <<logs, handled, overlapped, reclocked>>,
             \A q \in Procs, k \in LogIds : held'[q][k] # None =>
               held'[q][k] = held[q][k] /\ pending'[q][k] = pending[q][k]
      PROVE  TimedRows' /\ WebSeesClock' /\ OneCheckOut'
  BY <1>1 DEF ClockInv, TimedRows, WebSeesClock, OneCheckOut, WorkTime, Procs
<1>2. ASSUME NEW p \in Procs, StoreLog(p) PROVE TimedRows' /\ WebSeesClock' /\ OneCheckOut'
  <2>1. /\ nextId \in LogIds /\ fresh[p] # None /\ logs'[nextId] = fresh[p]
        /\ \A k \in LogIds \ {nextId} : logs'[k] = logs[k]
        /\ \A q \in Procs : held[q][nextId] = None
        /\ UNCHANGED <<held, pending, handled, overlapped, reclocked>>
    BY <1>2, StoreSteps
  <2>2. fresh[p].in # None /\ WorkTime(fresh[p])
    BY <2>1 DEF ClockInv, FreshTimed
  <2> QED
    BY <2>1, <2>2 DEF ClockInv, TimedRows, WebSeesClock, OneCheckOut, WorkTime, Procs
<1>3. ASSUME \/ \E u \in Users, d \in Days, form \in Forms : EnterLog(u, d, form)
             \/ \E i \in LogIds, u \in Users, d \in Days, form \in Forms :
                  EditLog(i, u, d, form)
             \/ \E i \in LogIds : DeleteLog(i)
      PROVE  TimedRows' /\ WebSeesClock' /\ OneCheckOut'
  <2>1. PICK i \in LogIds :
           /\ handled' = handled \cup {i}
           /\ \A k \in LogIds \ {i} : logs'[k] = logs[k]
           /\ UNCHANGED <<fresh, held, pending, overlapped, reclocked>>
    BY <1>3, AdminSteps
  <2> QED
    BY <2>1 DEF ClockInv, TimedRows, WebSeesClock, OneCheckOut, WorkTime
<1>4. CASE Aside
  BY <1>1, <1>4, QuietSteps
<1>5. CASE Moving
  BY <1>1, <1>2, <1>3, <1>5, QuietSteps, SaveClock, CheckOutClock, RecalculationClock
     DEF Moving
<1> QED
  BY <1>4, <1>5, StepCases

\* The invariant holds in every reachable state.
LEMMA ClockInvariant == Spec => []ClockInv
<1>1. Init => ClockInv
  BY DEF Init, NoRows, ClockInv, TimedRows, WebSeesClock, OneCheckOut, FreshTimed, Procs
<1> QED
  BY <1>1, ClockStep, TypeCorrect, MemoryInvariant, PTL DEF Spec

\* Worked minutes, overtime and early leave of a log belong to its own clock
\* times for any number of employees, requests, workers, recalculations,
\* redeliveries and crashes: only an administrator's form, or two check-out
\* requests open at once, can separate them.
THEOREM WorkTimeCorrect == Spec => []WorkTimeCoherent
<1>1. ClockInv => WorkTimeCoherent
  BY DEF ClockInv, TimedRows, WorkTimeCoherent
<1> QED
  BY <1>1, ClockInvariant, PTL

-----------------------------------------------------------------------------
(* Costs and lateness. *)

Coherent(row) == /\ row.in # None
                 /\ DelayPriced(row) /\ EarlyPriced(row) /\ OverPriced(row)
                 /\ Lateness(row)

CoherentRows ==
  \A i \in LogIds : logs[i] # None /\ i \notin handled \cup overlapped => Coherent(logs[i])

\* Who has such a row open sees it as the table has it, and will leave it
\* coherent.
OpenRowsCurrent ==
  \A p \in Procs, i \in LogIds : held[p][i] # None /\ i \notin handled \cup overlapped =>
    /\ logs[i] # None
    /\ held[p][i] = logs[i]
    /\ Coherent(pending[p][i])
    /\ pending[p][i].in = logs[i].in

OneHolder ==
  \A p, q \in Procs, i \in LogIds :
    held[p][i] # None /\ held[q][i] # None /\ i \notin overlapped => p = q

FreshCoherent == \A p \in Procs : fresh[p] # None => Coherent(fresh[p])

CostInv == CoherentRows /\ OpenRowsCurrent /\ OneHolder /\ FreshCoherent

\* Priced prices all three minute columns at the row's rate.
LEMMA PricedRow ==
  ASSUME NEW row \in Row
  PROVE  DelayPriced(Priced(row)) /\ EarlyPriced(Priced(row)) /\ OverPriced(Priced(row))
  BY DEF Priced, DelayPriced, EarlyPriced, OverPriced, Row

\* A row with a check-in is judged present without delay, or late.
LEMMA EvaluatedRow ==
  ASSUME NEW row \in Row, NEW start \in Nat, NEW grace \in Nat, row.in # None
  PROVE  Lateness(Evaluate(row, start, grace)) /\ Evaluate(row, start, grace).in = row.in
  BY DEF Evaluate, Lateness, Row

\* Lateness depends on the status and the delay alone.
LEMMA LatenessOf ==
  ASSUME NEW a, NEW b, a.status = b.status, a.delay = b.delay
  PROVE  Lateness(a) <=> Lateness(b)
  BY DEF Lateness

\* calculateFinancials makes a judged row coherent.
LEMMA FinancialsCoherent ==
  ASSUME NEW row \in Row, NEW r \in Nat, row.in # None, Lateness(row)
  PROVE  Coherent(Financials(row, r)) /\ Financials(row, r).in = row.in
<1>1. [row EXCEPT !.rate = r] \in Row
  BY DEF Row
<1>2. /\ DelayPriced(Financials(row, r)) /\ EarlyPriced(Financials(row, r))
      /\ OverPriced(Financials(row, r))
  BY <1>1, PricedRow DEF Financials
<1>3. /\ Financials(row, r).status = row.status /\ Financials(row, r).delay = row.delay
      /\ ClockColumns(Financials(row, r)) = ClockColumns(row)
  BY FinancialsKeeps
<1> QED
  BY <1>2, <1>3, LatenessOf DEF Coherent, ClockColumns

\* So does an iteration of the recalculation, whatever the row was.
LEMMA RecalculatedCoherent ==
  ASSUME NEW row \in Row, NEW b \in BranchType, NEW r \in Nat, row.in # None
  PROVE  Coherent(Recalculated(row, b, r)) /\ Recalculated(row, b, r).in = row.in
<1>1. b.start \in Nat /\ b.grace \in Nat
  BY DEF BranchType
<1> DEFINE judged == Evaluate(row, b.start, b.grace)
<1>2. judged \in Row /\ judged.in = row.in /\ Lateness(judged)
  BY <1>1, EvaluateType, EvaluatedRow
<1>3. Recalculated(row, b, r) = Financials(judged, r)
  BY DEF Recalculated
<1> HIDE DEF judged
<1> QED
  BY <1>2, <1>3, FinancialsCoherent

\* A check-out keeps the verdict and prices all it writes.
LEMMA CheckedOutCoherent ==
  ASSUME NEW row \in Row, NEW t \in Times, NEW expected \in Int,
         row.in # None, MinutesBetween(row.in, t) >= 0, Lateness(row)
  PROVE  Coherent(CheckedOut(row, t, expected)) /\ CheckedOut(row, t, expected).in = row.in
<1> DEFINE worked == MinutesBetween(row.in, t)
           timed == [row EXCEPT !.out = t, !.worked = worked,
                                !.over = Excess(worked, expected),
                                !.early = Excess(expected, worked)]
<1>1. row.in \in Nat /\ t \in Nat
  BY SizesAssumption DEF Row
<1>2. worked \in Nat
  BY <1>1, MinutesInt
<1> HIDE DEF worked
<1>3. Excess(worked, expected) \in Nat /\ Excess(expected, worked) \in Nat
  BY <1>2 DEF Excess
<1>4. timed \in Row
  BY <1>2, <1>3 DEF Row
<1>5. CheckedOut(row, t, expected) = Priced(timed)
  BY DEF CheckedOut, worked
<1>6. /\ CheckedOut(row, t, expected).in = row.in
      /\ CheckedOut(row, t, expected).status = row.status
      /\ CheckedOut(row, t, expected).delay = row.delay
  BY CheckedOutKeeps
<1> QED
  BY <1>4, <1>5, <1>6, PricedRow, LatenessOf DEF Coherent

\* Saving over the very row that was loaded stores the target.
LEMMA SaveToTarget ==
  ASSUME NEW cur \in Row, NEW target \in Row, target.in = cur.in, Coherent(target)
  PROVE  Coherent(SaveTo(cur, cur, target))
<1> DEFINE new == SaveTo(cur, cur, target)
<1>1. /\ new.in = target.in /\ new.status = target.status /\ new.delay = target.delay
      /\ new.early = target.early /\ new.over = target.over /\ new.rate = target.rate
      /\ new.delayCost = target.delayCost /\ new.earlyCost = target.earlyCost
      /\ new.overVal = target.overVal
  BY DEF SaveTo, Dirty, Row
<1> HIDE DEF new
<1>2. Coherent(new)
  BY <1>1 DEF Coherent, DelayPriced, EarlyPriced, OverPriced, Lateness
<1> QED
  BY <1>2 DEF new

\* Both evaluating check-in paths build coherent logs.
LEMMA FreshModelCoherent ==
  ASSUME ClockOK, NEW u \in Users, NEW fence \in BOOLEAN, NEW start \in Nat,
         NEW grace \in Nat, NEW r \in Nat, NEW row,
         \/ row = Financials(Evaluate(NewLog(u, fence), start, grace), r)
         \/ row = Financials(Excuse(Evaluate(NewLog(u, fence), start, grace)), r)
  PROVE  Coherent(row)
<1> DEFINE blank == NewLog(u, fence)
           judged == Evaluate(blank, start, grace)
<1>1. blank \in Row /\ blank.in # None
  BY NewLogType, SizesAssumption, NoneAssumption DEF NewLog, ClockOK
<1> HIDE DEF blank
<1>2. judged \in Row /\ judged.in # None /\ Lateness(judged)
  BY <1>1, EvaluateType, EvaluatedRow
<1> HIDE DEF judged
<1>3. Excuse(judged) \in Row /\ Excuse(judged).in # None /\ Lateness(Excuse(judged))
  BY <1>2, ExcuseType DEF Excuse, Lateness, Row
<1> QED
  BY <1>2, <1>3, FinancialsCoherent DEF judged, blank

\* Without a rate, a log nobody has judged costs nothing.
LEMMA SelfLogCoherent ==
  ASSUME ClockOK, NEW u \in Users, NEW d \in Days, NEW t \in Times, d <= day
  PROVE  Coherent(SelfLog(u, d, t))
<1>1. Cost(0, 0) = 0 /\ OvertimeValue(0, 0) = 0
  BY DEF Cost, OvertimeValue
<1> QED
  BY <1>1, SelfLogColumns DEF Coherent, DelayPriced, EarlyPriced, OverPriced, Lateness

\* So every model waiting to be inserted is coherent.
LEMMA FreshCoherentStep == TypeOK /\ FreshCoherent /\ [Next]_vars => FreshCoherent'
<1> SUFFICES ASSUME TypeOK, FreshCoherent, [Next]_vars, NEW p \in Procs, fresh'[p] # None
             PROVE  Coherent(fresh'[p])
  BY DEF FreshCoherent, Coherent, DelayPriced, EarlyPriced, OverPriced, Lateness
<1>1. CASE fresh'[p] = fresh[p]
  BY <1>1 DEF FreshCoherent
<1>2. CASE fresh'[p] # fresh[p]
  BY <1>2, FreshSteps, FreshModelCoherent, SelfLogCoherent DEF TypeOK
<1> QED
  BY <1>1, <1>2

\* Save: the only holder of a row stores its coherent target.
LEMMA SaveCost ==
  ASSUME TypeOK, MemoryInv, CostInv, NEW p \in Procs, NEW i \in LogIds, Save(p, i)
  PROVE  CoherentRows' /\ OpenRowsCurrent' /\ OneHolder'
<1>1. UNCHANGED <<handled, overlapped, reclocked>>
  BY DEF Save, history
<1>2. \A k \in LogIds \ {i} : logs'[k] = logs[k]
  BY SaveElsewhere
<1>3. OneHolder'
  BY <1>1, SaveHeld DEF CostInv, OneHolder
<1>4. ASSUME i \notin handled \cup overlapped
      PROVE  logs'[i] # None /\ Coherent(logs'[i])
  <2>1. /\ logs[i] # None /\ held[p][i] = logs[i]
        /\ Coherent(pending[p][i]) /\ pending[p][i].in = logs[i].in
    BY <1>4 DEF CostInv, OpenRowsCurrent, Save
  <2>2. /\ logs[i] \in Row /\ held[p][i] \in Row /\ pending[p][i] \in Row
        /\ logs'[i] = SaveTo(logs[i], held[p][i], pending[p][i])
    BY <2>1, SavedRows
  <2>3. logs'[i] \in Row
    BY <2>2, SaveToType
  <2>4. Coherent(SaveTo(logs[i], logs[i], pending[p][i]))
    BY <2>1, <2>2, SaveToTarget
  <2> QED
    BY <2>1, <2>2, <2>3, <2>4, NoneAssumption
<1>5. ASSUME NEW k \in LogIds, logs'[k] # None, k \notin handled \cup overlapped
      PROVE  Coherent(logs'[k])
  BY <1>2, <1>4, <1>5 DEF CostInv, CoherentRows
<1>6. CoherentRows'
  BY <1>1, <1>5
     DEF CoherentRows, Coherent, DelayPriced, EarlyPriced, OverPriced, Lateness
<1>7. ASSUME NEW q \in Procs, NEW k \in LogIds, held'[q][k] # None,
             k \notin handled \cup overlapped
      PROVE  /\ logs'[k] # None
             /\ held'[q][k] = logs'[k]
             /\ Coherent(pending'[q][k])
             /\ pending'[q][k].in = logs'[k].in
  <2>1. /\ ~(q = p /\ k = i)
        /\ held'[q][k] = held[q][k] /\ pending'[q][k] = pending[q][k]
    BY <1>7, SaveHeld
  <2>2. k # i
    BY <1>7, <2>1 DEF CostInv, OneHolder, Save
  <2> QED
    BY <1>2, <1>7, <2>1, <2>2 DEF CostInv, OpenRowsCurrent
<1>8. OpenRowsCurrent'
  BY <1>1, <1>7
     DEF OpenRowsCurrent, Coherent, DelayPriced, EarlyPriced, OverPriced, Lateness
<1> QED
  BY <1>3, <1>6, <1>8

\* A process that opens rows S, each with a coherent target.
LEMMA LoadCost ==
  ASSUME TypeOK, MemoryInv, CostInv, NEW p \in Procs, NEW S \in SUBSET LogIds,
         NEW target \in [LogIds -> Row \cup {None}], Load(p, S, target),
         UNCHANGED <<logs, handled>>,
         \A i \in S : /\ logs[i] \in Row
                      /\ i \notin handled \cup overlapped =>
                           Coherent(target[i]) /\ target[i].in = logs[i].in
  PROVE  CoherentRows' /\ OpenRowsCurrent' /\ OneHolder'
<1>1. /\ \A i \in S : held'[p][i] = logs[i] /\ pending'[p][i] = target[i]
      /\ \A k \in LogIds \ S : held'[p][k] = None
      /\ \A q \in Procs \ {p}, k \in LogIds :
           held'[q][k] = held[q][k] /\ pending'[q][k] = pending[q][k]
  BY LoadHeld
<1>2. /\ overlapped \subseteq overlapped'
      /\ \A i \in S : (\E q \in Procs \ {p} : held[q][i] # None) => i \in overlapped'
  BY DEF Load
<1>3. CoherentRows'
  BY <1>2 DEF CostInv, CoherentRows, Coherent, DelayPriced, EarlyPriced, OverPriced, Lateness
<1>4. OneHolder'
  BY <1>1, <1>2 DEF CostInv, OneHolder
<1>5. ASSUME NEW q \in Procs, NEW k \in LogIds, held'[q][k] # None,
             k \notin handled' \cup overlapped'
      PROVE  /\ logs'[k] # None
             /\ held'[q][k] = logs'[k]
             /\ Coherent(pending'[q][k])
             /\ pending'[q][k].in = logs'[k].in
  <2>1. CASE q = p
    <3>1. k \in S
      BY <1>1, <1>5, <2>1
    <3> QED
      BY <1>1, <1>2, <1>5, <2>1, <3>1, NoneAssumption
  <2>2. CASE q # p
    <3>1. held'[q][k] = held[q][k] /\ pending'[q][k] = pending[q][k]
      BY <1>1, <2>2
    <3> QED
      BY <1>2, <1>5, <3>1 DEF CostInv, OpenRowsCurrent
  <2> QED
    BY <2>1, <2>2
<1>6. OpenRowsCurrent'
  BY <1>5 DEF OpenRowsCurrent, Coherent, DelayPriced, EarlyPriced, OverPriced, Lateness
<1> QED
  BY <1>3, <1>4, <1>6

\* CheckOut is such a load.
LEMMA CheckOutCost ==
  ASSUME TypeOK, MemoryInv, CostInv, NEW p \in Web, NEW u \in Users, CheckOut(p, u)
  PROVE  CoherentRows' /\ OpenRowsCurrent' /\ OneHolder'
<1>1. PICK i \in LogIds, target \in [LogIds -> Row \cup {None}] :
         /\ logs[i] \in Row /\ logs[i].in # None
         /\ MinutesBetween(logs[i].in, time) >= 0
         /\ target[i] = CheckedOut(logs[i], time, Expected(u))
         /\ Load(p, {i}, target)
         /\ Expected(u) \in Int /\ time \in Times
  BY CheckOutLoads
<1>2. UNCHANGED <<logs, handled>> /\ p \in Procs
  BY DEF CheckOut, table, Procs
<1>3. ASSUME i \notin handled \cup overlapped
      PROVE  Coherent(target[i]) /\ target[i].in = logs[i].in
  <2>1. Lateness(logs[i])
    BY <1>1, <1>3, NoneAssumption DEF CostInv, CoherentRows, Coherent
  <2> QED
    BY <1>1, <2>1, CheckedOutCoherent
<1> QED
  BY <1>1, <1>2, <1>3, LoadCost

\* RunRecalculation is such a load.
LEMMA RecalculationCost ==
  ASSUME TypeOK, MemoryInv, CostInv, NEW w \in Workers, NEW j \in JobIds,
         RunRecalculation(w, j)
  PROVE  CoherentRows' /\ OpenRowsCurrent' /\ OneHolder'
<1>1. PICK S \in SUBSET LogIds, target \in [LogIds -> Row \cup {None}], r \in [LogIds -> Nat] :
         /\ \A i \in S : /\ logs[i] \in Row
                         /\ target[i] \in Row
                         /\ target[i] = Recalculated(logs[i], branch, r[i])
         /\ Load(w, S, target)
         /\ branch \in BranchType
  BY RecalculationLoads
<1>2. UNCHANGED <<logs, handled>> /\ w \in Procs
  BY DEF RunRecalculation, table, Procs
<1>3. ASSUME NEW i \in S, i \notin handled \cup overlapped
      PROVE  Coherent(target[i]) /\ target[i].in = logs[i].in
  <2>1. logs[i].in # None
    BY <1>1, <1>3, NoneAssumption DEF CostInv, CoherentRows, Coherent
  <2> QED
    BY <1>1, <2>1, RecalculatedCoherent
<1> QED
  BY <1>1, <1>2, <1>3, LoadCost

\* Every step preserves the invariant on costs.
LEMMA CostStep == TypeOK /\ MemoryInv /\ CostInv /\ [Next]_vars => CostInv'
<1> SUFFICES ASSUME TypeOK, MemoryInv, CostInv, [Next]_vars
             PROVE  CoherentRows' /\ OpenRowsCurrent' /\ OneHolder'
  BY FreshCoherentStep DEF CostInv
<1> USE DEF Coherent, DelayPriced, EarlyPriced, OverPriced, Lateness
<1>1. ASSUME UNCHANGED <<logs, handled, overlapped, reclocked>>,
             \A q \in Procs, k \in LogIds : held'[q][k] # None =>
               held'[q][k] = held[q][k] /\ pending'[q][k] = pending[q][k]
      PROVE  CoherentRows' /\ OpenRowsCurrent' /\ OneHolder'
  BY <1>1 DEF CostInv, CoherentRows, OpenRowsCurrent, OneHolder
<1>2. ASSUME NEW p \in Procs, StoreLog(p)
      PROVE  CoherentRows' /\ OpenRowsCurrent' /\ OneHolder'
  <2>1. /\ nextId \in LogIds /\ fresh[p] # None /\ logs'[nextId] = fresh[p]
        /\ \A k \in LogIds \ {nextId} : logs'[k] = logs[k]
        /\ \A q \in Procs : held[q][nextId] = None
        /\ UNCHANGED <<held, pending, handled, overlapped, reclocked>>
    BY <1>2, StoreSteps
  <2>2. Coherent(fresh[p])
    BY <2>1 DEF CostInv, FreshCoherent
  <2> QED
    BY <2>1, <2>2 DEF CostInv, CoherentRows, OpenRowsCurrent, OneHolder
<1>3. ASSUME \/ \E u \in Users, d \in Days, form \in Forms : EnterLog(u, d, form)
             \/ \E i \in LogIds, u \in Users, d \in Days, form \in Forms :
                  EditLog(i, u, d, form)
             \/ \E i \in LogIds : DeleteLog(i)
      PROVE  CoherentRows' /\ OpenRowsCurrent' /\ OneHolder'
  <2>1. PICK i \in LogIds :
           /\ handled' = handled \cup {i}
           /\ \A k \in LogIds \ {i} : logs'[k] = logs[k]
           /\ UNCHANGED <<fresh, held, pending, overlapped, reclocked>>
    BY <1>3, AdminSteps
  <2> QED
    BY <2>1 DEF CostInv, CoherentRows, OpenRowsCurrent, OneHolder
<1>4. CASE Aside
  BY <1>1, <1>4, QuietSteps
<1>5. CASE Moving
  BY <1>1, <1>2, <1>3, <1>5, QuietSteps, SaveCost, CheckOutCost, RecalculationCost
     DEF Moving
<1> QED
  BY <1>4, <1>5, StepCases

\* The invariant holds in every reachable state.
LEMMA CostInvariant == Spec => []CostInv
<1>1. Init => CostInv
  BY DEF Init, NoRows, CostInv, CoherentRows, OpenRowsCurrent, OneHolder, FreshCoherent
<1> QED
  BY <1>1, CostStep, TypeCorrect, MemoryInvariant, PTL DEF Spec

\* The cost columns of a log the engine alone has written are its minutes
\* times its frozen rate, whatever check-ins, check-outs, recalculations,
\* redeliveries and crashes there were, unless two writers had it open at once.
THEOREM CostsCorrect == Spec => []CostsCoherent
<1>1. CostInv => CostsCoherent
  BY DEF CostInv, CoherentRows, Coherent, CostsCoherent, Undisturbed
<1> QED
  BY <1>1, CostInvariant, PTL

\* Such a log is present or late, and carries a delay only when it is late:
\* evaluation, excuse and re-evaluation never leave a stale delay behind.
THEOREM LatenessCorrect == Spec => []LatenessCoherent
<1>1. CostInv => LatenessCoherent
  BY DEF CostInv, CoherentRows, Coherent, LatenessCoherent, Undisturbed
<1> QED
  BY <1>1, CostInvariant, PTL

-----------------------------------------------------------------------------
(***************************************************************************)
(* The daily log.  A step maps to an arrival, a departure, a correction,   *)
(* the next day, or a stutter: the last for everything that happens in     *)
(* requests, queue and memory only.                                        *)
(***************************************************************************)

\* A log that is about to be inserted is open, and not of a day to come.
FreshInv ==
  \A p \in Procs : fresh[p] # None => fresh[p].out = None /\ fresh[p].date <= day

DailyInv == TypeOK /\ OneLogPerDay /\ MemoryInv /\ FreshInv

-----------------------------------------------------------------------------
(* Logs in memory. *)

\* A new log of a request or a job,
LEMMA NewLogOpen ==
  ASSUME ClockOK, NEW u \in Users, NEW fence \in BOOLEAN
  PROVE  NewLog(u, fence).out = None /\ NewLog(u, fence).date <= day
  BY DEF NewLog, ClockOK, Days

\* stays open and on its day when it is judged,
LEMMA EvaluateDay == ASSUME NEW row \in Row, NEW start, NEW grace
                     PROVE  /\ Evaluate(row, start, grace).out = row.out
                            /\ Evaluate(row, start, grace).date = row.date
  BY DEF Evaluate, Row

\* excused
LEMMA ExcuseDay == ASSUME NEW row \in Row
                   PROVE  Excuse(row).out = row.out /\ Excuse(row).date = row.date
  BY DEF Excuse, Row

\* and priced.
LEMMA FinancialsDay == ASSUME NEW row \in Row, NEW r \in Nat
                       PROVE  /\ Financials(row, r).out = row.out
                              /\ Financials(row, r).date = row.date
<1> DEFINE rated == [row EXCEPT !.rate = r]
<1>1. rated \in Row /\ rated.out = row.out /\ rated.date = row.date
  BY DEF Row
<1> HIDE DEF rated
<1>2. Financials(row, r) = Priced(rated)
  BY DEF Financials, rated
<1>3. Priced(rated).out = rated.out /\ Priced(rated).date = rated.date
  BY <1>1 DEF Priced, Row
<1> QED
  BY <1>1, <1>2, <1>3

\* CheckIn makes an open log of today,
LEMMA CheckInFresh ==
  ASSUME TypeOK, NEW p \in Procs, NEW u \in Users, NEW inside \in BOOLEAN,
         CheckIn(p, u, inside)
  PROVE  \E row \in Row : /\ fresh' = [fresh EXCEPT ![p] = row]
                          /\ row.out = None /\ row.date <= day
<1> DEFINE exc    == exception[u]
           fence  == inside \/ u \in Level10 \/ (exc # None /\ exc.fence)
           start  == IF exc = None THEN ShiftStart(u) ELSE Coalesce(exc.start, ShiftStart(u))
           grace  == IF exc = None THEN Grace(u) ELSE Coalesce(exc.grace, Grace(u))
           judged == Evaluate(NewLog(u, fence), start, grace)
           excused == IF exc # None /\ exc.late THEN Excuse(judged) ELSE judged
<1>1. exc \in ExceptionType \cup {None}
  BY SettingsAssumption DEF TypeOK, SettingsOK
<1>2. fence \in BOOLEAN
  OBVIOUS
<1>3. start \in Nat /\ grace \in Nat
  BY <1>1, JudgeType DEF TypeOK, Coalesce, ExceptionType
<1>4. /\ NewLog(u, fence) \in Row
      /\ NewLog(u, fence).out = None /\ NewLog(u, fence).date <= day
  BY <1>2, NewLogType, NewLogOpen DEF TypeOK
<1> HIDE DEF start, grace, fence
<1>5. judged \in Row /\ judged.out = None /\ judged.date <= day
  BY <1>3, <1>4, EvaluateType, EvaluateDay
<1> HIDE DEF judged
<1>6. excused \in Row /\ excused.out = None /\ excused.date <= day
  BY <1>5, ExcuseType, ExcuseDay
<1>7. fresh' = [fresh EXCEPT ![p] = Financials(excused, Rate(u))]
  BY DEF CheckIn, judged, start, grace, fence
<1> HIDE DEF excused
<1>8. Rate(u) \in Nat
  BY RateType DEF TypeOK
<1> QED
  BY <1>6, <1>7, <1>8, FinancialsType, FinancialsDay

\* the queued check-in likewise
LEMMA RunCheckInFresh ==
  ASSUME TypeOK, NEW w \in Workers, NEW j \in JobIds, RunCheckIn(w, j)
  PROVE  \E row \in Row : /\ fresh' = [fresh EXCEPT ![w] = row]
                          /\ row.out = None /\ row.date <= day
<1>1. jobs[j] \in Job
  BY ReserveType DEF RunCheckIn
<1>2. PICK u \in jobs[j].scope :
        fresh' = [fresh EXCEPT ![w] =
          Financials(Evaluate(NewLog(u, jobs[j].inside), ShiftStart(u), Grace(u)), Rate(u))]
  BY DEF RunCheckIn
<1>3. u \in Users /\ jobs[j].inside \in BOOLEAN
  BY <1>1 DEF Job
<1> DEFINE log == NewLog(u, jobs[j].inside)
           judged == Evaluate(log, ShiftStart(u), Grace(u))
<1>4. log \in Row /\ log.out = None /\ log.date <= day
  BY <1>3, NewLogType, NewLogOpen DEF TypeOK
<1> HIDE DEF log
<1>5. ShiftStart(u) \in Nat /\ Grace(u) \in Nat /\ Rate(u) \in Nat
  BY <1>3, JudgeType, RateType DEF TypeOK
<1>6. judged \in Row /\ judged.out = None /\ judged.date <= day
  BY <1>4, <1>5, EvaluateType, EvaluateDay
<1>7. fresh' = [fresh EXCEPT ![w] = Financials(judged, Rate(u))]
  BY <1>2 DEF log
<1> HIDE DEF judged
<1> QED
  BY <1>5, <1>6, <1>7, FinancialsType, FinancialsDay

\* and the employees' page one of the day it was opened.
LEMMA SelfCheckInFresh ==
  ASSUME TypeOK, NEW p \in Procs, NEW u \in Users, NEW d \in Days, NEW t \in Times,
         SelfCheckIn(p, u, d, t)
  PROVE  \E row \in Row : /\ fresh' = [fresh EXCEPT ![p] = row]
                          /\ row.out = None /\ row.date <= day
<1>1. d <= day
  BY SizesAssumption DEF SelfCheckIn, TypeOK, ClockOK, Days
<1>2. SelfLog(u, d, t) \in Row
  BY <1>1, SelfLogType DEF TypeOK
<1>3. SelfLog(u, d, t).out = None /\ SelfLog(u, d, t).date = d
  BY DEF SelfLog, NewLog
<1> QED
  BY <1>1, <1>2, <1>3 DEF SelfCheckIn

\* The administrator's steps, and what each may do to the table: nothing, or
\* something to row i.
Correction(i) ==
  /\ changes' = changes + 1 /\ day' = day
  /\ \A k \in LogIds \ {i} : logs'[k] = logs[k]
  /\ logs'[i] # None => logs'[i].date <= day

\* What a step is, seen from outside: one of a few kinds.
LEMMA StepKinds ==
  ASSUME TypeOK, [Next]_vars
  PROVE  \/ UNCHANGED <<logs, day, changes>>
         \/ UNCHANGED <<logs, changes>> /\ day' = day + 1
         \/ UNCHANGED <<logs, day>> /\ changes' = changes + 1
         \/ \E i \in LogIds : Correction(i)
         \/ (\E p \in Procs : StoreLog(p)) /\ UNCHANGED <<day, changes>>
         \/ (\E p \in Procs, i \in LogIds : Save(p, i)) /\ UNCHANGED <<day, changes>>
<1> DEFINE Quiet == UNCHANGED <<logs, day, changes>>
           Settled == UNCHANGED <<logs, day>> /\ changes' = changes + 1
<1>1. ASSUME \/ ChangeBranch
             \/ \E u \in Users : AssignShift(u) \/ ChangeException(u) \/ ChangeSalary(u)
      PROVE  Settled
  BY <1>1 DEF ChangeBranch, AssignShift, ChangeException, ChangeSalary, Change, table, clock
<1>2. ASSUME NEW kind, NEW scope, NEW inside, Dispatch(kind, scope, inside) PROVE Quiet
  BY <1>2 DEF Dispatch, table, clock
<1>3. ASSUME NEW j, \/ Lapse(j) \/ \E w \in Workers : GiveUp(w, j) PROVE Quiet
  BY <1>3 DEF Lapse, GiveUp, table, clock
<1>4. ASSUME NEW w \in Workers, \/ Finish(w) \/ \E j \in JobIds : TurnAway(w, j) PROVE Quiet
  BY <1>4 DEF Finish, TurnAway, table, clock
<1>5. ASSUME NEW p \in Procs, \/ StoreFails(p) \/ Kill(p) PROVE Quiet
  BY <1>5 DEF StoreFails, Kill, table, clock
<1>6. ASSUME NEW p, NEW u, \/ CheckOut(p, u)
                           \/ \E inside \in BOOLEAN : CheckIn(p, u, inside)
                           \/ \E d \in Days, t \in Times : SelfCheckIn(p, u, d, t)
      PROVE  Quiet
  BY <1>6 DEF CheckOut, CheckIn, SelfCheckIn, table, clock
<1>7. ASSUME NEW w, NEW j, \/ RunCheckIn(w, j) \/ RunRecalculation(w, j) PROVE Quiet
  BY <1>7 DEF RunCheckIn, RunRecalculation, table, clock
<1>8. ASSUME \/ Tick \/ UNCHANGED vars PROVE Quiet
  BY <1>8 DEF Tick, vars, table, clock
<1>9. ASSUME NextDay PROVE UNCHANGED <<logs, changes>> /\ day' = day + 1
  BY <1>9 DEF NextDay, table
<1>10. ASSUME NEW p, StoreLog(p) PROVE UNCHANGED <<day, changes>>
  BY <1>10 DEF StoreLog, clock
<1>11. ASSUME NEW p, NEW i, Save(p, i) PROVE UNCHANGED <<day, changes>>
  BY <1>11 DEF Save, clock
<1>12. ASSUME NEW u \in Users, NEW d \in Days, NEW form \in Forms, EnterLog(u, d, form)
       PROVE  \E i \in LogIds : Correction(i)
  <2>1. /\ nextId \in LogIds
        /\ \A k \in LogIds \ {nextId} : logs'[k] = logs[k]
        /\ logs'[nextId].date = d
    BY <1>12 DEF EnterLog, Insert, TypeOK, TableOK
  <2>2. d <= day /\ day' = day /\ changes' = changes + 1
    BY <1>12 DEF EnterLog, Change, clock
  <2> QED
    BY <2>1, <2>2 DEF Correction
<1>13. ASSUME NEW i \in LogIds, NEW u \in Users, NEW d \in Days, NEW form \in Forms,
              EditLog(i, u, d, form)
       PROVE  Correction(i)
  <2>1. logs[i] \in Row
    BY <1>13 DEF EditLog, TypeOK, TableOK
  <2>2. logs'[i].date = d
    BY <1>13, <2>1 DEF EditLog, TypeOK, TableOK, Row
  <2>3. \A k \in LogIds \ {i} : logs'[k] = logs[k]
    BY <1>13 DEF EditLog, TypeOK, TableOK
  <2>4. d <= day /\ day' = day /\ changes' = changes + 1
    BY <1>13 DEF EditLog, Change, clock
  <2> QED
    BY <2>2, <2>3, <2>4 DEF Correction
<1>14. ASSUME NEW i \in LogIds, DeleteLog(i) PROVE Correction(i)
  BY <1>14 DEF DeleteLog, Change, clock, Correction, TypeOK, TableOK
<1>15. CASE Aside
  <2> HIDE DEF Quiet, Settled
  <2>1. Quiet \/ Settled \/ (UNCHANGED <<logs, changes>> /\ day' = day + 1)
    BY <1>1, <1>2, <1>3, <1>4, <1>8, <1>9, <1>15 DEF Aside, QueueCheckIn, RequestRecalculation
  <2> QED
    BY <2>1 DEF Quiet, Settled
<1>16. CASE Moving
  BY <1>5, <1>6, <1>7, <1>10, <1>11, <1>12, <1>13, <1>14, <1>16 DEF Moving
<1> QED
  BY <1>15, <1>16, StepCases

\* Every step keeps the logs about to be inserted open and not of the future.
LEMMA FreshStep == TypeOK /\ FreshInv /\ [Next]_vars => FreshInv'
<1> SUFFICES ASSUME TypeOK, FreshInv, [Next]_vars PROVE FreshInv'
  OBVIOUS
<1> USE DEF Procs
<1>1. day \in Nat /\ (day' = day \/ day' = day + 1)
  <2>1. day \in Nat
    BY SizesAssumption DEF TypeOK, ClockOK, Days
  <2> QED
    BY <2>1, StepKinds DEF Correction
<1>2. ASSUME \A q \in Procs : fresh'[q] # None => fresh'[q] = fresh[q] PROVE FreshInv'
  <2>1. \A q \in Procs : fresh[q] # None => fresh[q].date \in Nat
    BY SizesAssumption DEF TypeOK, MemoryOK, Row, Days
  <2> QED
    BY <1>1, <1>2, <2>1 DEF FreshInv
<1>3. ASSUME NEW p \in Procs, NEW row \in Row, fresh' = [fresh EXCEPT ![p] = row],
             row.out = None, row.date <= day
      PROVE  FreshInv'
  <2>1. row.date \in Nat /\ \A q \in Procs : fresh[q] # None => fresh[q].date \in Nat
    BY SizesAssumption DEF TypeOK, MemoryOK, Row, Days
  <2> QED
    BY <1>1, <1>3, <2>1 DEF FreshInv, TypeOK, MemoryOK
<1>4. ASSUME UNCHANGED fresh PROVE FreshInv'
  BY <1>2, <1>4
<1>5. ASSUME NEW p \in Procs, \/ StoreLog(p) \/ StoreFails(p) \/ Kill(p)
      PROVE  FreshInv'
  BY <1>2, <1>5 DEF StoreLog, StoreFails, Kill, TypeOK, MemoryOK
<1>6. CASE Aside
  BY <1>4, <1>6, AsideChangesNothing
<1>7. CASE Moving
  <2>1. ASSUME NEW p \in Web, NEW u \in Users, NEW inside \in BOOLEAN, CheckIn(p, u, inside)
        PROVE  FreshInv'
    BY <1>3, <2>1, CheckInFresh
  <2>2. ASSUME NEW p \in Web, NEW u \in Users, NEW d \in Days, NEW t \in Times,
               SelfCheckIn(p, u, d, t)
        PROVE  FreshInv'
    BY <1>3, <2>2, SelfCheckInFresh
  <2>3. ASSUME NEW w \in Workers, NEW j \in JobIds, RunCheckIn(w, j) PROVE FreshInv'
    BY <1>3, <2>3, RunCheckInFresh
  <2> QED
    BY <1>4, <1>5, <1>7, <2>1, <2>2, <2>3 DEF Moving, Save, CheckOut, RunRecalculation,
       EnterLog, EditLog, DeleteLog, memory
<1> QED
  BY <1>6, <1>7, StepCases

\* They are, in every reachable state.
LEMMA FreshInvariant == Spec => []FreshInv
<1>1. Init => FreshInv
  BY DEF Init, FreshInv
<1> QED
  BY <1>1, FreshStep, TypeCorrect, PTL DEF Spec

-----------------------------------------------------------------------------
(* What the steps do to the sheet. *)

\* An entry is on the sheet when a log has it.
LEMMA SheetEntries ==
  /\ \A e : e \in Sheet <=> \E k \in LogIds : logs[k] # None /\ e = EntryOf(logs[k])
  /\ \A e : e \in Sheet' <=> \E k \in LogIds : logs'[k] # None /\ e = EntryOf(logs'[k])
  BY DEF Sheet, EntryOf

\* Touching one log touches at most its entry.
LEMMA OneEntry ==
  ASSUME NEW i \in LogIds, \A k \in LogIds \ {i} : logs'[k] = logs[k]
  PROVE  /\ \A e \in Sheet' \ Sheet : logs'[i] # None /\ e = EntryOf(logs'[i])
         /\ \A e \in Sheet \ Sheet' : logs[i] # None /\ e = EntryOf(logs[i])
<1>1. ASSUME NEW e \in Sheet' \ Sheet PROVE logs'[i] # None /\ e = EntryOf(logs'[i])
  <2>1. PICK k \in LogIds : logs'[k] # None /\ e = EntryOf(logs'[k])
    BY <1>1, SheetEntries
  <2>2. k = i
    <3>1. SUFFICES ASSUME k # i PROVE FALSE
      OBVIOUS
    <3>2. logs'[k] = logs[k]
      BY <3>1
    <3>3. e \in Sheet
      BY <2>1, <3>2, SheetEntries
    <3> QED
      BY <1>1, <3>3
  <2> QED
    BY <2>1, <2>2
<1>2. ASSUME NEW e \in Sheet \ Sheet' PROVE logs[i] # None /\ e = EntryOf(logs[i])
  <2>1. PICK k \in LogIds : logs[k] # None /\ e = EntryOf(logs[k])
    BY <1>2, SheetEntries
  <2>2. k = i
    <3>1. SUFFICES ASSUME k # i PROVE FALSE
      OBVIOUS
    <3>2. logs'[k] = logs[k]
      BY <3>1
    <3>3. e \in Sheet'
      BY <2>1, <3>2, SheetEntries
    <3> QED
      BY <1>2, <3>3
  <2> QED
    BY <2>1, <2>2
<1> QED
  BY <1>1, <1>2

\* An administrator's step is a correction.
LEMMA CorrectionStep ==
  ASSUME NEW i \in LogIds, Correction(i) PROVE Daily!Correct
<1>1. /\ \A e \in Sheet' \ Sheet : logs'[i] # None /\ e = EntryOf(logs'[i])
      /\ \A e \in Sheet \ Sheet' : logs[i] # None /\ e = EntryOf(logs[i])
  BY OneEntry DEF Correction
<1>2. \A e \in Sheet' \ Sheet : e.day <= day
  <2>1. logs'[i] # None => EntryOf(logs'[i]).day <= day
    BY DEF Correction, EntryOf
  <2> QED
    BY <1>1, <2>1
<1>3. changes' = changes + 1 /\ day' = day
  BY DEF Correction
<1>4. \A e, f \in Sheet' \ Sheet : e = f
  BY <1>1
<1>5. \A e, f \in Sheet \ Sheet' : e = f
  BY <1>1
<1> QED
  BY <1>2, <1>3, <1>4, <1>5 DEF Daily!Correct, Daily!Added, Daily!Removed

\* Storing a new log is an arrival.
LEMMA StoreLogStep ==
  ASSUME DailyInv, NEW p \in Procs, StoreLog(p), UNCHANGED <<day, changes>>
  PROVE  Daily!Arrive
<1> DEFINE row == fresh[p]
           e == EntryOf(row)
<1>1. row \in Row /\ row.out = None /\ row.date <= day
  BY DEF StoreLog, DailyInv, FreshInv, TypeOK, MemoryOK
<1>2. /\ nextId \in LogIds /\ logs[nextId] = None
      /\ logs'[nextId] = row /\ row # None
      /\ \A k \in LogIds \ {nextId} : logs'[k] = logs[k]
      /\ LogsOf(row.user, row.date) = {}
  BY SizesAssumption DEF StoreLog, Insert, DailyInv, TypeOK, TableOK, MemoryInv, IdsInOrder, LogIds
<1>3. /\ e.user = row.user /\ e.day = row.date /\ e.out = None
  BY <1>1 DEF EntryOf
<1>4. \A f \in Sheet : f.user # e.user \/ f.day # e.day
  <2>1. ASSUME NEW f \in Sheet, f.user = e.user, f.day = e.day PROVE FALSE
    <3>1. PICK k \in LogIds : logs[k] # None /\ f = EntryOf(logs[k])
      BY <2>1, SheetEntries
    <3>2. logs[k].user = row.user /\ logs[k].date = row.date
      BY <1>3, <2>1, <3>1 DEF EntryOf
    <3> QED
      BY <1>2, <3>1, <3>2 DEF LogsOf
  <2> QED
    BY <2>1
<1>5. e \in Sheet' /\ e \notin Sheet
  BY <1>2, <1>4, SheetEntries
<1>6. Sheet' = Sheet \cup {e}
  <2>1. ASSUME NEW f \in Sheet PROVE f \in Sheet'
    <3>1. PICK k \in LogIds : logs[k] # None /\ f = EntryOf(logs[k])
      BY <2>1, SheetEntries
    <3>2. logs'[k] = logs[k]
      BY <1>2, <3>1
    <3> QED
      BY <3>1, <3>2, SheetEntries
  <2>2. ASSUME NEW f \in Sheet', f \notin Sheet PROVE f = e
    BY <1>2, <2>2, OneEntry
  <2> QED
    BY <1>5, <2>1, <2>2
<1> HIDE DEF e
<1>7. e \in Daily!Added
  BY <1>5 DEF Daily!Added
<1> QED
  BY <1>1, <1>3, <1>4, <1>6, <1>7 DEF Daily!Arrive

\* The entry of a saved row is that of the row before, up to the departure.
LEMMA SavedEntry ==
  ASSUME DailyInv, NEW p \in Procs, NEW i \in LogIds, Save(p, i), logs[i] # None
  PROVE  LET e == EntryOf(logs[i])  f == EntryOf(logs'[i]) IN
         /\ logs'[i] # None
         /\ f = [e EXCEPT !.out = f.out]
         /\ f # e => f.out # None
<1> DEFINE cur == logs[i]  new == logs'[i]  base == held[p][i]  target == pending[p][i]
<1>1. /\ cur \in Row /\ base \in Row /\ target \in Row
      /\ new = SaveTo(cur, base, target)
  BY SavedRows DEF DailyInv
<1>2. new \in Row
  BY <1>1, SaveToType
<1>3. new.user = cur.user /\ new.date = cur.date /\ new.in = cur.in
  BY <1>1, SaveToKeeps
<1>4. new.out # cur.out => new.out # None
  <2>1. CASE p \in Workers
    <3>1. target.out = base.out
      BY <2>1 DEF Save, DailyInv, MemoryInv, WorkersKeepClock, ClockColumns
    <3> QED
      BY <1>1, <3>1, SaveToKeeps
  <2>2. CASE p \in Web
    <3>1. target.out # None
      BY <2>2 DEF Save, DailyInv, MemoryInv, WebKeepsRate
    <3>2. new.out = cur.out \/ new.out = target.out
      BY <1>1 DEF SaveTo, Dirty, Row
    <3> QED
      BY <3>1, <3>2
  <2> QED
    BY <2>1, <2>2 DEF Procs
<1>5. new # None
  BY <1>2, NoneAssumption
<1> HIDE DEF cur, new, base, target
<1>6. LET e == EntryOf(cur)  f == EntryOf(new) IN
      /\ f = [e EXCEPT !.out = f.out]
      /\ f # e => f.out # None
  BY <1>3, <1>4 DEF EntryOf
<1> QED
  BY <1>5, <1>6 DEF cur, new

\* Saving a row is a departure, or changes nothing a reader of the sheet sees.
LEMMA SaveStep ==
  ASSUME DailyInv, NEW p \in Procs, NEW i \in LogIds, Save(p, i),
         UNCHANGED <<day, changes>>
  PROVE  Daily!Leave \/ Sheet' = Sheet
<1>1. \A k \in LogIds \ {i} : logs'[k] = logs[k]
  BY SaveElsewhere DEF DailyInv
<1>2. CASE logs[i] = None
  <2>1. logs'[i] = None
    BY <1>2, SaveElsewhere DEF DailyInv
  <2>2. \A k \in LogIds : logs'[k] = logs[k]
    BY <1>1, <1>2, <2>1
  <2>3. \A e : e \in Sheet' <=> e \in Sheet
    BY <2>2, SheetEntries
  <2> QED
    BY <2>3
<1>3. CASE logs[i] # None
  <2> DEFINE e == EntryOf(logs[i])
             f == EntryOf(logs'[i])
  <2>1. /\ logs'[i] # None
        /\ f = [e EXCEPT !.out = f.out]
        /\ f # e => f.out # None
    BY <1>3, SavedEntry
  <2>2. CASE f = e
    <3>1. \A g : g \in Sheet' <=> g \in Sheet
      <4>1. \A k \in LogIds : (logs'[k] # None <=> logs[k] # None)
                              /\ (logs[k] # None => EntryOf(logs'[k]) = EntryOf(logs[k]))
        BY <1>1, <1>3, <2>1, <2>2
      <4> QED
        BY <4>1, SheetEntries
    <3> QED
      BY <3>1
  <2>3. CASE f # e
    <3>1. f.user = e.user /\ f.day = e.day
      BY <2>1 DEF EntryOf
    <3>2. ASSUME NEW k \in LogIds \ {i}, logs[k] # None
          PROVE  EntryOf(logs[k]) # e /\ EntryOf(logs[k]) # f
      <4>1. logs[k].user # logs[i].user \/ logs[k].date # logs[i].date
        BY <1>3, <3>2 DEF DailyInv, OneLogPerDay
      <4>2. EntryOf(logs[k]).user # e.user \/ EntryOf(logs[k]).day # e.day
        BY <4>1 DEF EntryOf
      <4> QED
        BY <3>1, <4>2
    <3>3. e \in Sheet /\ f \in Sheet'
      BY <1>3, <2>1, SheetEntries
    <3>4. e \notin Sheet'
      <4>1. SUFFICES ASSUME e \in Sheet' PROVE FALSE
        OBVIOUS
      <4>2. PICK k \in LogIds : logs'[k] # None /\ e = EntryOf(logs'[k])
        BY <4>1, SheetEntries
      <4>3. k # i
        BY <2>3, <4>2
      <4>4. logs'[k] = logs[k]
        BY <1>1, <4>3
      <4> QED
        BY <3>2, <4>2, <4>3, <4>4
    <3>5. f \notin Sheet
      <4>1. SUFFICES ASSUME f \in Sheet PROVE FALSE
        OBVIOUS
      <4>2. PICK k \in LogIds : logs[k] # None /\ f = EntryOf(logs[k])
        BY <4>1, SheetEntries
      <4>3. k # i
        BY <2>3, <4>2
      <4> QED
        BY <3>2, <4>2, <4>3
    <3>6. Sheet' = (Sheet \ {e}) \cup {f}
      <4>1. ASSUME NEW g \in Sheet', g # f PROVE g \in Sheet
        BY <1>1, <4>1, OneEntry
      <4>2. ASSUME NEW g \in Sheet, g # e PROVE g \in Sheet'
        BY <1>1, <4>2, OneEntry
      <4> HIDE DEF e, f
      <4> QED
        BY <3>3, <3>4, <4>1, <4>2
    <3> HIDE DEF e, f
    <3>7. e \in Daily!Removed /\ f \in Daily!Added
      BY <3>3, <3>4, <3>5 DEF Daily!Removed, Daily!Added
    <3>8. f.out # None
      BY <2>1, <2>3
    <3> QED
      BY <2>1, <3>6, <3>7, <3>8 DEF Daily!Leave
  <2> QED
    BY <2>2, <2>3
<1> QED
  BY <1>2, <1>3

\* Leaving the table alone leaves the sheet alone.
LEMMA SameSheet == ASSUME logs' = logs PROVE Sheet' = Sheet
<1>1. \A e : e \in Sheet' <=> e \in Sheet
  BY SheetEntries
<1> QED
  BY <1>1

\* Every step maps to a step of the daily log or to a stutter.
LEMMA DailyStep == DailyInv /\ [Next]_vars => [Daily!Next]_(Daily!vars)
<1> SUFFICES ASSUME DailyInv, [Next]_vars PROVE [Daily!Next]_(Daily!vars)
  OBVIOUS
<1> USE DEF Daily!vars
<1>1. CASE UNCHANGED <<logs, day, changes>>
  BY <1>1, SameSheet
<1>2. CASE UNCHANGED <<logs, changes>> /\ day' = day + 1
  BY <1>2, SameSheet DEF Daily!Next, Daily!NextDay
<1>3. CASE UNCHANGED <<logs, day>> /\ changes' = changes + 1
  <2>1. Daily!Correct
    BY <1>3, SameSheet DEF Daily!Correct, Daily!Added, Daily!Removed
  <2> QED
    BY <2>1 DEF Daily!Next
<1>4. ASSUME NEW i \in LogIds, Correction(i) PROVE Daily!Next
  BY <1>4, CorrectionStep DEF Daily!Next
<1>5. ASSUME NEW p \in Procs, StoreLog(p), UNCHANGED <<day, changes>> PROVE Daily!Next
  BY <1>5, StoreLogStep DEF Daily!Next
<1>6. ASSUME NEW p \in Procs, NEW i \in LogIds, Save(p, i), UNCHANGED <<day, changes>>
      PROVE  Daily!Next \/ UNCHANGED <<Sheet, day, changes>>
  BY <1>6, SaveStep DEF Daily!Next
<1> QED
  BY <1>1, <1>2, <1>3, <1>4, <1>5, <1>6, StepKinds DEF DailyInv

\* Seen as a sheet of arrivals and departures, the engine does what the daily
\* log allows and nothing else: whatever requests, jobs, retries, crashes and
\* administrators do to each other, an arrival is entered once, stays as it
\* is, and its departure is only replaced by another.
THEOREM DailyLogImplemented == Spec => ImplementsDailyLog
<1>1. Init => Daily!Init
  <2>1. ASSUME Init PROVE Sheet = {}
    BY <2>1 DEF Init, NoRows, Sheet
  <2> QED
    BY <2>1 DEF Init, Daily!Init
<1>2. TypeOK /\ OneLogPerDay /\ MemoryInv /\ FreshInv /\ [Next]_vars
        => [Daily!Next]_(Daily!vars)
  BY DailyStep DEF DailyInv
<1> QED
  BY <1>1, <1>2, TypeCorrect, OneLogADay, MemoryInvariant, FreshInvariant,
     PTL DEF Spec, ImplementsDailyLog, Daily!Spec
=============================================================================
