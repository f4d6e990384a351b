-------------------------- MODULE AttendanceProofs --------------------------
(***************************************************************************)
(* The attendance engine: its types, with one lemma per operator of        *)
(* AttendanceRules and then one per action, and what no interleaving of    *)
(* requests, jobs and administrators does to the attendance_logs table.    *)
(***************************************************************************)
EXTENDS Attendance, TLAPS

\* Arithmetic the provers need in pieces: quotients,
LEMMA QuotientNat == ASSUME NEW a \in Nat, NEW n \in Nat \ {0}
                     PROVE  a \div n \in Nat
  BY SMT

\* products,
LEMMA ProductNat == ASSUME NEW a \in Nat, NEW b \in Nat PROVE a * b \in Nat
  BY SMT

\* and the amounts made of them, are natural numbers.
LEMMA CostNat == ASSUME NEW m \in Nat, NEW r \in Nat
                 PROVE  Cost(m, r) \in Nat /\ OvertimeValue(m, r) \in Nat
<1>1. m * r \in Nat
  BY ProductNat
<1>2. (m * r + 50) \div 100 \in Nat
  BY <1>1, QuotientNat
<1>3. 3 * m * r \in Nat
  BY ProductNat
<1>4. (3 * m * r + 100) \div 200 \in Nat
  BY <1>3, QuotientNat
<1> QED
  BY <1>2, <1>4 DEF Cost, OvertimeValue

\* A rate per minute is never negative, nor undefined without working hours.
LEMMA RateNat == ASSUME NEW s \in Nat, NEW m \in Int PROVE CostPerMinute(s, m) \in Nat
<1>1. CASE m <= 0
  BY <1>1 DEF CostPerMinute
<1>2. CASE ~(m <= 0)
  <2>1. 2 * m \in Nat \ {0} /\ 200 * s + m \in Nat
    BY <1>2
  <2>2. (200 * s + m) \div (2 * m) \in Nat
    BY <2>1, QuotientNat
  <2> QED
    BY <1>2, <2>2 DEF CostPerMinute
<1> QED
  BY <1>1, <1>2

\* diffInMinutes is signed, and nonnegative forwards.
LEMMA MinutesInt == ASSUME NEW a \in Nat, NEW b \in Nat
                    PROVE  /\ MinutesBetween(a, b) \in Int
                           /\ b >= a => MinutesBetween(a, b) \in Nat
<1>1. CASE b >= a
  <2>1. b - a \in Nat
    BY <1>1
  <2> QED
    BY <1>1, <2>1, QuotientNat, UnitsAssumption DEF MinutesBetween
<1>2. CASE ~(b >= a)
  <2>1. a - b \in Nat
    BY <1>2
  <2>2. (a - b) \div PerMinute \in Nat
    BY <2>1, QuotientNat, UnitsAssumption
  <2> QED
    BY <1>2, <2>2 DEF MinutesBetween
<1> QED
  BY <1>1, <1>2

\* evaluateAttendance keeps the delay nonnegative: late is after the start.
LEMMA EvaluateType == ASSUME NEW row \in Row, NEW start \in Nat, NEW grace \in Nat
                      PROVE  Evaluate(row, start, grace) \in Row
<1>1. CASE row.in = None
  BY <1>1 DEF Evaluate, Row, Statuses
<1>2. CASE row.in # None
  <2>1. row.in \in Nat
    BY <1>2, SizesAssumption DEF Row
  <2>2. grace * PerMinute \in Nat
    BY ProductNat, UnitsAssumption
  <2>3. CASE row.in <= start + grace * PerMinute
    BY <1>2, <2>3 DEF Evaluate, Row, Statuses
  <2>4. CASE ~(row.in <= start + grace * PerMinute)
    <3>1. row.in >= start
      BY <2>1, <2>2, <2>4
    <3>2. MinutesBetween(start, row.in) \in Nat
      BY <2>1, <3>1, MinutesInt
    <3> QED
      BY <1>2, <2>4, <3>2 DEF Evaluate, Row, Statuses
  <2> QED
    BY <2>3, <2>4
<1> QED
  BY <1>1, <1>2

\* Prices of a row are nonnegative.
LEMMA PricedType == ASSUME NEW row \in Row PROVE Priced(row) \in Row
<1>1. /\ row.delay \in Nat /\ row.early \in Nat /\ row.over \in Nat /\ row.rate \in Nat
  BY DEF Row
<1>2. /\ Cost(row.delay, row.rate) \in Nat /\ Cost(row.early, row.rate) \in Nat
      /\ OvertimeValue(row.over, row.rate) \in Nat
  BY <1>1, CostNat
<1> QED
  BY <1>2 DEF Priced, Row

\* calculateFinancials yields a row.
LEMMA FinancialsType == ASSUME NEW row \in Row, NEW r \in Nat PROVE Financials(row, r) \in Row
<1>1. [row EXCEPT !.rate = r] \in Row
  BY DEF Row
<1> QED
  BY <1>1, PricedType DEF Financials

\* A check-out not before its check-in yields a row.
LEMMA CheckedOutType ==
  ASSUME NEW row \in Row, NEW t \in Times, NEW expected \in Int,
         row.in # None, MinutesBetween(row.in, t) >= 0
  PROVE  CheckedOut(row, t, expected) \in Row
<1>1. row.in \in Nat /\ t \in Nat
  BY SizesAssumption DEF Row
<1>2. MinutesBetween(row.in, t) \in Int
  BY <1>1, MinutesInt
<1> DEFINE worked == MinutesBetween(row.in, t)
           timed == [row EXCEPT !.out = t, !.worked = worked,
                                !.over = Excess(worked, expected),
                                !.early = Excess(expected, worked)]
<1>3. worked \in Nat
  BY <1>2
<1>4. CheckedOut(row, t, expected) = Priced(timed)
  BY DEF CheckedOut
<1> HIDE DEF worked
<1>5. Excess(worked, expected) \in Nat /\ Excess(expected, worked) \in Nat
  BY <1>3 DEF Excess
<1>6. timed \in Row
  BY <1>3, <1>5 DEF Row
<1> QED
  BY <1>4, <1>6, PricedType

\* A dirty column holds one of the three values at hand.
LEMMA DirtyType == ASSUME NEW S, NEW cur \in S, NEW base \in S, NEW target \in S
                   PROVE  Dirty(cur, base, target) \in S
  BY DEF Dirty

\* An UPDATE of dirty columns leaves a row.
LEMMA SaveToType == ASSUME NEW cur \in Row, NEW base \in Row, NEW target \in Row
                    PROVE  SaveTo(cur, base, target) \in Row
<1>1. /\ Dirty(cur.status, base.status, target.status) \in Statuses
      /\ Dirty(cur.out, base.out, target.out) \in Times \cup {None}
  BY DirtyType DEF Row
<1>2. /\ Dirty(cur.delay, base.delay, target.delay) \in Nat
      /\ Dirty(cur.worked, base.worked, target.worked) \in Nat
      /\ Dirty(cur.over, base.over, target.over) \in Nat
      /\ Dirty(cur.early, base.early, target.early) \in Nat
  BY DirtyType DEF Row
<1>3. /\ Dirty(cur.rate, base.rate, target.rate) \in Nat
      /\ Dirty(cur.delayCost, base.delayCost, target.delayCost) \in Nat
      /\ Dirty(cur.earlyCost, base.earlyCost, target.earlyCost) \in Nat
      /\ Dirty(cur.overVal, base.overVal, target.overVal) \in Nat
  BY DirtyType DEF Row
<1> QED
  BY <1>1, <1>2, <1>3 DEF SaveTo, Row

-----------------------------------------------------------------------------
(* What the settings yield. *)

\* The settings give every user a rate,
LEMMA RateType == ASSUME SettingsOK, NEW u \in Users PROVE Rate(u) \in Nat
<1>1. salary[u] \in Nat
  BY SettingsAssumption DEF SettingsOK
<1> QED
  BY <1>1, RateNat, SizesAssumption DEF Rate

\* a start and a grace period to be judged by,
LEMMA JudgeType == ASSUME SettingsOK, NEW u \in Users
                   PROVE  ShiftStart(u) \in Nat /\ Grace(u) \in Nat
<1>1. branch \in BranchType /\ shift[u] \in ShiftType \cup {None}
  BY SettingsAssumption DEF SettingsOK
<1> QED
  BY <1>1 DEF ShiftStart, Grace, BranchType, ShiftType

\* and an expected time, which may be negative.
LEMMA ExpectedType == ASSUME SettingsOK, NEW u \in Users PROVE Expected(u) \in Int
<1>1. branch \in BranchType /\ shift[u] \in ShiftType \cup {None}
  BY SettingsAssumption DEF SettingsOK
<1>2. ASSUME NEW b \in BranchType PROVE BranchShiftMinutes(b) \in Int
  <2>1. b.start \in Nat /\ b.end \in Nat /\ b.end + DayLength \in Nat
    BY UnitsAssumption DEF BranchType
  <2> QED
    BY <2>1, MinutesInt DEF BranchShiftMinutes
<1>3. ASSUME NEW s \in ShiftType PROVE ShiftMinutes(s) \in Int
  <2>1. s.start \in Nat /\ s.end \in Nat /\ s.end + DayLength \in Nat
    BY UnitsAssumption DEF ShiftType
  <2> QED
    BY <2>1, MinutesInt DEF ShiftMinutes
<1> QED
  BY <1>1, <1>2, <1>3 DEF Expected

\* The constructor's model is a row.
LEMMA NewLogType == ASSUME ClockOK, NEW u \in Users, NEW fence \in BOOLEAN
                    PROVE  NewLog(u, fence) \in Row
  BY SizesAssumption DEF ClockOK, NewLog, Row, Statuses

\* An excused row is a row.
LEMMA ExcuseType == ASSUME NEW row \in Row PROVE Excuse(row) \in Row
  BY DEF Excuse, Row, Statuses

-----------------------------------------------------------------------------
(* What the database steps do to the types. *)

\* Loading rows with a target each keeps memory well formed.
LEMMA LoadType ==
  ASSUME TableOK, MemoryOK, HistoryOK,
         NEW p \in Procs, NEW S \in SUBSET LogIds, NEW target,
         \A i \in S : logs[i] \in Row /\ target[i] \in Row,
         Load(p, S, target), UNCHANGED <<fresh, handled, noted>>
  PROVE  MemoryOK' /\ HistoryOK'
<1>1. [i \in LogIds |-> IF i \in S THEN logs[i] ELSE None] \in [LogIds -> Row \cup {None}]
  OBVIOUS
<1>2. [i \in LogIds |-> IF i \in S THEN target[i] ELSE None] \in [LogIds -> Row \cup {None}]
  OBVIOUS
<1>3. MemoryOK'
  <2>1. \A i \in S : target[i] # None
    BY NoneAssumption
  <2> QED
    BY <1>1, <1>2, <2>1 DEF MemoryOK, Load
<1>4. HistoryOK'
  BY DEF HistoryOK, Load, Procs
<1> QED
  BY <1>3, <1>4

\* Inserting a row keeps the table well formed.
LEMMA InsertType == ASSUME TableOK, NEW row \in Row, Insert(row)
                    PROVE  TableOK'
  BY SizesAssumption DEF TableOK, Insert, LogIds

\* Save keeps types.
LEMMA SaveType == ASSUME TypeOK, NEW p \in Procs, NEW i \in LogIds, Save(p, i)
                  PROVE  TypeOK'
<1>1. TableOK'
  <2>1. CASE logs[i] = None
    BY <2>1 DEF TypeOK, TableOK, Save
  <2>2. CASE logs[i] # None
    <3>1. logs[i] \in Row /\ held[p][i] \in Row /\ pending[p][i] \in Row
      BY <2>2 DEF TypeOK, TableOK, MemoryOK, Save
    <3>2. SaveTo(logs[i], held[p][i], pending[p][i]) \in Row
      BY <3>1, SaveToType
    <3> QED
      BY <2>2, <3>2 DEF TypeOK, TableOK, Save
  <2> QED
    BY <2>1, <2>2
<1>2. MemoryOK'
  BY DEF TypeOK, MemoryOK, Save
<1> QED
  BY <1>1, <1>2 DEF TypeOK, Save, QueueOK, SettingsOK, ClockOK, HistoryOK,
     queue, settings, clock, history

\* The initial state is well formed.
LEMMA TypeInit == Init => TypeOK
<1> SUFFICES ASSUME Init PROVE TypeOK
  OBVIOUS
<1>1. TableOK /\ MemoryOK
  BY SizesAssumption DEF Init, NoRows, TableOK, MemoryOK
<1>2. QueueOK /\ SettingsOK /\ HistoryOK
  BY DEF Init, QueueOK, HistoryOK
<1>3. ClockOK
  BY SizesAssumption DEF Init, ClockOK, Days
<1> QED
  BY <1>1, <1>2, <1>3 DEF TypeOK

\* StoreLog keeps types.
LEMMA StoreLogType == ASSUME TypeOK, NEW p \in Procs, StoreLog(p) PROVE TypeOK'
<1>1. fresh[p] \in Row
  BY DEF TypeOK, MemoryOK, StoreLog
<1>2. TableOK'
  BY <1>1, InsertType DEF TypeOK, StoreLog
<1>3. MemoryOK'
  BY DEF TypeOK, MemoryOK, StoreLog
<1> QED
  BY <1>2, <1>3 DEF StoreLog, TypeOK, QueueOK, SettingsOK, ClockOK, HistoryOK,
     queue, settings, clock, history

\* StoreFails keeps types.
LEMMA StoreFailsType ==
  ASSUME TypeOK, NEW p \in Procs, StoreFails(p) PROVE TypeOK'
<1>1. MemoryOK'
  BY DEF TypeOK, MemoryOK, StoreFails
<1>2. HistoryOK'
  BY DEF TypeOK, HistoryOK, StoreFails, Note
<1> QED
  BY <1>1, <1>2 DEF StoreFails, TypeOK, TableOK, QueueOK, SettingsOK, ClockOK,
     table, queue, settings, clock

\* CheckIn keeps types, exceptions with NULL overrides included.
LEMMA CheckInType ==
  ASSUME TypeOK, NEW p \in Procs, NEW u \in Users, NEW inside \in BOOLEAN,
         CheckIn(p, u, inside)
  PROVE  TypeOK'
<1> DEFINE exc    == exception[u]
           fence  == inside \/ u \in Level10 \/ (exc # None /\ exc.fence)
           start  == IF exc = None THEN ShiftStart(u) ELSE Coalesce(exc.start, ShiftStart(u))
           grace  == IF exc = None THEN Grace(u) ELSE Coalesce(exc.grace, Grace(u))
           judged == Evaluate(NewLog(u, fence), start, grace)
           row    == Financials(IF exc # None /\ exc.late THEN Excuse(judged) ELSE judged,
                                Rate(u))
<1>1. exc \in ExceptionType \cup {None}
  BY SettingsAssumption DEF TypeOK, SettingsOK
<1>2. fence \in BOOLEAN
  OBVIOUS
<1>3. start \in Nat /\ grace \in Nat
  BY <1>1, JudgeType DEF TypeOK, Coalesce, ExceptionType
<1>4. NewLog(u, fence) \in Row
  BY <1>2, NewLogType DEF TypeOK
<1> HIDE DEF start, grace, fence
<1>5. judged \in Row
  BY <1>3, <1>4, EvaluateType
<1> HIDE DEF judged
<1>6. row \in Row
  BY <1>5, ExcuseType, RateType, FinancialsType DEF TypeOK
<1>7. fresh' = [fresh EXCEPT ![p] = row]
  BY DEF CheckIn, judged, start, grace, fence
<1> HIDE DEF row, exc
<1>8. MemoryOK'
  BY <1>6, <1>7 DEF TypeOK, MemoryOK, CheckIn
<1> QED
  BY <1>8 DEF CheckIn, TypeOK, TableOK, QueueOK, SettingsOK, ClockOK, HistoryOK,
     table, queue, settings, clock, history

\* The log of a page opened earlier is a row.
LEMMA SelfLogType ==
  ASSUME ClockOK, NEW u \in Users, NEW d \in Days, NEW t \in Times, d <= day
  PROVE  SelfLog(u, d, t) \in Row /\ SelfLog(u, d, t).in \in Nat
<1> DEFINE shown == (t \div PerMinute) * PerMinute
           later == (day - d) * DayLength
<1>1. t \in Nat /\ d \in Nat /\ day \in Nat /\ PerMinute \in Nat \ {0} /\ DayLength \in Nat
  BY SizesAssumption, UnitsAssumption DEF ClockOK, Days
<1>2. shown \in Nat
  BY <1>1, QuotientNat, ProductNat
<1>3. later \in Nat
  <2>1. day - d \in Nat
    BY <1>1
  <2> QED
    BY <1>1, <2>1, ProductNat
<1> HIDE DEF shown, later
<1>4. NewLog(u, FALSE) \in Row
  BY NewLogType
<1>5. shown + later \in Nat
  BY <1>2, <1>3
<1>6. SelfLog(u, d, t) = [NewLog(u, FALSE) EXCEPT !.date = d, !.in = shown + later]
  BY DEF SelfLog, shown, later
<1> QED
  BY <1>4, <1>5, <1>6 DEF Row

\* SelfCheckIn keeps types.
LEMMA SelfCheckInType ==
  ASSUME TypeOK, NEW p \in Procs, NEW u \in Users, NEW d \in Days, NEW t \in Times,
         SelfCheckIn(p, u, d, t)
  PROVE  TypeOK'
<1>1. d <= day
  BY SizesAssumption DEF SelfCheckIn, TypeOK, ClockOK, Days
<1>2. SelfLog(u, d, t) \in Row
  BY <1>1, SelfLogType DEF TypeOK
<1>3. fresh' = [fresh EXCEPT ![p] = SelfLog(u, d, t)] /\ UNCHANGED <<held, pending>>
  BY DEF SelfCheckIn
<1>4. MemoryOK'
  BY <1>2, <1>3 DEF TypeOK, MemoryOK
<1> QED
  BY <1>4 DEF SelfCheckIn, TypeOK, TableOK, QueueOK, SettingsOK, ClockOK, HistoryOK,
     table, queue, settings, clock, history

\* CheckOut keeps types: the column refuses negative minutes.
LEMMA CheckOutType ==
  ASSUME TypeOK, NEW p \in Procs, NEW u \in Users, CheckOut(p, u)
  PROVE  TypeOK'
<1>1. PICK i \in LogsOf(u, day) :
        /\ logs[i].in # None
        /\ MinutesBetween(logs[i].in, time) >= 0
        /\ Load(p, {i}, [k \in {i} |-> CheckedOut(logs[k], time, Expected(u))])
  BY DEF CheckOut
<1>2. i \in LogIds /\ logs[i] \in Row
  BY DEF LogsOf, TypeOK, TableOK
<1>3. CheckedOut(logs[i], time, Expected(u)) \in Row
  BY <1>1, <1>2, CheckedOutType, ExpectedType DEF TypeOK, ClockOK
<1>4. MemoryOK' /\ HistoryOK'
  <2> DEFINE target == [k \in {i} |-> CheckedOut(logs[k], time, Expected(u))]
  <2>1. target[i] \in Row
    BY <1>3
  <2> HIDE DEF target
  <2>2. Load(p, {i}, target) /\ UNCHANGED <<fresh, handled, noted>>
    BY <1>1 DEF CheckOut, target
  <2>3. {i} \in SUBSET LogIds /\ \A k \in {i} : logs[k] \in Row /\ target[k] \in Row
    BY <1>2, <2>1
  <2> QED
    BY <2>2, <2>3, LoadType DEF TypeOK
<1> QED
  BY <1>4 DEF CheckOut, TypeOK, TableOK, QueueOK, SettingsOK, ClockOK,
     table, queue, settings, clock

\* Dispatch keeps types.
LEMMA DispatchType ==
  ASSUME TypeOK, NEW kind \in {"checkin", "recalc"}, NEW scope \in SUBSET Users,
         NEW inside \in BOOLEAN, Dispatch(kind, scope, inside)
  PROVE  TypeOK'
<1>1. QueueOK'
  BY SizesAssumption, NoneAssumption DEF Dispatch, TypeOK, QueueOK, Job
<1> QED
  BY <1>1 DEF Dispatch, TypeOK, TableOK, MemoryOK, SettingsOK, ClockOK, HistoryOK,
     table, memory, settings, clock, history

\* What a popped job looks like.
LEMMA ReserveType ==
  ASSUME TypeOK, NEW w \in Workers, NEW j \in JobIds, Reserve(w, j)
  PROVE  QueueOK' /\ jobs[j] \in Job
<1>1. jobs[j] \in Job
  BY DEF Reserve, FirstQueued, IsQueued, TypeOK, QueueOK
<1>2. jobs[j].attempts + 1 \in 0..Tries
  BY <1>1, SizesAssumption DEF Reserve, Job
<1>3. [jobs[j] EXCEPT !.state = "reserved", !.attempts = @ + 1] \in Job
  BY <1>1, <1>2 DEF Job
<1>4. jobs' = [jobs EXCEPT ![j] = [jobs[j] EXCEPT !.state = "reserved", !.attempts = @ + 1]]
  BY <1>1 DEF Reserve, TypeOK, QueueOK, Job
<1>5. jobs' \in [JobIds -> Job \cup {None}]
  BY <1>3, <1>4 DEF TypeOK, QueueOK
<1>6. running' \in [Workers -> JobIds \cup {None}]
  BY DEF Reserve, TypeOK, QueueOK
<1>7. \A k \in JobIds : jobs[k] # None => jobs'[k] # None
  BY <1>3, <1>4, NoneAssumption DEF TypeOK, QueueOK
<1>8. \A v \in Workers : running'[v] # None => jobs'[running'[v]] # None
  BY <1>1, <1>7, NoneAssumption DEF Reserve, TypeOK, QueueOK
<1> QED
  BY <1>1, <1>5, <1>6, <1>8 DEF QueueOK

\* RunCheckIn keeps types.
LEMMA RunCheckInType ==
  ASSUME TypeOK, NEW w \in Workers, NEW j \in JobIds, RunCheckIn(w, j)
  PROVE  TypeOK'
<1>1. QueueOK' /\ jobs[j] \in Job
  BY ReserveType DEF RunCheckIn
<1>2. PICK u \in jobs[j].scope :
        fresh' = [fresh EXCEPT ![w] =
          Financials(Evaluate(NewLog(u, jobs[j].inside), ShiftStart(u), Grace(u)), Rate(u))]
  BY DEF RunCheckIn
<1>3. u \in Users /\ jobs[j].inside \in BOOLEAN
  BY <1>1 DEF Job
<1>4. Evaluate(NewLog(u, jobs[j].inside), ShiftStart(u), Grace(u)) \in Row
  BY <1>3, NewLogType, JudgeType, EvaluateType DEF TypeOK
<1>5. Financials(Evaluate(NewLog(u, jobs[j].inside), ShiftStart(u), Grace(u)), Rate(u)) \in Row
  BY <1>3, <1>4, RateType, FinancialsType DEF TypeOK
<1>6. MemoryOK'
  BY <1>2, <1>5 DEF RunCheckIn, TypeOK, MemoryOK, Procs
<1> QED
  BY <1>1, <1>6 DEF RunCheckIn, TypeOK, TableOK, SettingsOK, ClockOK, HistoryOK,
     table, settings, clock, history

\* TurnAway keeps types.
LEMMA TurnAwayType ==
  ASSUME TypeOK, NEW w \in Workers, NEW j \in JobIds, TurnAway(w, j)
  PROVE  TypeOK'
<1>1. QueueOK'
  BY ReserveType DEF TurnAway
<1>2. HistoryOK'
  BY DEF TurnAway, TypeOK, HistoryOK
<1> QED
  BY <1>1, <1>2 DEF TurnAway, TypeOK, TableOK, MemoryOK, SettingsOK, ClockOK,
     table, memory, settings, clock

\* RunRecalculation keeps types.
LEMMA RunRecalculationType ==
  ASSUME TypeOK, NEW w \in Workers, NEW j \in JobIds, RunRecalculation(w, j)
  PROVE  TypeOK'
<1> DEFINE S == {i \in LogIds : /\ logs[i] # None
                                /\ logs[i].user \in jobs[j].scope
                                /\ Month(logs[i].date) = Month(day)}
           target == [i \in LogIds |-> IF logs[i] = None THEN None
                        ELSE Recalculated(logs[i], branch, Rate(logs[i].user))]
<1>1. QueueOK'
  BY ReserveType DEF RunRecalculation
<1>2. ASSUME NEW i \in S PROVE logs[i] \in Row /\ target[i] \in Row
  <2>1. i \in LogIds /\ logs[i] # None
    OBVIOUS
  <2>2. logs[i] \in Row
    BY <2>1 DEF TypeOK, TableOK
  <2>3. logs[i].user \in Users
    BY <2>2 DEF Row
  <2>4. branch.start \in Nat /\ branch.grace \in Nat
    BY SettingsAssumption DEF TypeOK, SettingsOK, BranchType
  <2>5. Evaluate(logs[i], branch.start, branch.grace) \in Row
    BY <2>2, <2>4, EvaluateType
  <2>6. Recalculated(logs[i], branch, Rate(logs[i].user)) \in Row
    BY <2>3, <2>5, RateType, FinancialsType DEF Recalculated, TypeOK
  <2> QED
    BY <2>1, <2>2, <2>6
<1>3. Load(w, S, target) /\ UNCHANGED <<fresh, handled, noted>> /\ w \in Procs
  BY DEF RunRecalculation, Procs
<1>4. S \in SUBSET LogIds
  OBVIOUS
<1> HIDE DEF S, target
<1>5. MemoryOK' /\ HistoryOK'
  BY <1>2, <1>3, <1>4, LoadType DEF TypeOK
<1> QED
  BY <1>1, <1>5 DEF RunRecalculation, TypeOK, TableOK, SettingsOK, ClockOK,
     table, settings, clock

\* Moving one job to another state keeps the queue well formed.
LEMMA RestateType ==
  ASSUME TypeOK, NEW j \in JobIds, jobs[j] # None,
         NEW state \in {"queued", "reserved", "done", "failed"},
         jobs' = [jobs EXCEPT ![j].state = state]
  PROVE  /\ jobs' \in [JobIds -> Job \cup {None}]
         /\ \A k \in JobIds : jobs[k] # None => jobs'[k] # None
<1>1. jobs[j] \in Job
  BY DEF TypeOK, QueueOK
<1>2. [jobs[j] EXCEPT !.state = state] \in Job
  BY <1>1 DEF Job
<1>3. jobs' = [jobs EXCEPT ![j] = [jobs[j] EXCEPT !.state = state]]
  BY DEF TypeOK, QueueOK
<1> QED
  BY <1>2, <1>3, NoneAssumption DEF TypeOK, QueueOK

\* Finish keeps types.
LEMMA FinishType == ASSUME TypeOK, NEW w \in Workers, Finish(w) PROVE TypeOK'
<1>1. running[w] \in JobIds /\ jobs[running[w]] # None
  BY DEF Finish, TypeOK, QueueOK
<1>2. /\ jobs' \in [JobIds -> Job \cup {None}]
      /\ \A k \in JobIds : jobs[k] # None => jobs'[k] # None
  BY <1>1, RestateType DEF Finish, TypeOK, QueueOK
<1>3. running' \in [Workers -> JobIds \cup {None}]
  BY DEF Finish, TypeOK, QueueOK
<1>4. \A v \in Workers : running'[v] # None => running'[v] = running[v]
  BY DEF Finish, TypeOK, QueueOK
<1>5. QueueOK'
  BY <1>2, <1>3, <1>4 DEF TypeOK, QueueOK
<1> QED
  BY <1>5 DEF Finish, TypeOK, TableOK, MemoryOK, SettingsOK, ClockOK, HistoryOK,
     table, memory, settings, clock, history

\* Lapse and GiveUp keep types.
LEMMA RequeueType ==
  ASSUME TypeOK, NEW j \in JobIds,
         \/ Lapse(j)
         \/ \E w \in Workers : GiveUp(w, j)
  PROVE  TypeOK'
<1>1. /\ jobs[j] # None
      /\ \/ jobs' = [jobs EXCEPT ![j].state = "queued"]
         \/ jobs' = [jobs EXCEPT ![j].state = "failed"]
      /\ UNCHANGED <<table, memory, running, settings, clock, changes, history>>
  BY DEF Lapse, GiveUp, FirstQueued, IsQueued
<1>2. /\ jobs' \in [JobIds -> Job \cup {None}]
      /\ \A k \in JobIds : jobs[k] # None => jobs'[k] # None
  BY <1>1, RestateType
<1>3. QueueOK'
  BY <1>1, <1>2 DEF TypeOK, QueueOK
<1> QED
  BY <1>1, <1>3 DEF TypeOK, TableOK, MemoryOK, SettingsOK, ClockOK, HistoryOK,
     table, memory, settings, clock, history

\* Kill keeps types.
LEMMA KillType == ASSUME TypeOK, NEW p \in Procs, Kill(p) PROVE TypeOK'
<1>1. MemoryOK'
  BY DEF Kill, TypeOK, MemoryOK, NoRows
<1>2. QueueOK'
  BY DEF Kill, TypeOK, QueueOK
<1> QED
  BY <1>1, <1>2 DEF Kill, TypeOK, TableOK, SettingsOK, ClockOK, HistoryOK,
     table, settings, clock, history

\* The count of administrator steps stays within its bound.
LEMMA ChangeType == ASSUME TypeOK, Change PROVE changes' \in 0..MaxChanges
  BY SizesAssumption DEF TypeOK, ClockOK, Change

\* The four settings actions keep types.
LEMMA SettingsType ==
  ASSUME TypeOK,
         \/ ChangeBranch
         \/ \E u \in Users : AssignShift(u) \/ ChangeException(u) \/ ChangeSalary(u)
  PROVE  TypeOK'
<1>1. CASE ChangeBranch
  <2>1. changes' \in 0..MaxChanges
    BY <1>1, ChangeType DEF ChangeBranch
  <2> QED
    BY <1>1, <2>1 DEF ChangeBranch, TypeOK, TableOK, MemoryOK, QueueOK, SettingsOK,
       ClockOK, HistoryOK, table, memory, queue, clock, history
<1>2. ASSUME NEW u \in Users, AssignShift(u) PROVE TypeOK'
  <2>1. changes' \in 0..MaxChanges
    BY <1>2, ChangeType DEF AssignShift
  <2>2. SettingsOK'
    BY <1>2 DEF AssignShift, TypeOK, SettingsOK
  <2> QED
    BY <1>2, <2>1, <2>2 DEF AssignShift, TypeOK, TableOK, MemoryOK, QueueOK,
       ClockOK, HistoryOK, table, memory, queue, clock, history
<1>3. ASSUME NEW u \in Users, ChangeException(u) PROVE TypeOK'
  <2>1. changes' \in 0..MaxChanges
    BY <1>3, ChangeType DEF ChangeException
  <2>2. SettingsOK'
    BY <1>3 DEF ChangeException, TypeOK, SettingsOK
  <2> QED
    BY <1>3, <2>1, <2>2 DEF ChangeException, TypeOK, TableOK, MemoryOK, QueueOK,
       ClockOK, HistoryOK, table, memory, queue, clock, history
<1>4. ASSUME NEW u \in Users, ChangeSalary(u) PROVE TypeOK'
  <2>1. changes' \in 0..MaxChanges
    BY <1>4, ChangeType DEF ChangeSalary
  <2>2. SettingsOK'
    BY <1>4 DEF ChangeSalary, TypeOK, SettingsOK
  <2> QED
    BY <1>4, <2>1, <2>2 DEF ChangeSalary, TypeOK, TableOK, MemoryOK, QueueOK,
       ClockOK, HistoryOK, table, memory, queue, clock, history
<1> QED
  BY <1>1, <1>2, <1>3, <1>4

\* Entering and editing a log keep types.
LEMMA LogFormType ==
  ASSUME TypeOK, NEW u \in Users, NEW d \in Days, NEW form \in Forms,
         \/ EnterLog(u, d, form)
         \/ \E i \in LogIds : EditLog(i, u, d, form)
  PROVE  TypeOK'
<1>1. form \in FormType
  BY SettingsAssumption
<1>2. changes' \in 0..MaxChanges
  BY ChangeType DEF EnterLog, EditLog
<1>3. CASE EnterLog(u, d, form)
  <2> DEFINE row == [user |-> u, date |-> d, in |-> form.in, out |-> form.out,
             fence |-> FALSE, status |-> form.status, delay |-> form.delay, early |-> 0,
             over |-> form.over, worked |-> 0,
             rate |-> 0, delayCost |-> 0, earlyCost |-> 0, overVal |-> 0]
  <2>1. row \in Row
    BY <1>1, SizesAssumption DEF FormType, Row
  <2>2. Insert(row)
    BY <1>3 DEF EnterLog
  <2>3. nextId \in LogIds
    BY <2>2 DEF Insert
  <2> HIDE DEF row
  <2>4. TableOK'
    BY <2>1, <2>2, InsertType DEF TypeOK
  <2> QED
    BY <1>2, <1>3, <2>3, <2>4 DEF EnterLog, TypeOK, MemoryOK, QueueOK, SettingsOK,
       ClockOK, HistoryOK, memory, queue, settings, clock
<1>4. ASSUME NEW i \in LogIds, EditLog(i, u, d, form) PROVE TypeOK'
  <2> DEFINE row == [logs[i] EXCEPT !.user = u, !.date = d, !.in = form.in,
             !.out = form.out, !.status = form.status, !.delay = form.delay,
             !.over = form.over]
  <2>1. logs[i] \in Row
    BY <1>4 DEF EditLog, TypeOK, TableOK
  <2>2. row \in Row
    BY <1>1, <2>1, SizesAssumption DEF FormType, Row
  <2>3. logs' = [logs EXCEPT ![i] = row]
    BY <1>4 DEF EditLog
  <2> HIDE DEF row
  <2>4. TableOK'
    <3>1. logs' \in [LogIds -> Row \cup {None}]
      BY <2>2, <2>3 DEF TypeOK, TableOK
    <3>2. nextId' = nextId
      BY <1>4 DEF EditLog
    <3> QED
      BY <3>1, <3>2 DEF TypeOK, TableOK
  <2>5. UNCHANGED <<memory, queue, settings, clock, overlapped, reclocked, noted>>
        /\ handled' = handled \cup {i}
    BY <1>4 DEF EditLog
  <2>6. MemoryOK' /\ QueueOK'
    BY <2>5 DEF TypeOK, MemoryOK, QueueOK, memory, queue
  <2>7. SettingsOK' /\ ClockOK' /\ HistoryOK'
    BY <1>2, <2>5 DEF TypeOK, SettingsOK, ClockOK, HistoryOK, settings, clock
  <2> QED
    BY <2>4, <2>6, <2>7 DEF TypeOK
<1> QED
  BY <1>3, <1>4

\* DeleteLog keeps types.
LEMMA DeleteLogType == ASSUME TypeOK, NEW i \in LogIds, DeleteLog(i) PROVE TypeOK'
<1>1. changes' \in 0..MaxChanges
  BY ChangeType DEF DeleteLog
<1>2. TableOK'
  BY DEF DeleteLog, TypeOK, TableOK
<1> QED
  BY <1>1, <1>2 DEF DeleteLog, TypeOK, MemoryOK, QueueOK, SettingsOK,
     ClockOK, HistoryOK, memory, queue, settings, clock

\* Tick and NextDay keep types.
LEMMA ClockType == ASSUME TypeOK, Tick \/ NextDay PROVE TypeOK'
<1>1. ClockOK'
  BY SizesAssumption DEF Tick, NextDay, TypeOK, ClockOK, Days
<1> QED
  BY <1>1 DEF Tick, NextDay, TypeOK, TableOK, MemoryOK, QueueOK, SettingsOK, HistoryOK,
     table, memory, queue, settings, history

\* A stutter keeps types.
LEMMA StutterType == ASSUME TypeOK, UNCHANGED vars PROVE TypeOK'
  BY DEF vars, TypeOK, TableOK, MemoryOK, QueueOK, SettingsOK, ClockOK, HistoryOK,
     table, memory, queue, settings, clock, history

\* Every step keeps types.
LEMMA TypeStep == TypeOK /\ [Next]_vars => TypeOK'
<1> SUFFICES ASSUME TypeOK, [Next]_vars PROVE TypeOK'
  OBVIOUS
<1>1. ASSUME NEW w \in Workers, WorkerStep(w) PROVE TypeOK'
  <2>1. w \in Procs
    BY DEF Procs
  <2> QED
    BY <1>1, <2>1, RunCheckInType, TurnAwayType, RunRecalculationType, RequeueType,
       StoreLogType, StoreFailsType, SaveType, FinishType DEF WorkerStep
<1>2. ASSUME NEW p \in Web, WebStep(p) PROVE TypeOK'
  <2>1. p \in Procs
    BY DEF Procs
  <2> QED
    BY <1>2, <2>1, CheckInType, SelfCheckInType, CheckOutType, StoreLogType,
       StoreFailsType, SaveType DEF WebStep
<1>3. ASSUME NEW p \in Procs, Kill(p) PROVE TypeOK'
  BY <1>3, KillType
<1>4. ASSUME NEW u \in Users, NEW inside \in BOOLEAN, QueueCheckIn(u, inside) PROVE TypeOK'
  BY <1>4, DispatchType DEF QueueCheckIn
<1>5. ASSUME NEW scope \in {{u} : u \in Users} \cup {Users}, RequestRecalculation(scope)
      PROVE  TypeOK'
  <2>1. scope \in SUBSET Users
    OBVIOUS
  <2> QED
    BY <1>5, <2>1, DispatchType DEF RequestRecalculation
<1>6. ASSUME NEW j \in JobIds, Lapse(j) PROVE TypeOK'
  BY <1>6, RequeueType
<1>7. CASE Administer
  BY <1>7, SettingsType, LogFormType, DeleteLogType DEF Administer
<1>8. CASE Tick \/ NextDay
  BY <1>8, ClockType
<1>9. CASE UNCHANGED vars
  BY <1>9, StutterType
<1> QED
  BY <1>1, <1>2, <1>3, <1>4, <1>5, <1>6, <1>7, <1>8, <1>9 DEF Next

\* The attendance engine keeps its tables and every process's memory well
\* formed: in particular no minute count and no amount ever turns negative
\* (the columns are unsigned), whatever shifts, salaries and clock times are
\* configured, and a loaded row always has its assigned copy beside it.
THEOREM TypeCorrect == Spec => []TypeOK
<1>1. Init => TypeOK
  BY TypeInit
<1>2. TypeOK /\ [Next]_vars => TypeOK'
  BY TypeStep
<1> QED
  BY <1>1, <1>2, PTL DEF Spec

-----------------------------------------------------------------------------
(***************************************************************************)
(* The table: no two logs for a day, no check-out taken back, no frozen    *)
(* rate replaced.                                                          *)
(***************************************************************************)

\* The steps that touch neither the table nor anybody's memory of it.
Aside ==
  \/ ChangeBranch
  \/ \E u \in Users : AssignShift(u) \/ ChangeException(u) \/ ChangeSalary(u)
  \/ \E u \in Users, inside \in BOOLEAN : QueueCheckIn(u, inside)
  \/ \E scope \in {{u} : u \in Users} \cup {Users} : RequestRecalculation(scope)
  \/ \E j \in JobIds : Lapse(j)
  \/ \E w \in Workers, j \in JobIds : GiveUp(w, j) \/ TurnAway(w, j)
  \/ \E w \in Workers : Finish(w)
  \/ Tick \/ NextDay
  \/ UNCHANGED vars

\* Steps set aside leave rows, memory and history alone.
LEMMA AsideChangesNothing == Aside => UNCHANGED <<logs, nextId, fresh, held, pending,
                                                  handled, overlapped, reclocked>>
  BY DEF Aside, ChangeBranch, AssignShift, ChangeException, ChangeSalary, QueueCheckIn,
     RequestRecalculation, Dispatch, Lapse, GiveUp, TurnAway, Finish, Tick, NextDay, vars,
     table, memory, history

\* The steps by which the data of a log moves.
Moving ==
  \/ \E p \in Procs, i \in LogIds : Save(p, i)
  \/ \E p \in Procs : StoreLog(p)
  \/ \E p \in Procs : StoreFails(p)
  \/ \E p \in Procs : Kill(p)
  \/ \E p \in Web, u \in Users, inside \in BOOLEAN : CheckIn(p, u, inside)
  \/ \E p \in Web, u \in Users, d \in Days, t \in Times : SelfCheckIn(p, u, d, t)
  \/ \E w \in Workers, j \in JobIds : RunCheckIn(w, j)
  \/ \E p \in Web, u \in Users : CheckOut(p, u)
  \/ \E w \in Workers, j \in JobIds : RunRecalculation(w, j)
  \/ \E u \in Users, d \in Days, form \in Forms : EnterLog(u, d, form)
  \/ \E i \in LogIds, u \in Users, d \in Days, form \in Forms : EditLog(i, u, d, form)
  \/ \E i \in LogIds : DeleteLog(i)

\* Every step is set aside or named in Moving.
LEMMA StepCases == [Next]_vars => Aside \/ Moving
<1>1. ASSUME NEW w \in Workers, WorkerStep(w) PROVE Aside \/ Moving
  <2>1. w \in Procs
    BY DEF Procs
  <2> QED
    BY <1>1, <2>1 DEF WorkerStep, Aside, Moving
<1>2. ASSUME NEW p \in Web, WebStep(p) PROVE Aside \/ Moving
  <2>1. p \in Procs
    BY DEF Procs
  <2> QED
    BY <1>2, <2>1 DEF WebStep, Moving
<1>3. Administer => Aside \/ Moving
  BY DEF Administer, Aside, Moving
<1> QED
  BY <1>1, <1>2, <1>3 DEF Next, Aside, Moving

\* An UPDATE never touches owner, date, check-in and fence.
LEMMA SaveToKeeps ==
  ASSUME NEW cur \in Row, NEW base \in Row, NEW target \in Row
  PROVE  LET new == SaveTo(cur, base, target) IN
         /\ new.user = cur.user /\ new.date = cur.date /\ new.in = cur.in
         /\ base.out = target.out => new.out = cur.out
         /\ base.worked = target.worked => new.worked = cur.worked
         /\ base.over = target.over => new.over = cur.over
         /\ base.early = target.early => new.early = cur.early
         /\ base.rate = target.rate => new.rate = cur.rate
         /\ target.out # None /\ cur.out # None => new.out # None
  BY DEF SaveTo, Dirty, Row

\* What a save of an existing row stores.
LEMMA SavedRows == ASSUME TypeOK, NEW p \in Procs, NEW i \in LogIds, Save(p, i), logs[i] # None
                   PROVE  /\ logs[i] \in Row /\ held[p][i] \in Row /\ pending[p][i] \in Row
                          /\ logs'[i] = SaveTo(logs[i], held[p][i], pending[p][i])
  BY DEF Save, TypeOK, TableOK, MemoryOK

\* A save changes no other row, and revives none.
LEMMA SaveElsewhere == ASSUME TypeOK, NEW p \in Procs, NEW i \in LogIds, Save(p, i)
                       PROVE  /\ \A k \in LogIds \ {i} : logs'[k] = logs[k]
                              /\ logs[i] = None => logs'[i] = None
  BY DEF Save, TypeOK, TableOK

-----------------------------------------------------------------------------
(* One log per day. *)

\* The unique index does its work at an insert.
LEMMA InsertOneLog ==
  ASSUME TypeOK, OneLogPerDay, NEW row \in Row, Insert(row)
  PROVE  OneLogPerDay'
<1>1. /\ \A k \in LogIds \ {nextId} : logs'[k] = logs[k]
      /\ nextId \in LogIds /\ logs'[nextId] = row
  BY DEF Insert, TypeOK, TableOK
<1>2. \A k \in LogIds : ~(logs[k] # None /\ logs[k].user = row.user /\ logs[k].date = row.date)
  BY DEF Insert, LogsOf
<1> QED
  BY <1>1, <1>2 DEF OneLogPerDay

\* Every step keeps one log per employee and day.
LEMMA OneLogStep == TypeOK /\ OneLogPerDay /\ [Next]_vars => OneLogPerDay'
<1> SUFFICES ASSUME TypeOK, OneLogPerDay, [Next]_vars PROVE OneLogPerDay'
  OBVIOUS
<1>1. ASSUME NEW p \in Procs, NEW i \in LogIds, Save(p, i) PROVE OneLogPerDay'
  <2>1. \A k \in LogIds : logs'[k] # None =>
          logs[k] # None /\ logs'[k].user = logs[k].user /\ logs'[k].date = logs[k].date
    BY <1>1, SavedRows, SaveToKeeps, SaveElsewhere
  <2> QED
    BY <2>1 DEF OneLogPerDay
<1>2. ASSUME NEW p \in Procs, StoreLog(p) PROVE OneLogPerDay'
  <2>1. fresh[p] \in Row
    BY <1>2 DEF StoreLog, TypeOK, MemoryOK
  <2> QED
    BY <1>2, <2>1, InsertOneLog DEF StoreLog
<1>3. ASSUME NEW u \in Users, NEW d \in Days, NEW form \in Forms, EnterLog(u, d, form)
      PROVE  OneLogPerDay'
  <2> DEFINE row == [user |-> u, date |-> d, in |-> form.in, out |-> form.out,
             fence |-> FALSE, status |-> form.status, delay |-> form.delay, early |-> 0,
             over |-> form.over, worked |-> 0,
             rate |-> 0, delayCost |-> 0, earlyCost |-> 0, overVal |-> 0]
  <2>1. form \in FormType
    BY SettingsAssumption
  <2>2. row \in Row
    BY <2>1, SizesAssumption DEF FormType, Row
  <2>3. Insert(row)
    BY <1>3 DEF EnterLog
  <2> HIDE DEF row
  <2> QED
    BY <2>2, <2>3, InsertOneLog
<1>4. ASSUME NEW i \in LogIds, NEW u \in Users, NEW d \in Days, NEW form \in Forms,
             EditLog(i, u, d, form)
      PROVE  OneLogPerDay'
  <2>1. logs[i] \in Row
    BY <1>4 DEF EditLog, TypeOK, TableOK
  <2>2. logs'[i].user = u /\ logs'[i].date = d
    BY <1>4, <2>1 DEF EditLog, TypeOK, TableOK, Row
  <2>3. \A k \in LogIds \ {i} : logs'[k] = logs[k]
    BY <1>4 DEF EditLog, TypeOK, TableOK
  <2>4. \A k \in LogIds \ {i} : ~(logs[k] # None /\ logs[k].user = u /\ logs[k].date = d)
    BY <1>4 DEF EditLog, LogsOf
  <2> QED
    BY <2>2, <2>3, <2>4 DEF OneLogPerDay
<1>5. ASSUME NEW i \in LogIds, DeleteLog(i) PROVE OneLogPerDay'
  <2>1. \A k \in LogIds : logs'[k] # None => logs'[k] = logs[k]
    BY <1>5 DEF DeleteLog, TypeOK, TableOK
  <2> QED
    BY <2>1 DEF OneLogPerDay
<1>6. ASSUME UNCHANGED logs PROVE OneLogPerDay'
  BY <1>6 DEF OneLogPerDay
<1>7. CASE Aside
  BY <1>6, <1>7, AsideChangesNothing
<1>8. CASE Moving
  BY <1>1, <1>2, <1>3, <1>4, <1>5, <1>6, <1>8 DEF Moving, StoreFails, Kill, CheckIn,
     SelfCheckIn, RunCheckIn, CheckOut, RunRecalculation, table
<1> QED
  BY <1>7, <1>8, StepCases

\* No interleaving of check-in requests, queued check-ins redelivered after a
\* crash, and administrators gives an employee two logs for one day: the
\* unique index carries it alone, since no code path looks before it inserts.
THEOREM OneLogADay == Spec => []OneLogPerDay
<1>1. Init => OneLogPerDay
  BY DEF Init, NoRows, OneLogPerDay
<1> QED
  BY <1>1, OneLogStep, TypeCorrect, PTL DEF Spec

-----------------------------------------------------------------------------
(* What a process is about to write back. *)

\* The columns that say when the employee worked.
ClockColumns(row) == <<row.in, row.out, row.worked, row.over, row.early>>

\* Ids are given out in order: nobody holds a row that does not exist yet.
IdsInOrder ==
  \A i \in LogIds : i >= nextId =>
    logs[i] = None /\ \A p \in Procs : held[p][i] = None

\* A recalculation leaves the clock columns of its model alone, so that its
\* save will not name them.
WorkersKeepClock ==
  \A w \in Workers, i \in LogIds :
    held[w][i] # None => ClockColumns(pending[w][i]) = ClockColumns(held[w][i])

\* A check-out leaves check-in and rate alone and does set check_out_at.
WebKeepsRate ==
  \A p \in Web, i \in LogIds : held[p][i] # None =>
    /\ pending[p][i].rate = held[p][i].rate
    /\ pending[p][i].in = held[p][i].in
    /\ pending[p][i].out # None

MemoryInv == IdsInOrder /\ WorkersKeepClock /\ WebKeepsRate

\* What evaluateAttendance leaves alone,
LEMMA EvaluateKeeps == ASSUME NEW row \in Row, NEW start, NEW grace
                       PROVE  ClockColumns(Evaluate(row, start, grace)) = ClockColumns(row)
  BY DEF ClockColumns, Evaluate, Row

\* what pricing leaves alone,
LEMMA PricedKeeps == ASSUME NEW row \in Row
                     PROVE  /\ ClockColumns(Priced(row)) = ClockColumns(row)
                            /\ Priced(row).rate = row.rate
                            /\ Priced(row).status = row.status
                            /\ Priced(row).delay = row.delay
                            /\ Priced(row).out = row.out /\ Priced(row).in = row.in
  BY DEF ClockColumns, Priced, Row

\* what calculateFinancials leaves alone,
LEMMA FinancialsKeeps == ASSUME NEW row \in Row, NEW r \in Nat
                         PROVE  /\ ClockColumns(Financials(row, r)) = ClockColumns(row)
                                /\ Financials(row, r).status = row.status
                                /\ Financials(row, r).delay = row.delay
<1> DEFINE rated == [row EXCEPT !.rate = r]
<1>1. rated \in Row /\ ClockColumns(rated) = ClockColumns(row)
      /\ rated.status = row.status /\ rated.delay = row.delay
  BY DEF Row, ClockColumns
<1> HIDE DEF rated
<1>2. Financials(row, r) = Priced(rated)
  BY DEF Financials, rated
<1> QED
  BY <1>1, <1>2, PricedKeeps

\* and so what a recalculation leaves alone.
LEMMA RecalculatedKeeps ==
  ASSUME NEW row \in Row, NEW b \in BranchType, NEW r \in Nat
  PROVE  ClockColumns(Recalculated(row, b, r)) = ClockColumns(row)
<1>1. Evaluate(row, b.start, b.grace) \in Row
  BY EvaluateType DEF BranchType
<1> QED
  BY <1>1, EvaluateKeeps, FinancialsKeeps DEF Recalculated

\* A check-out keeps rate, check-in and verdict, and sets the check-out.
LEMMA CheckedOutKeeps ==
  ASSUME NEW row \in Row, NEW t \in Times, NEW expected \in Int,
         row.in # None, MinutesBetween(row.in, t) >= 0
  PROVE  LET new == CheckedOut(row, t, expected) IN
         /\ new.rate = row.rate /\ new.in = row.in /\ new.out = t
         /\ new.status = row.status /\ new.delay = row.delay
<1> DEFINE worked == MinutesBetween(row.in, t)
           timed == [row EXCEPT !.out = t, !.worked = worked,
                                !.over = Excess(worked, expected),
                                !.early = Excess(expected, worked)]
<1>1. CheckedOut(row, t, expected) = Priced(timed)
  BY DEF CheckedOut
<1>2. row.in \in Nat /\ t \in Nat
  BY SizesAssumption DEF Row
<1>3. worked \in Nat
  BY <1>2, MinutesInt
<1> HIDE DEF worked
<1>4. Excess(worked, expected) \in Nat /\ Excess(expected, worked) \in Nat
  BY <1>3 DEF Excess
<1>5. /\ timed \in Row
      /\ timed.rate = row.rate /\ timed.in = row.in /\ timed.out = t
      /\ timed.status = row.status /\ timed.delay = row.delay
  BY <1>3, <1>4 DEF Row
<1> HIDE DEF timed
<1> QED
  BY <1>1, <1>5, PricedKeeps

\* The models a check-out and a recalculation load, and what they make of
\* them.
LEMMA CheckOutLoads ==
  ASSUME TypeOK, NEW p \in Web, NEW u \in Users, CheckOut(p, u)
  PROVE  \E i \in LogIds, target \in [LogIds -> Row \cup {None}] :
           /\ logs[i] \in Row /\ logs[i].in # None
           /\ MinutesBetween(logs[i].in, time) >= 0
           /\ target[i] = CheckedOut(logs[i], time, Expected(u))
           /\ Load(p, {i}, target)
           /\ Expected(u) \in Int /\ time \in Times
<1>1. PICK i \in LogsOf(u, day) :
        /\ logs[i].in # None
        /\ MinutesBetween(logs[i].in, time) >= 0
        /\ Load(p, {i}, [k \in {i} |-> CheckedOut(logs[k], time, Expected(u))])
  BY DEF CheckOut
<1>2. i \in LogIds /\ logs[i] \in Row
  BY DEF LogsOf, TypeOK, TableOK
<1>3. Expected(u) \in Int /\ time \in Times
  BY ExpectedType DEF TypeOK, ClockOK
<1>4. CheckedOut(logs[i], time, Expected(u)) \in Row
  BY <1>1, <1>2, <1>3, CheckedOutType
<1> DEFINE new == CheckedOut(logs[i], time, Expected(u))
           target == [k \in LogIds |-> IF k = i THEN new ELSE None]
<1>5. target \in [LogIds -> Row \cup {None}] /\ target[i] = new
  BY <1>2, <1>4
<1>6. [k \in LogIds |-> IF k \in {i} THEN target[k] ELSE None]
        = [k \in LogIds |-> IF k \in {i}
             THEN [l \in {i} |-> CheckedOut(logs[l], time, Expected(u))][k] ELSE None]
  BY <1>2
<1> HIDE DEF target
<1>7. Load(p, {i}, target)
  BY <1>1, <1>6 DEF Load
<1> QED
  BY <1>1, <1>2, <1>3, <1>5, <1>7

\* The rows and targets of a recalculation.
LEMMA RecalculationLoads ==
  ASSUME TypeOK, NEW w \in Workers, NEW j \in JobIds, RunRecalculation(w, j)
  PROVE  \E S \in SUBSET LogIds, target \in [LogIds -> Row \cup {None}],
               r \in [LogIds -> Nat] :
           /\ \A i \in S : /\ logs[i] \in Row
                           /\ target[i] \in Row
                           /\ target[i] = Recalculated(logs[i], branch, r[i])
           /\ Load(w, S, target)
           /\ branch \in BranchType
<1> DEFINE S == {i \in LogIds : /\ logs[i] # None
                                /\ logs[i].user \in jobs[j].scope
                                /\ Month(logs[i].date) = Month(day)}
           target == [i \in LogIds |-> IF logs[i] = None THEN None
                        ELSE Recalculated(logs[i], branch, Rate(logs[i].user))]
           r == [i \in LogIds |-> IF logs[i] = None THEN 0 ELSE Rate(logs[i].user)]
<1>1. ASSUME NEW i \in LogIds, logs[i] # None
      PROVE  logs[i] \in Row /\ Rate(logs[i].user) \in Nat
  <2>1. logs[i] \in Row
    BY <1>1 DEF TypeOK, TableOK
  <2>2. logs[i].user \in Users
    BY <2>1 DEF Row
  <2> QED
    BY <2>1, <2>2, RateType DEF TypeOK
<1>2. r \in [LogIds -> Nat]
  BY <1>1
<1>3. branch \in BranchType
  BY SettingsAssumption DEF TypeOK, SettingsOK
<1>4. target \in [LogIds -> Row \cup {None}]
  BY <1>1, <1>3, EvaluateType, FinancialsType DEF Recalculated, BranchType
<1>5. ASSUME NEW i \in S
      PROVE  /\ logs[i] \in Row /\ target[i] \in Row
             /\ target[i] = Recalculated(logs[i], branch, r[i])
  <2>1. i \in LogIds /\ logs[i] # None
    OBVIOUS
  <2>2. logs[i] \in Row /\ Rate(logs[i].user) \in Nat
    BY <1>1, <2>1
  <2>3. Recalculated(logs[i], branch, Rate(logs[i].user)) \in Row
    BY <1>3, <2>2, EvaluateType, FinancialsType DEF Recalculated, BranchType
  <2> QED
    BY <2>1, <2>2, <2>3
<1>6. Load(w, S, target) /\ S \in SUBSET LogIds
  BY DEF RunRecalculation
<1> HIDE DEF S, target, r
<1> QED
  BY <1>2, <1>3, <1>4, <1>5, <1>6

\* Memory after a load,
LEMMA LoadHeld ==
  ASSUME TypeOK, NEW p \in Procs, NEW S \in SUBSET LogIds,
         NEW target \in [LogIds -> Row \cup {None}], Load(p, S, target)
  PROVE  /\ \A i \in S : held'[p][i] = logs[i] /\ pending'[p][i] = target[i]
         /\ \A i \in LogIds \ S : held'[p][i] = None
         /\ \A q \in Procs \ {p}, i \in LogIds :
              held'[q][i] = held[q][i] /\ pending'[q][i] = pending[q][i]
  BY DEF Load, TypeOK, MemoryOK

\* after a save,
LEMMA SaveHeld ==
  ASSUME TypeOK, NEW p \in Procs, NEW i \in LogIds, Save(p, i)
  PROVE  \A q \in Procs, k \in LogIds :
           /\ q = p /\ k = i => held'[q][k] = None
           /\ ~(q = p /\ k = i) => held'[q][k] = held[q][k] /\ pending'[q][k] = pending[q][k]
  BY DEF Save, TypeOK, MemoryOK

\* and after a kill.
LEMMA KillHeld ==
  ASSUME TypeOK, NEW p \in Procs, Kill(p)
  PROVE  \A q \in Procs, k \in LogIds :
           held'[q][k] # None =>
             q # p /\ held'[q][k] = held[q][k] /\ pending'[q][k] = pending[q][k]
  BY DEF Kill, TypeOK, MemoryOK, NoRows

\* Every step preserves what memory and table owe each other.
LEMMA MemoryStep == TypeOK /\ MemoryInv /\ [Next]_vars => MemoryInv'
<1> SUFFICES ASSUME TypeOK, MemoryInv, [Next]_vars PROVE MemoryInv'
  OBVIOUS
<1> USE DEF Procs
\* A step after which nobody holds more than before, and the table has no
\* row beyond nextId.
<1>1. ASSUME \A q \in Procs, k \in LogIds : held'[q][k] # None =>
               held'[q][k] = held[q][k] /\ pending'[q][k] = pending[q][k],
             \A k \in LogIds : k >= nextId' => logs'[k] = None,
             nextId' >= nextId
      PROVE  MemoryInv'
  <2>1. nextId \in Int /\ nextId' \in Int /\ \A k \in LogIds : k \in Int
    BY TypeStep, SizesAssumption DEF TypeOK, TableOK, LogIds
  <2>2. IdsInOrder'
    BY <1>1, <2>1 DEF MemoryInv, IdsInOrder
  <2>3. WorkersKeepClock'
    BY <1>1 DEF MemoryInv, WorkersKeepClock
  <2>4. WebKeepsRate'
    BY <1>1 DEF MemoryInv, WebKeepsRate
  <2> QED
    BY <2>2, <2>3, <2>4 DEF MemoryInv
<1>2. \A k \in LogIds : k >= nextId => logs[k] = None
  BY DEF MemoryInv, IdsInOrder
<1>3. nextId \in Nat /\ \A k \in LogIds : k \in Nat
  BY SizesAssumption DEF TypeOK, TableOK, LogIds
<1>4. ASSUME NEW p \in Procs, NEW i \in LogIds, Save(p, i) PROVE MemoryInv'
  <2>1. nextId' = nextId
    BY <1>4 DEF Save
  <2>2. \A k \in LogIds : logs[k] = None => logs'[k] = None
    BY <1>4, SaveElsewhere
  <2> QED
    BY <1>1, <1>2, <1>3, <1>4, <2>1, <2>2, SaveHeld
<1>5. ASSUME NEW row, Insert(row), UNCHANGED <<held, pending>> PROVE MemoryInv'
  <2>1. nextId' = nextId + 1 /\ \A k \in LogIds \ {nextId} : logs'[k] = logs[k]
    BY <1>5 DEF Insert, TypeOK, TableOK
  <2> QED
    BY <1>1, <1>2, <1>3, <1>5, <2>1
<1>6. ASSUME NEW p \in Procs, Kill(p) PROVE MemoryInv'
  <2>1. UNCHANGED <<logs, nextId>>
    BY <1>6 DEF Kill, table
  <2> QED
    BY <1>1, <1>2, <1>3, <1>6, <2>1, KillHeld
<1>7. ASSUME UNCHANGED <<logs, nextId, held, pending>> PROVE MemoryInv'
  BY <1>1, <1>2, <1>3, <1>7
<1>8. ASSUME NEW i \in LogIds, logs[i] # None, UNCHANGED <<nextId, held, pending>>,
             \A k \in LogIds \ {i} : logs'[k] = logs[k]
      PROVE  MemoryInv'
  BY <1>1, <1>2, <1>3, <1>8
<1>9. ASSUME NEW p \in Procs, NEW S \in SUBSET LogIds,
             NEW target \in [LogIds -> Row \cup {None}],
             Load(p, S, target), UNCHANGED <<logs, nextId>>,
             \A k \in S : logs[k] # None,
             p \in Workers => \A k \in S : ClockColumns(target[k]) = ClockColumns(logs[k]),
             p \in Web => \A k \in S : /\ target[k].rate = logs[k].rate
                                       /\ target[k].in = logs[k].in
                                       /\ target[k].out # None
      PROVE  MemoryInv'
  <2>1. \A k \in S : k < nextId
    BY <1>2, <1>3, <1>9
  <2>2. IdsInOrder'
    <3>1. /\ \A k \in LogIds \ S : held'[p][k] = None
          /\ \A q \in Procs \ {p}, k \in LogIds : held'[q][k] = held[q][k]
      BY <1>9, LoadHeld
    <3>2. ASSUME NEW q \in Procs, NEW k \in LogIds, k >= nextId
          PROVE  held'[q][k] = None
      <4>1. k \notin S
        BY <1>3, <2>1, <3>2
      <4> QED
        BY <3>1, <3>2, <4>1 DEF MemoryInv, IdsInOrder
    <3> QED
      BY <1>2, <1>9, <3>2 DEF IdsInOrder
  <2>3. WorkersKeepClock'
    BY <1>9, LoadHeld DEF MemoryInv, WorkersKeepClock
  <2>4. ASSUME NEW q \in Web, NEW k \in LogIds, held'[q][k] # None
        PROVE  /\ pending'[q][k].rate = held'[q][k].rate
               /\ pending'[q][k].in = held'[q][k].in
               /\ pending'[q][k].out # None
    <3>1. CASE q = p
      <4>1. k \in S /\ held'[q][k] = logs[k] /\ pending'[q][k] = target[k]
        BY <1>9, <2>4, <3>1, LoadHeld
      <4> QED
        BY <1>9, <3>1, <4>1
    <3>2. CASE q # p
      <4>1. held'[q][k] = held[q][k] /\ pending'[q][k] = pending[q][k]
        BY <1>9, <3>2, LoadHeld
      <4> QED
        BY <2>4, <4>1 DEF MemoryInv, WebKeepsRate
    <3> QED
      BY <3>1, <3>2
  <2> QED
    BY <2>2, <2>3, <2>4 DEF MemoryInv, WebKeepsRate
<1>10. Web \cap Workers = {}
  BY SizesAssumption
<1>11. ASSUME NEW p \in Web, NEW u \in Users, CheckOut(p, u) PROVE MemoryInv'
  <2>1. PICK i \in LogIds, target \in [LogIds -> Row \cup {None}] :
           /\ logs[i] \in Row /\ logs[i].in # None
           /\ MinutesBetween(logs[i].in, time) >= 0
           /\ target[i] = CheckedOut(logs[i], time, Expected(u))
           /\ Load(p, {i}, target)
           /\ Expected(u) \in Int /\ time \in Times
    BY <1>11, CheckOutLoads
  <2>2. time # None
    BY <2>1, SizesAssumption, NoneAssumption
  <2>3. target[i].rate = logs[i].rate /\ target[i].in = logs[i].in /\ target[i].out # None
    BY <2>1, <2>2, CheckedOutKeeps
  <2>4. UNCHANGED <<logs, nextId>>
    BY <1>11 DEF CheckOut, table
  <2> QED
    BY <1>9, <1>10, <2>1, <2>3, <2>4, NoneAssumption
<1>12. ASSUME NEW w \in Workers, NEW j \in JobIds, RunRecalculation(w, j) PROVE MemoryInv'
  <2>1. PICK S \in SUBSET LogIds, target \in [LogIds -> Row \cup {None}],
             r \in [LogIds -> Nat] :
           /\ \A i \in S : /\ logs[i] \in Row
                           /\ target[i] \in Row
                           /\ target[i] = Recalculated(logs[i], branch, r[i])
           /\ Load(w, S, target)
           /\ branch \in BranchType
    BY <1>12, RecalculationLoads
  <2>2. \A k \in S : ClockColumns(target[k]) = ClockColumns(logs[k])
    BY <2>1, RecalculatedKeeps
  <2>3. UNCHANGED <<logs, nextId>>
    BY <1>12 DEF RunRecalculation, table
  <2> QED
    BY <1>9, <1>10, <2>1, <2>2, <2>3, NoneAssumption
<1>13. ASSUME NEW p \in Procs, StoreLog(p) PROVE MemoryInv'
  BY <1>5, <1>13 DEF StoreLog
<1>14. ASSUME NEW u \in Users, NEW d \in Days, NEW form \in Forms, EnterLog(u, d, form)
       PROVE  MemoryInv'
  BY <1>5, <1>14 DEF EnterLog, memory
<1>15. ASSUME NEW i \in LogIds,
              \/ DeleteLog(i)
              \/ \E u \in Users, d \in Days, form \in Forms : EditLog(i, u, d, form)
       PROVE  MemoryInv'
  <2>1. /\ logs[i] # None /\ UNCHANGED <<nextId, held, pending>>
        /\ \A k \in LogIds \ {i} : logs'[k] = logs[k]
    BY <1>15 DEF DeleteLog, EditLog, memory, TypeOK, TableOK
  <2> QED
    BY <1>8, <2>1
<1>16. CASE Aside
  BY <1>7, <1>16, AsideChangesNothing
<1>17. ASSUME NEW p \in Procs,
              \/ StoreFails(p)
              \/ \E u \in Users, inside \in BOOLEAN : CheckIn(p, u, inside)
              \/ \E u \in Users, d \in Days, t \in Times : SelfCheckIn(p, u, d, t)
              \/ \E j \in JobIds : RunCheckIn(p, j)
       PROVE  MemoryInv'
  BY <1>7, <1>17 DEF StoreFails, CheckIn, SelfCheckIn, RunCheckIn, table
<1>18. CASE Moving
  BY <1>4, <1>6, <1>11, <1>12, <1>13, <1>14, <1>15, <1>17, <1>18 DEF Moving
<1> QED
  BY <1>16, <1>18, StepCases

\* The invariant holds in every reachable state.
LEMMA MemoryInvariant == Spec => []MemoryInv
<1>1. Init => MemoryInv
  BY DEF Init, NoRows, MemoryInv, IdsInOrder, WorkersKeepClock, WebKeepsRate, Procs
<1> QED
  BY <1>1, MemoryStep, TypeCorrect, PTL DEF Spec

-----------------------------------------------------------------------------
(* Check-outs and rates. *)

\* How one step may change a row that exists before and after it.
LEMMA RowChange ==
  ASSUME TypeOK, MemoryInv, [Next]_vars, NEW i \in LogIds,
         logs[i] # None, logs'[i] # None, logs'[i] # logs[i]
  PROVE  \/ \E p \in Procs : Save(p, i)
         \/ i \in handled' /\ logs'[i].rate = logs[i].rate
<1>1. ASSUME NEW p \in Procs, NEW k \in LogIds, Save(p, k) PROVE Save(p, i)
  BY <1>1, SaveElsewhere
<1>2. ASSUME NEW row, Insert(row) PROVE FALSE
  <2>1. nextId \in LogIds /\ \A k \in LogIds \ {nextId} : logs'[k] = logs[k]
    BY <1>2 DEF Insert, TypeOK, TableOK
  <2>2. logs[nextId] = None
    BY <2>1, SizesAssumption DEF MemoryInv, IdsInOrder, LogIds
  <2> QED
    BY <2>1, <2>2
<1>3. ASSUME NEW k \in LogIds, NEW u \in Users, NEW d \in Days, NEW form \in Forms,
             EditLog(k, u, d, form)
      PROVE  i \in handled' /\ logs'[i].rate = logs[i].rate
  <2>1. k = i
    BY <1>3 DEF EditLog, TypeOK, TableOK
  <2>2. logs[i] \in Row
    BY DEF TypeOK, TableOK
  <2> QED
    BY <1>3, <2>1, <2>2 DEF EditLog, TypeOK, TableOK, Row
<1>4. ASSUME NEW k \in LogIds, DeleteLog(k) PROVE FALSE
  BY <1>4 DEF DeleteLog, TypeOK, TableOK
<1>5. ASSUME UNCHANGED logs PROVE FALSE
  BY <1>5
<1>6. CASE Aside
  BY <1>5, <1>6, AsideChangesNothing
<1>7. CASE Moving
  BY <1>1, <1>2, <1>3, <1>4, <1>5, <1>7 DEF Moving, StoreLog, EnterLog, StoreFails,
     Kill, CheckIn, SelfCheckIn, RunCheckIn, CheckOut, RunRecalculation, table
<1> QED
  BY <1>6, <1>7, StepCases

\* Every step keeps recorded check-outs.
LEMMA CheckOutKeptStep ==
  ASSUME TypeOK, MemoryInv, [Next]_vars, NEW i \in LogIds,
         logs[i] # None, logs'[i] # None, i \notin handled', logs[i].out # None
  PROVE  /\ logs'[i].out # None
         /\ (\A p \in Web : held'[p][i] = held[p][i])
               => logs'[i].out = logs[i].out /\ logs'[i].worked = logs[i].worked
<1>1. CASE logs'[i] = logs[i]
  BY <1>1
<1>2. ASSUME NEW p \in Workers, Save(p, i)
      PROVE  logs'[i].out = logs[i].out /\ logs'[i].worked = logs[i].worked
  <2>1. p \in Procs
    BY DEF Procs
  <2>2. ClockColumns(pending[p][i]) = ClockColumns(held[p][i])
    BY <1>2 DEF MemoryInv, WorkersKeepClock, Save
  <2> QED
    BY <1>2, <2>1, <2>2, SavedRows, SaveToKeeps DEF ClockColumns
<1>3. ASSUME NEW p \in Web, Save(p, i)
      PROVE  logs'[i].out # None /\ held'[p][i] # held[p][i]
  <2>1. p \in Procs
    BY DEF Procs
  <2>2. held[p][i] # None /\ held'[p][i] = None
    BY <1>3, <2>1 DEF Save, TypeOK, MemoryOK
  <2>3. pending[p][i].out # None
    BY <2>2 DEF MemoryInv, WebKeepsRate
  <2> QED
    BY <1>3, <2>1, <2>2, <2>3, SavedRows, SaveToKeeps
<1> QED
  BY <1>1, <1>2, <1>3, RowChange DEF Procs

\* Every step but a worker's save keeps frozen rates.
LEMMA RateFrozenStep ==
  ASSUME TypeOK, MemoryInv, [Next]_vars, NEW i \in LogIds,
         logs[i] # None, logs'[i] # None, logs'[i].rate # logs[i].rate
  PROVE  \E w \in Workers : held[w][i] # None /\ held'[w][i] = None
<1>1. PICK p \in Procs : Save(p, i)
  BY RowChange
<1>2. held[p][i] # None /\ held'[p][i] = None
  BY <1>1 DEF Save, TypeOK, MemoryOK
<1>3. CASE p \in Workers
  BY <1>2, <1>3
<1>4. CASE p \in Web
  <2>1. pending[p][i].rate = held[p][i].rate
    BY <1>2, <1>4 DEF MemoryInv, WebKeepsRate
  <2> QED
    BY <1>1, <2>1, SavedRows, SaveToKeeps
<1> QED
  BY <1>3, <1>4 DEF Procs

\* A recalculation that loaded the month before an employee checked out does
\* not erase the check-out when it saves, and a second check-out moves the
\* time but never empties it: save() writes the dirty columns only.
THEOREM CheckOutsKept == Spec => CheckOutKept
<1>1. TypeOK /\ MemoryInv /\ [Next]_vars =>
        \A i \in LogIds :
          logs[i] # None /\ logs'[i] # None /\ i \notin handled' /\ logs[i].out # None
          => /\ logs'[i].out # None
             /\ (\A p \in Web : held'[p][i] = held[p][i])
                  => logs'[i].out = logs[i].out /\ logs'[i].worked = logs[i].worked
  BY CheckOutKeptStep
<1> QED
  BY <1>1, TypeCorrect, MemoryInvariant, PTL DEF Spec, CheckOutKept

\* The salary snapshot of a log survives everything but a recalculation: no
\* check-out, duplicate, retry or form edit replaces it.
THEOREM RatesFrozen == Spec => RateFrozen
<1>1. TypeOK /\ MemoryInv /\ [Next]_vars =>
        \A i \in LogIds :
          logs[i] # None /\ logs'[i] # None /\ logs'[i].rate # logs[i].rate
          => \E w \in Workers : held[w][i] # None /\ held'[w][i] = None
  BY RateFrozenStep
<1> QED
  BY <1>1, TypeCorrect, MemoryInvariant, PTL DEF Spec, RateFrozen
=============================================================================
