------------------------------- MODULE Streaks -------------------------------
(***************************************************************************)
(* StreakService: how many working days an employee has come in a row, and *)
(* the cache the personal mirror reads it through.  Nothing invalidates    *)
(* the cache; an entry lives for its ten minutes.                          *)
(***************************************************************************)
EXTENDS WorkDays

CONSTANTS
  Viewers,     \* requests that show a streak
  Window,      \* maxDays
  TTL,         \* ttlMinutes, in ticks of the clock
  MaxClock     \* bound on the clock


Entry == [value : Nat, until : Nat]

View == [user : Users, key : Days, until : Nat, at : {"logs", "leaves", "holidays"},
         from : Days, attended : SUBSET Days, excused : SUBSET Days]

ASSUME StreaksAssumption ==
  /\ Window \in Nat \ {0} /\ TTL \in Nat \ {0} /\ MaxClock \in Nat
  /\ None \notin Entry \cup View

VARIABLES
  clock,
  cache,       \* the entry of a user and a date
  view,        \* what a request holds in memory
  changedAt    \* history: when what a user's streak depends on last changed

streakVars == <<clock, cache, view, changedAt>>

StreaksTypeOK ==
  /\ clock \in 0..MaxClock
  /\ cache \in [Users -> [Days -> Entry \cup {None}]]
  /\ view \in [Viewers -> View \cup {None}]
  /\ changedAt \in [Users -> 0..clock]

StreaksInit ==
  /\ clock = 0
  /\ cache = [u \in Users |-> [d \in Days |-> None]]
  /\ view = [v \in Viewers |-> None]
  /\ changedAt = [u \in Users |-> 0]

Touch(S) == changedAt' = [u \in Users |-> IF u \in S THEN clock ELSE changedAt[u]]

Attended(u) == {d \in Days : d =< today /\ logs[u][d] \in {"present", "late"}}
OnLeaveDays(u) == {d \in Days : leaves[u][d] > 0}

-----------------------------------------------------------------------------
(* calculate(). *)

\* Mutant: the log is looked at before the weekend and the holidays.
LogsFirst(attended, excused, from) ==
  LET back[d \in -1..MaxDay] ==
        IF d < 0 \/ from - d >= Window THEN 0
        ELSE IF d \in attended THEN 1 + back[d - 1]
        ELSE IF d \in excused THEN back[d - 1]
        ELSE 0
  IN back[from]

\* The loop, backwards from a day; it looks at Window days and no more.
Streak(attended, excused, from) ==
  LET back[d \in -1..MaxDay] ==
        IF d < 0 \/ from - d >= Window THEN 0
        ELSE IF d \in excused THEN back[d - 1]
        ELSE IF d \in attended THEN 1 + back[d - 1]
        ELSE 0
  IN back[from]

TrueStreak(u) == Streak(Attended(u), Weekend \cup holidays \cup OnLeaveDays(u), today)

-----------------------------------------------------------------------------
(* calculateCached(). *)

Live(u, d) == cache[u][d] # None /\ cache[u][d].until > clock

Viewing(v, at) == view[v] # None /\ view[v].at = at

\* A miss.  The expiry is worked out here, before anything is read.
Miss(v, u) ==
  /\ view[v] = None
  /\ ~Live(u, today)
  /\ view' = [view EXCEPT ![v] =
       [user |-> u, key |-> today, until |-> clock + TTL, at |-> "logs",
        from |-> today, attended |-> {}, excused |-> {}]]
  /\ UNCHANGED <<clock, cache, changedAt>>

\* calculate() asks for the date again.
QueryLogs(v) ==
  /\ Viewing(v, "logs")
  /\ view' = [view EXCEPT ![v].from = today, ![v].attended = Attended(view[v].user),
                          ![v].at = "leaves"]
  /\ UNCHANGED <<clock, cache, changedAt>>

QueryLeaves(v) ==
  /\ Viewing(v, "leaves")
  /\ view' = [view EXCEPT ![v].excused = OnLeaveDays(view[v].user), ![v].at = "holidays"]
  /\ UNCHANGED <<clock, cache, changedAt>>

\* Mutant: the ten minutes count from here.
ExpiryFromStore(v) == clock + TTL

Expiry(v) == view[v].until

\* The holidays, the loop, and the entry, unless its time is up.
Store(v) ==
  LET s == view[v]
      value == Streak(s.attended, Weekend \cup holidays \cup s.excused, s.from) IN
  /\ Viewing(v, "holidays")
  /\ cache' = [cache EXCEPT ![s.user][s.key] =
       IF Expiry(v) > clock THEN [value |-> value, until |-> Expiry(v)] ELSE None]
  /\ view' = [view EXCEPT ![v] = None]
  /\ UNCHANGED <<clock, changedAt>>

KillView(v) ==
  /\ view[v] # None
  /\ view' = [view EXCEPT ![v] = None]
  /\ UNCHANGED <<clock, cache, changedAt>>

Tick ==
  /\ clock < MaxClock
  /\ clock' = clock + 1
  /\ UNCHANGED <<cache, view, changedAt>>

ViewStep(v) == QueryLogs(v) \/ QueryLeaves(v) \/ Store(v) \/ KillView(v)

-----------------------------------------------------------------------------
(* Properties. *)

\* The streak is the number of days that count: working days, neither
\* weekend nor holiday nor leave, on which the employee came and since which
\* he missed none.  Coming on a day off neither adds to it nor breaks it.
StreakIsRun ==
  \A u \in Users :
    LET excused == Weekend \cup holidays \cup OnLeaveDays(u)
        seen == {d \in Days : d =< today /\ today - d < Window}
    IN TrueStreak(u) = Cardinality({d \in (Attended(u) \ excused) \cap seen :
                          (d..today) \ excused \subseteq Attended(u)})

\* A streak that is shown and no longer true, or never was because the three
\* queries saw different states, is gone within the ten minutes of the change
\* that made it wrong, however long the request that stored it took.
StaleStreakExpires ==
  \A u \in Users :
    Live(u, today) /\ cache[u][today].value # TrueStreak(u) =>
      cache[u][today].until =< changedAt[u] + TTL
=============================================================================
