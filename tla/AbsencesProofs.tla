---------------------------- MODULE AbsencesProofs ----------------------------
(***************************************************************************)
(* What is decided of leaves, shown of streaks and said of days, whatever  *)
(* requests, runs and changes overlap: one part after the other, and then  *)
(* beside each other.  The loop over the days of a streak is a recursive   *)
(* function: that it exists and what it counts is shown by induction.      *)
(***************************************************************************)
EXTENDS Absences, Induction, FiniteSetTheorems, TLAPS

(* Leave requests. *)

\* An undisturbed request was decided once or not at all, and a screen that
\* loaded it and was not overtaken still has a pending one.
GoodRequest(q) ==
  /\ request[q] = None => decisions[q] = 0
  /\ request[q] # None /\ ~tangled[q] =>
       /\ decisions[q] = IF request[q].status = "pending" THEN 0 ELSE 1
       /\ request[q].by = None <=> request[q].status = "pending"
       /\ request[q].reason <=> request[q].status = "rejected"

GoodDesk(m) ==
  desk[m] # None => LET q == desk[m].of IN
    /\ request[q] # None
    /\ desk[m].seen =< decisions[q]
    /\ desk[m].kind = "decide" /\ ~tangled[q] /\ decisions[q] = desk[m].seen
         => request[q].status = "pending"

DeskInv ==
  /\ LeaveDeskTypeOK
  /\ \A q \in Requests : GoodRequest(q)
  /\ \A m \in Desks : GoodDesk(m)

\* A step that writes a request, after which it is as it should be; the desks
\* that have it in hand keep their reasons, and the others are not concerned.
LEMMA RequestWritten ==
  ASSUME DeskInv, NEW q \in Requests, NEW t \in LeaveRequest,
         NEW n \in Nat, NEW b \in BOOLEAN,
         request' = [request EXCEPT ![q] = t],
         decisions' = [decisions EXCEPT ![q] = n],
         tangled' = [tangled EXCEPT ![q] = b],
         desk' \in [Desks -> Handling \cup {None}],
         \A m \in Desks : desk'[m] = desk[m] \/ desk'[m] = None,
         n >= decisions[q],
         ~b => /\ n = IF t.status = "pending" THEN 0 ELSE 1
               /\ t.by = None <=> t.status = "pending"
               /\ t.reason <=> t.status = "rejected",
         \/ b \/ request[q] = None \/ n > decisions[q]
         \/ /\ t.status = request[q].status /\ n = decisions[q]
            /\ b <=> tangled[q]
  PROVE  DeskInv'
<1>1. /\ t # None
      /\ request'[q] = t /\ decisions'[q] = n /\ (tangled'[q] <=> b)
      /\ \A p \in Requests \ {q} : /\ request'[p] = request[p]
                                   /\ decisions'[p] = decisions[p]
                                   /\ tangled'[p] = tangled[p]
  BY LeaveDeskAssumption DEF DeskInv, LeaveDeskTypeOK
<1>2. LeaveDeskTypeOK'
  <2>1. request' \in [Requests -> LeaveRequest \cup {None}]
    BY DEF DeskInv, LeaveDeskTypeOK
  <2>2. decisions' \in [Requests -> Nat]
    BY DEF DeskInv, LeaveDeskTypeOK
  <2>3. tangled' \in [Requests -> BOOLEAN]
    BY DEF DeskInv, LeaveDeskTypeOK
  <2> QED
    BY <2>1, <2>2, <2>3 DEF LeaveDeskTypeOK
<1>3. ASSUME NEW p \in Requests PROVE GoodRequest(p)'
  <2>1. CASE p = q
    BY <1>1, <2>1 DEF GoodRequest
  <2>2. CASE p # q
    BY <1>1, <2>2 DEF GoodRequest, DeskInv
  <2> QED
    BY <2>1, <2>2
<1>4. ASSUME NEW m \in Desks PROVE GoodDesk(m)'
  <2>1. CASE desk'[m] = None
    BY <2>1 DEF GoodDesk
  <2>2. CASE desk'[m] # None
    <3>1. /\ desk'[m] = desk[m] /\ desk[m] # None /\ desk[m] \in Handling
          /\ desk[m].of \in Requests /\ desk[m].seen \in Nat
      BY <2>2 DEF DeskInv, LeaveDeskTypeOK, Handling
    <3>2. /\ request[desk[m].of] # None
          /\ desk[m].seen =< decisions[desk[m].of]
          /\ desk[m].kind = "decide" /\ ~tangled[desk[m].of]
               /\ decisions[desk[m].of] = desk[m].seen
             => request[desk[m].of].status = "pending"
      BY <3>1 DEF DeskInv, GoodDesk
    <3>3. CASE desk[m].of = q
      <4>1. request[q] # None /\ desk[m].seen =< decisions[q] /\ decisions[q] \in Nat
        BY <3>2, <3>3 DEF DeskInv, LeaveDeskTypeOK
      <4>2. desk[m].seen =< n
        BY <3>1, <4>1
      <4>3. ASSUME desk[m].kind = "decide", ~b, n = desk[m].seen PROVE t.status = "pending"
        <5>1. n = decisions[q]
          BY <3>1, <4>1, <4>3
        <5>2. t.status = request[q].status /\ ~tangled[q]
          BY <4>1, <4>3, <5>1
        <5> QED
          BY <3>2, <3>3, <4>3, <5>1, <5>2
      <4> QED
        BY <1>1, <3>1, <3>3, <4>2, <4>3 DEF GoodDesk
    <3>4. CASE desk[m].of # q
      BY <1>1, <3>1, <3>2, <3>4 DEF GoodDesk
    <3> QED
      BY <3>3, <3>4
  <2> QED
    BY <2>1, <2>2
<1> QED
  BY <1>2, <1>3, <1>4 DEF DeskInv

\* A step that takes a request in hand, or lets it go.
LEMMA DeskMoved ==
  ASSUME DeskInv, NEW m \in Desks, NEW s \in Handling \cup {None},
         desk' = [desk EXCEPT ![m] = s], UNCHANGED <<request, decisions, tangled>>,
         s # None => /\ request[s.of] # None /\ s.seen = decisions[s.of]
                     /\ s.kind = "decide" => request[s.of].status = "pending"
  PROVE  DeskInv'
<1>1. LeaveDeskTypeOK'
  BY DEF DeskInv, LeaveDeskTypeOK
<1>2. \A q \in Requests : GoodRequest(q)'
  BY DEF DeskInv, GoodRequest
<1>3. ASSUME NEW n \in Desks PROVE GoodDesk(n)'
  <2>1. CASE n = m
    <3>1. desk'[n] = s
      BY <2>1 DEF DeskInv, LeaveDeskTypeOK
    <3>2. CASE s = None
      BY <3>1, <3>2 DEF GoodDesk
    <3>3. CASE s # None
      <4>1. s \in Handling /\ s.of \in Requests /\ decisions[s.of] \in Nat
        BY <3>3 DEF Handling, DeskInv, LeaveDeskTypeOK
      <4> QED
        BY <3>1, <3>3, <4>1 DEF GoodDesk
    <3> QED
      BY <3>2, <3>3
  <2>2. CASE n # m
    <3>1. desk'[n] = desk[n]
      BY <2>2 DEF DeskInv, LeaveDeskTypeOK
    <3> QED
      BY <3>1 DEF DeskInv, GoodDesk
  <2> QED
    BY <2>1, <2>2
<1> QED
  BY <1>1, <1>2, <1>3 DEF DeskInv

LEMMA SubmitStep ==
  ASSUME DeskInv, NEW q \in Requests, NEW s \in Statuses, NEW reason \in BOOLEAN,
         Submit(q, s, reason)
  PROVE  DeskInv'
<1> DEFINE t == [status |-> s, by |-> None, reason |-> reason, deleted |-> FALSE]
<1>1. /\ t \in LeaveRequest /\ t.status = s /\ t.by = None /\ (t.reason <=> reason)
  BY DEF LeaveRequest
<1>2. request' = [request EXCEPT ![q] = t] /\ desk' = desk
  BY DEF Submit
<1> HIDE DEF t
<1>3. PICK n \in Nat : n = decisions[q]
  BY DEF DeskInv, LeaveDeskTypeOK
<1>4. decisions' = [decisions EXCEPT ![q] = n] /\ n = 0 /\ request[q] = None
  BY <1>3 DEF Submit, DeskInv, LeaveDeskTypeOK, GoodRequest
<1>5. PICK b \in BOOLEAN : b <=> s # "pending"
  OBVIOUS
<1>6. tangled' = [tangled EXCEPT ![q] = b]
  <2>1. b = (s # "pending")
    BY <1>5
  <2> QED
    BY <2>1 DEF Submit
<1>7. ~b => /\ n = IF t.status = "pending" THEN 0 ELSE 1
            /\ t.by = None <=> t.status = "pending"
            /\ t.reason <=> t.status = "rejected"
  BY <1>1, <1>4, <1>5 DEF Submit
<1>8. desk' \in [Desks -> Handling \cup {None}]
  BY <1>2 DEF DeskInv, LeaveDeskTypeOK
<1>9. /\ \A m \in Desks : desk'[m] = desk[m] \/ desk'[m] = None
      /\ n >= decisions[q]
      /\ b \/ request[q] = None \/ n > decisions[q]
  BY <1>2, <1>3, <1>4
<1> QED
  BY <1>1, <1>2, <1>4, <1>6, <1>7, <1>8, <1>9, RequestWritten

LEMMA DeleteStep ==
  ASSUME DeskInv, NEW q \in Requests, Delete(q)
  PROVE  DeskInv'
<1>1. PICK r \in LeaveRequest : r = request[q] /\ request[q] # None
  BY DEF Delete, DeskInv, LeaveDeskTypeOK
<1> DEFINE t == [r EXCEPT !.deleted = TRUE]
<1>2. request' = [request EXCEPT ![q] = t] /\ desk' = desk
  BY <1>1 DEF Delete
<1>3. /\ t \in LeaveRequest /\ t.status = r.status /\ t.by = r.by
      /\ (t.reason <=> r.reason)
  BY DEF LeaveRequest
<1> HIDE DEF t
<1>4. PICK n \in Nat : n = decisions[q]
  BY DEF DeskInv, LeaveDeskTypeOK
<1>5. PICK b \in BOOLEAN : b = tangled[q]
  BY DEF DeskInv, LeaveDeskTypeOK
<1>6. decisions' = [decisions EXCEPT ![q] = n]
  BY <1>4 DEF Delete, DeskInv, LeaveDeskTypeOK
<1>7. tangled' = [tangled EXCEPT ![q] = b]
  BY <1>5 DEF Delete, DeskInv, LeaveDeskTypeOK
<1>8. ~b => /\ n = IF t.status = "pending" THEN 0 ELSE 1
            /\ t.by = None <=> t.status = "pending"
            /\ t.reason <=> t.status = "rejected"
  BY <1>1, <1>3, <1>4, <1>5 DEF DeskInv, GoodRequest
<1>9. desk' \in [Desks -> Handling \cup {None}]
  BY <1>2 DEF DeskInv, LeaveDeskTypeOK
<1>10. /\ \A m \in Desks : desk'[m] = desk[m] \/ desk'[m] = None
       /\ n >= decisions[q]
       /\ t.status = request[q].status /\ n = decisions[q] /\ (b <=> tangled[q])
  BY <1>1, <1>2, <1>3, <1>4, <1>5
<1> QED
  BY <1>2, <1>3, <1>6, <1>7, <1>8, <1>9, <1>10, RequestWritten

\* A decision is the only one, unless the request is tangled from here on.
LEMMA DecideStep ==
  ASSUME DeskInv, NEW m \in Desks, NEW s \in {"approved", "rejected"},
         NEW reason \in BOOLEAN, reason <=> s = "rejected", Decide(m, s, reason)
  PROVE  DeskInv'
<1>1. PICK h \in Handling : h = desk[m] /\ desk[m] # None /\ h.kind = "decide"
  BY DEF Decide, Holds, DeskInv, LeaveDeskTypeOK
<1>2. PICK q \in Requests : q = h.of
  BY DEF Handling
<1>3. PICK r \in LeaveRequest : r = request[q] /\ request[q] # None
  BY <1>1, <1>2 DEF DeskInv, GoodDesk, LeaveDeskTypeOK
<1>4. PICK k \in Nat : k = decisions[q]
  BY DEF DeskInv, LeaveDeskTypeOK
<1>5. PICK c \in BOOLEAN : c = (r.reason \/ reason)
  OBVIOUS
<1> DEFINE t == [r EXCEPT !.status = s, !.by = m, !.reason = c]
<1>6. request' = [request EXCEPT ![q] = t]
  <2>1. request' = [request EXCEPT ![q] =
          [request[q] EXCEPT !.status = s, !.by = m, !.reason = request[q].reason \/ reason]]
    BY <1>1, <1>2, <1>3 DEF Decide, LeaveRequest
  <2> QED
    BY <1>3, <1>5, <2>1
<1>7. /\ t \in LeaveRequest /\ t.status = s /\ t.by = m
      /\ (t.reason <=> c)
  BY DEF LeaveRequest, Statuses
<1> HIDE DEF t
<1>8. PICK b \in BOOLEAN : b = (tangled[q] \/ decisions[q] # desk[m].seen)
  OBVIOUS
<1>9. /\ decisions' = [decisions EXCEPT ![q] = k + 1]
      /\ tangled' = [tangled EXCEPT ![q] = b]
  BY <1>1, <1>2, <1>4, <1>8 DEF Decide
<1>10. ASSUME ~b PROVE /\ k + 1 = IF t.status = "pending" THEN 0 ELSE 1
                       /\ t.by = None <=> t.status = "pending"
                       /\ t.reason <=> t.status = "rejected"
  <2>1. ~tangled[q] /\ decisions[q] = h.seen
    BY <1>1, <1>8, <1>10
  <2>2. r.status = "pending"
    BY <1>1, <1>2, <1>3, <2>1 DEF DeskInv, GoodDesk
  <2>3. k = 0 /\ ~r.reason
    BY <1>3, <1>4, <2>1, <2>2 DEF DeskInv, GoodRequest
  <2>4. m # None
    BY LeaveDeskAssumption
  <2> QED
    BY <1>5, <1>7, <2>3, <2>4
<1>11. desk' = [desk EXCEPT ![m] = None]
  BY DEF Decide
<1>12. /\ desk' \in [Desks -> Handling \cup {None}]
       /\ \A n \in Desks : desk'[n] = desk[n] \/ desk'[n] = None
  BY <1>11 DEF DeskInv, LeaveDeskTypeOK
<1>13. k + 1 \in Nat /\ k + 1 >= decisions[q] /\ k + 1 > decisions[q]
  BY <1>4
<1> QED
  BY <1>6, <1>7, <1>9, <1>10, <1>12, <1>13, RequestWritten

\* A form may set anything; the request counts as tangled.
LEMMA SaveFormStep ==
  ASSUME DeskInv, NEW m \in Desks, NEW s \in Statuses, NEW reason \in BOOLEAN,
         SaveForm(m, s, reason)
  PROVE  DeskInv'
<1>1. PICK h \in Handling : h = desk[m] /\ desk[m] # None
  BY DEF SaveForm, Holds, DeskInv, LeaveDeskTypeOK
<1>2. PICK q \in Requests : q = h.of
  BY DEF Handling
<1>3. PICK r \in LeaveRequest : r = request[q] /\ request[q] # None
  BY <1>1, <1>2 DEF DeskInv, GoodDesk, LeaveDeskTypeOK
<1>4. PICK k \in Nat : k = decisions[q]
  BY DEF DeskInv, LeaveDeskTypeOK
<1>5. PICK c \in BOOLEAN : c = IF s = "rejected" THEN reason ELSE r.reason
  BY DEF LeaveRequest
<1> DEFINE t == [r EXCEPT !.status = s, !.reason = c]
<1>6. request' = [request EXCEPT ![q] = t]
  <2>1. request' = [request EXCEPT ![q] =
          [request[q] EXCEPT !.status = s,
             !.reason = IF s = "rejected" THEN reason ELSE request[q].reason]]
    BY <1>1, <1>2, <1>3 DEF SaveForm, LeaveRequest
  <2> QED
    BY <1>3, <1>5, <2>1
<1>7. t \in LeaveRequest
  BY DEF LeaveRequest
<1> HIDE DEF t
<1>8. PICK b \in BOOLEAN : b = TRUE
  OBVIOUS
<1>9. /\ decisions' = [decisions EXCEPT ![q] = k]
      /\ tangled' = [tangled EXCEPT ![q] = b]
  <2>1. decisions' = [decisions EXCEPT ![q] = k]
    BY <1>4 DEF SaveForm, DeskInv, LeaveDeskTypeOK
  <2>2. tangled' = [tangled EXCEPT ![q] = b]
    BY <1>1, <1>2, <1>8 DEF SaveForm
  <2> QED
    BY <2>1, <2>2
<1>10. desk' = [desk EXCEPT ![m] = None]
  BY DEF SaveForm
<1>11. /\ desk' \in [Desks -> Handling \cup {None}]
       /\ \A n \in Desks : desk'[n] = desk[n] \/ desk'[n] = None
  BY <1>10 DEF DeskInv, LeaveDeskTypeOK
<1>12. k >= decisions[q]
  BY <1>4
<1> QED
  BY <1>6, <1>7, <1>8, <1>9, <1>11, <1>12, RequestWritten

\* What is done with leave requests.
LeaveMove ==
  \/ \E q \in Requests : \/ Delete(q)
                         \/ \E s \in Statuses, reason \in BOOLEAN : Submit(q, s, reason)
  \/ \E m \in Desks : DeskOpen(m) \/ DeskStep(m)

LEMMA LeaveStep == DeskInv /\ (LeaveMove \/ UNCHANGED leaveVars) => DeskInv'
<1> SUFFICES ASSUME DeskInv, LeaveMove \/ UNCHANGED leaveVars PROVE DeskInv'
  OBVIOUS
<1>1. CASE UNCHANGED leaveVars
  BY <1>1 DEF leaveVars, DeskInv, LeaveDeskTypeOK, GoodRequest, GoodDesk
<1>2. ASSUME NEW m \in Desks, DeskOpen(m) PROVE DeskInv'
  <2>1. PICK q \in Requests : LoadPending(m, q) \/ OpenForm(m, q)
    BY <1>2 DEF DeskOpen
  <2>2. PICK k \in Nat : k = decisions[q]
    BY DEF DeskInv, LeaveDeskTypeOK
  <2>3. ASSUME LoadPending(m, q) PROVE DeskInv'
    <3> DEFINE s == [kind |-> "decide", of |-> q, seen |-> k]
    <3>1. s \in Handling /\ s.of = q /\ s.seen = k
      BY DEF Handling
    <3>2. desk' = [desk EXCEPT ![m] = s]
      BY <2>2, <2>3 DEF LoadPending
    <3> HIDE DEF s
    <3>3. /\ request[s.of] # None /\ s.seen = decisions[s.of]
          /\ request[s.of].status = "pending"
          /\ UNCHANGED <<request, decisions, tangled>>
      BY <2>2, <2>3, <3>1 DEF LoadPending, Visible
    <3> QED
      BY <3>1, <3>2, <3>3, DeskMoved
  <2>4. ASSUME OpenForm(m, q) PROVE DeskInv'
    <3> DEFINE s == [kind |-> "form", of |-> q, seen |-> k]
    <3>1. s \in Handling /\ s.of = q /\ s.seen = k /\ s.kind # "decide"
      BY DEF Handling
    <3>2. desk' = [desk EXCEPT ![m] = s]
      BY <2>2, <2>4 DEF OpenForm
    <3> HIDE DEF s
    <3>3. /\ request[s.of] # None /\ s.seen = decisions[s.of]
          /\ UNCHANGED <<request, decisions, tangled>>
      BY <2>2, <2>4, <3>1 DEF OpenForm
    <3> QED
      BY <3>1, <3>2, <3>3, DeskMoved
  <2> QED
    BY <2>1, <2>3, <2>4
<1>3. ASSUME NEW m \in Desks, DeskStep(m) PROVE DeskInv'
  <2>1. CASE Approve(m)
    BY <2>1, DecideStep DEF Approve
  <2>2. CASE Reject(m)
    BY <2>2, DecideStep DEF Reject
  <2>3. CASE CloseDesk(m)
    BY <2>3, DeskMoved DEF CloseDesk
  <2> QED
    BY <1>3, <2>1, <2>2, <2>3, SaveFormStep DEF DeskStep
<1> QED
  BY <1>1, <1>2, <1>3, SubmitStep, DeleteStep DEF LeaveMove

-----------------------------------------------------------------------------
(* The days, and the streaks that are shown of them. *)

\* Something of the days changes, for the users S and no others; D are the
\* days concerned.
DaysOf(D, S) ==
  \/ \E u \in Users, d \in Days, s \in Status \cup {None} :
       LogChanges(u, d, s) /\ D = {d} /\ S = {u}
  \/ \E u \in Users, d \in Days, n \in 0..MaxLeaves :
       LeaveChanges(u, d, n) /\ D = {d} /\ S = {u}
  \/ \E d \in Days : HolidayChanges(d) /\ D = {d} /\ S = Users
  \/ \E u \in Users : StaffChanges(u) /\ D = Days /\ S = {}
  \/ NextDay /\ D = {} /\ S = Users

LEMMA DaysStep ==
  ASSUME WorkDaysTypeOK, NEW D, NEW S, DaysOf(D, S)
  PROVE  WorkDaysTypeOK'
<1>1. ASSUME NEW u \in Users, NEW d \in Days, NEW s \in Status \cup {None},
             LogChanges(u, d, s)
      PROVE  WorkDaysTypeOK'
  BY <1>1 DEF LogChanges, WorkDaysTypeOK
<1>2. ASSUME NEW u \in Users, NEW d \in Days, NEW n \in 0..MaxLeaves,
             LeaveChanges(u, d, n)
      PROVE  WorkDaysTypeOK'
  BY <1>2 DEF LeaveChanges, WorkDaysTypeOK
<1>3. ASSUME NEW d \in Days, HolidayChanges(d) PROVE WorkDaysTypeOK'
  BY <1>3 DEF HolidayChanges, WorkDaysTypeOK
<1>4. ASSUME NEW u \in Users, StaffChanges(u) PROVE WorkDaysTypeOK'
  BY <1>4 DEF StaffChanges, WorkDaysTypeOK
<1>5. ASSUME NextDay PROVE WorkDaysTypeOK'
  BY <1>5, WorkDaysAssumption DEF NextDay, WorkDaysTypeOK, Days
<1> QED
  BY <1>1, <1>2, <1>3, <1>4, <1>5 DEF DaysOf

\* The streak of anyone else depends on nothing that changes.
LEMMA OthersKeepTheirStreak ==
  ASSUME WorkDaysTypeOK, NEW D, NEW S, DaysOf(D, S), NEW u \in Users \ S
  PROVE  /\ Attended(u)' = Attended(u) /\ OnLeaveDays(u)' = OnLeaveDays(u)
         /\ UNCHANGED <<holidays, today>>
<1>1. ASSUME NEW w \in Users, NEW d \in Days, NEW s, LogChanges(w, d, s), w # u
      PROVE  logs'[u] = logs[u] /\ UNCHANGED <<leaves, holidays, today>>
  BY <1>1 DEF LogChanges, WorkDaysTypeOK
<1>2. ASSUME NEW w \in Users, NEW d \in Days, NEW n, LeaveChanges(w, d, n), w # u
      PROVE  leaves'[u] = leaves[u] /\ UNCHANGED <<logs, holidays, today>>
  BY <1>2 DEF LeaveChanges, WorkDaysTypeOK
<1>3. ASSUME NEW w \in Users, StaffChanges(w)
      PROVE  UNCHANGED <<logs, leaves, holidays, today>>
  BY <1>3 DEF StaffChanges
<1>4. logs'[u] = logs[u] /\ leaves'[u] = leaves[u] /\ UNCHANGED <<holidays, today>>
  BY <1>1, <1>2, <1>3 DEF DaysOf
<1> QED
  BY <1>4 DEF Attended, OnLeaveDays

\* An entry of the cache is the streak, or gone within the ten minutes of the
\* change that made it wrong.
GoodEntry(u) ==
  cache[u][today] # None =>
    \/ cache[u][today].value = TrueStreak(u)
    \/ cache[u][today].until =< changedAt[u] + TTL

\* So is what a request is about to store.
GoodView(s) ==
  \/ s.until =< changedAt[s.user] + TTL
  \/ /\ s.key = today
     /\ s.at # "logs" => s.from = today /\ s.attended = Attended(s.user)
     /\ s.at = "holidays" => s.excused = OnLeaveDays(s.user)

\* The part of the types that does not depend on what a streak is.
StreakTypes ==
  /\ clock \in Nat
  /\ cache = [u \in Users |-> [d \in Days |-> cache[u][d]]]
  /\ view \in [Viewers -> View \cup {None}]
  /\ changedAt \in [Users -> Nat]

StreakInv ==
  /\ StreakTypes
  /\ \A u \in Users : changedAt[u] =< clock
  /\ \A u \in Users, d \in Days :
       cache[u][d] # None => cache[u][d].until \in Nat /\ cache[u][d].until =< clock + TTL
  /\ \A u \in Users : GoodEntry(u)
  /\ \A v \in Viewers : view[v] # None => view[v].until =< clock + TTL /\ GoodView(view[v])

\* A change makes what is wrong from now on expire in time.
LEMMA StreakUnderChange ==
  ASSUME WorkDaysTypeOK, StreakInv, NEW D, NEW S \in SUBSET Users, DaysOf(D, S), Touch(S),
         UNCHANGED <<clock, cache, view>>
  PROVE  StreakInv'
<1>1. /\ changedAt' = [u \in Users |-> IF u \in S THEN clock ELSE changedAt[u]]
      /\ \A u \in S : changedAt'[u] = clock
      /\ \A u \in Users \ S : changedAt'[u] = changedAt[u]
  BY DEF Touch
<1>2. StreakTypes' /\ \A u \in Users : changedAt'[u] =< clock'
  BY <1>1 DEF StreakInv, StreakTypes
<1>3. today' \in Days
  BY DaysStep DEF WorkDaysTypeOK
<1>4. ASSUME NEW u \in Users PROVE GoodEntry(u)'
  <2>1. CASE u \in S
    <3>1. cache[u][today'] # None => cache[u][today'].until =< clock + TTL
      BY <1>3 DEF StreakInv
    <3> QED
      BY <1>1, <2>1, <3>1 DEF GoodEntry
  <2>2. CASE u \notin S
    <3>1. /\ Attended(u)' = Attended(u) /\ OnLeaveDays(u)' = OnLeaveDays(u)
          /\ UNCHANGED <<holidays, today>>
      BY <2>2, OthersKeepTheirStreak
    <3>2. TrueStreak(u)' = TrueStreak(u)
      BY <3>1 DEF TrueStreak
    <3>3. GoodEntry(u)
      BY DEF StreakInv
    <3> QED
      BY <1>1, <2>2, <3>1, <3>2, <3>3 DEF GoodEntry
  <2> QED
    BY <2>1, <2>2
<1>5. ASSUME NEW v \in Viewers, view[v] # None
      PROVE  view[v].until =< clock + TTL /\ GoodView(view[v])'
  <2>1. PICK s \in View : s = view[v]
    BY <1>5 DEF StreakInv, StreakTypes
  <2>2. s.user \in Users /\ s.until =< clock + TTL /\ GoodView(s)
    BY <1>5, <2>1 DEF StreakInv, View
  <2>3. ASSUME s.user \in S PROVE GoodView(s)'
    BY <1>1, <2>2, <2>3 DEF GoodView
  <2>4. ASSUME s.user \notin S PROVE GoodView(s)'
    <3>1. /\ Attended(s.user)' = Attended(s.user)
          /\ OnLeaveDays(s.user)' = OnLeaveDays(s.user)
          /\ UNCHANGED <<holidays, today>>
      BY <2>2, <2>4, OthersKeepTheirStreak
    <3> QED
      BY <1>1, <2>2, <2>4, <3>1 DEF GoodView
  <2> QED
    BY <2>1, <2>2, <2>3, <2>4 DEF GoodView
<1>6. \A u \in Users, d \in Days :
        cache'[u][d] # None => cache'[u][d].until \in Nat /\ cache'[u][d].until =< clock' + TTL
  BY DEF StreakInv
<1>7. \A v \in Viewers : view'[v] # None => view'[v].until =< clock' + TTL /\ GoodView(view[v])'
  BY <1>5
<1> QED
  BY <1>2, <1>4, <1>6, <1>7 DEF StreakInv

\* Requests move in memory only, but for the entry they store.
LEMMA StreakQuiet ==
  ASSUME StreakInv, NEW v \in Viewers, NEW s \in View \cup {None},
         view' = [view EXCEPT ![v] = s],
         UNCHANGED <<clock, cache, changedAt, today, logs, leaves, holidays>>,
         s # None => s.until =< clock + TTL /\ GoodView(s)
  PROVE  StreakInv'
<1>1. StreakTypes'
  BY DEF StreakInv, StreakTypes
<1>2. \A u \in Users : Attended(u)' = Attended(u) /\ OnLeaveDays(u)' = OnLeaveDays(u)
  BY DEF Attended, OnLeaveDays
<1>3. \A u \in Users : TrueStreak(u)' = TrueStreak(u)
  BY <1>2 DEF TrueStreak
<1>4. \A u \in Users : GoodEntry(u)'
  BY <1>3 DEF StreakInv, GoodEntry
<1>5. ASSUME NEW t \in View, GoodView(t) PROVE GoodView(t)'
  <2>1. t.user \in Users
    BY DEF View
  <2> QED
    BY <1>2, <1>5, <2>1 DEF GoodView
<1>6. ASSUME NEW w \in Viewers, view'[w] # None
      PROVE  view'[w].until =< clock' + TTL /\ GoodView(view[w])'
  <2>1. PICK t \in View : t = view'[w]
    BY <1>1, <1>6 DEF StreakTypes
  <2>2. t.until =< clock + TTL /\ GoodView(t)
    <3>1. CASE w = v
      BY <1>6, <2>1, <3>1 DEF StreakInv, StreakTypes
    <3>2. CASE w # v
      BY <1>6, <2>1, <3>2 DEF StreakInv, StreakTypes
    <3> QED
      BY <3>1, <3>2
  <2>3. GoodView(t)'
    BY <1>5, <2>2
  <2> QED
    BY <2>1, <2>2, <2>3 DEF GoodView
<1> QED
  BY <1>1, <1>4, <1>6 DEF StreakInv

LEMMA MissStep ==
  ASSUME WorkDaysTypeOK, StreakInv, NEW v \in Viewers, NEW u \in Users, Miss(v, u),
         UNCHANGED dayVars
  PROVE  StreakInv'
<1> DEFINE s == [user |-> u, key |-> today, until |-> clock + TTL, at |-> "logs",
                 from |-> today, attended |-> {}, excused |-> {}]
<1>1. s \in View /\ s.until = clock + TTL /\ s.key = today /\ s.at = "logs"
  <2>1. clock + TTL \in Nat /\ today \in Days
    BY StreaksAssumption DEF StreakInv, StreakTypes, WorkDaysTypeOK
  <2> QED
    BY <2>1 DEF View
<1>2. view' = [view EXCEPT ![v] = s]
  BY DEF Miss
<1>3. clock + TTL \in Nat
  BY StreaksAssumption DEF StreakInv, StreakTypes
<1> HIDE DEF s
<1>4. s.until =< clock + TTL /\ GoodView(s)
  BY <1>1, <1>3 DEF GoodView
<1>5. UNCHANGED <<clock, cache, changedAt, today, logs, leaves, holidays>>
  BY DEF Miss, dayVars
<1> QED
  BY <1>1, <1>2, <1>4, <1>5, StreakQuiet

LEMMA QueryLogsStep ==
  ASSUME WorkDaysTypeOK, StreakInv, NEW v \in Viewers, QueryLogs(v), UNCHANGED dayVars
  PROVE  StreakInv'
<1>1. PICK s \in View : s = view[v] /\ view[v] # None /\ s.at = "logs"
  BY DEF QueryLogs, Viewing, StreakInv, StreakTypes
<1>2. s.until =< clock + TTL /\ GoodView(s) /\ s.user \in Users
  BY <1>1 DEF StreakInv, View
<1>3. PICK a \in SUBSET Days : a = Attended(s.user)
  BY DEF Attended
<1>4. PICK d \in Days : d = today
  BY DEF WorkDaysTypeOK
<1> DEFINE t == [s EXCEPT !.from = d, !.attended = a, !.at = "leaves"]
<1>5. view' = [view EXCEPT ![v] = t]
  BY <1>1, <1>3, <1>4 DEF QueryLogs
<1>6. /\ t \in View /\ t.user = s.user /\ t.until = s.until /\ t.key = s.key
      /\ t.from = d /\ t.attended = a /\ t.at = "leaves"
  BY DEF View
<1> HIDE DEF t
<1>7. t.until =< clock + TTL /\ GoodView(t)
  BY <1>1, <1>2, <1>3, <1>4, <1>6 DEF GoodView
<1>8. UNCHANGED <<clock, cache, changedAt, today, logs, leaves, holidays>>
  BY DEF QueryLogs, dayVars
<1> QED
  BY <1>5, <1>6, <1>7, <1>8, StreakQuiet

LEMMA QueryLeavesStep ==
  ASSUME WorkDaysTypeOK, StreakInv, NEW v \in Viewers, QueryLeaves(v), UNCHANGED dayVars
  PROVE  StreakInv'
<1>1. PICK s \in View : s = view[v] /\ view[v] # None /\ s.at = "leaves"
  BY DEF QueryLeaves, Viewing, StreakInv, StreakTypes
<1>2. s.until =< clock + TTL /\ GoodView(s) /\ s.user \in Users
  BY <1>1 DEF StreakInv, View
<1>3. PICK a \in SUBSET Days : a = OnLeaveDays(s.user)
  BY DEF OnLeaveDays
<1> DEFINE t == [s EXCEPT !.excused = a, !.at = "holidays"]
<1>4. view' = [view EXCEPT ![v] = t]
  BY <1>1, <1>3 DEF QueryLeaves
<1>5. /\ t \in View /\ t.user = s.user /\ t.until = s.until /\ t.key = s.key
      /\ t.from = s.from /\ t.attended = s.attended /\ t.excused = a
      /\ t.at = "holidays"
  BY DEF View
<1> HIDE DEF t
<1>6. t.until =< clock + TTL /\ GoodView(t)
  BY <1>1, <1>2, <1>3, <1>5 DEF GoodView
<1>7. UNCHANGED <<clock, cache, changedAt, today, logs, leaves, holidays>>
  BY DEF QueryLeaves, dayVars
<1> QED
  BY <1>4, <1>5, <1>6, <1>7, StreakQuiet

\* The loop runs over what the queries saw: the streak, or what is gone in
\* time.
LEMMA StoreStep ==
  ASSUME WorkDaysTypeOK, StreakInv, NEW v \in Viewers, Store(v), UNCHANGED dayVars
  PROVE  StreakInv'
<1>1. PICK s \in View : s = view[v] /\ view[v] # None /\ s.at = "holidays"
  BY DEF Store, Viewing, StreakInv, StreakTypes
<1>2. /\ s.until =< clock + TTL /\ GoodView(s) /\ s.user \in Users /\ s.key \in Days
      /\ s.until \in Nat
  BY <1>1 DEF StreakInv, View
<1> DEFINE value == Streak(s.attended, Weekend \cup holidays \cup s.excused, s.from)
<1> DEFINE entry == IF s.until > clock THEN [value |-> value, until |-> s.until] ELSE None
<1>3. /\ cache' = [cache EXCEPT ![s.user][s.key] = entry]
      /\ view' = [view EXCEPT ![v] = None]
      /\ UNCHANGED <<clock, changedAt, today, logs, leaves, holidays>>
  BY <1>1 DEF Store, Expiry, dayVars
<1>4. entry # None => entry.value = value /\ entry.until = s.until
  OBVIOUS
<1>5. /\ cache'[s.user][s.key] = entry
      /\ \A u \in Users, d \in Days :
           u # s.user \/ d # s.key => cache'[u][d] = cache[u][d]
  <2> HIDE DEF entry
  <2>1. cache = [u \in Users |-> [d \in Days |-> cache[u][d]]]
    BY DEF StreakInv, StreakTypes
  <2> QED
    BY <1>2, <1>3, <2>1
<1>6. cache' = [u \in Users |-> [d \in Days |-> cache'[u][d]]]
  <2> HIDE DEF entry
  <2>1. cache = [u \in Users |-> [d \in Days |-> cache[u][d]]]
    BY DEF StreakInv, StreakTypes
  <2> QED
    BY <1>2, <1>3, <2>1
<1> HIDE DEF entry
<1>7. StreakTypes'
  <2>1. clock' \in Nat /\ changedAt' \in [Users -> Nat]
    BY <1>3 DEF StreakInv, StreakTypes
  <2>2. view' \in [Viewers -> View \cup {None}]
    BY <1>3 DEF StreakInv, StreakTypes
  <2> QED
    BY <1>6, <2>1, <2>2 DEF StreakTypes
<1>8. ASSUME NEW u \in Users, NEW d \in Days, cache'[u][d] # None
      PROVE  cache'[u][d].until \in Nat /\ cache'[u][d].until =< clock' + TTL
  <2>1. CASE u = s.user /\ d = s.key
    BY <1>2, <1>3, <1>4, <1>5, <1>8, <2>1
  <2>2. CASE u # s.user \/ d # s.key
    BY <1>3, <1>5, <1>8, <2>2 DEF StreakInv
  <2> QED
    BY <2>1, <2>2
<1>9. /\ \A u \in Users : Attended(u)' = Attended(u) /\ OnLeaveDays(u)' = OnLeaveDays(u)
      /\ \A u \in Users : TrueStreak(u)' = TrueStreak(u)
  <2>1. \A u \in Users : Attended(u)' = Attended(u) /\ OnLeaveDays(u)' = OnLeaveDays(u)
    BY <1>3 DEF Attended, OnLeaveDays
  <2> QED
    BY <1>3, <2>1 DEF TrueStreak
<1>10. ASSUME NEW u \in Users PROVE GoodEntry(u)'
  <2>1. CASE u = s.user /\ today = s.key
    <3>1. CASE s.until =< changedAt[s.user] + TTL
      BY <1>3, <1>4, <1>5, <2>1, <3>1 DEF GoodEntry
    <3>2. CASE s.from = today /\ s.attended = Attended(s.user) /\ s.excused = OnLeaveDays(s.user)
      <4>1. value = TrueStreak(u)
        BY <2>1, <3>2 DEF TrueStreak
      <4> HIDE DEF value
      <4> QED
        BY <1>3, <1>4, <1>5, <1>9, <2>1, <4>1 DEF GoodEntry
    <3> QED
      BY <1>1, <1>2, <3>1, <3>2 DEF GoodView
  <2>2. CASE u # s.user \/ today # s.key
    <3>1. cache'[u][today'] = cache[u][today]
      BY <1>3, <1>5, <2>2 DEF WorkDaysTypeOK
    <3> QED
      BY <1>3, <1>9, <3>1 DEF GoodEntry, StreakInv
  <2> QED
    BY <2>1, <2>2
<1>11. ASSUME NEW w \in Viewers, view'[w] # None
       PROVE  view'[w].until =< clock' + TTL /\ GoodView(view[w])'
  <2>1. w # v /\ view'[w] = view[w]
    BY <1>3, <1>11 DEF StreakInv, StreakTypes
  <2>2. PICK t \in View : t = view[w]
    BY <1>11, <2>1 DEF StreakInv, StreakTypes
  <2>3. t.until =< clock + TTL /\ GoodView(t) /\ t.user \in Users
    BY <1>11, <2>1, <2>2 DEF StreakInv, View
  <2>4. GoodView(t)'
    BY <1>3, <1>9, <2>3 DEF GoodView
  <2> QED
    BY <1>3, <2>1, <2>2, <2>3, <2>4 DEF GoodView
<1>12. \A u \in Users : changedAt'[u] =< clock'
  BY <1>3 DEF StreakInv
<1> QED
  BY <1>7, <1>8, <1>10, <1>11, <1>12 DEF StreakInv

\* Time passes.
LEMMA TickStep ==
  ASSUME StreakInv, Tick, UNCHANGED dayVars
  PROVE  StreakInv'
<1>1. /\ clock' = clock + 1 /\ UNCHANGED <<cache, view, changedAt, today, logs, leaves, holidays>>
      /\ clock \in Nat /\ TTL \in Nat
  BY StreaksAssumption DEF Tick, dayVars, StreakInv, StreakTypes
<1>2. StreakTypes' /\ \A u \in Users : changedAt'[u] =< clock'
  BY <1>1 DEF StreakInv, StreakTypes
<1>3. \A u \in Users : Attended(u)' = Attended(u) /\ OnLeaveDays(u)' = OnLeaveDays(u)
  BY <1>1 DEF Attended, OnLeaveDays
<1>4. \A u \in Users : TrueStreak(u)' = TrueStreak(u)
  BY <1>1, <1>3 DEF TrueStreak
<1>5. \A u \in Users : GoodEntry(u)'
  BY <1>1, <1>4 DEF StreakInv, GoodEntry
<1>6. \A u \in Users, d \in Days :
        cache'[u][d] # None => cache'[u][d].until \in Nat /\ cache'[u][d].until =< clock' + TTL
  BY <1>1 DEF StreakInv
<1>7. ASSUME NEW w \in Viewers, view'[w] # None
      PROVE  view'[w].until =< clock' + TTL /\ GoodView(view[w])'
  <2>1. PICK t \in View : t = view[w]
    BY <1>1, <1>7 DEF StreakInv, StreakTypes
  <2>2. t.until =< clock + TTL /\ GoodView(t) /\ t.user \in Users /\ t.until \in Nat
    BY <1>1, <1>7, <2>1 DEF StreakInv, View
  <2>3. GoodView(t)'
    BY <1>1, <1>3, <2>2 DEF GoodView
  <2> QED
    BY <1>1, <2>1, <2>2, <2>3 DEF GoodView
<1> QED
  BY <1>2, <1>5, <1>6, <1>7 DEF StreakInv

\* What a request that shows a streak does, and what leaves days and streaks alone.
StreakMove ==
  \/ /\ \E D \in SUBSET Days, S \in SUBSET Users : DaysOf(D, S) /\ Touch(S)
     /\ UNCHANGED <<clock, cache, view>>
  \/ /\ \E v \in Viewers : ViewStep(v) \/ \E u \in Users : Miss(v, u)
     /\ UNCHANGED dayVars
  \/ Tick /\ UNCHANGED dayVars
  \/ UNCHANGED <<dayVars, streakVars>>

LEMMA StreakStep ==
  ASSUME WorkDaysTypeOK, StreakInv, StreakMove
  PROVE  StreakInv'
<1>1. ASSUME NEW D, NEW S \in SUBSET Users, DaysOf(D, S), Touch(S),
             UNCHANGED <<clock, cache, view>>
      PROVE  StreakInv'
  BY <1>1, StreakUnderChange
<1>2. ASSUME NEW v \in Viewers, ViewStep(v), UNCHANGED dayVars PROVE StreakInv'
  <2>1. CASE KillView(v)
    BY <1>2, <2>1, StreakQuiet DEF KillView, dayVars
  <2> QED
    BY <1>2, <2>1, QueryLogsStep, QueryLeavesStep, StoreStep DEF ViewStep
<1>3. ASSUME UNCHANGED <<dayVars, streakVars>> PROVE StreakInv'
  <2>1. UNCHANGED <<today, logs, leaves, holidays, clock, cache, view, changedAt>>
    BY <1>3 DEF dayVars, streakVars
  <2>2. \A u \in Users : Attended(u)' = Attended(u) /\ OnLeaveDays(u)' = OnLeaveDays(u)
    BY <2>1 DEF Attended, OnLeaveDays
  <2>3. \A u \in Users : TrueStreak(u)' = TrueStreak(u)
    BY <2>1, <2>2 DEF TrueStreak
  <2>4. \A u \in Users : GoodEntry(u)'
    BY <2>1, <2>3 DEF GoodEntry, StreakInv
  <2>5. ASSUME NEW w \in Viewers, view'[w] # None
        PROVE  view'[w].until =< clock' + TTL /\ GoodView(view[w])'
    <3>1. PICK t \in View : t = view[w]
      BY <2>1, <2>5 DEF StreakInv, StreakTypes
    <3>2. t.until =< clock + TTL /\ GoodView(t) /\ t.user \in Users
      BY <2>1, <2>5, <3>1 DEF StreakInv, View
    <3>3. GoodView(t)'
      BY <2>1, <2>2, <3>2 DEF GoodView
    <3> QED
      BY <2>1, <3>1, <3>2, <3>3 DEF GoodView
  <2>6. StreakTypes'
    BY <2>1 DEF StreakInv, StreakTypes
  <2> QED
    BY <2>1, <2>4, <2>5, <2>6 DEF StreakInv
<1> QED
  BY <1>1, <1>2, <1>3, MissStep, TickStep DEF StreakMove

-----------------------------------------------------------------------------
(* The figures of a day. *)

LoggedOn(d) == {u \in Users : logs[u][d] # None}

LateOn(d) == {u \in LoggedOn(d) : logs[u][d] = "late"}

\* What a run that nothing disturbs comes to.
TrueFig(d) ==
  [present |-> IF DayOff(d) THEN 0 ELSE Cardinality(LoggedOn(d)),
   late    |-> IF DayOff(d) THEN 0 ELSE Cardinality(LateOn(d)),
   absent  |-> IF DayOff(d) THEN 0
               ELSE Absent(Cardinality(active), Cardinality(LoggedOn(d)),
                           OnLeave(active, d)),
   total   |-> Cardinality(active)]

LEMMA CountsAreNumbers ==
  ASSUME WorkDaysTypeOK, NEW d \in Days, NEW S \in SUBSET Users
  PROVE  /\ IsFiniteSet(S) /\ Cardinality(S) \in Nat
         /\ OnLeave(S, d) \in Nat
         /\ Cardinality({u \in S : leaves[u][d] > 0}) =< OnLeave(S, d)
<1> DEFINE pairs == {p \in S \X (1..MaxLeaves) : p[2] =< leaves[p[1]][d]}
<1> DEFINE some == {u \in S : leaves[u][d] > 0}
<1>1. IsFiniteSet(S) /\ Cardinality(S) \in Nat
  <2>1. IsFiniteSet(S)
    BY FS_Subset, WorkDaysAssumption
  <2> QED
    BY <2>1, FS_CardinalityType
<1>2. IsFiniteSet(pairs) /\ Cardinality(pairs) \in Nat
  <2>1. IsFiniteSet(1..MaxLeaves)
    BY FS_Interval, WorkDaysAssumption
  <2>2. IsFiniteSet(S \X (1..MaxLeaves))
    BY <1>1, <2>1, FS_Product
  <2>3. pairs \in SUBSET (S \X (1..MaxLeaves))
    OBVIOUS
  <2>4. IsFiniteSet(pairs)
    BY <2>2, <2>3, FS_Subset
  <2> QED
    BY <2>4, FS_CardinalityType
<1>3. Cardinality(some) =< Cardinality(pairs)
  <2> DEFINE f == [u \in some |-> <<u, 1>>]
  <2>1. ASSUME NEW u \in some PROVE <<u, 1>> \in pairs
    <3>1. leaves[u][d] \in 0..MaxLeaves /\ leaves[u][d] > 0
      BY DEF WorkDaysTypeOK
    <3> QED
      BY <3>1, WorkDaysAssumption
  <2>2. f \in [some -> pairs]
    BY <2>1
  <2>3. \A u, w \in some : f[u] = f[w] => u = w
    OBVIOUS
  <2> HIDE DEF f, some, pairs
  <2>4. f \in Injection(some, pairs)
    BY <2>2, <2>3 DEF Injection, IsInjective
  <2> QED
    BY <1>2, <2>4, FS_Injection
<1>4. OnLeave(S, d) = Cardinality(pairs)
  BY DEF OnLeave
<1> QED
  BY <1>1, <1>2, <1>3, <1>4

LEMMA FiguresAreNumbers ==
  ASSUME WorkDaysTypeOK, NEW d \in Days
  PROVE  /\ TrueFig(d) \in Figures
         /\ Cardinality(LoggedOn(d)) \in Nat /\ Cardinality(LateOn(d)) \in Nat
         /\ Cardinality(active) \in Nat
<1>1. /\ Cardinality(LoggedOn(d)) \in Nat /\ Cardinality(LateOn(d)) \in Nat
      /\ Cardinality(active) \in Nat /\ OnLeave(active, d) \in Nat
  <2>1. LoggedOn(d) \in SUBSET Users /\ LateOn(d) \in SUBSET Users /\ active \in SUBSET Users
    BY DEF LoggedOn, LateOn, WorkDaysTypeOK
  <2> QED
    BY <2>1, CountsAreNumbers
<1>2. Absent(Cardinality(active), Cardinality(LoggedOn(d)), OnLeave(active, d)) \in Nat
  BY <1>1 DEF Absent
<1> QED
  BY <1>1, <1>2 DEF TrueFig, Figures

\* A day is what it was if others change,
LEMMA OtherDaysStand ==
  ASSUME WorkDaysTypeOK, NEW D, NEW S, DaysOf(D, S), NEW d \in Days \ D
  PROVE  /\ \A u \in Users : logs'[u][d] = logs[u][d] /\ leaves'[u][d] = leaves[u][d]
         /\ (d \in holidays' <=> d \in holidays) /\ active' = active
<1>1. ASSUME NEW w \in Users, NEW e \in Days, NEW s, LogChanges(w, e, s), e # d
      PROVE  /\ \A u \in Users : logs'[u][d] = logs[u][d]
             /\ UNCHANGED <<leaves, holidays, active>>
  BY <1>1 DEF LogChanges, WorkDaysTypeOK
<1>2. ASSUME NEW w \in Users, NEW e \in Days, NEW n, LeaveChanges(w, e, n), e # d
      PROVE  /\ \A u \in Users : leaves'[u][d] = leaves[u][d]
             /\ UNCHANGED <<logs, holidays, active>>
  BY <1>2 DEF LeaveChanges, WorkDaysTypeOK
<1>3. ASSUME NEW e \in Days, HolidayChanges(e), e # d
      PROVE  (d \in holidays' <=> d \in holidays) /\ UNCHANGED <<logs, leaves, active>>
  BY <1>3 DEF HolidayChanges
<1>4. ASSUME NextDay PROVE UNCHANGED <<logs, leaves, holidays, active>>
  BY <1>4 DEF NextDay
<1> QED
  BY <1>1, <1>2, <1>3, <1>4 DEF DaysOf

\* and so are its figures.
LEMMA OtherDaysKeepTheirFigures ==
  ASSUME WorkDaysTypeOK, NEW D, NEW S, DaysOf(D, S), NEW d \in Days \ D
  PROVE  /\ DayOff(d)' <=> DayOff(d)
         /\ active' = active /\ TrueFig(d)' = TrueFig(d)
<1>1. /\ \A u \in Users : logs'[u][d] = logs[u][d] /\ leaves'[u][d] = leaves[u][d]
      /\ (d \in holidays' <=> d \in holidays) /\ active' = active
  BY OtherDaysStand
<1>2. LoggedOn(d)' = LoggedOn(d)
  BY <1>1 DEF LoggedOn
<1>3. LateOn(d)' = LateOn(d)
  BY <1>1, <1>2 DEF LateOn, LoggedOn
<1>4. DayOff(d)' <=> DayOff(d)
  BY <1>1 DEF DayOff
<1>5. OnLeave(active, d)' = OnLeave(active, d)
  <2>1. active \subseteq Users
    BY DEF WorkDaysTypeOK
  <2>2. \A p : p \in {q \in active \X (1..MaxLeaves) : q[2] =< leaves'[q[1]][d]}
                 <=> p \in {q \in active \X (1..MaxLeaves) : q[2] =< leaves[q[1]][d]}
    BY <1>1, <2>1
  <2>3. {q \in active \X (1..MaxLeaves) : q[2] =< leaves'[q[1]][d]}
          = {q \in active \X (1..MaxLeaves) : q[2] =< leaves[q[1]][d]}
    BY <2>2
  <2> QED
    BY <1>1, <2>3 DEF OnLeave
<1> QED
  BY <1>1, <1>2, <1>3, <1>4, <1>5 DEF TrueFig

-----------------------------------------------------------------------------
(* The runs of the analysis. *)

Same(f, g) ==
  f.present = g.present /\ f.late = g.late /\ f.absent = g.absent /\ f.total = g.total

\* What a run has when nothing was changed under it: the part of the figures
\* it has come to, the snapshot that is theirs, the alerts they call for.
GoodRun(s) ==
  LET true == TrueFig(s.day)
      snapshot == snapshots[s.day] IN
  /\ s.at \in {"find", "write"} => s.half = "snapshot"
  /\ s.at \in {"low", "late", "done"} => s.half = "alerts"
  /\ s.still =>
       /\ s.at = "day" /\ s.half = "snapshot" => s.fig = Zero
       /\ s.at \in {"logs", "staff", "leaves"} => ~DayOff(s.day)
       /\ s.at = "logs" => s.fig = Zero
       /\ s.at \in {"staff", "leaves"} =>
            /\ s.fig.present = true.present /\ s.fig.late = true.late
            /\ s.fig.absent = 0
       /\ s.at = "leaves" => s.staff = active
       /\ s.at = "total" =>
            /\ s.fig.present = true.present /\ s.fig.late = true.late
            /\ s.fig.absent = true.absent
       /\ s.at \in {"find", "write"} => Same(s.fig, true)
       /\ s.at = "write" => s.row = snapshot
       /\ s.half = "alerts" => snapshot # None /\ Same(snapshot, true)
       /\ s.half = "alerts" /\ s.at \in {"day", "low", "late", "done"} => Same(s.fig, true)
       /\ s.at \notin {"late", "done"} => s.raised = {}
       /\ s.at \in {"late", "done"} =>
            ("low_attendance" \in s.raised <=> LowAttendance(true))
       /\ s.at = "late" => "mass_late" \notin s.raised
       /\ s.at = "done" => ("mass_late" \in s.raised <=> MassLate(true))

RunsInv ==
  /\ run \in [Runs -> Run \cup {None}]
  /\ snapshots \in [Days -> Figures \cup {None}]
  /\ \A r \in Runs : run[r] # None => GoodRun(run[r])

LEMMA RunFields ==
  ASSUME NEW s \in Run
  PROVE  /\ s.day \in Days /\ s.half \in {"snapshot", "alerts"}
         /\ s.at \in {"day", "logs", "staff", "leaves", "total", "find", "write",
                      "low", "late", "done"}
         /\ s.fig \in Figures /\ s.row \in Figures \cup {None} /\ s.staff \in SUBSET Users
         /\ s.raised \in SUBSET AlertTypes /\ s.still \in BOOLEAN
         /\ s.moved \in SUBSET Users /\ s # None
  BY AnalysisAssumption DEF Run

\* Figures are equal when their columns are.
LEMMA SameFigures ==
  ASSUME NEW f \in Figures, NEW g \in Figures, Same(f, g)
  PROVE  f = g
  BY DEF Same, Figures

\* A run advances; what it relies on stays.
LEMMA RunAdvances ==
  ASSUME RunsInv, NEW r \in Runs, NEW s \in Run \cup {None},
         run' = [run EXCEPT ![r] = s], UNCHANGED <<snapshots, dayVars>>,
         s # None => GoodRun(s)
  PROVE  RunsInv'
<1>1. run' \in [Runs -> Run \cup {None}] /\ snapshots' \in [Days -> Figures \cup {None}]
  BY DEF RunsInv
<1>2. ASSUME NEW q \in Runs, run'[q] # None PROVE GoodRun(run[q])'
  <2>1. PICK t \in Run : t = run'[q]
    BY <1>1, <1>2
  <2>2. GoodRun(t)
    <3>1. CASE q = r
      BY <1>2, <2>1, <3>1 DEF RunsInv
    <3>2. CASE q # r
      BY <1>2, <2>1, <3>2 DEF RunsInv
    <3> QED
      BY <3>1, <3>2
  <2>3. /\ DayOff(t.day)' <=> DayOff(t.day)
        /\ TrueFig(t.day)' = TrueFig(t.day)
        /\ active' = active /\ snapshots' = snapshots
    BY DEF dayVars, DayOff, TrueFig, LoggedOn, LateOn, OnLeave
  <2>4. GoodRun(t)'
    BY <2>2, <2>3 DEF GoodRun
  <2> QED
    BY <2>1, <2>4 DEF GoodRun
<1> QED
  BY <1>1, <1>2 DEF RunsInv

LEMMA StartRunStep ==
  ASSUME WorkDaysTypeOK, RunsInv, NEW r \in Runs, NEW d \in Days, StartRun(r, d),
         UNCHANGED dayVars
  PROVE  RunsInv'
<1> DEFINE s == [day |-> d, half |-> "snapshot", at |-> "day", fig |-> Zero, row |-> None,
                 staff |-> {}, raised |-> {}, still |-> TRUE, moved |-> {}]
<1>1. /\ s \in Run /\ s.half = "snapshot" /\ s.at = "day" /\ s.fig = Zero
      /\ s.raised = {}
  <2>1. Zero \in Figures
    BY DEF Zero, Figures
  <2> QED
    BY <2>1 DEF Run
<1>2. run' = [run EXCEPT ![r] = s] /\ UNCHANGED snapshots
  BY DEF StartRun
<1> HIDE DEF s
<1>3. GoodRun(s)
  BY <1>1 DEF GoodRun
<1> QED
  BY <1>1, <1>2, <1>3, RunAdvances

LEMMA CheckDayStep ==
  ASSUME WorkDaysTypeOK, RunsInv, NEW r \in Runs, CheckDay(r), UNCHANGED dayVars
  PROVE  RunsInv'
<1>1. PICK s \in Run : s = run[r] /\ run[r] # None /\ s.at = "day"
  BY DEF CheckDay, Step, RunsInv
<1>2. GoodRun(s) /\ s.day \in Days
  BY <1>1, RunFields DEF RunsInv
<1>3. PICK a \in {"total", "logs"} : a = IF DayOff(s.day) THEN "total" ELSE "logs"
  OBVIOUS
<1> DEFINE t == [s EXCEPT !.fig = Zero, !.moved = {}, !.at = a]
<1>4. run' = [run EXCEPT ![r] = t] /\ UNCHANGED snapshots
  BY <1>1, <1>3 DEF CheckDay, Step
<1>5. /\ t \in Run /\ t.day = s.day /\ t.half = s.half /\ t.at = a /\ t.fig = Zero
      /\ t.row = s.row /\ t.staff = s.staff /\ t.raised = s.raised /\ t.still = s.still
  <2>1. Zero \in Figures
    BY DEF Zero, Figures
  <2> QED
    BY <2>1 DEF Run
<1> HIDE DEF t
<1>6. DayOff(s.day) => /\ TrueFig(s.day).present = 0 /\ TrueFig(s.day).late = 0
                       /\ TrueFig(s.day).absent = 0
  BY DEF TrueFig
<1>7. Zero.present = 0 /\ Zero.late = 0 /\ Zero.absent = 0
  BY DEF Zero
<1>8. GoodRun(t)
  BY <1>1, <1>2, <1>3, <1>5, <1>6, <1>7 DEF GoodRun
<1> QED
  BY <1>4, <1>5, <1>8, RunAdvances

LEMMA ReadLogsStep ==
  ASSUME WorkDaysTypeOK, RunsInv, NEW r \in Runs, ReadLogs(r), UNCHANGED dayVars
  PROVE  RunsInv'
<1>1. PICK s \in Run : s = run[r] /\ run[r] # None /\ s.at = "logs"
  BY DEF ReadLogs, Step, RunsInv
<1>2. GoodRun(s) /\ s.day \in Days /\ s.fig \in Figures
  BY <1>1, RunFields DEF RunsInv
<1>3. PICK p \in Nat : p = Cardinality(LoggedOn(s.day))
  BY <1>2, FiguresAreNumbers
<1>4. PICK l \in Nat : l = Cardinality(LateOn(s.day))
  BY <1>2, FiguresAreNumbers
<1>5. PICK g \in Figures : g = s.fig
  BY <1>2
<1> DEFINE f == [g EXCEPT !.present = p, !.late = l]
<1>6. f \in Figures /\ f.present = p /\ f.late = l /\ f.absent = g.absent
  BY DEF Figures
<1> DEFINE t == [s EXCEPT !.at = "staff", !.fig = f]
<1>7. run' = [run EXCEPT ![r] = t] /\ UNCHANGED snapshots
  <2>1. /\ {u \in Users : logs[u][s.day] # None} = LoggedOn(s.day)
        /\ {u \in LoggedOn(s.day) : logs[u][s.day] = "late"} = LateOn(s.day)
    BY DEF LoggedOn, LateOn
  <2> QED
    BY <1>1, <1>3, <1>4, <1>5, <2>1 DEF ReadLogs, Step
<1> HIDE DEF f
<1>8. /\ t \in Run /\ t.day = s.day /\ t.half = s.half /\ t.at = "staff" /\ t.fig = f
      /\ t.row = s.row /\ t.staff = s.staff /\ t.raised = s.raised /\ t.still = s.still
  BY <1>6 DEF Run
<1> HIDE DEF t
<1>9. ~DayOff(s.day) => TrueFig(s.day).present = p /\ TrueFig(s.day).late = l
  BY <1>3, <1>4 DEF TrueFig
<1>10. s.still => ~DayOff(s.day) /\ g.absent = 0
  BY <1>1, <1>2, <1>5 DEF GoodRun, Zero
<1>11. GoodRun(t)
  BY <1>1, <1>2, <1>6, <1>8, <1>9, <1>10 DEF GoodRun
<1> QED
  BY <1>7, <1>8, <1>11, RunAdvances

LEMMA ReadStaffStep ==
  ASSUME WorkDaysTypeOK, RunsInv, NEW r \in Runs, ReadStaff(r), UNCHANGED dayVars
  PROVE  RunsInv'
<1>1. PICK s \in Run : s = run[r] /\ run[r] # None /\ s.at = "staff"
  BY DEF ReadStaff, Step, RunsInv
<1>2. GoodRun(s)
  BY <1>1 DEF RunsInv
<1>3. PICK a \in SUBSET Users : a = active
  BY DEF WorkDaysTypeOK
<1> DEFINE t == [s EXCEPT !.at = "leaves", !.staff = a]
<1>4. run' = [run EXCEPT ![r] = t] /\ UNCHANGED snapshots
  BY <1>1, <1>3 DEF ReadStaff, Step
<1>5. /\ t \in Run /\ t.day = s.day /\ t.half = s.half /\ t.at = "leaves" /\ t.fig = s.fig
      /\ t.row = s.row /\ t.staff = a /\ t.raised = s.raised /\ t.still = s.still
  BY DEF Run
<1> HIDE DEF t
<1>6. GoodRun(t)
  BY <1>1, <1>2, <1>3, <1>5 DEF GoodRun
<1> QED
  BY <1>4, <1>5, <1>6, RunAdvances

LEMMA ReadLeavesStep ==
  ASSUME WorkDaysTypeOK, RunsInv, NEW r \in Runs, ReadLeaves(r), UNCHANGED dayVars
  PROVE  RunsInv'
<1>1. PICK s \in Run : s = run[r] /\ run[r] # None /\ s.at = "leaves"
  BY DEF ReadLeaves, Step, RunsInv
<1>2. GoodRun(s) /\ s.day \in Days /\ s.fig \in Figures /\ s.staff \in SUBSET Users
  BY <1>1, RunFields DEF RunsInv
<1>3. PICK g \in Figures : g = s.fig
  BY <1>2
<1>4. PICK n \in Nat : n = Absent(Cardinality(s.staff), g.present, OnLeave(s.staff, s.day))
  <2>1. Cardinality(s.staff) \in Nat /\ OnLeave(s.staff, s.day) \in Nat /\ g.present \in Nat
    BY <1>2, CountsAreNumbers DEF Figures
  <2>2. Absent(Cardinality(s.staff), g.present, OnLeave(s.staff, s.day)) \in Nat
    BY <2>1 DEF Absent
  <2> QED
    BY <2>2
<1> DEFINE f == [g EXCEPT !.absent = n]
<1>5. f \in Figures /\ f.present = g.present /\ f.late = g.late /\ f.absent = n
  BY DEF Figures
<1> DEFINE t == [s EXCEPT !.at = "total", !.fig = f]
<1>6. run' = [run EXCEPT ![r] = t] /\ UNCHANGED snapshots
  BY <1>1, <1>3, <1>4 DEF ReadLeaves, Step
<1> HIDE DEF f
<1>7. /\ t \in Run /\ t.day = s.day /\ t.half = s.half /\ t.at = "total" /\ t.fig = f
      /\ t.row = s.row /\ t.staff = s.staff /\ t.raised = s.raised /\ t.still = s.still
  BY <1>5 DEF Run
<1> HIDE DEF t
<1>8. ASSUME s.still PROVE /\ f.present = TrueFig(s.day).present
                           /\ f.late = TrueFig(s.day).late
                           /\ f.absent = TrueFig(s.day).absent
  <2>1. /\ ~DayOff(s.day) /\ s.staff = active
        /\ g.present = TrueFig(s.day).present /\ g.late = TrueFig(s.day).late
    BY <1>1, <1>2, <1>3, <1>8 DEF GoodRun
  <2>2. TrueFig(s.day).present = Cardinality(LoggedOn(s.day))
    BY <2>1 DEF TrueFig
  <2>3. TrueFig(s.day).absent = n
    BY <1>4, <2>1, <2>2 DEF TrueFig
  <2> QED
    BY <1>5, <2>1, <2>3
<1>9. GoodRun(t)
  BY <1>1, <1>2, <1>7, <1>8 DEF GoodRun
<1> QED
  BY <1>6, <1>7, <1>9, RunAdvances

LEMMA CountActiveStep ==
  ASSUME WorkDaysTypeOK, RunsInv, NEW r \in Runs, CountActive(r), UNCHANGED dayVars
  PROVE  RunsInv'
<1>1. PICK s \in Run : s = run[r] /\ run[r] # None /\ s.at = "total"
  BY DEF CountActive, Step, RunsInv
<1>2. GoodRun(s) /\ s.day \in Days /\ s.fig \in Figures /\ s.half \in {"snapshot", "alerts"}
  BY <1>1, RunFields DEF RunsInv
<1>3. PICK g \in Figures : g = s.fig
  BY <1>2
<1>4. PICK n \in Nat : n = Cardinality(active)
  BY <1>2, FiguresAreNumbers
<1>5. PICK a \in {"find", "low"} : a = IF s.half = "snapshot" THEN "find" ELSE "low"
  OBVIOUS
<1> DEFINE f == [g EXCEPT !.total = n]
<1>6. /\ f \in Figures /\ f.present = g.present /\ f.late = g.late
      /\ f.absent = g.absent /\ f.total = n
  BY DEF Figures
<1> DEFINE t == [s EXCEPT !.fig = f, !.at = a]
<1>7. run' = [run EXCEPT ![r] = t] /\ UNCHANGED snapshots
  BY <1>1, <1>3, <1>4, <1>5 DEF CountActive, Step
<1> HIDE DEF f
<1>8. /\ t \in Run /\ t.day = s.day /\ t.half = s.half /\ t.at = a /\ t.fig = f
      /\ t.row = s.row /\ t.staff = s.staff /\ t.raised = s.raised /\ t.still = s.still
  BY <1>6 DEF Run
<1> HIDE DEF t
<1>9. TrueFig(s.day).total = n
  BY <1>4 DEF TrueFig
<1>10. s.still => Same(f, TrueFig(s.day))
  BY <1>1, <1>2, <1>3, <1>6, <1>9 DEF GoodRun, Same
<1>11. GoodRun(t)
  BY <1>1, <1>2, <1>5, <1>8, <1>10 DEF GoodRun
<1> QED
  BY <1>7, <1>8, <1>11, RunAdvances

LEMMA FindSnapshotStep ==
  ASSUME WorkDaysTypeOK, RunsInv, NEW r \in Runs, FindSnapshot(r), UNCHANGED dayVars
  PROVE  RunsInv'
<1>1. PICK s \in Run : s = run[r] /\ run[r] # None /\ s.at = "find"
  BY DEF FindSnapshot, Step, RunsInv
<1>2. GoodRun(s) /\ s.day \in Days
  BY <1>1, RunFields DEF RunsInv
<1>3. PICK c \in Figures \cup {None} : c = snapshots[s.day]
  BY <1>2 DEF RunsInv
<1> DEFINE t == [s EXCEPT !.at = "write", !.row = c]
<1>4. run' = [run EXCEPT ![r] = t] /\ UNCHANGED snapshots
  BY <1>1, <1>3 DEF FindSnapshot, Step
<1>5. /\ t \in Run /\ t.day = s.day /\ t.half = s.half /\ t.at = "write" /\ t.fig = s.fig
      /\ t.row = c /\ t.staff = s.staff /\ t.raised = s.raised /\ t.still = s.still
  BY DEF Run
<1> HIDE DEF t
<1>6. GoodRun(t)
  BY <1>1, <1>2, <1>3, <1>5 DEF GoodRun
<1> QED
  BY <1>4, <1>5, <1>6, RunAdvances

\* Equal columns call for equal alerts.
LEMMA SameAlerts ==
  ASSUME NEW f, NEW g, Same(f, g)
  PROVE  (LowAttendance(f) <=> LowAttendance(g)) /\ (MassLate(f) <=> MassLate(g))
  BY DEF Same, LowAttendance, MassLate

LEMMA RaiseLowStep ==
  ASSUME WorkDaysTypeOK, RunsInv, NEW r \in Runs, RaiseLow(r), UNCHANGED dayVars
  PROVE  RunsInv'
<1>1. PICK s \in Run : s = run[r] /\ run[r] # None /\ s.at = "low"
  BY DEF RaiseLow, RunsInv
<1>2. GoodRun(s) /\ s.raised \in SUBSET AlertTypes
  BY <1>1, RunFields DEF RunsInv
<1>3. PICK a \in SUBSET AlertTypes :
        a = s.raised \cup (IF LowAttendance(s.fig) THEN {"low_attendance"} ELSE {})
  BY <1>2 DEF AlertTypes
<1> DEFINE t == [s EXCEPT !.at = "late", !.raised = a]
<1>4. run' = [run EXCEPT ![r] = t] /\ UNCHANGED snapshots
  BY <1>1, <1>3 DEF RaiseLow, Raise, Step
<1>5. /\ t \in Run /\ t.day = s.day /\ t.half = s.half /\ t.at = "late" /\ t.fig = s.fig
      /\ t.row = s.row /\ t.staff = s.staff /\ t.raised = a /\ t.still = s.still
  BY DEF Run
<1> HIDE DEF t
<1>6. ASSUME s.still PROVE /\ Same(s.fig, TrueFig(s.day))
                           /\ "low_attendance" \in a <=> LowAttendance(TrueFig(s.day))
                           /\ "mass_late" \notin a
  <2>1. Same(s.fig, TrueFig(s.day)) /\ s.raised = {}
    BY <1>1, <1>2, <1>6 DEF GoodRun
  <2>2. LowAttendance(s.fig) <=> LowAttendance(TrueFig(s.day))
    BY <2>1, SameAlerts
  <2> QED
    BY <1>3, <2>1, <2>2
<1>7. GoodRun(t)
  BY <1>1, <1>2, <1>5, <1>6 DEF GoodRun
<1> QED
  BY <1>4, <1>5, <1>7, RunAdvances

LEMMA RaiseLateStep ==
  ASSUME WorkDaysTypeOK, RunsInv, NEW r \in Runs, RaiseLate(r), UNCHANGED dayVars
  PROVE  RunsInv'
<1>1. PICK s \in Run : s = run[r] /\ run[r] # None /\ s.at = "late"
  BY DEF RaiseLate, RunsInv
<1>2. GoodRun(s) /\ s.raised \in SUBSET AlertTypes
  BY <1>1, RunFields DEF RunsInv
<1>3. PICK a \in SUBSET AlertTypes :
        a = s.raised \cup (IF MassLate(s.fig) THEN {"mass_late"} ELSE {})
  BY <1>2 DEF AlertTypes
<1> DEFINE t == [s EXCEPT !.at = "done", !.raised = a]
<1>4. run' = [run EXCEPT ![r] = t] /\ UNCHANGED snapshots
  BY <1>1, <1>3 DEF RaiseLate, Raise, Step
<1>5. /\ t \in Run /\ t.day = s.day /\ t.half = s.half /\ t.at = "done" /\ t.fig = s.fig
      /\ t.row = s.row /\ t.staff = s.staff /\ t.raised = a /\ t.still = s.still
  BY DEF Run
<1> HIDE DEF t
<1>6. ASSUME s.still PROVE /\ Same(s.fig, TrueFig(s.day))
                           /\ "low_attendance" \in a <=> LowAttendance(TrueFig(s.day))
                           /\ "mass_late" \in a <=> MassLate(TrueFig(s.day))
  <2>1. /\ Same(s.fig, TrueFig(s.day)) /\ "mass_late" \notin s.raised
        /\ "low_attendance" \in s.raised <=> LowAttendance(TrueFig(s.day))
    BY <1>1, <1>2, <1>6 DEF GoodRun
  <2>2. MassLate(s.fig) <=> MassLate(TrueFig(s.day))
    BY <2>1, SameAlerts
  <2> QED
    BY <1>3, <2>1, <2>2
<1>7. GoodRun(t)
  BY <1>1, <1>2, <1>5, <1>6 DEF GoodRun
<1> QED
  BY <1>4, <1>5, <1>7, RunAdvances

\* Saving over the row that was found leaves the figures that were saved.
LEMMA SavedFigures ==
  ASSUME NEW stored \in Figures \cup {None}, NEW found \in Figures \cup {None},
         NEW fig \in Figures
  PROVE  /\ Saved(stored, found, fig) \in Figures
         /\ stored = found => Saved(stored, found, fig) = fig
<1>1. CASE stored = None \/ found = None
  BY <1>1 DEF Saved
<1>2. CASE stored # None /\ found # None
  <2>1. stored \in Figures /\ found \in Figures
    BY <1>2
  <2>2. DOMAIN fig = {"present", "late", "absent", "total"}
    BY DEF Figures
  <2> DEFINE new == [f \in DOMAIN fig |-> IF fig[f] = found[f] THEN stored[f] ELSE fig[f]]
  <2>3. Saved(stored, found, fig) = new
    BY <1>2 DEF Saved
  <2>4. \A f \in DOMAIN fig : fig[f] \in Nat /\ stored[f] \in Nat
    BY <2>1, <2>2 DEF Figures
  <2>5. new = [present |-> new.present, late |-> new.late,
               absent |-> new.absent, total |-> new.total]
    BY <2>2
  <2>6. new.present \in Nat /\ new.late \in Nat /\ new.absent \in Nat /\ new.total \in Nat
    BY <2>2, <2>4
  <2>7. ASSUME stored = found PROVE Same(new, fig)
    BY <2>2, <2>7 DEF Same
  <2> HIDE DEF new
  <2>8. new \in Figures
    BY <2>5, <2>6 DEF Figures
  <2> QED
    BY <2>3, <2>7, <2>8, SameFigures
<1> QED
  BY <1>1, <1>2

\* A run whose figures nobody else may rely on any longer, M having moved.
Disturbed(s, M) == [s EXCEPT !.still = FALSE, !.moved = @ \cup M]

LEMMA DisturbedRun ==
  ASSUME NEW s \in Run, GoodRun(s), NEW M \in SUBSET Users
  PROVE  /\ Disturbed(s, M) \in Run /\ GoodRun(Disturbed(s, M))'
         /\ Disturbed(s, M).day = s.day /\ Disturbed(s, M).at = s.at
         /\ Disturbed(s, M).fig = s.fig /\ Disturbed(s, M).staff = s.staff
         /\ Disturbed(s, M).moved = s.moved \cup M
<1>1. PICK m \in SUBSET Users : m = s.moved \cup M
  <2>1. s.moved \cup M \in SUBSET Users
    BY DEF Run
  <2> QED
    BY <2>1
<1> DEFINE t == [s EXCEPT !.still = FALSE, !.moved = m]
<1>2. Disturbed(s, M) = t
  BY <1>1 DEF Disturbed
<1>3. /\ t \in Run /\ t.day = s.day /\ t.half = s.half /\ t.at = s.at /\ t.still = FALSE
      /\ t.fig = s.fig /\ t.staff = s.staff /\ t.moved = m
  BY DEF Run
<1> HIDE DEF t
<1>4. GoodRun(t)'
  BY <1>3 DEF GoodRun
<1>5. GoodRun(Disturbed(s, M))'
  BY <1>2, <1>4
<1> QED
  BY <1>1, <1>2, <1>3, <1>5

\* Runs are told of what others change; the rest have what they had.
LEMMA RunsNoted ==
  ASSUME RunsInv, NEW D
  PROVE  /\ Noted(D) \in [Runs -> Run \cup {None}]
         /\ \A q \in Runs : Noted(D)[q] # None =>
              /\ run[q] # None
              /\ \/ /\ run[q].day \in D /\ Moving(run[q].day) \in SUBSET Users
                    /\ Noted(D)[q] = Disturbed(run[q], Moving(run[q].day))
                 \/ run[q].day \notin D /\ Noted(D)[q] = run[q]
<1>1. \A q \in Runs : Moving(run[q].day) \in SUBSET Users
  BY DEF Moving
<1>2. ASSUME NEW q \in Runs, run[q] # None
      PROVE  Disturbed(run[q], Moving(run[q].day)) \in Run
  BY <1>1, <1>2, DisturbedRun DEF RunsInv
<1>3. Noted(D) = [q \in Runs |-> IF run[q] # None /\ run[q].day \in D
                                 THEN Disturbed(run[q], Moving(run[q].day)) ELSE run[q]]
  BY DEF Noted, Disturbed
<1> QED
  BY <1>1, <1>2, <1>3 DEF RunsInv

LEMMA WriteSnapshotStep ==
  ASSUME WorkDaysTypeOK, RunsInv, NEW r \in Runs, WriteSnapshot(r), UNCHANGED dayVars
  PROVE  RunsInv'
<1>1. PICK s \in Run : s = run[r] /\ run[r] # None /\ s.at = "write"
  BY DEF WriteSnapshot, RunsInv
<1>2. /\ GoodRun(s) /\ s.day \in Days /\ s.fig \in Figures /\ s.row \in Figures \cup {None}
      /\ s.half = "snapshot"
  BY <1>1, RunFields DEF RunsInv, GoodRun
<1>3. PICK new \in Figures : /\ new = Saved(snapshots[s.day], s.row, s.fig)
                             /\ snapshots[s.day] = s.row => new = s.fig
  BY <1>2, SavedFigures DEF RunsInv
<1> DEFINE t == [s EXCEPT !.half = "alerts", !.at = "day", !.row = None, !.staff = {}]
<1> DEFINE rest == IF snapshots' = snapshots THEN run ELSE Noted({s.day})
<1>4. snapshots' = [snapshots EXCEPT ![s.day] = new] /\ run' = [rest EXCEPT ![r] = t]
  BY <1>1, <1>3 DEF WriteSnapshot
<1>5. /\ t \in Run /\ t.day = s.day /\ t.half = "alerts" /\ t.at = "day" /\ t.fig = s.fig
      /\ t.raised = s.raised /\ t.still = s.still
  BY DEF Run
<1> HIDE DEF t
<1>6. rest \in [Runs -> Run \cup {None}]
  BY RunsNoted DEF RunsInv
<1>7. /\ run' \in [Runs -> Run \cup {None}] /\ snapshots' \in [Days -> Figures \cup {None}]
      /\ run'[r] = t /\ \A q \in Runs \ {r} : run'[q] = rest[q]
  <2> HIDE DEF rest
  <2> QED
    BY <1>2, <1>4, <1>5, <1>6 DEF RunsInv
<1>8. \A d \in Days : /\ TrueFig(d)' = TrueFig(d) /\ (DayOff(d)' <=> DayOff(d))
                      /\ active' = active
                      /\ d # s.day => snapshots'[d] = snapshots[d]
  <2>1. \A d \in Days : d # s.day => snapshots'[d] = snapshots[d]
    BY <1>4 DEF RunsInv
  <2> QED
    BY <2>1 DEF dayVars, DayOff, TrueFig, LoggedOn, LateOn, OnLeave
<1>9. GoodRun(t)'
  <2>1. snapshots'[s.day] = new /\ new # None
    BY <1>2, <1>3, <1>4, AnalysisAssumption DEF RunsInv
  <2>2. ASSUME s.still PROVE /\ new = s.fig /\ Same(s.fig, TrueFig(s.day))
                             /\ s.raised = {}
    BY <1>1, <1>2, <1>3, <2>2 DEF GoodRun
  <2>3. TrueFig(s.day)' = TrueFig(s.day)
    BY <1>2, <1>8
  <2>4. s.still => Same(s.fig, TrueFig(s.day)')
    BY <2>2, <2>3
  <2> QED
    BY <1>5, <2>1, <2>2, <2>4 DEF GoodRun
<1>10. ASSUME NEW q \in Runs, run'[q] # None PROVE GoodRun(run[q])'
  <2>1. CASE q = r
    BY <1>7, <1>9, <2>1 DEF GoodRun
  <2>2. CASE q # r
    <3>1. run'[q] = rest[q] /\ rest[q] # None
      BY <1>7, <1>10, <2>2
    <3>2. run[q] # None
      BY <3>1, RunsNoted
    <3>3. PICK u \in Run : u = run[q] /\ GoodRun(u) /\ u.day \in Days
      BY <3>2, RunFields DEF RunsInv
    <3>4. PICK M \in SUBSET Users : M = Moving(u.day)
      BY DEF Moving
    <3>5. CASE run'[q] = u /\ (snapshots' = snapshots \/ u.day # s.day)
      <4>1. /\ snapshots'[u.day] = snapshots[u.day] /\ TrueFig(u.day)' = TrueFig(u.day)
            /\ (DayOff(u.day)' <=> DayOff(u.day)) /\ active' = active
        BY <1>8, <3>3, <3>5
      <4>2. GoodRun(u)'
        BY <3>3, <4>1 DEF GoodRun
      <4> QED
        BY <3>5, <4>2 DEF GoodRun
    <3>6. CASE run'[q] = Disturbed(u, M)
      <4>1. GoodRun(Disturbed(u, M))'
        BY <3>3, DisturbedRun
      <4> QED
        BY <3>6, <4>1 DEF GoodRun
    <3> QED
      BY <3>1, <3>2, <3>3, <3>5, <3>6, <3>4, RunsNoted
  <2> QED
    BY <2>1, <2>2
<1> QED
  BY <1>7, <1>10 DEF RunsInv

\* The days change: the runs about them are told, the others do not notice.
LEMMA RunsUnderChange ==
  ASSUME WorkDaysTypeOK, RunsInv, NEW D, NEW S, DaysOf(D, S), run' = Noted(D),
         UNCHANGED snapshots
  PROVE  RunsInv'
<1>1. run' \in [Runs -> Run \cup {None}]
  BY RunsNoted
<1>2. ASSUME NEW q \in Runs, run'[q] # None PROVE GoodRun(run[q])'
  <2>1. run[q] # None
    BY <1>2, RunsNoted
  <2>2. PICK u \in Run : u = run[q] /\ GoodRun(u) /\ u.day \in Days
    BY <2>1, RunFields DEF RunsInv
  <2>3. PICK M \in SUBSET Users : M = Moving(u.day)
    BY DEF Moving
  <2>4. CASE run'[q] = u /\ u.day \notin D
    <3>1. /\ TrueFig(u.day)' = TrueFig(u.day)
          /\ (DayOff(u.day)' <=> DayOff(u.day)) /\ active' = active
      BY <2>2, <2>4, OtherDaysKeepTheirFigures
    <3>2. GoodRun(u)'
      BY <2>2, <3>1 DEF GoodRun
    <3> QED
      BY <2>4, <3>2 DEF GoodRun
  <2>5. CASE run'[q] = Disturbed(u, M)
    <3>1. GoodRun(Disturbed(u, M))'
      BY <2>2, DisturbedRun
    <3> QED
      BY <2>5, <3>1 DEF GoodRun
  <2> QED
    BY <1>2, <2>1, <2>2, <2>4, <2>5, <2>3, RunsNoted
<1> QED
  BY <1>1, <1>2 DEF RunsInv

\* What becomes of the runs.
RunsMove ==
  \/ \E D \in SUBSET Days, S \in SUBSET Users : DaysOf(D, S) /\ run' = Noted(D) /\ UNCHANGED snapshots
  \/ /\ \E r \in Runs : RunStep(r) \/ \E d \in Days : StartRun(r, d)
     /\ UNCHANGED dayVars
  \/ UNCHANGED <<dayVars, run, snapshots>>

LEMMA RunsStep ==
  ASSUME WorkDaysTypeOK, RunsInv, RunsMove
  PROVE  RunsInv'
<1>1. ASSUME NEW D, NEW S, DaysOf(D, S), run' = Noted(D), UNCHANGED snapshots
      PROVE  RunsInv'
  BY <1>1, RunsUnderChange
<1>2. ASSUME NEW r \in Runs, RunStep(r), UNCHANGED dayVars PROVE RunsInv'
  <2>1. CASE KillRun(r)
    BY <1>2, <2>1, RunAdvances DEF KillRun
  <2> QED
    BY <1>2, <2>1, CheckDayStep, ReadLogsStep, ReadStaffStep, ReadLeavesStep,
       CountActiveStep, FindSnapshotStep, WriteSnapshotStep, RaiseLowStep, RaiseLateStep
       DEF RunStep
<1>3. ASSUME UNCHANGED <<dayVars, run, snapshots>> PROVE RunsInv'
  <2>1. \A d \in Days : /\ TrueFig(d)' = TrueFig(d) /\ (DayOff(d)' <=> DayOff(d))
                        /\ active' = active
    BY <1>3 DEF dayVars, DayOff, TrueFig, LoggedOn, LateOn, OnLeave
  <2>2. ASSUME NEW q \in Runs, run'[q] # None PROVE GoodRun(run[q])'
    <3>1. PICK u \in Run : u = run[q] /\ GoodRun(u) /\ u.day \in Days
      BY <1>3, <2>2, RunFields DEF RunsInv
    <3>2. GoodRun(u)'
      BY <1>3, <2>1, <3>1 DEF GoodRun
    <3> QED
      BY <1>3, <3>1, <3>2 DEF GoodRun
  <2> QED
    BY <1>3, <2>2 DEF RunsInv
<1> QED
  BY <1>1, <1>2, <1>3, StartRunStep DEF RunsMove

-----------------------------------------------------------------------------
(* What a run counts while others come and go. *)

\* Of those who have not moved since the counting began a run has what there
\* is: their logs were counted, and they are among the staff exactly if they
\* are active.
GoodCount(s) ==
  /\ s.at \in {"logs", "staff", "leaves"} => s.fig.absent = 0
  /\ s.at \in {"staff", "leaves"} => Cardinality(LoggedOn(s.day) \ s.moved) =< s.fig.present
  /\ s.at = "leaves" => s.staff \ s.moved = active \ s.moved
  /\ s.fig.absent =< Cardinality(Missing(s.day) \cup s.moved)

CountsInv == \A r \in Runs : run[r] # None => GoodCount(run[r])

\* The difference of three counts, made when some have moved, is at most the
\* employees who are missing and those who moved.
LEMMA DifferenceBounded ==
  ASSUME WorkDaysTypeOK, NEW d \in Days, NEW S \in SUBSET Users, NEW M \in SUBSET Users,
         NEW present \in Nat,
         S \ M = active \ M, Cardinality(LoggedOn(d) \ M) =< present
  PROVE  Absent(Cardinality(S), present, OnLeave(S, d)) =< Cardinality(Missing(d) \cup M)
<1> DEFINE out == Missing(d) \cup M
           gone == {u \in S : leaves[u][d] > 0}
           came == (S \cap LoggedOn(d)) \ M
<1>1. /\ active \in SUBSET Users /\ LoggedOn(d) \ M \in SUBSET Users
      /\ out \in SUBSET Users /\ gone \in SUBSET Users /\ came \in SUBSET Users
  BY DEF WorkDaysTypeOK, LoggedOn, Missing
<1>2. /\ IsFiniteSet(out) /\ Cardinality(out) \in Nat
      /\ IsFiniteSet(gone) /\ Cardinality(gone) \in Nat
      /\ IsFiniteSet(came) /\ Cardinality(came) \in Nat
      /\ IsFiniteSet(LoggedOn(d) \ M) /\ Cardinality(LoggedOn(d) \ M) \in Nat
      /\ Cardinality(S) \in Nat /\ OnLeave(S, d) \in Nat
      /\ Cardinality(gone) =< OnLeave(S, d)
  BY <1>1, CountsAreNumbers
<1>3. S \subseteq out \cup (gone \cup came)
  <2>1. ASSUME NEW u \in S, u \notin M PROVE u \in out \cup (gone \cup came)
    <3>1. u \in active /\ leaves[u][d] \in 0..MaxLeaves
      BY <2>1 DEF WorkDaysTypeOK
    <3>2. leaves[u][d] = 0 \/ leaves[u][d] > 0
      BY <3>1, WorkDaysAssumption
    <3> QED
      BY <2>1, <3>1, <3>2 DEF Missing, LoggedOn
  <2> QED
    BY <2>1
<1>4. Cardinality(came) =< Cardinality(LoggedOn(d) \ M)
  <2>1. came \in SUBSET (LoggedOn(d) \ M)
    OBVIOUS
  <2> HIDE DEF came
  <2> QED
    BY <1>2, <2>1, FS_Subset
<1> HIDE DEF out, gone, came
<1>5. /\ IsFiniteSet(gone \cup came)
      /\ Cardinality(gone \cup came) =< Cardinality(gone) + Cardinality(came)
      /\ Cardinality(gone \cup came) \in Nat
  <2>1. /\ IsFiniteSet(gone \cup came) /\ IsFiniteSet(gone \cap came)
        /\ Cardinality(gone \cup came)
             = Cardinality(gone) + Cardinality(came) - Cardinality(gone \cap came)
    BY <1>2, FS_Union, FS_Intersection
  <2>2. Cardinality(gone \cap came) \in Nat /\ Cardinality(gone \cup came) \in Nat
    BY <2>1, FS_CardinalityType
  <2> QED
    BY <1>2, <2>1, <2>2
<1>6. /\ IsFiniteSet(out \cup (gone \cup came))
      /\ Cardinality(out \cup (gone \cup came)) =< Cardinality(out) + Cardinality(gone \cup came)
      /\ Cardinality(out \cup (gone \cup came)) \in Nat
  <2>1. /\ IsFiniteSet(out \cup (gone \cup came)) /\ IsFiniteSet(out \cap (gone \cup came))
        /\ Cardinality(out \cup (gone \cup came))
             = Cardinality(out) + Cardinality(gone \cup came)
                 - Cardinality(out \cap (gone \cup came))
    BY <1>2, <1>5, FS_Union, FS_Intersection
  <2>2. /\ Cardinality(out \cap (gone \cup came)) \in Nat
        /\ Cardinality(out \cup (gone \cup came)) \in Nat
    BY <2>1, FS_CardinalityType
  <2> QED
    BY <1>2, <1>5, <2>1, <2>2
<1>7. Cardinality(S) =< Cardinality(out \cup (gone \cup came))
  BY <1>3, <1>6, FS_Subset
<1>8. Absent(Cardinality(S), present, OnLeave(S, d)) =< Cardinality(out)
  BY <1>2, <1>4, <1>5, <1>6, <1>7 DEF Absent
<1> QED
  BY <1>8 DEF out

\* What was counted stands when only those move who are noted.
LEMMA CountStands ==
  ASSUME WorkDaysTypeOK, WorkDaysTypeOK', NEW s \in Run, GoodCount(s), NEW t \in Run,
         t.day = s.day /\ t.at = s.at /\ t.fig = s.fig /\ t.staff = s.staff,
         s.moved \subseteq t.moved,
         \A u \in Users \ t.moved :
           /\ logs'[u][s.day] = logs[u][s.day] /\ leaves'[u][s.day] = leaves[u][s.day]
           /\ u \in active' <=> u \in active
  PROVE  GoodCount(t)'
<1>1. /\ s.day \in Days /\ s.moved \in SUBSET Users /\ t.moved \in SUBSET Users
      /\ s.staff \in SUBSET Users /\ active \in SUBSET Users /\ active' \in SUBSET Users
      /\ s.fig.absent \in Nat /\ s.fig.present \in Nat
  BY DEF Run, Figures, WorkDaysTypeOK
<1>2. Cardinality(LoggedOn(s.day)' \ t.moved) =< Cardinality(LoggedOn(s.day) \ s.moved)
  <2>1. LoggedOn(s.day)' \ t.moved \in SUBSET (LoggedOn(s.day) \ s.moved)
    BY DEF LoggedOn
  <2>2. LoggedOn(s.day) \ s.moved \in SUBSET Users
    BY DEF LoggedOn
  <2>3. IsFiniteSet(LoggedOn(s.day) \ s.moved)
    BY <1>1, <2>2, CountsAreNumbers
  <2> QED
    BY <2>1, <2>3, FS_Subset
<1>3. s.at = "leaves" => s.staff \ t.moved = active' \ t.moved
  <2>1. ASSUME s.staff \ s.moved = active \ s.moved
        PROVE  s.staff \ t.moved = active' \ t.moved
    BY <1>1, <2>1
  <2> QED
    BY <2>1 DEF GoodCount
<1>4. Cardinality(Missing(s.day) \cup s.moved) =< Cardinality(Missing(s.day)' \cup t.moved)
  <2>1. Missing(s.day) \cup s.moved \in SUBSET (Missing(s.day)' \cup t.moved)
    BY <1>1 DEF Missing
  <2>2. Missing(s.day)' \cup t.moved \in SUBSET Users
    BY <1>1 DEF Missing
  <2>3. IsFiniteSet(Missing(s.day)' \cup t.moved)
    BY <1>1, <2>2, CountsAreNumbers
  <2> QED
    BY <2>1, <2>3, FS_Subset
<1>5. /\ Cardinality(LoggedOn(s.day)' \ t.moved) \in Nat
      /\ Cardinality(LoggedOn(s.day) \ s.moved) \in Nat
      /\ Cardinality(Missing(s.day) \cup s.moved) \in Nat
      /\ Cardinality(Missing(s.day)' \cup t.moved) \in Nat
  <2>1. /\ LoggedOn(s.day)' \ t.moved \in SUBSET Users
        /\ LoggedOn(s.day) \ s.moved \in SUBSET Users
        /\ Missing(s.day) \cup s.moved \in SUBSET Users
        /\ Missing(s.day)' \cup t.moved \in SUBSET Users
    BY <1>1 DEF LoggedOn, Missing
  <2> QED
    BY <1>1, <2>1, CountsAreNumbers
<1>6. /\ s.at \in {"staff", "leaves"} =>
           Cardinality(LoggedOn(s.day)' \ t.moved) =< s.fig.present
      /\ s.fig.absent =< Cardinality(Missing(s.day)' \cup t.moved)
  BY <1>1, <1>2, <1>4, <1>5 DEF GoodCount
<1> QED
  BY <1>3, <1>6 DEF GoodCount

\* When nothing moves nothing need be noted.
LEMMA CountsKept ==
  ASSUME WorkDaysTypeOK, NEW s \in Run, GoodCount(s), UNCHANGED dayVars
  PROVE  GoodCount(s)'
  BY DEF GoodCount, dayVars, LoggedOn, Missing

\* A run advances; those about it are where they were.
LEMMA CountAdvances ==
  ASSUME WorkDaysTypeOK, RunsInv, CountsInv, NEW r \in Runs, NEW s \in Run \cup {None},
         run' = [run EXCEPT ![r] = s], UNCHANGED dayVars,
         s # None => GoodCount(s)
  PROVE  CountsInv'
<1>1. ASSUME NEW q \in Runs, run'[q] # None PROVE GoodCount(run[q])'
  <2>1. PICK t \in Run : t = run'[q] /\ GoodCount(t)
    BY <1>1 DEF RunsInv, CountsInv
  <2>2. GoodCount(t)'
    BY <2>1, CountsKept
  <2> QED
    BY <2>1, <2>2 DEF GoodCount
<1> QED
  BY <1>1 DEF CountsInv

\* Out of the counting, a run keeps the number it came to.
LEMMA CountCarried ==
  ASSUME NEW s \in Run, GoodCount(s), NEW t \in Run,
         t.day = s.day, t.moved = s.moved, t.fig.absent = s.fig.absent,
         t.at \notin {"logs", "staff", "leaves"}
  PROVE  GoodCount(t)
  BY DEF GoodCount

\* A count that begins has charged nobody.
LEMMA NothingCounted ==
  ASSUME WorkDaysTypeOK, NEW t \in Run, t.fig = Zero, t.at \notin {"staff", "leaves"}
  PROVE  GoodCount(t)
<1>1. Cardinality(Missing(t.day) \cup t.moved) \in Nat
  <2>1. Missing(t.day) \cup t.moved \in SUBSET Users /\ t.day \in Days
    BY DEF Missing, WorkDaysTypeOK, Run
  <2> QED
    BY <2>1, CountsAreNumbers
<1> QED
  BY <1>1 DEF GoodCount, Zero

LEMMA CountingStep ==
  ASSUME WorkDaysTypeOK, RunsInv, CountsInv, NEW r \in Runs, UNCHANGED dayVars,
         CheckDay(r) \/ ReadLogs(r) \/ ReadStaff(r) \/ ReadLeaves(r)
  PROVE  CountsInv'
<1>1. PICK s \in Run : s = run[r] /\ GoodCount(s) /\ s.day \in Days
  BY RunFields DEF CheckDay, ReadLogs, ReadStaff, ReadLeaves, Step, RunsInv, CountsInv
<1>2. PICK g \in Figures : g = s.fig
  BY RunFields
<1>3. CASE CheckDay(r)
  <2>1. PICK a \in {"total", "logs"} : a = IF DayOff(s.day) THEN "total" ELSE "logs"
    OBVIOUS
  <2> DEFINE t == [s EXCEPT !.fig = Zero, !.moved = {}, !.at = a]
  <2>2. run' = [run EXCEPT ![r] = t]
    BY <1>1, <1>3, <2>1 DEF CheckDay, Step
  <2>3. t \in Run /\ t.fig = Zero /\ t.at = a
    BY DEF Run, Zero, Figures
  <2> HIDE DEF t
  <2> QED
    BY <2>2, <2>3, NothingCounted, CountAdvances
<1>4. CASE ReadLogs(r)
  <2>1. PICK p \in Nat : p = Cardinality(LoggedOn(s.day))
    BY <1>1, FiguresAreNumbers
  <2>2. PICK l \in Nat : l = Cardinality(LateOn(s.day))
    BY <1>1, FiguresAreNumbers
  <2> DEFINE f == [g EXCEPT !.present = p, !.late = l]
  <2>3. f \in Figures /\ f.present = p /\ f.absent = g.absent
    BY DEF Figures
  <2> DEFINE t == [s EXCEPT !.at = "staff", !.fig = f]
  <2>4. run' = [run EXCEPT ![r] = t] /\ s.at = "logs"
    <3>1. /\ {u \in Users : logs[u][s.day] # None} = LoggedOn(s.day)
          /\ {u \in LoggedOn(s.day) : logs[u][s.day] = "late"} = LateOn(s.day)
      BY DEF LoggedOn, LateOn
    <3> QED
      BY <1>1, <1>2, <1>4, <2>1, <2>2, <3>1 DEF ReadLogs, Step
  <2> HIDE DEF f
  <2>5. /\ t \in Run /\ t.day = s.day /\ t.at = "staff" /\ t.fig = f /\ t.moved = s.moved
    BY <2>3 DEF Run
  <2> HIDE DEF t
  <2>6. Cardinality(LoggedOn(s.day) \ s.moved) =< p
    <3>1. LoggedOn(s.day) \in SUBSET Users
      BY DEF LoggedOn
    <3>2. IsFiniteSet(LoggedOn(s.day))
      BY <1>1, <3>1, CountsAreNumbers
    <3> QED
      BY <2>1, <3>2, FS_Subset
  <2>7. GoodCount(t)
    BY <1>1, <1>2, <2>3, <2>4, <2>5, <2>6 DEF GoodCount
  <2> QED
    BY <2>4, <2>5, <2>7, CountAdvances
<1>5. CASE ReadStaff(r)
  <2>1. PICK a \in SUBSET Users : a = active
    BY DEF WorkDaysTypeOK
  <2> DEFINE t == [s EXCEPT !.at = "leaves", !.staff = a]
  <2>2. run' = [run EXCEPT ![r] = t] /\ s.at = "staff"
    BY <1>1, <1>5, <2>1 DEF ReadStaff, Step
  <2>3. /\ t \in Run /\ t.day = s.day /\ t.at = "leaves" /\ t.fig = s.fig
        /\ t.staff = a /\ t.moved = s.moved
    BY DEF Run
  <2> HIDE DEF t
  <2>4. GoodCount(t)
    BY <1>1, <2>1, <2>2, <2>3 DEF GoodCount
  <2> QED
    BY <2>2, <2>3, <2>4, CountAdvances
<1>6. CASE ReadLeaves(r)
  <2>1. s.staff \in SUBSET Users /\ s.moved \in SUBSET Users /\ g.present \in Nat
    BY RunFields DEF Figures
  <2>2. PICK n \in Nat : n = Absent(Cardinality(s.staff), g.present, OnLeave(s.staff, s.day))
    <3>1. Cardinality(s.staff) \in Nat /\ OnLeave(s.staff, s.day) \in Nat
      BY <1>1, <2>1, CountsAreNumbers
    <3>2. Absent(Cardinality(s.staff), g.present, OnLeave(s.staff, s.day)) \in Nat
      BY <2>1, <3>1 DEF Absent
    <3> QED
      BY <3>2
  <2> DEFINE f == [g EXCEPT !.absent = n]
  <2>3. f \in Figures /\ f.absent = n
    BY DEF Figures
  <2> DEFINE t == [s EXCEPT !.at = "total", !.fig = f]
  <2>4. run' = [run EXCEPT ![r] = t] /\ s.at = "leaves"
    BY <1>1, <1>2, <1>6, <2>2 DEF ReadLeaves, Step
  <2> HIDE DEF f
  <2>5. /\ t \in Run /\ t.day = s.day /\ t.at = "total" /\ t.fig = f /\ t.moved = s.moved
    BY <2>3 DEF Run
  <2> HIDE DEF t
  <2>6. n =< Cardinality(Missing(s.day) \cup s.moved)
    <3>1. /\ s.staff \ s.moved = active \ s.moved
          /\ Cardinality(LoggedOn(s.day) \ s.moved) =< g.present
      BY <1>1, <1>2, <2>4 DEF GoodCount
    <3> QED
      BY <1>1, <2>1, <2>2, <3>1, DifferenceBounded
  <2>7. GoodCount(t)
    BY <2>3, <2>5, <2>6 DEF GoodCount
  <2> QED
    BY <2>4, <2>5, <2>7, CountAdvances
<1> QED
  BY <1>3, <1>4, <1>5, <1>6

\* The counting done, the number is carried to the snapshot and to the alerts.
LEMMA CountedStep ==
  ASSUME WorkDaysTypeOK, RunsInv, CountsInv, NEW r \in Runs, UNCHANGED dayVars,
         CountActive(r) \/ FindSnapshot(r) \/ RaiseLow(r) \/ RaiseLate(r)
  PROVE  CountsInv'
<1>1. PICK s \in Run : s = run[r] /\ GoodCount(s) /\ s.day \in Days
  BY RunFields DEF CountActive, FindSnapshot, RaiseLow, RaiseLate, Step, RunsInv, CountsInv
<1>2. CASE CountActive(r)
  <2>1. PICK g \in Figures : g = s.fig
    BY RunFields
  <2>2. PICK n \in Nat : n = Cardinality(active)
    BY <1>1, FiguresAreNumbers
  <2>3. PICK a \in {"find", "low"} : a = IF s.half = "snapshot" THEN "find" ELSE "low"
    OBVIOUS
  <2> DEFINE f == [g EXCEPT !.total = n]
  <2>4. f \in Figures /\ f.absent = g.absent
    BY DEF Figures
  <2> DEFINE t == [s EXCEPT !.fig = f, !.at = a]
  <2>5. run' = [run EXCEPT ![r] = t]
    BY <1>1, <1>2, <2>1, <2>2, <2>3 DEF CountActive, Step
  <2> HIDE DEF f
  <2>6. /\ t \in Run /\ t.day = s.day /\ t.at = a /\ t.fig = f /\ t.moved = s.moved
    BY <2>4 DEF Run
  <2> HIDE DEF t
  <2>7. GoodCount(t)
    BY <1>1, <2>1, <2>4, <2>6, CountCarried
  <2> QED
    BY <2>5, <2>6, <2>7, CountAdvances
<1>3. CASE FindSnapshot(r)
  <2>1. PICK c \in Figures \cup {None} : c = snapshots[s.day]
    BY <1>1 DEF RunsInv
  <2> DEFINE t == [s EXCEPT !.at = "write", !.row = c]
  <2>2. run' = [run EXCEPT ![r] = t]
    BY <1>1, <1>3, <2>1 DEF FindSnapshot, Step
  <2>3. /\ t \in Run /\ t.day = s.day /\ t.at = "write" /\ t.fig = s.fig
        /\ t.moved = s.moved
    BY DEF Run
  <2> HIDE DEF t
  <2>4. GoodCount(t)
    BY <1>1, <2>3, CountCarried
  <2> QED
    BY <2>2, <2>3, <2>4, CountAdvances
<1>4. ASSUME NEW type \in AlertTypes, NEW condition, NEW next \in {"late", "done"},
             Raise(r, type, condition, next)
      PROVE  CountsInv'
  <2>1. PICK a \in SUBSET AlertTypes : a = s.raised \cup (IF condition THEN {type} ELSE {})
    BY RunFields
  <2> DEFINE t == [s EXCEPT !.at = next, !.raised = a]
  <2>2. run' = [run EXCEPT ![r] = t]
    BY <1>1, <1>4, <2>1 DEF Raise, Step
  <2>3. /\ t \in Run /\ t.day = s.day /\ t.at = next /\ t.fig = s.fig
        /\ t.moved = s.moved
    BY DEF Run
  <2> HIDE DEF t
  <2>4. GoodCount(t)
    BY <1>1, <2>3, CountCarried
  <2> QED
    BY <2>2, <2>3, <2>4, CountAdvances
<1> QED
  BY <1>2, <1>3, <1>4 DEF RaiseLow, RaiseLate, AlertTypes

\* A run that is told of what changed, or to which it is all one, stands.
LEMMA NotedCount ==
  ASSUME WorkDaysTypeOK, WorkDaysTypeOK', RunsInv, CountsInv, NEW q \in Runs,
         run[q] # None,
         \/ run'[q] = Disturbed(run[q], Moving(run[q].day))
         \/ /\ run'[q] = run[q] /\ active' = active
            /\ \A u \in Users : /\ logs'[u][run[q].day] = logs[u][run[q].day]
                                /\ leaves'[u][run[q].day] = leaves[u][run[q].day]
  PROVE  GoodCount(run[q])'
<1>1. PICK s \in Run : s = run[q] /\ GoodCount(s) /\ GoodRun(s)
  BY DEF RunsInv, CountsInv
<1>2. CASE run'[q] = Disturbed(run[q], Moving(run[q].day))
  <2>1. PICK M \in SUBSET Users : M = Moving(s.day)
    BY DEF Moving
  <2>2. PICK t \in Run : t = Disturbed(s, M)
    BY <1>1, DisturbedRun
  <2>3. /\ t.moved = s.moved \cup Moving(s.day)
        /\ t.day = s.day /\ t.at = s.at /\ t.fig = s.fig /\ t.staff = s.staff
    BY <1>1, <2>2, <2>1, DisturbedRun
  <2>4. \A u \in Users \ t.moved :
          /\ logs'[u][s.day] = logs[u][s.day] /\ leaves'[u][s.day] = leaves[u][s.day]
          /\ u \in active' <=> u \in active
    BY <2>3 DEF Moving
  <2>5. s.moved \subseteq t.moved
    BY <2>3
  <2>6. GoodCount(t)'
    BY <1>1, <2>3, <2>4, <2>5, CountStands
  <2> QED
    BY <1>1, <1>2, <2>2, <2>6, <2>1 DEF GoodCount
<1>3. CASE run'[q] # Disturbed(run[q], Moving(run[q].day))
  <2>1. GoodCount(s)'
    BY <1>1, <1>3, CountStands
  <2> QED
    BY <1>1, <1>3, <2>1 DEF GoodCount
<1> QED
  BY <1>2, <1>3

LEMMA CountsStep ==
  ASSUME WorkDaysTypeOK, WorkDaysTypeOK', RunsInv, CountsInv, RunsMove
  PROVE  CountsInv'
<1>1. ASSUME NEW D, NEW S, DaysOf(D, S), run' = Noted(D)
      PROVE  CountsInv'
  <2>1. ASSUME NEW q \in Runs, run'[q] # None PROVE GoodCount(run[q])'
    <3>1. /\ run[q] # None /\ run[q].day \in Days
          /\ \/ run'[q] = Disturbed(run[q], Moving(run[q].day))
             \/ run[q].day \notin D /\ run'[q] = run[q]
      BY <1>1, <2>1, RunsNoted, RunFields DEF RunsInv
    <3>2. CASE run'[q] = Disturbed(run[q], Moving(run[q].day))
      BY <3>1, <3>2, NotedCount
    <3>3. CASE run[q].day \notin D /\ run'[q] = run[q]
      <4>1. /\ \A u \in Users : /\ logs'[u][run[q].day] = logs[u][run[q].day]
                                /\ leaves'[u][run[q].day] = leaves[u][run[q].day]
            /\ active' = active
        BY <1>1, <3>1, <3>3, OtherDaysStand
      <4> QED
        BY <3>1, <3>3, <4>1, NotedCount
    <3> QED
      BY <3>1, <3>2, <3>3
  <2> QED
    BY <2>1 DEF CountsInv
<1>2. ASSUME NEW r \in Runs, WriteSnapshot(r), UNCHANGED dayVars PROVE CountsInv'
  <2>1. PICK s \in Run : s = run[r] /\ GoodCount(s) /\ s.day \in Days
    BY <1>2, RunFields DEF WriteSnapshot, RunsInv, CountsInv
  <2> DEFINE t == [s EXCEPT !.half = "alerts", !.at = "day", !.row = None, !.staff = {}]
             rest == IF snapshots' = snapshots THEN run ELSE Noted({s.day})
  <2>2. run' = [rest EXCEPT ![r] = t]
    BY <1>2, <2>1 DEF WriteSnapshot
  <2>3. /\ t \in Run /\ t.day = s.day /\ t.at = "day" /\ t.fig = s.fig /\ t.moved = s.moved
    BY DEF Run
  <2> HIDE DEF t
  <2>4. rest \in [Runs -> Run \cup {None}]
    BY RunsNoted DEF RunsInv
  <2>5. run'[r] = t /\ \A q \in Runs \ {r} : run'[q] = rest[q]
    <3> HIDE DEF rest
    <3> QED
      BY <2>2, <2>4
  <2>6. GoodCount(t)'
    <3>1. GoodCount(t)
      BY <2>1, <2>3, CountCarried
    <3> QED
      BY <1>2, <2>3, <3>1, CountsKept
  <2>7. ASSUME NEW q \in Runs, run'[q] # None PROVE GoodCount(run[q])'
    <3>1. CASE q = r
      BY <2>5, <2>6, <3>1 DEF GoodCount
    <3>2. CASE q # r
      <4>1. rest[q] # None /\ run'[q] = rest[q]
        BY <2>5, <2>7, <3>2
      <4>2. run[q] # None /\ (run'[q] = Disturbed(run[q], Moving(run[q].day)) \/ run'[q] = run[q])
        BY <4>1, RunsNoted
      <4>3. UNCHANGED <<active, logs, leaves>>
        BY <1>2 DEF dayVars
      <4> QED
        BY <4>2, <4>3, NotedCount
    <3> QED
      BY <3>1, <3>2
  <2> QED
    BY <2>7 DEF CountsInv
<1>3. ASSUME NEW r \in Runs, NEW d \in Days, StartRun(r, d), UNCHANGED dayVars
      PROVE  CountsInv'
  <2> DEFINE t == [day |-> d, half |-> "snapshot", at |-> "day", fig |-> Zero, row |-> None,
                   staff |-> {}, raised |-> {}, still |-> TRUE, moved |-> {}]
  <2>1. t \in Run /\ t.fig = Zero /\ t.at = "day"
    <3>1. Zero \in Figures
      BY DEF Zero, Figures
    <3> QED
      BY <3>1 DEF Run
  <2>2. run' = [run EXCEPT ![r] = t]
    BY <1>3 DEF StartRun
  <2> HIDE DEF t
  <2> QED
    BY <1>3, <2>1, <2>2, NothingCounted, CountAdvances
<1>4. ASSUME NEW r \in Runs, RunStep(r), UNCHANGED dayVars PROVE CountsInv'
  <2>1. CASE KillRun(r)
    BY <1>4, <2>1, CountAdvances DEF KillRun
  <2> QED
    BY <1>2, <1>4, <2>1, CountingStep, CountedStep DEF RunStep
<1>5. ASSUME UNCHANGED <<dayVars, run>> PROVE CountsInv'
  <2>1. ASSUME NEW q \in Runs, run'[q] # None PROVE GoodCount(run[q])'
    BY <1>5, <2>1, NotedCount DEF dayVars
  <2> QED
    BY <2>1 DEF CountsInv
<1> QED
  BY <1>1, <1>3, <1>4, <1>5 DEF RunsMove

-----------------------------------------------------------------------------
(* The three beside each other. *)

Inv ==
  /\ WorkDaysTypeOK
  /\ DeskInv
  /\ StreakInv
  /\ RunsInv
  /\ CountsInv

LEMMA InitInv == Init => Inv
<1> SUFFICES ASSUME Init PROVE Inv
  OBVIOUS
<1>1. WorkDaysTypeOK
  BY WorkDaysAssumption DEF Init, WorkDaysInit, WorkDaysTypeOK, Days
<1>2. DeskInv
  BY DEF Init, LeaveDeskInit, DeskInv, LeaveDeskTypeOK, GoodRequest, GoodDesk
<1>3. StreakInv
  <2>1. /\ clock = 0 /\ cache = [u \in Users |-> [d \in Days |-> None]]
        /\ view = [v \in Viewers |-> None] /\ changedAt = [u \in Users |-> 0]
    BY DEF Init, StreaksInit
  <2>2. StreakTypes
    BY <2>1 DEF StreakTypes
  <2>3. \A u \in Users : GoodEntry(u)
    BY <1>1, <2>1 DEF GoodEntry, WorkDaysTypeOK
  <2> QED
    BY <2>1, <2>2, <2>3 DEF StreakInv
<1>4. RunsInv /\ CountsInv
  BY DEF Init, AnalysisInit, RunsInv, CountsInv
<1> QED
  BY <1>1, <1>2, <1>3, <1>4 DEF Inv

\* Every step is one of the days, of an analysis, of a streak or of a request.
LEMMA StepKinds ==
  ASSUME WorkDaysTypeOK, [Next]_vars
  PROVE  /\ WorkDaysTypeOK'
         /\ LeaveMove \/ UNCHANGED leaveVars
         /\ StreakMove
         /\ RunsMove
<1>1. CASE DaysChange
  <2>1. PICK D \in SUBSET Days, S \in SUBSET Users : DaysOf(D, S) /\ Change(D, S)
    <3>1. ASSUME NEW u \in Users, NEW d \in Days, NEW s \in Status \cup {None},
                 LogChanges(u, d, s), Change({d}, {u})
          PROVE  \E D \in SUBSET Days, S \in SUBSET Users : DaysOf(D, S) /\ Change(D, S)
      <4>1. DaysOf({d}, {u}) /\ {d} \in SUBSET Days /\ {u} \in SUBSET Users
        BY <3>1 DEF DaysOf
      <4> QED
        BY <3>1, <4>1
    <3>2. ASSUME NEW u \in Users, NEW d \in Days, NEW n \in 0..MaxLeaves,
                 LeaveChanges(u, d, n), Change({d}, {u})
          PROVE  \E D \in SUBSET Days, S \in SUBSET Users : DaysOf(D, S) /\ Change(D, S)
      <4>1. DaysOf({d}, {u}) /\ {d} \in SUBSET Days /\ {u} \in SUBSET Users
        BY <3>2 DEF DaysOf
      <4> QED
        BY <3>2, <4>1
    <3>3. ASSUME NEW d \in Days, HolidayChanges(d), Change({d}, Users)
          PROVE  \E D \in SUBSET Days, S \in SUBSET Users : DaysOf(D, S) /\ Change(D, S)
      <4>1. DaysOf({d}, Users) /\ {d} \in SUBSET Days /\ Users \in SUBSET Users
        BY <3>3 DEF DaysOf
      <4> QED
        BY <3>3, <4>1
    <3>4. ASSUME NEW u \in Users, StaffChanges(u), Change(Days, {})
          PROVE  \E D \in SUBSET Days, S \in SUBSET Users : DaysOf(D, S) /\ Change(D, S)
      <4>1. DaysOf(Days, {}) /\ Days \in SUBSET Days /\ {} \in SUBSET Users
        BY <3>4 DEF DaysOf
      <4> QED
        BY <3>4, <4>1
    <3>5. ASSUME NextDay, Change({}, Users)
          PROVE  \E D \in SUBSET Days, S \in SUBSET Users : DaysOf(D, S) /\ Change(D, S)
      <4>1. DaysOf({}, Users) /\ {} \in SUBSET Days /\ Users \in SUBSET Users
        BY <3>5 DEF DaysOf
      <4> QED
        BY <3>5, <4>1
    <3> QED
      BY <1>1, <3>1, <3>2, <3>3, <3>4, <3>5 DEF DaysChange
  <2>2. /\ Touch(S) /\ run' = Noted(D)
        /\ UNCHANGED <<snapshots, clock, cache, view, leaveVars>>
    BY <2>1 DEF Change
  <2>3. WorkDaysTypeOK'
    BY <2>1, DaysStep
  <2>4. StreakMove /\ RunsMove
    BY <2>1, <2>2 DEF StreakMove, RunsMove
  <2> QED
    BY <2>2, <2>3, <2>4
<1>2. ASSUME NEW r \in Runs, Analyse(r)
      PROVE  /\ WorkDaysTypeOK' /\ UNCHANGED leaveVars /\ StreakMove /\ RunsMove
  <2>1. /\ UNCHANGED <<dayVars, streakVars, leaveVars>>
        /\ RunStep(r) \/ \E d \in Days : StartRun(r, d)
    BY <1>2 DEF Analyse
  <2> QED
    BY <2>1 DEF StreakMove, RunsMove, WorkDaysTypeOK, dayVars
<1>3. ASSUME NEW v \in Viewers, ShowStreak(v)
      PROVE  /\ WorkDaysTypeOK' /\ UNCHANGED leaveVars /\ StreakMove /\ RunsMove
  <2>1. /\ UNCHANGED <<dayVars, analysisVars, leaveVars>>
        /\ ViewStep(v) \/ \E u \in Users : Miss(v, u)
    BY <1>3 DEF ShowStreak
  <2> QED
    BY <2>1 DEF StreakMove, RunsMove, WorkDaysTypeOK, dayVars, analysisVars
<1>4. ASSUME NEW q \in Requests, RequestLeave(q)
      PROVE  /\ WorkDaysTypeOK' /\ LeaveMove /\ StreakMove /\ RunsMove
  <2>1. /\ UNCHANGED <<dayVars, analysisVars, streakVars>>
        /\ Delete(q) \/ \E s \in Statuses, reason \in BOOLEAN : Submit(q, s, reason)
    BY <1>4 DEF RequestLeave
  <2> QED
    BY <2>1 DEF LeaveMove, StreakMove, RunsMove, WorkDaysTypeOK, dayVars, analysisVars
<1>5. ASSUME NEW m \in Desks, DecideLeave(m)
      PROVE  /\ WorkDaysTypeOK' /\ LeaveMove /\ StreakMove /\ RunsMove
  <2>1. /\ UNCHANGED <<dayVars, analysisVars, streakVars>>
        /\ DeskOpen(m) \/ DeskStep(m)
    BY <1>5 DEF DecideLeave
  <2> QED
    BY <2>1 DEF LeaveMove, StreakMove, RunsMove, WorkDaysTypeOK, dayVars, analysisVars
<1>6. ASSUME Tick, UNCHANGED <<dayVars, analysisVars, leaveVars, acts>>
      PROVE  /\ WorkDaysTypeOK' /\ UNCHANGED leaveVars /\ StreakMove /\ RunsMove
  BY <1>6 DEF StreakMove, RunsMove, WorkDaysTypeOK, dayVars, analysisVars
<1>7. ASSUME UNCHANGED vars
      PROVE  /\ WorkDaysTypeOK' /\ UNCHANGED leaveVars /\ StreakMove /\ RunsMove
  BY <1>7 DEF StreakMove, RunsMove, WorkDaysTypeOK, vars, dayVars, analysisVars
<1> QED
  BY <1>1, <1>2, <1>3, <1>4, <1>5, <1>6, <1>7 DEF Next

LEMMA InvHolds == Spec => []Inv
<1>1. Inv /\ [Next]_vars => Inv'
  BY StepKinds, LeaveStep, StreakStep, RunsStep, CountsStep DEF Inv
<1> QED
  BY InitInv, <1>1, PTL DEF Spec

\* Until two screens decide one leave request at once or a form sets its
\* status, it is decided once, by someone on record, and with a reason exactly
\* when it was refused.
THEOREM RequestsDecidedOnce == Spec => []DecidedOnce
<1>1. Inv => DecidedOnce
  BY DEF Inv, DeskInv, GoodRequest, DecidedOnce
<1> QED
  BY <1>1, InvHolds, PTL

\* A streak that is shown and wrong is gone within the ten minutes of the
\* change that made it wrong, whatever the three queries saw and however long
\* the request took.
THEOREM WrongStreaksExpire == Spec => []StaleStreakExpires
<1>1. Inv => StaleStreakExpires
  BY DEF Inv, StreakInv, GoodEntry, Live, StaleStreakExpires
<1> QED
  BY <1>1, InvHolds, PTL

\* However the three counts overlap, and whoever checks in, goes on leave or
\* leaves between the queries, a branch is charged with no more absences than
\* it has employees who are missing or moved while it was counted.
THEOREM AbsencesAreAccountedFor == Spec => []AbsencesAccountedFor
<1>1. Inv => AbsencesAccountedFor
  BY DEF Inv, CountsInv, GoodCount, AbsencesAccountedFor
<1> QED
  BY <1>1, InvHolds, PTL

\* A run under which nothing was changed raised the alerts that the snapshot
\* it leaves calls for, and no other, though it counted twice.
THEOREM AlertsAgreeWithSnapshots == Spec => []AlertsMatchSnapshot
<1>1. ASSUME Inv, NEW r \in Runs, run[r] # None, run[r].at = "done", run[r].still
      PROVE  /\ snapshots[run[r].day] # None
             /\ "low_attendance" \in run[r].raised <=> LowAttendance(snapshots[run[r].day])
             /\ "mass_late" \in run[r].raised <=> MassLate(snapshots[run[r].day])
  <2>1. PICK s \in Run : s = run[r]
    BY <1>1 DEF Inv, RunsInv
  <2>2. /\ snapshots[s.day] # None /\ Same(snapshots[s.day], TrueFig(s.day))
        /\ "low_attendance" \in s.raised <=> LowAttendance(TrueFig(s.day))
        /\ "mass_late" \in s.raised <=> MassLate(TrueFig(s.day))
    BY <1>1, <2>1 DEF Inv, RunsInv, GoodRun
  <2> QED
    BY <2>1, <2>2, SameAlerts
<1>2. Inv => AlertsMatchSnapshot
  BY <1>1 DEF AlertsMatchSnapshot
<1> QED
  BY <1>2, InvHolds, PTL

-----------------------------------------------------------------------------
(* The loop of a streak, and the types that depend on it. *)

\* What the loop returns from a day on, and what it is made of.
Loop(attended, excused, from, back) ==
  /\ back \in [-1..MaxDay -> Nat]
  /\ Streak(attended, excused, from) = back[from]
  /\ \A d \in -1..MaxDay :
       back[d] = IF d < 0 \/ from - d >= Window THEN 0
                 ELSE IF d \in excused THEN back[d - 1]
                 ELSE IF d \in attended THEN 1 + back[d - 1]
                 ELSE 0

\* The loop ends: each day asks for the day before.
LEMMA LoopDefined ==
  ASSUME NEW attended, NEW excused, NEW from \in Days
  PROVE  \E back : Loop(attended, excused, from, back)
<1> DEFINE S == -1..MaxDay
           measure == [d \in S |-> d + 1]
           value(d, g) == IF d < 0 \/ from - d >= Window THEN 0
                          ELSE IF d \in excused THEN g[d - 1]
                          ELSE IF d \in attended THEN 1 + g[d - 1]
                          ELSE 0
           body == [d \in S |-> [g \in [S -> Nat] |-> value(d, g)]]
<1>1. \A d \in S : d >= 0 => d - 1 \in S /\ measure[d - 1] < measure[d]
  BY WorkDaysAssumption
<1>2. measure \in [S -> Nat]
  BY WorkDaysAssumption
<1>3. ASSUME NEW d \in S, NEW g \in [S -> Nat] PROVE value(d, g) \in Nat
  <2>1. d >= 0 => g[d - 1] \in Nat
    BY <1>1
  <2> QED
    BY <2>1
<1>4. body \in [S -> [[S -> Nat] -> Nat]]
  BY <1>3
<1>5. \A d \in S, g, h \in [S -> Nat] :
        (\A y \in S : measure[y] < measure[d] => g[y] = h[y]) => body[d][g] = body[d][h]
  <2> SUFFICES ASSUME NEW d \in S, NEW g \in [S -> Nat], NEW h \in [S -> Nat],
                      \A y \in S : measure[y] < measure[d] => g[y] = h[y]
               PROVE  value(d, g) = value(d, h)
    OBVIOUS
  <2>1. d >= 0 => g[d - 1] = h[d - 1]
    BY <1>1
  <2> QED
    BY <2>1
<1>6. PICK f : Solves(S, Nat, body, f)
  <2> HIDE DEF S, measure, body
  <2>1. Descends(S, Nat, measure, body)
    BY <1>2, <1>4, <1>5 DEF Descends
  <2> QED
    BY <2>1, Recursion
<1>7. f = [d \in S |-> value(d, f)]
  BY <1>6 DEF Solves
<1> DEFINE back == CHOOSE b : b = [d \in S |-> value(d, b)]
<1>8. back = [d \in S |-> value(d, back)]
  BY <1>7
<1>9. Streak(attended, excused, from) = back[from]
  BY DEF Streak
<1> HIDE DEF back
<1>10. \A d \in S : back[d] = value(d, back)
  BY <1>8
\* By induction it counts.
<1> DEFINE T == {n \in Nat : n - 1 \in S => back[n - 1] \in Nat}
<1>11. 0 \in T
  BY <1>10
<1>12. ASSUME NEW n \in Nat, n \in T PROVE n + 1 \in T
  <2>1. SUFFICES ASSUME n \in S PROVE back[n] \in Nat
    OBVIOUS
  <2>2. n - 1 \in S
    BY <2>1, WorkDaysAssumption
  <2>3. back[n - 1] \in Nat
    BY <1>12, <2>2
  <2>4. back[n] = value(n, back)
    BY <1>10, <2>1
  <2> QED
    BY <2>2, <2>3, <2>4
<1>13. Nat \subseteq T
  <2> HIDE DEF T
  <2> QED
    BY <1>11, <1>12, Induction
<1>14. ASSUME NEW d \in S PROVE back[d] \in Nat
  <2>1. d + 1 \in Nat
    OBVIOUS
  <2>2. d + 1 \in T
    BY <1>13, <2>1
  <2>3. (d + 1) - 1 = d
    OBVIOUS
  <2> QED
    BY <2>2, <2>3
<1>15. Loop(attended, excused, from, back)
  BY <1>8, <1>9, <1>10, <1>14 DEF Loop
<1> QED
  BY <1>15

\* The days that count for a streak that is asked for on one day, up to
\* another.
RunTo(attended, excused, from, d) ==
  {x \in Days : /\ x =< d /\ from - x < Window
                /\ x \in attended \ excused
                /\ (x..d) \ excused \subseteq attended}

\* The loop counts them.
LEMMA LoopCounts ==
  ASSUME NEW attended, NEW excused, NEW from \in Days, NEW back,
         Loop(attended, excused, from, back), NEW d \in -1..MaxDay
  PROVE  /\ back[d] = Cardinality(RunTo(attended, excused, from, d))
         /\ IsFiniteSet(RunTo(attended, excused, from, d))
<1> DEFINE R(e) == RunTo(attended, excused, from, e)
           T == {n \in Nat : n - 1 \in -1..MaxDay =>
                               back[n - 1] = Cardinality(R(n - 1)) /\ IsFiniteSet(R(n - 1))}
<1>1. 0 \in T
  <2>1. R(-1) = {}
    BY DEF RunTo, Days
  <2>2. back[-1] = 0
    BY WorkDaysAssumption DEF Loop
  <2> HIDE DEF R
  <2> QED
    BY <2>1, <2>2, FS_EmptySet
<1>2. ASSUME NEW n \in Nat, n \in T PROVE n + 1 \in T
  <2>1. SUFFICES ASSUME n \in 0..MaxDay
                 PROVE  back[n] = Cardinality(R(n)) /\ IsFiniteSet(R(n))
    <3>1. (n + 1) - 1 = n
      OBVIOUS
    <3> HIDE DEF R
    <3> QED
      BY <3>1
  <2>2. n - 1 \in -1..MaxDay
    BY <2>1, WorkDaysAssumption
  <2>3. /\ back[n - 1] = Cardinality(R(n - 1)) /\ IsFiniteSet(R(n - 1))
        /\ n - 1 \in -1..MaxDay
    <3> HIDE DEF R
    <3> QED
      BY <1>2, <2>2
  <2>4. back[n] = IF from - n >= Window THEN 0
                  ELSE IF n \in excused THEN back[n - 1]
                  ELSE IF n \in attended THEN 1 + back[n - 1]
                  ELSE 0
    BY <2>1 DEF Loop
  <2>5. CASE from - n >= Window
    <3>1. \A x \in Days : x =< n => from - x >= Window
      BY <2>5, StreaksAssumption, WorkDaysAssumption DEF Days
    <3>2. R(n) = {}
      BY <3>1, StreaksAssumption, WorkDaysAssumption DEF RunTo, Days
    <3> HIDE DEF R
    <3> QED
      BY <2>4, <2>5, <3>2, FS_EmptySet
  <2>6. CASE from - n < Window /\ n \in excused
    <3>1. ASSUME NEW x \in Days PROVE x \in R(n) <=> x \in R(n - 1)
      <4>1. x =< n /\ x \notin excused <=> x =< n - 1 /\ x \notin excused
        BY <2>6 DEF Days
      <4>2. (x..n) \ excused = (x..(n - 1)) \ excused
        BY <2>6 DEF Days
      <4> QED
        BY <4>1, <4>2 DEF RunTo
    <3>2. R(n) = R(n - 1)
      BY <3>1 DEF RunTo
    <3> HIDE DEF R
    <3> QED
      BY <2>3, <2>4, <2>6, <3>2, StreaksAssumption DEF Days
  <2>7. CASE from - n < Window /\ n \notin excused /\ n \in attended
    <3>1. ASSUME NEW x \in Days PROVE x \in R(n) <=> x \in R(n - 1) \cup {n}
      <4>1. x =< n <=> x =< n - 1 \/ x = n
        BY DEF Days
      <4>2. (x..n) \ excused \subseteq attended <=> (x..(n - 1)) \ excused \subseteq attended
        <5>1. \A y : y \in x..n => y \in x..(n - 1) \/ y = n
          BY DEF Days
        <5>2. \A y : y \in x..(n - 1) => y \in x..n
          BY DEF Days
        <5> QED
          BY <5>1, <5>2, <2>7
      <4>3. (n..n) \ excused \subseteq attended
        BY <2>7
      <4> QED
        BY <2>7, <4>1, <4>2, <4>3 DEF RunTo
    <3>2. R(n) = R(n - 1) \cup {n} /\ n \notin R(n - 1)
      BY <2>1, <3>1 DEF RunTo, Days
    <3> HIDE DEF R
    <3>3. /\ Cardinality(R(n - 1) \cup {n}) = Cardinality(R(n - 1)) + 1
          /\ IsFiniteSet(R(n - 1) \cup {n})
      BY <2>3, <3>2, FS_AddElement
    <3>4. Cardinality(R(n - 1)) \in Nat
      BY <2>3, FS_CardinalityType
    <3> QED
      BY <2>3, <2>4, <2>7, <3>2, <3>3, <3>4, StreaksAssumption DEF Days
  <2>8. CASE from - n < Window /\ n \notin excused /\ n \notin attended
    <3>1. \A x \in Days : x =< n => n \in (x..n) \ excused
      BY <2>1, <2>8 DEF Days
    <3>2. R(n) = {}
      BY <2>8, <3>1 DEF RunTo
    <3> HIDE DEF R
    <3> QED
      BY <2>4, <2>8, <3>2, FS_EmptySet, StreaksAssumption DEF Days
  <2> QED
    BY <2>5, <2>6, <2>7, <2>8, StreaksAssumption, WorkDaysAssumption DEF Days
<1>3. Nat \subseteq T
  <2> HIDE DEF T
  <2> QED
    BY <1>1, <1>2, Induction
<1>4. d + 1 \in Nat /\ (d + 1) - 1 = d
  OBVIOUS
<1>5. d + 1 \in T
  <2> HIDE DEF T
  <2> QED
    BY <1>3, <1>4
<1> HIDE DEF R
<1>6. back[d] = Cardinality(R(d)) /\ IsFiniteSet(R(d))
  BY <1>4, <1>5
<1> QED
  BY <1>6 DEF R

\* A streak is a number,
LEMMA StreakIsNumber ==
  ASSUME NEW attended, NEW excused, NEW from \in Days
  PROVE  Streak(attended, excused, from) \in Nat
<1>1. PICK back : Loop(attended, excused, from, back)
  BY LoopDefined
<1>2. from \in -1..MaxDay
  BY DEF Days
<1> QED
  BY <1>1, <1>2 DEF Loop

\* that of the days in the run.
LEMMA StreakCounts ==
  ASSUME NEW attended, NEW excused, NEW from \in Days
  PROVE  Streak(attended, excused, from)
           = Cardinality(RunTo(attended, excused, from, from))
<1>1. PICK back : Loop(attended, excused, from, back)
  BY LoopDefined
<1>2. from \in -1..MaxDay
  BY DEF Days
<1>3. back[from] = Cardinality(RunTo(attended, excused, from, from))
  BY <1>1, <1>2, LoopCounts
<1> QED
  BY <1>1, <1>3 DEF Loop

\* What is in reach of no other invariant: the bounds, what is stored, and
\* the alerts.
StoreInv ==
  /\ clock =< MaxClock
  /\ cache \in [Users -> [Days -> Entry \cup {None}]]
  /\ alerts \in [Days -> [AlertTypes -> Nat]]
  /\ acts \in 0..MaxActs

\* A request stores a number,
LEMMA StoredEntry ==
  ASSUME Inv, StoreInv, NEW v \in Viewers, Store(v)
  PROVE  cache' \in [Users -> [Days -> Entry \cup {None}]]
<1>1. PICK s \in View : s = view[v]
  BY DEF Store, Viewing, Inv, StreakInv, StreakTypes
<1>2. s.user \in Users /\ s.key \in Days /\ s.from \in Days /\ s.until \in Nat
  BY DEF View
<1> DEFINE value == Streak(s.attended, Weekend \cup holidays \cup s.excused, s.from)
<1> DEFINE entry == IF s.until > clock THEN [value |-> value, until |-> s.until] ELSE None
<1>3. cache' = [cache EXCEPT ![s.user][s.key] = entry]
  BY <1>1 DEF Store, Expiry
<1>4. value \in Nat
  BY <1>2, StreakIsNumber
<1> HIDE DEF value
<1>5. entry \in Entry \cup {None}
  BY <1>2, <1>4 DEF Entry
<1> HIDE DEF entry
<1> QED
  BY <1>2, <1>3, <1>5 DEF StoreInv

\* and a run raises one more alert, or none.
LEMMA RaisedAlerts ==
  ASSUME Inv, StoreInv, NEW r \in Runs, RunStep(r)
  PROVE  alerts' \in [Days -> [AlertTypes -> Nat]]
<1>1. ASSUME NEW type \in AlertTypes, NEW condition, NEW next, run[r] # None,
             Raise(r, type, condition, next)
      PROVE  alerts' \in [Days -> [AlertTypes -> Nat]]
  <2>1. PICK s \in Run : s = run[r]
    BY <1>1 DEF Inv, RunsInv
  <2>2. PICK d \in Days : d = run[r].day
    BY <2>1 DEF Run
  <2>3. \/ alerts' = alerts
        \/ alerts' = [alerts EXCEPT ![d][type] = @ + 1]
    BY <1>1, <2>2 DEF Raise
  <2>4. /\ alerts \in [Days -> [AlertTypes -> Nat]]
        /\ alerts[d] \in [AlertTypes -> Nat] /\ alerts[d][type] + 1 \in Nat
    BY <1>1 DEF StoreInv
  <2>5. [alerts EXCEPT ![d][type] = @ + 1] \in [Days -> [AlertTypes -> Nat]]
    BY <1>1, <2>4
  <2> QED
    BY <2>3, <2>4, <2>5
<1>2. CASE RaiseLow(r)
  BY <1>1, <1>2 DEF RaiseLow, AlertTypes
<1>3. CASE RaiseLate(r)
  BY <1>1, <1>3 DEF RaiseLate, AlertTypes
<1>4. CASE ~RaiseLow(r) /\ ~RaiseLate(r)
  <2>1. UNCHANGED alerts
    BY <1>4 DEF RunStep, CheckDay, ReadLogs, ReadStaff, ReadLeaves, CountActive,
                FindSnapshot, WriteSnapshot, KillRun
  <2> QED
    BY <2>1 DEF StoreInv
<1> QED
  BY <1>2, <1>3, <1>4

LEMMA StoreInvStep == Inv /\ StoreInv /\ [Next]_vars => StoreInv'
<1> SUFFICES ASSUME Inv, StoreInv, [Next]_vars PROVE StoreInv'
  OBVIOUS
<1>1. acts' \in 0..MaxActs
  <2>1. Act => acts' \in 0..MaxActs
    BY AbsencesAssumption DEF Act, StoreInv
  <2> QED
    BY <2>1 DEF Next, DaysChange, Change, Analyse, ShowStreak, RequestLeave,
                DecideLeave, StoreInv, vars
<1>2. clock' =< MaxClock
  <2>1. Tick => clock' =< MaxClock
    BY StreaksAssumption DEF Tick, Inv, StreakInv, StreakTypes
  <2>2. ASSUME NEW v \in Viewers, ShowStreak(v) PROVE UNCHANGED clock
    BY <2>2 DEF ShowStreak, Miss, ViewStep, QueryLogs, QueryLeaves, Store, KillView
  <2> QED
    BY <2>1, <2>2 DEF Next, DaysChange, Change, Analyse, RequestLeave, DecideLeave,
                      streakVars, StoreInv, vars
<1>3. cache' \in [Users -> [Days -> Entry \cup {None}]]
  <2>1. ASSUME NEW v \in Viewers, ShowStreak(v) PROVE UNCHANGED cache \/ Store(v)
    BY <2>1 DEF ShowStreak, Miss, ViewStep, QueryLogs, QueryLeaves, KillView
  <2>2. UNCHANGED cache \/ \E v \in Viewers : Store(v)
    BY <2>1 DEF Next, DaysChange, Change, Analyse, RequestLeave, DecideLeave, Tick,
                streakVars, vars
  <2> QED
    BY <2>2, StoredEntry DEF StoreInv
<1>4. alerts' \in [Days -> [AlertTypes -> Nat]]
  <2>1. ASSUME NEW r \in Runs, Analyse(r) PROVE UNCHANGED alerts \/ RunStep(r)
    BY <2>1 DEF Analyse, StartRun
  <2>2. UNCHANGED alerts \/ \E r \in Runs : RunStep(r)
    BY <2>1 DEF Next, DaysChange, Change, ShowStreak, RequestLeave, DecideLeave,
                analysisVars, vars
  <2> QED
    BY <2>2, RaisedAlerts DEF StoreInv
<1> QED
  BY <1>1, <1>2, <1>3, <1>4 DEF StoreInv

\* Days, runs, figures, the cache, the requests for leave and who holds them
\* are what they are declared to be; a streak in the cache is a number, for
\* the loop it comes from ends.
THEOREM AbsencesTyped == Spec => []TypeOK
<1>1. Init => StoreInv
  BY StreaksAssumption, AbsencesAssumption
     DEF Init, StreaksInit, AnalysisInit, StoreInv
<1>2. Inv /\ Inv' /\ StoreInv /\ [Next]_vars => StoreInv'
  BY StoreInvStep
<1>3. ASSUME Inv, StoreInv PROVE TypeOK
  <2>1. WorkDaysTypeOK /\ LeaveDeskTypeOK /\ acts \in 0..MaxActs
    BY <1>3 DEF Inv, DeskInv, StoreInv
  <2>2. AnalysisTypeOK
    BY <1>3 DEF Inv, RunsInv, StoreInv, AnalysisTypeOK
  <2>3. changedAt \in [Users -> 0..clock]
    BY <1>3 DEF Inv, StreakInv, StreakTypes
  <2>4. StreaksTypeOK
    BY <1>3, <2>3, StreaksAssumption DEF Inv, StreakInv, StreakTypes, StoreInv, StreaksTypeOK
  <2> QED
    BY <2>1, <2>2, <2>4 DEF TypeOK
<1> QED
  BY <1>1, <1>2, <1>3, InvHolds, PTL DEF Spec

\* The loop that walks backwards over weekends, holidays and leaves comes to
\* the number of working days the employee was there and since which he
\* missed none, wherever its window ends.
THEOREM StreaksAreRuns == Spec => []StreakIsRun
<1>1. ASSUME WorkDaysTypeOK, NEW u \in Users
      PROVE  LET excused == Weekend \cup holidays \cup OnLeaveDays(u)
                 seen == {d \in Days : d =< today /\ today - d < Window}
             IN TrueStreak(u) = Cardinality({d \in (Attended(u) \ excused) \cap seen :
                                   (d..today) \ excused \subseteq Attended(u)})
  <2> DEFINE excused == Weekend \cup holidays \cup OnLeaveDays(u)
             seen == {d \in Days : d =< today /\ today - d < Window}
             days == {d \in (Attended(u) \ excused) \cap seen :
                        (d..today) \ excused \subseteq Attended(u)}
  <2>1. today \in Days
    BY <1>1 DEF WorkDaysTypeOK
  <2>2. TrueStreak(u) = Cardinality(RunTo(Attended(u), excused, today, today))
    BY <2>1, StreakCounts DEF TrueStreak
  <2>3. RunTo(Attended(u), excused, today, today) = days
    BY DEF RunTo
  <2> QED
    BY <2>2, <2>3
<1>2. Inv => StreakIsRun
  BY <1>1 DEF Inv, StreakIsRun
<1> QED
  BY <1>2, InvHolds, PTL
=============================================================================
