----------------------------- MODULE UserShifts -----------------------------
(***************************************************************************)
(* Which shift an employee works: the rows of user_shifts, one of them     *)
(* marked as current, and the requests that move the mark.  Nothing in the *)
(* table keeps a user from having two marks, or none.                      *)
(***************************************************************************)
EXTENDS Staff, Integers, Sequences

CONSTANTS
  Shifts, Standard,      \* the shifts, and the one the deployment page gives
  Managers,              \* requests that change assignments
  Assignments            \* the rows a user may start with

Row == [shift : Shifts, over : BOOLEAN, current : BOOLEAN]

Switch == [user : Users, at : {"loaded", "cleared", "detached", "sought"},
           row : Nat, wasCurrent : BOOLEAN, alone : BOOLEAN]

Current(rows) == {i \in DOMAIN rows : rows[i].current}

ASSUME ShiftsAssumption ==
  /\ Standard \in Shifts
  /\ None \notin Shifts \cup Switch
  /\ Assignments \subseteq Seq(Row)
  /\ \A rows \in Assignments : \A i, j \in Current(rows) : i = j

VARIABLES
  assigned,     \* user_shifts, the rows of each user by id
  switch,       \* what a request holds in memory
  crossed,      \* history: the last to write was not alone with the user
  chosen        \* history: the shift the user was given last, if that holds

shiftVars == <<assigned, switch, crossed, chosen>>

ShiftsTypeOK ==
  /\ assigned \in [Users -> Seq(Row)]
  /\ switch \in [Managers -> Switch \cup {None}]
  /\ \A m \in Managers : switch[m] # None =>
       switch[m].row \in 0..Len(assigned[switch[m].user])
  /\ crossed \in [Users -> BOOLEAN]
  /\ chosen \in [Users -> Shifts \cup {None}]

ShiftsInit ==
  /\ assigned \in [Users -> Assignments]
  /\ switch = [m \in Managers |-> None]
  /\ crossed = [u \in Users |-> FALSE]
  /\ chosen = [u \in Users |-> None]

\* The first row, by id, that satisfies the test; 0 if there is none.
First(S) == IF S = {} THEN 0 ELSE CHOOSE i \in S : \A j \in S : i =< j

\* User::activeShift(), of what the scopes active() and current() let through.
ActiveShift(u) ==
  LET i == First({j \in Current(assigned[u]) : ~assigned[u][j].over})
  IN IF i = 0 THEN None ELSE assigned[u][i].shift

Switching(m, steps) == switch[m] # None /\ switch[m].at \in steps

\* Request m takes user u in hand, as s, and no one else is alone with him.
Take(m, u, s) == switch' = [n \in Managers |->
  IF n = m THEN s
  ELSE IF switch[n] # None /\ switch[n].user = u THEN [switch[n] EXCEPT !.alone = FALSE]
  ELSE switch[n]]

NoOther(m, u) == \A n \in Managers \ {m} : switch[n] = None \/ switch[n].user # u

\* Rows of u are written, by a request that was alone with him or not.
Write(u, rows, alone, shift) ==
  /\ assigned' = [assigned EXCEPT ![u] = rows]
  /\ crossed' = [crossed EXCEPT ![u] = ~alone]
  /\ chosen' = [chosen EXCEPT ![u] = IF alone THEN shift ELSE None]

Unmarked(rows, S) ==
  [i \in DOMAIN rows |-> IF i \in S THEN [rows[i] EXCEPT !.current = FALSE] ELSE rows[i]]

-----------------------------------------------------------------------------
(* UserShift::makeCurrent() and terminate(), on a loaded row. *)

LoadAssignment(m, u, i) ==
  /\ switch[m] = None
  /\ Take(m, u, [user |-> u, at |-> "loaded", row |-> i,
                 wasCurrent |-> assigned[u][i].current, alone |-> NoOther(m, u)])
  /\ UNCHANGED <<assigned, crossed, chosen>>

\* Mutant: the other rows keep their marks.
KeepOthers(m) ==
  /\ Switching(m, {"loaded"})
  /\ switch' = [switch EXCEPT ![m].at = "cleared"]
  /\ UNCHANGED <<assigned, crossed, chosen>>

ClearOthers(m) == LET s == switch[m] IN
  /\ Switching(m, {"loaded"})
  /\ Write(s.user, Unmarked(assigned[s.user], DOMAIN assigned[s.user] \ {s.row}),
           s.alone, None)
  /\ switch' = [switch EXCEPT ![m].at = "cleared"]

\* A model that is already current in memory has nothing to save.
SetCurrent(m) ==
  LET s == switch[m]
      rows == assigned[s.user] IN
  /\ Switching(m, {"cleared"})
  /\ Write(s.user, IF s.wasCurrent THEN rows ELSE [rows EXCEPT ![s.row].current = TRUE],
           s.alone, IF rows[s.row].over THEN None ELSE rows[s.row].shift)
  /\ switch' = [switch EXCEPT ![m] = None]

\* The mark goes only if the model has it.
Terminate(m) ==
  LET s == switch[m]
      rows == assigned[s.user]
      row == rows[s.row] IN
  /\ Switching(m, {"loaded"})
  /\ assigned' = [assigned EXCEPT ![s.user] = [rows EXCEPT ![s.row] =
       [row EXCEPT !.over = TRUE, !.current = row.current /\ ~s.wasCurrent]]]
  /\ chosen' = [chosen EXCEPT ![s.user] = None]
  /\ switch' = [switch EXCEPT ![m] = None]
  /\ UNCHANGED crossed

KillSwitch(m) ==
  /\ switch[m] # None
  /\ switch' = [switch EXCEPT ![m] = None]
  /\ UNCHANGED <<assigned, crossed, chosen>>

-----------------------------------------------------------------------------
(* One employee's turn in DeploymentDataPage::applyStandardShift(). *)

Detach(m, u) ==
  /\ switch[m] = None
  /\ Take(m, u, [user |-> u, at |-> "detached", row |-> 0,
                 wasCurrent |-> FALSE, alone |-> NoOther(m, u)])
  /\ Write(u, Unmarked(assigned[u], DOMAIN assigned[u]), NoOther(m, u), None)

SeekStandard(m) == LET rows == assigned[switch[m].user] IN
  /\ Switching(m, {"detached"})
  /\ switch' = [switch EXCEPT ![m].at = "sought",
                  ![m].row = First({i \in DOMAIN rows : rows[i].shift = Standard})]
  /\ UNCHANGED <<assigned, crossed, chosen>>

\* Mutant: an assignment found is marked and left over.
MarkStandard(m) ==
  LET s == switch[m]
      rows == assigned[s.user]
      row == [shift |-> Standard, over |-> FALSE, current |-> TRUE] IN
  /\ Switching(m, {"sought"})
  /\ Write(s.user,
           IF s.row = 0 THEN Append(rows, row) ELSE [rows EXCEPT ![s.row].current = TRUE],
           s.alone, Standard)
  /\ switch' = [switch EXCEPT ![m] = None]

AttachStandard(m) ==
  LET s == switch[m]
      rows == assigned[s.user]
      row == [shift |-> Standard, over |-> FALSE, current |-> TRUE] IN
  /\ Switching(m, {"sought"})
  /\ Write(s.user, IF s.row = 0 THEN Append(rows, row) ELSE [rows EXCEPT ![s.row] = row],
           s.alone, Standard)
  /\ switch' = [switch EXCEPT ![m] = None]

-----------------------------------------------------------------------------
(* Properties. *)

\* A user has one current assignment at most, for as long as the requests
\* that switch his assignment do not overlap; and the next one that is alone
\* with him mends what two that overlapped left.  A request that dies half way
\* leaves none.
OneCurrent ==
  \A u \in Users : ~crossed[u] =>
    \A i, j \in Current(assigned[u]) : i = j

\* The shift a check-in is measured against is the one given last.
SwitchTakesEffect ==
  \A u \in Users : chosen[u] # None => ActiveShift(u) = chosen[u]
=============================================================================
