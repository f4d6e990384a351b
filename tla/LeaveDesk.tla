------------------------------ MODULE LeaveDesk ------------------------------
(***************************************************************************)
(* The leave requests and the people who decide them: approve and reject   *)
(* from the list, for what is pending, and a form that sets the status to  *)
(* anything.                                                               *)
(***************************************************************************)
EXTENDS Staff, Integers

CONSTANTS
  Requests,    \* ids of leave_requests
  Desks        \* requests of the administrators; each stands for its user

Statuses == {"pending", "approved", "rejected"}

LeaveRequest == [status : Statuses, by : Desks \cup {None}, reason : BOOLEAN,
                 deleted : BOOLEAN]

Handling == [kind : {"decide", "form"}, of : Requests, seen : Nat]

ASSUME LeaveDeskAssumption == None \notin Desks \cup LeaveRequest \cup Handling

VARIABLES
  request,     \* leave_requests
  desk,        \* what an administrator's request or page holds
  decisions,   \* history: how often a request was decided from the list
  tangled      \* history: decided on two screens at once, or set by a form

leaveVars == <<request, desk, decisions, tangled>>

LeaveDeskTypeOK ==
  /\ request \in [Requests -> LeaveRequest \cup {None}]
  /\ desk \in [Desks -> Handling \cup {None}]
  /\ decisions \in [Requests -> Nat]
  /\ tangled \in [Requests -> BOOLEAN]

LeaveDeskInit ==
  /\ request = [q \in Requests |-> None]
  /\ desk = [m \in Desks |-> None]
  /\ decisions = [q \in Requests |-> 0]
  /\ tangled = [q \in Requests |-> FALSE]

\* From the portal it is pending; the administrators' form has any status,
\* and a reason with the status rejected only.
Submit(q, s, reason) ==
  /\ request[q] = None
  /\ reason => s = "rejected"
  /\ request' = [request EXCEPT ![q] =
       [status |-> s, by |-> None, reason |-> reason, deleted |-> FALSE]]
  /\ tangled' = [tangled EXCEPT ![q] = s # "pending"]
  /\ UNCHANGED <<desk, decisions>>

Delete(q) ==
  /\ request[q] # None /\ ~request[q].deleted
  /\ request' = [request EXCEPT ![q].deleted = TRUE]
  /\ UNCHANGED <<desk, decisions, tangled>>

Holds(m, kind) == desk[m] # None /\ desk[m].kind = kind

\* Mutant: the button of a request that was decided still works.
VisibleToAll(q) == request[q] # None /\ ~request[q].deleted

Visible(q) == request[q] # None /\ ~request[q].deleted /\ request[q].status = "pending"

\* The record is loaded, and the action is visible for it.
LoadPending(m, q) ==
  /\ desk[m] = None
  /\ Visible(q)
  /\ desk' = [desk EXCEPT ![m] =
       [kind |-> "decide", of |-> q, seen |-> decisions[q]]]
  /\ UNCHANGED <<request, decisions, tangled>>

\* The columns that differ from the record that was loaded, which was pending.
Decide(m, s, reason) == LET q == desk[m].of IN
  /\ Holds(m, "decide")
  /\ request' = [request EXCEPT ![q].status = s, ![q].by = m, ![q].reason = @ \/ reason]
  /\ decisions' = [decisions EXCEPT ![q] = @ + 1]
  /\ tangled' = [tangled EXCEPT ![q] = @ \/ decisions[q] # desk[m].seen]
  /\ desk' = [desk EXCEPT ![m] = None]

Approve(m) == Decide(m, "approved", FALSE)

Reject(m) == Decide(m, "rejected", TRUE)

\* The edit page; it may stay open for as long as one likes.
OpenForm(m, q) ==
  /\ desk[m] = None
  /\ request[q] # None /\ ~request[q].deleted
  /\ desk' = [desk EXCEPT ![m] =
       [kind |-> "form", of |-> q, seen |-> decisions[q]]]
  /\ UNCHANGED <<request, decisions, tangled>>

\* The status goes as the form has it; the reason only when it is visible.
SaveForm(m, s, reason) == LET q == desk[m].of IN
  /\ Holds(m, "form")
  /\ reason => s = "rejected"
  /\ request' = [request EXCEPT ![q].status = s,
                                ![q].reason = IF s = "rejected" THEN reason ELSE @]
  /\ tangled' = [tangled EXCEPT ![q] = TRUE]
  /\ desk' = [desk EXCEPT ![m] = None]
  /\ UNCHANGED decisions

CloseDesk(m) ==
  /\ desk[m] # None
  /\ desk' = [desk EXCEPT ![m] = None]
  /\ UNCHANGED <<request, decisions, tangled>>

DeskOpen(m) == \E q \in Requests : LoadPending(m, q) \/ OpenForm(m, q)

DeskStep(m) ==
  \/ Approve(m) \/ Reject(m)
  \/ \E s \in Statuses, reason \in BOOLEAN : SaveForm(m, s, reason)
  \/ CloseDesk(m)

-----------------------------------------------------------------------------
(* Properties. *)

\* Until two screens decide one request at once or a form sets its status, a request
\* is decided once, by someone on record, with a reason exactly when it was
\* refused.
DecidedOnce ==
  \A q \in Requests : request[q] # None /\ ~tangled[q] =>
    /\ decisions[q] = IF request[q].status = "pending" THEN 0 ELSE 1
    /\ request[q].by = None <=> request[q].status = "pending"
    /\ request[q].reason <=> request[q].status = "rejected"
=============================================================================
