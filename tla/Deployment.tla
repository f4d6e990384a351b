----------------------------- MODULE Deployment -----------------------------
(***************************************************************************)
(* The deployment page beside the rest of the system: it empties the       *)
(* ledger, zeroes the balances and gives everybody the standard shift, one *)
(* statement after the other, while badges are awarded, points adjusted    *)
(* and assignments switched.                                               *)
(***************************************************************************)
EXTENDS PointsLedger, UserShifts

CONSTANTS
  Pages,         \* requests of the page, which are among the Managers
  MaxRequests    \* bound on requests

ASSUME DeploymentAssumption == Pages \subseteq Managers /\ MaxRequests \in Nat

VARIABLES
  page,          \* the steps a request of the page has left
  left,          \* the employees applyStandardShift() has not come to
  requests

vars == <<ledgerVars, shiftVars, page, left, requests>>

Jobs == {<<"truncate", "zero">>, <<"shifts">>, <<"truncate", "zero", "shifts">>}

TypeOK ==
  /\ PointsTypeOK
  /\ ShiftsTypeOK
  /\ page \in [Pages -> Jobs \cup {<<"zero">>, <<"zero", "shifts">>, <<>>}]
  /\ left \in [Pages -> SUBSET Employees]
  /\ \A p \in Pages : left[p] # {} => page[p] = <<"shifts">>
  /\ requests \in 0..MaxRequests

Init ==
  /\ PointsInit
  /\ ShiftsInit
  /\ page = [p \in Pages |-> <<>>]
  /\ left = [p \in Pages |-> {}]
  /\ requests = 0

Request == requests < MaxRequests /\ requests' = requests + 1

\* resetAllRecords(), applyStandardShift() and runFullDeploymentReset().  The
\* standard shift is there: updateOrCreate() finds it by its name and sets it
\* to what it was.  Where no request has made it yet two at once could make
\* two of it, for the name is not unique; that is left out.
OpenPage(p, job) ==
  /\ Request
  /\ page[p] = <<>>
  /\ page' = [page EXCEPT ![p] = job]
  /\ left' = [left EXCEPT ![p] = IF Head(job) = "shifts" THEN Employees ELSE {}]
  /\ UNCHANGED <<ledgerVars, shiftVars>>

Turn(p, step) ==
  /\ page[p] # <<>>
  /\ Head(page[p]) = step

Done(p) ==
  /\ page' = [page EXCEPT ![p] = Tail(@)]
  /\ left' = [left EXCEPT ![p] = IF Head(Tail(page[p]) \o <<"end">>) = "shifts"
                                 THEN Employees ELSE {}]
  /\ UNCHANGED requests

Truncate(p) == Turn(p, "truncate") /\ TruncateLedger /\ Done(p) /\ UNCHANGED shiftVars

Zero(p) == Turn(p, "zero") /\ ZeroPoints /\ Done(p) /\ UNCHANGED shiftVars

DetachNext(p, u) ==
  /\ Turn(p, "shifts")
  /\ u \in left[p]
  /\ Detach(p, u)
  /\ left' = [left EXCEPT ![p] = @ \ {u}]
  /\ UNCHANGED <<ledgerVars, page, requests>>

ShiftsDone(p) ==
  /\ Turn(p, "shifts")
  /\ left[p] = {}
  /\ switch[p] = None
  /\ Done(p)
  /\ UNCHANGED <<ledgerVars, shiftVars>>

KillPage(p) ==
  /\ page[p] # <<>>
  /\ page' = [page EXCEPT ![p] = <<>>]
  /\ left' = [left EXCEPT ![p] = {}]
  /\ switch' = [switch EXCEPT ![p] = None]
  /\ UNCHANGED <<ledgerVars, assigned, crossed, chosen, requests>>

PageStep(p) ==
  \/ \E job \in Jobs : OpenPage(p, job)
  \/ Truncate(p) \/ Zero(p) \/ ShiftsDone(p) \/ KillPage(p)
  \/ \E u \in Employees : DetachNext(p, u)
  \/ /\ SeekStandard(p) \/ AttachStandard(p)
     /\ UNCHANGED <<ledgerVars, page, left, requests>>

ClerkDoes(c) ==
  /\ UNCHANGED <<shiftVars, page, left>>
  /\ \/ ClerkStart(c) /\ Request
     \/ ClerkStep(c) /\ UNCHANGED requests

ManagerDoes(m) ==
  /\ UNCHANGED <<ledgerVars, page, left>>
  /\ \/ Request /\ \E u \in Users : \E i \in DOMAIN assigned[u] : LoadAssignment(m, u, i)
     \/ /\ ClearOthers(m) \/ SetCurrent(m) \/ Terminate(m) \/ KillSwitch(m)
        /\ UNCHANGED requests

Next ==
  \/ \E p \in Pages : PageStep(p)
  \/ \E c \in Clerks : ClerkDoes(c)
  \/ \E m \in Managers \ Pages : ManagerDoes(m)

Spec == Init /\ [][Next]_vars
=============================================================================
