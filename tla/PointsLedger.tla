---------------------------- MODULE PointsLedger ----------------------------
(***************************************************************************)
(* The points of an employee are kept twice: as a balance, in              *)
(* users.total_points, and as the rows of points_transactions.  A badge    *)
(* moves both, one after the other and outside any transaction; a manual   *)
(* adjustment and the deployment page each move one of them.               *)
(***************************************************************************)
EXTENDS Staff, Integers, Sequences

CONSTANTS
  Clerks,       \* requests that award badges or adjust points
  Rewards,      \* badges.points_reward
  Deltas        \* what the adjustment form is given

\* What a request holds in memory: the badge is granted, the balance read,
\* the balance saved; or a record loaded for the adjustment form.
Task ==
  [at : {"granted"}, user : Users, amount : Nat, base : {0}, stale : {FALSE}]
    \cup [at : {"read", "saved"}, user : Users, amount : Nat, base : Nat, stale : BOOLEAN]
    \cup [at : {"loaded"}, user : Users, amount : {0}, base : Nat, stale : BOOLEAN]

ASSUME PointsAssumption ==
  Rewards \subseteq Nat /\ Deltas \subseteq Int /\ None \notin Task

VARIABLES
  points,       \* users.total_points
  ledger,       \* points_transactions, the rows of each user
  work,         \* what a clerk's request holds in memory
  opening,      \* history: the balance before the first row
  worth,        \* history: all the points ever given, since the last zero
  astray,       \* history: two requests overlapped, or one was cut short
  carried       \* history: a balance read before a reset was saved after it

ledgerHistory == <<opening, worth, astray, carried>>
ledgerVars == <<points, ledger, work, ledgerHistory>>

PointsTypeOK ==
  /\ points \in [Users -> Nat]
  /\ ledger \in [Users -> Seq([amount : Nat, after : Nat])]
  /\ work \in [Clerks -> Task \cup {None}]
  /\ opening \in [Users -> Nat] /\ worth \in [Users -> Nat]
  /\ astray \in [Users -> BOOLEAN] /\ carried \in [Users -> BOOLEAN]

PointsInit ==
  /\ points = [u \in Users |-> 0]
  /\ ledger = [u \in Users |-> <<>>]
  /\ work = [c \in Clerks |-> None]
  /\ opening = points /\ worth = points
  /\ astray = [u \in Users |-> FALSE] /\ carried = astray

At(c, steps) == work[c] # None /\ work[c].at \in steps

\* Clerks with user u between a read of the balance and their last step.
Busy(u) == {c \in Clerks : At(c, {"read", "saved", "loaded"}) /\ work[c].user = u}

Unbooked(u) == {c \in Busy(u) : work[c].at = "saved"}

-----------------------------------------------------------------------------
(* UserBadge::award(). *)

\* The badge is given.  One without a reward ends here.
GrantBadge(c, u, r) ==
  /\ work[c] = None
  /\ r > 0
  /\ work' = [work EXCEPT ![c] =
       [at |-> "granted", user |-> u, amount |-> r, base |-> 0, stale |-> FALSE]]
  /\ UNCHANGED <<points, ledger, ledgerHistory>>

ReadUser(c) ==
  /\ At(c, {"granted"})
  /\ work' = [work EXCEPT ![c].at = "read", ![c].base = points[work[c].user]]
  /\ UNCHANGED <<points, ledger, ledgerHistory>>

\* Clerk c writes balance b of user u: the history of it.
Balance(c, u, b, given) ==
  /\ points' = [points EXCEPT ![u] = b]
  /\ worth' = [worth EXCEPT ![u] = @ + given]
  /\ carried' = [carried EXCEPT ![u] = @ \/ work[c].stale]

SaveUser(c) == LET u == work[c].user IN
  /\ At(c, {"read"})
  /\ Balance(c, u, work[c].base + work[c].amount, work[c].amount)
  /\ astray' = [astray EXCEPT ![u] =
       @ \/ points[u] # work[c].base \/ Unbooked(u) # {}]
  /\ work' = [work EXCEPT ![c].at = "saved"]
  /\ UNCHANGED <<ledger, opening>>

\* Mutant: the row has the balance before the award.
BookBefore(c) == LET u == work[c].user IN
  /\ At(c, {"saved"})
  /\ ledger' = [ledger EXCEPT ![u] =
       Append(@, [amount |-> work[c].amount, after |-> work[c].base])]
  /\ work' = [work EXCEPT ![c] = None]
  /\ UNCHANGED <<points, ledgerHistory>>

\* Mutant: the listener of BadgeAwarded adds the points too.
BookTwice(c) == LET u == work[c].user IN
  /\ At(c, {"saved"})
  /\ points' = [points EXCEPT ![u] = @ + work[c].amount]
  /\ work' = [work EXCEPT ![c] = None]
  /\ UNCHANGED <<ledger, ledgerHistory>>

\* The row, and the event, whose listener writes an alert only.
Book(c) == LET u == work[c].user IN
  /\ At(c, {"saved"})
  /\ ledger' = [ledger EXCEPT ![u] =
       Append(@, [amount |-> work[c].amount, after |-> work[c].base + work[c].amount])]
  /\ work' = [work EXCEPT ![c] = None]
  /\ UNCHANGED <<points, ledgerHistory>>

-----------------------------------------------------------------------------
(* The adjust_points action of the employees' table. *)

LoadRecord(c, u) ==
  /\ work[c] = None
  /\ work' = [work EXCEPT ![c] =
       [at |-> "loaded", user |-> u, amount |-> 0, base |-> points[u], stale |-> FALSE]]
  /\ UNCHANGED <<points, ledger, ledgerHistory>>

\* Mutant: a deduction is not stopped at zero.
Unclamped(base, delta) == base + delta

NewTotal(base, delta) == IF base + delta > 0 THEN base + delta ELSE 0

\* The balance is saved, if it changes; the row for the ledger lacks its
\* amount and its source, the table refuses it, and the request fails.
AdjustPoints(c, delta) ==
  LET u == work[c].user
      newTotal == NewTotal(work[c].base, delta)
  IN
  /\ At(c, {"loaded"})
  /\ IF newTotal = work[c].base
     THEN UNCHANGED <<points, worth, carried, astray>>
     ELSE /\ Balance(c, u, newTotal, IF delta > 0 THEN delta ELSE 0)
          /\ astray' = [astray EXCEPT ![u] = TRUE]
  /\ work' = [work EXCEPT ![c] = None]
  /\ UNCHANGED <<ledger, opening>>

\* The process of a request dies.
KillClerk(c) ==
  /\ work[c] # None
  /\ astray' = [u \in Users |-> astray[u] \/ c \in Unbooked(u)]
  /\ work' = [work EXCEPT ![c] = None]
  /\ UNCHANGED <<points, ledger, opening, worth, carried>>

-----------------------------------------------------------------------------
(* The deployment page, resetAllRecords(). *)

TruncateLedger ==
  /\ ledger' = [u \in Users |-> <<>>]
  /\ opening' = points
  /\ astray' = [u \in Users |-> Busy(u) # {}]
  /\ UNCHANGED <<points, work, worth, carried>>

ZeroPoints ==
  /\ points' = [u \in Users |-> IF u \in Employees THEN 0 ELSE points[u]]
  /\ opening' = [u \in Users |-> IF u \in Employees THEN 0 ELSE opening[u]]
  /\ worth' = [u \in Users |-> IF u \in Employees THEN 0 ELSE worth[u]]
  /\ carried' = [u \in Users |-> u \notin Employees /\ carried[u]]
  /\ astray' = [u \in Users |-> IF u \in Employees THEN Busy(u) # {} \/ ledger[u] # <<>>
                                ELSE astray[u]]
  /\ work' = [c \in Clerks |->
       IF At(c, {"read", "saved", "loaded"}) /\ work[c].user \in Employees
       THEN [work[c] EXCEPT !.stale = TRUE] ELSE work[c]]
  /\ UNCHANGED ledger

ClerkStep(c) == ReadUser(c) \/ SaveUser(c) \/ Book(c) \/ KillClerk(c)
                  \/ \E delta \in Deltas : AdjustPoints(c, delta)

ClerkStart(c) == \E u \in Users : LoadRecord(c, u) \/ \E r \in Rewards : GrantBadge(c, u, r)

PointsNext == TruncateLedger \/ ZeroPoints
                \/ \E c \in Clerks : ClerkStart(c) \/ ClerkStep(c)

-----------------------------------------------------------------------------
(* Properties. *)

\* However requests overlap and wherever they are cut short, nobody comes to
\* have more points than he was given: two writers can lose each other's
\* points and never make any.  The exception is a balance read before a
\* reset and saved after it, which brings the old points back.
NoPointsFromNowhere == \A u \in Users : carried[u] \/ points[u] =< worth[u]

LastBalance(u) ==
  IF ledger[u] = <<>> THEN opening[u] ELSE ledger[u][Len(ledger[u])].after

\* The ledger replays to the balance: each row starts from the balance that
\* the row before it left, and the last one leaves the balance the user has,
\* but for an award between its two writes.  It does so until two requests
\* overlap, one dies between its writes, or the points are adjusted by hand,
\* and again after a reset that no request was in the middle of.
LedgerReplays ==
  \A u \in Users : ~astray[u] =>
    /\ \A i \in 1..Len(ledger[u]) :
         ledger[u][i].after =
           (IF i = 1 THEN opening[u] ELSE ledger[u][i - 1].after) + ledger[u][i].amount
    /\ IF Unbooked(u) = {} THEN points[u] = LastBalance(u)
       ELSE \E c \in Unbooked(u) : points[u] = LastBalance(u) + work[c].amount
=============================================================================
