--------------------------- MODULE DeploymentProofs ---------------------------
(***************************************************************************)
(* The points and the shifts of an employee, whatever badges, adjustments, *)
(* switches and deployment pages do to them at once: first the two parts   *)
(* on their own, then beside the page.                                     *)
(***************************************************************************)
EXTENDS Deployment, WellFoundedInduction, TLAPS

(* Requests in memory. *)

\* What every task of a clerk has,
LEMMA TaskFields ==
  ASSUME NEW t \in Task
  PROVE  /\ t.user \in Users /\ t.amount \in Nat /\ t.base \in Nat
         /\ t.stale \in BOOLEAN
         /\ t.at \in {"granted", "read", "saved", "loaded"}
<1>1. CASE t \in [at : {"granted"}, user : Users, amount : Nat, base : {0}, stale : {FALSE}]
  <2>1. t.stale \in {FALSE}
    BY <1>1
  <2>2. t.base \in {0} /\ t.at \in {"granted"} /\ t.user \in Users /\ t.amount \in Nat
    BY <1>1
  <2>3. t.stale \in BOOLEAN
    BY <2>1, Zenon
  <2> QED
    BY <2>2, <2>3
<1>2. CASE t \in [at : {"read", "saved"}, user : Users, amount : Nat, base : Nat,
                  stale : BOOLEAN]
  <2>1. t.stale \in BOOLEAN
    BY <1>2
  <2> QED
    BY <1>2, <2>1
<1>3. CASE t \in [at : {"loaded"}, user : Users, amount : {0}, base : Nat, stale : BOOLEAN]
  <2>1. t.stale \in BOOLEAN
    BY <1>3
  <2> QED
    BY <1>3, <2>1
<1> QED
  BY <1>1, <1>2, <1>3 DEF Task

\* and the tasks it moves through.
LEMMA TaskMoves ==
  ASSUME NEW t \in Task
  PROVE  /\ t.at = "granted" => \A b \in Nat : [t EXCEPT !.at = "read", !.base = b] \in Task
         /\ t.at = "read" => [t EXCEPT !.at = "saved"] \in Task
         /\ t.at # "granted" => [t EXCEPT !.stale = TRUE] \in Task
<1>1. CASE t.at = "granted"
  <2>1. t \in [at : {"granted"}, user : Users, amount : Nat, base : {0}, stale : {FALSE}]
    BY <1>1 DEF Task
  <2>2. ASSUME NEW b \in Nat
        PROVE  [t EXCEPT !.at = "read", !.base = b] \in
                 [at : {"read", "saved"}, user : Users, amount : Nat, base : Nat,
                  stale : BOOLEAN]
    BY <2>1
  <2> QED
    BY <1>1, <2>2 DEF Task
<1>2. CASE t.at \in {"read", "saved"}
  <2>1. t \in [at : {"read", "saved"}, user : Users, amount : Nat, base : Nat,
               stale : BOOLEAN]
    BY <1>2 DEF Task
  <2>2. /\ [t EXCEPT !.at = "saved"] \in [at : {"read", "saved"}, user : Users,
             amount : Nat, base : Nat, stale : BOOLEAN]
        /\ [t EXCEPT !.stale = TRUE] \in [at : {"read", "saved"}, user : Users,
             amount : Nat, base : Nat, stale : BOOLEAN]
    BY <2>1
  <2> QED
    BY <1>2, <2>2 DEF Task
<1>3. CASE t.at = "loaded"
  <2>1. t \in [at : {"loaded"}, user : Users, amount : {0}, base : Nat, stale : BOOLEAN]
    BY <1>3 DEF Task
  <2>2. [t EXCEPT !.stale = TRUE] \in
          [at : {"loaded"}, user : Users, amount : {0}, base : Nat, stale : BOOLEAN]
    BY <2>1
  <2> QED
    BY <1>3, <2>2 DEF Task
<1> QED
  BY <1>1, <1>2, <1>3, TaskFields

\* What a step that leaves tables and history to others does to a request.
LEMMA WorkMoves ==
  ASSUME PointsTypeOK, NEW c \in Clerks, NEW t \in Task \cup {None},
         work' = [work EXCEPT ![c] = t]
  PROVE  /\ work' \in [Clerks -> Task \cup {None}]
         /\ work'[c] = t
         /\ \A d \in Clerks \ {c} : work'[d] = work[d]
  BY DEF PointsTypeOK

\* A request at a step has a task.
LEMMA AtTask ==
  ASSUME PointsTypeOK, NEW c \in Clerks, NEW S, At(c, S)
  PROVE  /\ work[c] \in Task /\ work[c] # None /\ work[c].at \in S
         /\ work[c].user \in Users /\ work[c].amount \in Nat /\ work[c].base \in Nat
         /\ work[c].stale \in BOOLEAN
  BY TaskFields DEF At, PointsTypeOK

\* What each step of a clerk does to his task.
LEMMA ClerkMoves ==
  ASSUME PointsTypeOK, NEW c \in Clerks
  PROVE  /\ ReadUser(c) =>
              LET t == [work[c] EXCEPT !.at = "read", !.base = points[work[c].user]] IN
              /\ t \in Task /\ work' = [work EXCEPT ![c] = t]
              /\ t.at = "read" /\ t.user = work[c].user
              /\ t.base = points[work[c].user] /\ t.amount = work[c].amount
         /\ SaveUser(c) =>
              LET t == [work[c] EXCEPT !.at = "saved"] IN
              /\ t \in Task /\ work' = [work EXCEPT ![c] = t]
              /\ t.at = "saved" /\ t.user = work[c].user
              /\ t.base = work[c].base /\ t.amount = work[c].amount
<1>1. ASSUME ReadUser(c)
      PROVE  LET t == [work[c] EXCEPT !.at = "read", !.base = points[work[c].user]] IN
             /\ t \in Task /\ work' = [work EXCEPT ![c] = t]
             /\ t.at = "read" /\ t.user = work[c].user
             /\ t.base = points[work[c].user] /\ t.amount = work[c].amount
  <2>1. work[c] \in Task /\ work[c].at = "granted" /\ points[work[c].user] \in Nat
    BY <1>1, AtTask DEF ReadUser, PointsTypeOK
  <2>2. [work[c] EXCEPT !.at = "read", !.base = points[work[c].user]] \in Task
    BY <2>1, TaskMoves
  <2>3. work' = [work EXCEPT ![c] =
                   [work[c] EXCEPT !.at = "read", !.base = points[work[c].user]]]
    BY <1>1 DEF ReadUser, PointsTypeOK
  <2> QED
    BY <2>1, <2>2, <2>3 DEF Task
<1>2. ASSUME SaveUser(c)
      PROVE  LET t == [work[c] EXCEPT !.at = "saved"] IN
             /\ t \in Task /\ work' = [work EXCEPT ![c] = t]
             /\ t.at = "saved" /\ t.user = work[c].user
             /\ t.base = work[c].base /\ t.amount = work[c].amount
  <2>1. work[c] \in Task /\ work[c].at = "read"
    BY <1>2, AtTask DEF SaveUser
  <2>2. [work[c] EXCEPT !.at = "saved"] \in Task
    BY <2>1, TaskMoves
  <2>3. work' = [work EXCEPT ![c] = [work[c] EXCEPT !.at = "saved"]]
    BY <1>2 DEF SaveUser
  <2> QED
    BY <2>1, <2>2, <2>3 DEF Task
<1> QED
  BY <1>1, <1>2

\* The reset marks what was read before it as stale, and nothing else.
LEMMA StaleMarks ==
  ASSUME PointsTypeOK, ZeroPoints
  PROVE  /\ work' \in [Clerks -> Task \cup {None}]
         /\ \A c \in Clerks :
              /\ work[c] = None <=> work'[c] = None
              /\ work[c] # None =>
                   /\ work'[c].at = work[c].at /\ work'[c].user = work[c].user
                   /\ work'[c].amount = work[c].amount /\ work'[c].base = work[c].base
                   /\ work[c].stale => work'[c].stale
                   /\ work[c].user \in Employees /\ work[c].at # "granted" => work'[c].stale
<1> SUFFICES ASSUME NEW c \in Clerks
    PROVE  /\ work'[c] \in Task \cup {None}
           /\ work[c] = None <=> work'[c] = None
           /\ work[c] # None =>
                /\ work'[c].at = work[c].at /\ work'[c].user = work[c].user
                /\ work'[c].amount = work[c].amount /\ work'[c].base = work[c].base
                /\ work[c].stale => work'[c].stale
                /\ work[c].user \in Employees /\ work[c].at # "granted" => work'[c].stale
  <2>1. work' = [d \in Clerks |-> work'[d]]
    BY DEF ZeroPoints
  <2> QED
    BY <2>1
<1> DEFINE read == At(c, {"read", "saved", "loaded"}) /\ work[c].user \in Employees
           t == [work[c] EXCEPT !.stale = TRUE]
<1>1. work'[c] = IF read THEN t ELSE work[c]
  BY DEF ZeroPoints
<1>2. work[c] \in Task \cup {None} /\ None \notin Task
  BY PointsAssumption DEF PointsTypeOK
<1>3. CASE read
  <2>1. work[c] \in Task /\ work[c] # None /\ work[c].at \in {"read", "saved", "loaded"}
    BY <1>2, <1>3 DEF At
  <2>2. t \in Task
    BY <2>1, TaskMoves
  <2>3. /\ t.at = work[c].at /\ t.user = work[c].user
        /\ t.amount = work[c].amount /\ t.base = work[c].base /\ t.stale = TRUE
    BY <2>1 DEF Task
  <2>4. work'[c] = t
    BY <1>1, <1>3
  <2> HIDE DEF t
  <2>5. t.stale
    BY <2>3
  <2> QED
    BY <1>2, <2>1, <2>2, <2>3, <2>4, <2>5
<1>4. CASE ~read
  <2>1. work'[c] = work[c]
    BY <1>1, <1>4
  <2>2. work[c] # None => ~(work[c].user \in Employees /\ work[c].at # "granted")
    BY <1>2, <1>4, TaskFields DEF At
  <2> QED
    BY <1>2, <2>1, <2>2
<1> QED
  BY <1>3, <1>4

-----------------------------------------------------------------------------
(* Type correctness of the points. *)

\* A balance is never negative.
LEMMA NewTotalNat == ASSUME NEW base \in Nat, NEW delta \in Int
                     PROVE  /\ NewTotal(base, delta) \in Nat
                            /\ delta > 0 => NewTotal(base, delta) = base + delta
                            /\ ~(delta > 0) => NewTotal(base, delta) =< base
  BY DEF NewTotal

\* Writing a balance keeps the types.
LEMMA BalanceType ==
  ASSUME PointsTypeOK, NEW c \in Clerks, NEW u \in Users, NEW b \in Nat, NEW g \in Nat,
         Balance(c, u, b, g), work[c] \in Task
  PROVE  /\ points' \in [Users -> Nat] /\ worth' \in [Users -> Nat]
         /\ carried' \in [Users -> BOOLEAN]
         /\ points'[u] = b /\ worth'[u] = worth[u] + g
         /\ carried'[u] <=> carried[u] \/ work[c].stale
         /\ \A v \in Users \ {u} :
              points'[v] = points[v] /\ worth'[v] = worth[v] /\ carried'[v] = carried[v]
<1>1. points' \in [Users -> Nat] /\ worth' \in [Users -> Nat]
  BY DEF Balance, PointsTypeOK
<1>2. carried' = [carried EXCEPT ![u] = carried[u] \/ work[c].stale]
  BY DEF Balance
<1>3. carried' \in [Users -> BOOLEAN]
  BY <1>2 DEF PointsTypeOK
<1> QED
  BY <1>1, <1>2, <1>3 DEF Balance, PointsTypeOK

\* Marking a user keeps the types.
LEMMA AstrayType ==
  ASSUME astray \in [Users -> BOOLEAN], NEW u \in Users, NEW b \in BOOLEAN,
         astray' = [astray EXCEPT ![u] = b]
  PROVE  /\ astray' \in [Users -> BOOLEAN] /\ (astray'[u] <=> b)
         /\ \A v \in Users \ {u} : astray'[v] = astray[v]
  OBVIOUS

\* What an adjustment does.
LEMMA AdjustMoves ==
  ASSUME PointsTypeOK, NEW c \in Clerks, NEW delta \in Deltas, AdjustPoints(c, delta)
  PROVE  LET u == work[c].user
             b == NewTotal(work[c].base, delta)
             g == IF delta > 0 THEN delta ELSE 0 IN
         /\ u \in Users /\ b \in Nat /\ g \in Nat /\ work[c] \in Task
         /\ work' = [work EXCEPT ![c] = None] /\ UNCHANGED <<ledger, opening>>
         /\ \/ UNCHANGED <<points, worth, carried, astray>>
            \/ Balance(c, u, b, g) /\ astray' = [astray EXCEPT ![u] = TRUE]
<1> DEFINE u == work[c].user
           b == NewTotal(work[c].base, delta)
           g == IF delta > 0 THEN delta ELSE 0
<1>1. work[c] \in Task /\ u \in Users /\ work[c].base \in Nat
  BY AtTask DEF AdjustPoints
<1>2. delta \in Int
  BY PointsAssumption
<1>3. b \in Nat /\ g \in Nat
  <2>1. \A base \in Nat, d \in Int : NewTotal(base, d) \in Nat
    BY NewTotalNat
  <2>2. g \in Nat
    BY <1>2
  <2> QED
    BY <1>1, <1>2, <2>1, <2>2
<1>4. /\ work' = [work EXCEPT ![c] = None] /\ UNCHANGED <<ledger, opening>>
      /\ \/ UNCHANGED <<points, worth, carried, astray>>
         \/ Balance(c, u, b, g) /\ astray' = [astray EXCEPT ![u] = TRUE]
  BY DEF AdjustPoints
<1> QED
  BY <1>1, <1>3, <1>4

\* Every step of the points keeps their types.
LEMMA PointsTypeStep == PointsTypeOK /\ [PointsNext]_ledgerVars => PointsTypeOK'
<1> SUFFICES ASSUME PointsTypeOK, [PointsNext]_ledgerVars PROVE PointsTypeOK'
  OBVIOUS
<1>1. ASSUME NEW c \in Clerks, NEW u \in Users, NEW r \in Rewards, GrantBadge(c, u, r)
      PROVE  PointsTypeOK'
  <2>1. r \in Nat
    BY PointsAssumption
  <2>2. [at |-> "granted", user |-> u, amount |-> r, base |-> 0, stale |-> FALSE] \in Task
    BY <2>1 DEF Task
  <2> QED
    BY <1>1, <2>2, WorkMoves DEF GrantBadge, PointsTypeOK, ledgerHistory
<1>2. ASSUME NEW c \in Clerks, NEW u \in Users, LoadRecord(c, u) PROVE PointsTypeOK'
  <2>1. points[u] \in Nat
    BY DEF PointsTypeOK
  <2>2. [at |-> "loaded", user |-> u, amount |-> 0, base |-> points[u], stale |-> FALSE]
          \in Task
    BY <2>1 DEF Task
  <2> QED
    BY <1>2, <2>2, WorkMoves DEF LoadRecord, PointsTypeOK, ledgerHistory
<1>3. ASSUME NEW c \in Clerks, ReadUser(c) PROVE PointsTypeOK'
  <2>1. work' \in [Clerks -> Task \cup {None}]
    <3>1. PICK t \in Task : work' = [work EXCEPT ![c] = t]
      BY <1>3, ClerkMoves
    <3> QED
      BY <3>1, WorkMoves
  <2> QED
    BY <1>3, <2>1 DEF ReadUser, PointsTypeOK, ledgerHistory
<1>4. ASSUME NEW c \in Clerks, SaveUser(c) PROVE PointsTypeOK'
  <2>1. work' \in [Clerks -> Task \cup {None}]
    <3>1. PICK t \in Task : work' = [work EXCEPT ![c] = t]
      BY <1>4, ClerkMoves
    <3> QED
      BY <3>1, WorkMoves
  <2>2. /\ work[c] \in Task /\ work[c].user \in Users
        /\ work[c].base \in Nat /\ work[c].amount \in Nat
    BY <1>4, AtTask DEF SaveUser
  <2>3. /\ points' \in [Users -> Nat] /\ worth' \in [Users -> Nat]
        /\ carried' \in [Users -> BOOLEAN]
    <3>1. work[c].base + work[c].amount \in Nat
      BY <2>2
    <3>2. Balance(c, work[c].user, work[c].base + work[c].amount, work[c].amount)
      BY <1>4 DEF SaveUser
    <3> QED
      BY <2>2, <3>1, <3>2, BalanceType
  <2>4. astray' \in [Users -> BOOLEAN]
    <3> DEFINE b == astray[work[c].user] \/ points[work[c].user] # work[c].base
                      \/ Unbooked(work[c].user) # {}
    <3>1. astray' = [astray EXCEPT ![work[c].user] = b]
      BY <1>4 DEF SaveUser
    <3>2. b \in BOOLEAN
      BY <2>2 DEF PointsTypeOK
    <3> HIDE DEF b
    <3> QED
      BY <2>2, <3>1, <3>2, AstrayType DEF PointsTypeOK
  <2> QED
    BY <1>4, <2>1, <2>3, <2>4 DEF SaveUser, PointsTypeOK
<1>5. ASSUME NEW c \in Clerks, Book(c) PROVE PointsTypeOK'
  <2>1. work[c].user \in Users /\ work[c].amount \in Nat /\ work[c].base \in Nat
    BY <1>5, AtTask DEF Book
  <2> DEFINE row == [amount |-> work[c].amount, after |-> work[c].base + work[c].amount]
  <2>2. row \in [amount : Nat, after : Nat]
    BY <2>1
  <2>3. ledger' = [ledger EXCEPT ![work[c].user] = Append(ledger[work[c].user], row)]
    BY <1>5 DEF Book
  <2> HIDE DEF row
  <2>4. ledger' \in [Users -> Seq([amount : Nat, after : Nat])]
    BY <2>1, <2>2, <2>3 DEF PointsTypeOK
  <2>5. work' \in [Clerks -> Task \cup {None}]
    BY <1>5, WorkMoves DEF Book
  <2> QED
    BY <1>5, <2>4, <2>5 DEF Book, PointsTypeOK, ledgerHistory
<1>6. ASSUME NEW c \in Clerks, KillClerk(c) PROVE PointsTypeOK'
  <2>1. work' \in [Clerks -> Task \cup {None}]
    BY <1>6, WorkMoves DEF KillClerk
  <2>2. astray' \in [Users -> BOOLEAN]
    BY <1>6 DEF KillClerk, PointsTypeOK
  <2> QED
    BY <1>6, <2>1, <2>2 DEF KillClerk, PointsTypeOK
<1>7. ASSUME NEW c \in Clerks, NEW delta \in Deltas, AdjustPoints(c, delta)
      PROVE  PointsTypeOK'
  <2> DEFINE u == work[c].user
             b == NewTotal(work[c].base, delta)
             g == IF delta > 0 THEN delta ELSE 0
  <2>1. /\ u \in Users /\ b \in Nat /\ g \in Nat /\ work[c] \in Task
        /\ work' = [work EXCEPT ![c] = None] /\ UNCHANGED <<ledger, opening>>
        /\ \/ UNCHANGED <<points, worth, carried, astray>>
           \/ Balance(c, u, b, g) /\ astray' = [astray EXCEPT ![u] = TRUE]
    BY <1>7, AdjustMoves
  <2> HIDE DEF u, b, g
  <2>2. work' \in [Clerks -> Task \cup {None}]
    BY <2>1, WorkMoves
  <2>3. CASE UNCHANGED <<points, worth, carried, astray>>
    BY <2>1, <2>2, <2>3 DEF PointsTypeOK
  <2>4. CASE Balance(c, u, b, g) /\ astray' = [astray EXCEPT ![u] = TRUE]
    <3>1. /\ points' \in [Users -> Nat] /\ worth' \in [Users -> Nat]
          /\ carried' \in [Users -> BOOLEAN]
      BY <2>1, <2>4, BalanceType
    <3>2. astray' \in [Users -> BOOLEAN]
      BY <2>1, <2>4, AstrayType DEF PointsTypeOK
    <3> QED
      BY <2>1, <2>2, <3>1, <3>2 DEF PointsTypeOK
  <2> QED
    BY <2>1, <2>3, <2>4
<1>8. ASSUME TruncateLedger PROVE PointsTypeOK'
  BY <1>8 DEF TruncateLedger, PointsTypeOK
<1>9. ASSUME ZeroPoints PROVE PointsTypeOK'
  <2>1. points' \in [Users -> Nat] /\ opening' \in [Users -> Nat] /\ worth' \in [Users -> Nat]
    BY <1>9 DEF ZeroPoints, PointsTypeOK
  <2>2. carried' \in [Users -> BOOLEAN]
    BY <1>9 DEF ZeroPoints, PointsTypeOK
  <2>3. astray' \in [Users -> BOOLEAN]
    BY <1>9 DEF ZeroPoints, PointsTypeOK
  <2>4. work' \in [Clerks -> Task \cup {None}] /\ ledger' = ledger
    BY <1>9, StaleMarks DEF ZeroPoints
  <2> QED
    BY <2>1, <2>2, <2>3, <2>4 DEF PointsTypeOK
<1>10. ASSUME UNCHANGED ledgerVars PROVE PointsTypeOK'
  BY <1>10 DEF ledgerVars, ledgerHistory, PointsTypeOK
<1> QED
  BY <1>1, <1>2, <1>3, <1>4, <1>5, <1>6, <1>7, <1>8, <1>9, <1>10
     DEF PointsNext, ClerkStart, ClerkStep

-----------------------------------------------------------------------------
(* No points from nowhere. *)

\* A balance that a request has read was never more than what had been given
\* by then: unless a reset came in between, or the balance itself had been
\* carried over one.
ReadInv ==
  \A c \in Clerks : At(c, {"read", "loaded"}) =>
    \/ work[c].stale
    \/ carried[work[c].user]
    \/ work[c].base =< worth[work[c].user]

WorthInv == PointsTypeOK /\ NoPointsFromNowhere /\ ReadInv

\* A step that writes one balance, and ends or advances the task behind it.
LEMMA BalanceStep ==
  ASSUME WorthInv, NEW c \in Clerks, NEW u \in Users, NEW b \in Nat, NEW g \in Nat,
         Balance(c, u, b, g), At(c, {"read", "loaded"}), u = work[c].user,
         b =< work[c].base + g,
         NEW t \in Task \cup {None}, work' = [work EXCEPT ![c] = t],
         t # None => t.at = "saved"
  PROVE  NoPointsFromNowhere' /\ ReadInv'
<1>1. PointsTypeOK /\ work[c] \in Task /\ work[c].base \in Nat
  BY AtTask DEF WorthInv
<1>2. /\ points'[u] = b /\ worth'[u] = worth[u] + g
      /\ carried'[u] <=> carried[u] \/ work[c].stale
      /\ \A v \in Users \ {u} :
           points'[v] = points[v] /\ worth'[v] = worth[v] /\ carried'[v] = carried[v]
  BY <1>1, BalanceType
<1>3. worth[u] \in Nat /\ worth'[u] >= worth[u]
  BY <1>1, <1>2 DEF PointsTypeOK
<1>4. work[c].stale \/ carried[u] \/ work[c].base =< worth[u]
  BY DEF WorthInv, ReadInv
<1>5. NoPointsFromNowhere'
  <2>1. carried'[u] \/ points'[u] =< worth'[u]
    BY <1>1, <1>2, <1>3, <1>4
  <2> QED
    BY <1>2, <2>1 DEF WorthInv, NoPointsFromNowhere
<1>6. ReadInv'
  <2> SUFFICES ASSUME NEW d \in Clerks, At(d, {"read", "loaded"})'
               PROVE  \/ work'[d].stale
                      \/ carried'[work'[d].user]
                      \/ work'[d].base =< worth'[work'[d].user]
    BY DEF ReadInv
  <2>1. d # c
    BY <1>1, WorkMoves DEF At
  <2>2. work'[d] = work[d]
    BY <1>1, <2>1, WorkMoves
  <2>3. At(d, {"read", "loaded"})
    BY <2>2 DEF At
  <2>4. work[d].user \in Users /\ work[d].base \in Nat /\ worth[work[d].user] \in Nat
    BY <1>1, <2>3, AtTask DEF PointsTypeOK
  <2>5. work[d].stale \/ carried[work[d].user] \/ work[d].base =< worth[work[d].user]
    BY <2>3 DEF WorthInv, ReadInv
  <2>6. CASE work[d].user = u
    BY <1>2, <1>3, <2>2, <2>4, <2>5, <2>6
  <2>7. CASE work[d].user # u
    BY <1>2, <2>2, <2>4, <2>5, <2>7
  <2> QED
    BY <2>6, <2>7
<1> QED
  BY <1>5, <1>6

\* A step that writes no balance.
LEMMA QuietStep ==
  ASSUME WorthInv, UNCHANGED <<points, worth, carried>>,
         NEW c \in Clerks, NEW t \in Task \cup {None}, work' = [work EXCEPT ![c] = t],
         t # None /\ t.at \in {"read", "loaded"} => t.base = points[t.user]
  PROVE  NoPointsFromNowhere' /\ ReadInv'
<1>1. NoPointsFromNowhere'
  BY DEF WorthInv, NoPointsFromNowhere
<1>2. work'[c] = t /\ \A d \in Clerks \ {c} : work'[d] = work[d]
  BY WorkMoves DEF WorthInv
<1>3. ReadInv'
  <2> SUFFICES ASSUME NEW d \in Clerks, At(d, {"read", "loaded"})'
               PROVE  \/ work'[d].stale
                      \/ carried[work'[d].user]
                      \/ work'[d].base =< worth[work'[d].user]
    BY DEF ReadInv
  <2>1. CASE d = c
    <3>1. t # None /\ t.at \in {"read", "loaded"}
      BY <1>2, <2>1 DEF At
    <3>2. t.user \in Users /\ t.base = points[t.user]
      BY <3>1, TaskFields
    <3> QED
      BY <1>2, <2>1, <3>2 DEF WorthInv, NoPointsFromNowhere
  <2>2. CASE d # c
    <3>1. work'[d] = work[d]
      BY <1>2, <2>2
    <3>2. At(d, {"read", "loaded"})
      BY <3>1 DEF At
    <3> QED
      BY <3>1, <3>2 DEF WorthInv, ReadInv
  <2> QED
    BY <2>1, <2>2
<1> QED
  BY <1>1, <1>3

\* Every step of the points keeps it.
LEMMA WorthStep == WorthInv /\ [PointsNext]_ledgerVars => WorthInv'
<1> SUFFICES ASSUME WorthInv, [PointsNext]_ledgerVars
             PROVE  NoPointsFromNowhere' /\ ReadInv'
  BY PointsTypeStep DEF WorthInv
<1> DEFINE Goal == NoPointsFromNowhere' /\ ReadInv'
<1>0. PointsTypeOK
  BY DEF WorthInv
<1>1. ASSUME NEW c \in Clerks, NEW u \in Users, NEW r \in Rewards, GrantBadge(c, u, r)
      PROVE  Goal
  <2> DEFINE t == [at |-> "granted", user |-> u, amount |-> r, base |-> 0, stale |-> FALSE]
  <2>1. t \in Task /\ t.at = "granted"
    BY PointsAssumption DEF Task
  <2>2. work' = [work EXCEPT ![c] = t] /\ UNCHANGED <<points, worth, carried>>
    BY <1>1 DEF GrantBadge, ledgerHistory
  <2> HIDE DEF t
  <2> QED
    BY <2>1, <2>2, QuietStep
<1>2. ASSUME NEW c \in Clerks, NEW u \in Users, LoadRecord(c, u) PROVE Goal
  <2> DEFINE t == [at |-> "loaded", user |-> u, amount |-> 0, base |-> points[u],
                   stale |-> FALSE]
  <2>1. points[u] \in Nat
    BY <1>0 DEF PointsTypeOK
  <2>2. t \in Task /\ t.base = points[t.user]
    BY <2>1 DEF Task
  <2>3. work' = [work EXCEPT ![c] = t] /\ UNCHANGED <<points, worth, carried>>
    BY <1>2 DEF LoadRecord, ledgerHistory
  <2> HIDE DEF t
  <2> QED
    BY <2>2, <2>3, QuietStep
<1>3. ASSUME NEW c \in Clerks, ReadUser(c) PROVE Goal
  <2> DEFINE t == [work[c] EXCEPT !.at = "read", !.base = points[work[c].user]]
  <2>1. t \in Task /\ work' = [work EXCEPT ![c] = t] /\ t.base = points[t.user]
    BY <1>0, <1>3, ClerkMoves
  <2>2. UNCHANGED <<points, worth, carried>>
    BY <1>3 DEF ReadUser, ledgerHistory
  <2> HIDE DEF t
  <2> QED
    BY <2>1, <2>2, QuietStep
<1>4. ASSUME NEW c \in Clerks, SaveUser(c) PROVE Goal
  <2> DEFINE t == [work[c] EXCEPT !.at = "saved"]
             u == work[c].user
             g == work[c].amount
             b == work[c].base + work[c].amount
  <2>1. t \in Task /\ work' = [work EXCEPT ![c] = t] /\ t.at = "saved"
    BY <1>0, <1>4, ClerkMoves
  <2>2. At(c, {"read", "loaded"}) /\ u \in Users /\ g \in Nat /\ work[c].base \in Nat
    BY <1>0, <1>4, AtTask DEF SaveUser, At
  <2>3. b \in Nat /\ b =< work[c].base + g
    BY <2>2
  <2>4. Balance(c, u, b, g)
    BY <1>4 DEF SaveUser
  <2> HIDE DEF t, g, b
  <2> QED
    BY <2>1, <2>2, <2>3, <2>4, BalanceStep
<1>5. ASSUME NEW c \in Clerks, Book(c) \/ KillClerk(c) PROVE Goal
  <2>1. work' = [work EXCEPT ![c] = None] /\ UNCHANGED <<points, worth, carried>>
    BY <1>5 DEF Book, KillClerk, ledgerHistory
  <2> QED
    BY <2>1, QuietStep
<1>6. ASSUME NEW c \in Clerks, NEW delta \in Deltas, AdjustPoints(c, delta) PROVE Goal
  <2> DEFINE u == work[c].user
             b == NewTotal(work[c].base, delta)
             g == IF delta > 0 THEN delta ELSE 0
  <2>1. /\ u \in Users /\ b \in Nat /\ g \in Nat /\ work[c] \in Task
        /\ work' = [work EXCEPT ![c] = None]
        /\ \/ UNCHANGED <<points, worth, carried>>
           \/ Balance(c, u, b, g)
    BY <1>0, <1>6, AdjustMoves
  <2>2. At(c, {"read", "loaded"}) /\ work[c].base \in Nat /\ delta \in Int
    BY <1>0, <1>6, AtTask, PointsAssumption DEF AdjustPoints, At
  <2>3. b =< work[c].base + g
    <3>1. /\ delta > 0 => b = work[c].base + delta
          /\ ~(delta > 0) => b =< work[c].base
      BY <2>2, NewTotalNat
    <3> HIDE DEF b
    <3>2. CASE delta > 0
      BY <2>1, <2>2, <3>1, <3>2
    <3>3. CASE ~(delta > 0)
      BY <2>1, <2>2, <3>1, <3>3
    <3> QED
      BY <3>2, <3>3
  <2> HIDE DEF b, g
  <2> QED
    BY <2>1, <2>2, <2>3, QuietStep, BalanceStep
<1>7. ASSUME TruncateLedger PROVE Goal
  BY <1>7 DEF TruncateLedger, WorthInv, NoPointsFromNowhere, ReadInv, At
<1>8. ASSUME ZeroPoints PROVE Goal
  <2>1. NoPointsFromNowhere'
    <3>1. ASSUME NEW u \in Users PROVE carried'[u] \/ points'[u] =< worth'[u]
      <4>1. CASE u \in Employees
        <5>1. points'[u] = 0 /\ worth'[u] = 0
          BY <1>8, <4>1 DEF ZeroPoints
        <5> QED
          BY <5>1
      <4>2. CASE u \notin Employees
        <5>1. points'[u] = points[u] /\ worth'[u] = worth[u] /\ (carried'[u] <=> carried[u])
          BY <1>8, <4>2 DEF ZeroPoints
        <5> QED
          BY <5>1 DEF WorthInv, NoPointsFromNowhere
      <4> QED
        BY <4>1, <4>2
    <3> QED
      BY <3>1 DEF NoPointsFromNowhere
  <2>2. ReadInv'
    <3> SUFFICES ASSUME NEW d \in Clerks, At(d, {"read", "loaded"})'
                 PROVE  \/ work'[d].stale
                        \/ carried'[work'[d].user]
                        \/ work'[d].base =< worth'[work'[d].user]
      BY DEF ReadInv
    <3>1. /\ work[d] # None /\ work[d].at \in {"read", "loaded"}
          /\ work'[d].user = work[d].user /\ work'[d].base = work[d].base
          /\ work[d].stale => work'[d].stale
          /\ work[d].user \in Employees => work'[d].stale
      BY <1>0, <1>8, StaleMarks DEF At
    <3>2. work[d].user \in Users
      BY <1>0, <3>1, AtTask DEF At
    <3>3. CASE work[d].user \in Employees
      BY <3>1, <3>3
    <3>4. CASE work[d].user \notin Employees
      <4>1. /\ worth'[work[d].user] = worth[work[d].user]
            /\ carried'[work[d].user] <=> carried[work[d].user]
        BY <1>8, <3>2, <3>4 DEF ZeroPoints
      <4>2. work[d].stale \/ carried[work[d].user] \/ work[d].base =< worth[work[d].user]
        BY <3>1 DEF WorthInv, ReadInv, At
      <4> QED
        BY <3>1, <4>1, <4>2
    <3> QED
      BY <3>3, <3>4
  <2> QED
    BY <2>1, <2>2
<1>9. ASSUME UNCHANGED ledgerVars PROVE Goal
  BY <1>9 DEF ledgerVars, ledgerHistory, WorthInv, NoPointsFromNowhere, ReadInv, At
<1> QED
  BY <1>1, <1>2, <1>3, <1>4, <1>5, <1>6, <1>7, <1>8, <1>9
     DEF PointsNext, ClerkStart, ClerkStep

-----------------------------------------------------------------------------
(* The ledger replays. *)

\* An undisturbed ledger: each row starts where the row before it ended.
Chained(u) ==
  \A i \in 1..Len(ledger[u]) :
    ledger[u][i].after =
      (IF i = 1 THEN opening[u] ELSE ledger[u][i - 1].after) + ledger[u][i].amount

\* Of the awards that have saved their balance and not booked it there is one
\* at most, and it started from the balance of the last row.
Settled(u) ==
  /\ Unbooked(u) = {} => points[u] = LastBalance(u)
  /\ \A c \in Unbooked(u) :
       /\ Unbooked(u) = {c}
       /\ work[c].base = LastBalance(u)
       /\ points[u] = work[c].base + work[c].amount

ReplayInv == \A u \in Users : ~astray[u] => Chained(u) /\ Settled(u)

\* Which requests are between their two writes.
LEMMA UnbookedAre ==
  /\ \A u, c : c \in Unbooked(u) <=>
       c \in Clerks /\ work[c] # None /\ work[c].at = "saved" /\ work[c].user = u
  /\ \A u, c : c \in Unbooked(u)' <=>
       c \in Clerks /\ work'[c] # None /\ work'[c].at = "saved" /\ work'[c].user = u
  BY DEF Unbooked, Busy, At

\* A user whose row, balance and unbooked awards stay as they are.
LEMMA SameReplay ==
  ASSUME NEW u \in Users, Chained(u), Settled(u),
         ledger'[u] = ledger[u], opening'[u] = opening[u], points'[u] = points[u],
         Unbooked(u)' = Unbooked(u),
         \A c \in Unbooked(u) : work'[c].base = work[c].base /\ work'[c].amount = work[c].amount
  PROVE  Chained(u)' /\ Settled(u)'
<1>1. Chained(u)'
  BY DEF Chained
<1>2. LastBalance(u)' = LastBalance(u)
  BY DEF LastBalance
<1>3. Settled(u)'
  BY <1>2 DEF Settled
<1> QED
  BY <1>1, <1>3

\* A request that is not between its writes, before and after the step, does
\* not count.
LEMMA SameUnbooked ==
  ASSUME PointsTypeOK, NEW c \in Clerks, NEW t \in Task \cup {None},
         work' = [work EXCEPT ![c] = t],
         NEW u, c \notin Unbooked(u), t # None => t.at # "saved" \/ t.user # u
  PROVE  /\ Unbooked(u)' = Unbooked(u)
         /\ \A d \in Unbooked(u) : work'[d] = work[d]
<1>1. work'[c] = t /\ \A d \in Clerks \ {c} : work'[d] = work[d]
  BY WorkMoves
<1>2. \A d : d \in Unbooked(u)' <=> d \in Unbooked(u)
  <2> TAKE d
  <2>1. CASE d = c
    BY <1>1, <2>1, UnbookedAre
  <2>2. CASE d # c
    BY <1>1, <2>2, UnbookedAre
  <2> QED
    BY <2>1, <2>2
<1>3. \A d \in Unbooked(u) : work'[d] = work[d]
  BY <1>1, UnbookedAre
<1> QED
  BY <1>2, <1>3

\* A step of one request that leaves all balances and rows alone.
LEMMA QuietReplay ==
  ASSUME PointsTypeOK, ReplayInv, UNCHANGED <<points, ledger, opening, astray>>,
         NEW c \in Clerks, NEW t \in Task \cup {None}, work' = [work EXCEPT ![c] = t],
         work[c] # None => work[c].at # "saved", t # None => t.at # "saved"
  PROVE  ReplayInv'
<1> SUFFICES ASSUME NEW u \in Users, ~astray[u] PROVE Chained(u)' /\ Settled(u)'
  BY DEF ReplayInv
<1>1. c \notin Unbooked(u)
  BY UnbookedAre
<1>2. Unbooked(u)' = Unbooked(u) /\ \A d \in Unbooked(u) : work'[d] = work[d]
  BY <1>1, SameUnbooked
<1> QED
  BY <1>2, SameReplay DEF ReplayInv

\* An award saves its balance.
LEMMA SaveReplay ==
  ASSUME PointsTypeOK, ReplayInv, NEW c \in Clerks, SaveUser(c),
         NEW v \in Users, v = work[c].user
  PROVE  ReplayInv'
<1> DEFINE t == [work[c] EXCEPT !.at = "saved"]
           lost == astray[v] \/ points[v] # work[c].base \/ Unbooked(v) # {}
<1>1. /\ t \in Task /\ work' = [work EXCEPT ![c] = t] /\ t.at = "saved" /\ t.user = v
      /\ t.base = work[c].base /\ t.amount = work[c].amount
  BY ClerkMoves
<1>2. /\ work[c] # None /\ work[c].at = "read" /\ v \in Users /\ work[c] \in Task
      /\ work[c].base \in Nat /\ work[c].amount \in Nat
  BY AtTask DEF SaveUser
<1>3. /\ points'[v] = work[c].base + work[c].amount
      /\ \A u \in Users \ {v} : points'[u] = points[u]
  <2>1. Balance(c, v, work[c].base + work[c].amount, work[c].amount)
    BY DEF SaveUser
  <2>2. work[c].base + work[c].amount \in Nat
    BY <1>2
  <2> QED
    BY <1>2, <2>1, <2>2, BalanceType
<1>4. (astray'[v] <=> lost) /\ \A u \in Users \ {v} : astray'[u] = astray[u]
  <2>1. astray' = [astray EXCEPT ![v] = lost]
    BY DEF SaveUser
  <2>2. lost \in BOOLEAN
    BY <1>2 DEF PointsTypeOK
  <2> HIDE DEF lost
  <2> QED
    BY <1>2, <2>1, <2>2, AstrayType DEF PointsTypeOK
<1>5. UNCHANGED <<ledger, opening>>
  BY DEF SaveUser
<1> HIDE DEF t
<1>6. t # None /\ work'[c] = t /\ \A d \in Clerks \ {c} : work'[d] = work[d]
  BY <1>1, WorkMoves, PointsAssumption
<1> SUFFICES ASSUME NEW u \in Users, ~astray'[u] PROVE Chained(u)' /\ Settled(u)'
  BY DEF ReplayInv
<1>7. CASE u # v
  <2>1. c \notin Unbooked(u)
    BY <1>2, UnbookedAre
  <2>2. Unbooked(u)' = Unbooked(u) /\ \A d \in Unbooked(u) : work'[d] = work[d]
    BY <1>1, <1>7, <2>1, SameUnbooked
  <2>3. points'[u] = points[u] /\ ~astray[u]
    BY <1>3, <1>4, <1>7
  <2> QED
    BY <1>5, <2>2, <2>3, SameReplay DEF ReplayInv
<1>8. CASE u = v
  <2>1. ~astray[v] /\ points[v] = work[c].base /\ Unbooked(v) = {}
    BY <1>4, <1>8
  <2>2. Chained(v) /\ points[v] = LastBalance(v)
    BY <1>2, <2>1 DEF ReplayInv, Settled
  <2>3. LastBalance(v)' = LastBalance(v)
    BY <1>5 DEF LastBalance
  <2>4. Unbooked(v)' = {c}
    <3>1. \A d : d \in Unbooked(v)' <=> d = c
      <4> TAKE d
      <4>1. CASE d = c
        BY <1>1, <1>6, <4>1, UnbookedAre
      <4>2. CASE d # c
        <5>1. d \notin Unbooked(v)
          BY <2>1
        <5> QED
          BY <1>6, <4>2, <5>1, UnbookedAre
      <4> QED
        BY <4>1, <4>2
    <3> QED
      BY <3>1
  <2>5. Settled(v)'
    <3> SUFFICES ASSUME NEW d \in Unbooked(v)'
                 PROVE  /\ Unbooked(v)' = {d}
                        /\ work'[d].base = LastBalance(v)'
                        /\ points'[v] = work'[d].base + work'[d].amount
      BY <2>4 DEF Settled
    <3>1. d = c
      BY <2>4
    <3> QED
      BY <1>1, <1>3, <1>6, <2>1, <2>2, <2>3, <2>4, <3>1
  <2>6. Chained(v)'
    BY <1>5, <2>2 DEF Chained
  <2> QED
    BY <1>8, <2>5, <2>6
<1> QED
  BY <1>7, <1>8

\* and books it.
LEMMA BookReplay ==
  ASSUME PointsTypeOK, ReplayInv, NEW c \in Clerks, Book(c),
         NEW v \in Users, v = work[c].user
  PROVE  ReplayInv'
<1> DEFINE row == [amount |-> work[c].amount, after |-> work[c].base + work[c].amount]
<1>1. /\ work[c] # None /\ work[c].at = "saved" /\ v \in Users
      /\ work[c].base \in Nat /\ work[c].amount \in Nat
  BY AtTask DEF Book
<1>2. /\ ledger' = [ledger EXCEPT ![v] = Append(ledger[v], row)]
      /\ work' = [work EXCEPT ![c] = None]
      /\ UNCHANGED <<points, opening, astray>>
  BY DEF Book, ledgerHistory
<1>3. /\ ledger'[v] = Append(ledger[v], row)
      /\ \A u \in Users \ {v} : ledger'[u] = ledger[u]
  BY <1>1, <1>2 DEF PointsTypeOK
<1>4. row.amount = work[c].amount /\ row.after = work[c].base + work[c].amount
  OBVIOUS
<1>5. work'[c] = None /\ \A d \in Clerks \ {c} : work'[d] = work[d]
  BY <1>2, WorkMoves
<1> HIDE DEF row
<1> SUFFICES ASSUME NEW u \in Users, ~astray[u] PROVE Chained(u)' /\ Settled(u)'
  BY <1>2 DEF ReplayInv
<1>6. CASE u # v
  <2>1. c \notin Unbooked(u)
    BY <1>6, UnbookedAre
  <2>2. Unbooked(u)' = Unbooked(u) /\ \A d \in Unbooked(u) : work'[d] = work[d]
    BY <1>2, <2>1, SameUnbooked
  <2> QED
    BY <1>2, <1>3, <1>6, <2>2, SameReplay DEF ReplayInv
<1>7. CASE u = v
  <2>1. c \in Unbooked(v)
    BY <1>1, UnbookedAre
  <2>2. /\ Unbooked(v) = {c} /\ work[c].base = LastBalance(v)
        /\ points[v] = work[c].base + work[c].amount
        /\ Chained(v)
    BY <1>1, <1>7, <2>1 DEF ReplayInv, Settled
  <2>3. Unbooked(v)' = {}
    <3>1. \A d : d \notin Unbooked(v)'
      <4> TAKE d
      <4>1. d # c => d \notin Unbooked(v)
        BY <2>2
      <4> QED
        BY <1>5, <4>1, UnbookedAre
    <3> QED
      BY <3>1
  <2> DEFINE s == ledger[v]
  <2>4. /\ s \in Seq([amount : Nat, after : Nat]) /\ Len(s) \in Nat
        /\ Len(Append(s, row)) = Len(s) + 1
        /\ Append(s, row)[Len(s) + 1] = row
        /\ \A i \in 1..Len(s) : Append(s, row)[i] = s[i]
        /\ s = <<>> <=> Len(s) = 0
    BY <1>1 DEF PointsTypeOK
  <2>5. LastBalance(v) = IF Len(s) = 0 THEN opening[v] ELSE s[Len(s)].after
    BY <2>4 DEF LastBalance
  <2>6. \A i \in 1..Len(s) :
          s[i].after = (IF i = 1 THEN opening[v] ELSE s[i - 1].after) + s[i].amount
    BY <2>2 DEF Chained
  <2>7. ledger'[v] = Append(s, row)
    BY <1>3
  <2> HIDE DEF s
  <2>8. Chained(v)'
    <3> DEFINE n == Append(s, row)
    <3>1. ASSUME NEW i \in 1..(Len(s) + 1)
          PROVE  n[i].after = (IF i = 1 THEN opening[v] ELSE n[i - 1].after) + n[i].amount
      <4>1. CASE i = Len(s) + 1
        <5>1. n[i].after = work[c].base + work[c].amount /\ n[i].amount = work[c].amount
          BY <1>4, <2>4, <4>1
        <5>2. work[c].base = IF i = 1 THEN opening[v] ELSE n[i - 1].after
          <6>1. CASE Len(s) = 0
            BY <2>2, <2>5, <4>1, <6>1
          <6>2. CASE Len(s) # 0
            <7>1. i # 1 /\ i - 1 = Len(s) /\ Len(s) \in 1..Len(s)
              BY <2>4, <4>1, <6>2
            <7> QED
              BY <2>2, <2>4, <2>5, <6>2, <7>1
          <6> QED
            BY <6>1, <6>2
        <5> HIDE DEF n
        <5> QED
          BY <5>1, <5>2
      <4>2. CASE i # Len(s) + 1
        <5>1. i \in 1..Len(s) /\ (i # 1 => i - 1 \in 1..Len(s))
          BY <2>4, <4>2
        <5>2. n[i] = s[i] /\ (i # 1 => n[i - 1] = s[i - 1])
          BY <2>4, <5>1
        <5> HIDE DEF n
        <5> QED
          BY <2>6, <5>1, <5>2
      <4> QED
        BY <4>1, <4>2
    <3>2. Len(ledger'[v]) = Len(s) + 1 /\ ledger'[v] = n /\ opening'[v] = opening[v]
      BY <1>2, <2>4, <2>7
    <3> HIDE DEF n
    <3> QED
      BY <3>1, <3>2 DEF Chained
  <2>9. LastBalance(v)' = work[c].base + work[c].amount
    <3>1. ledger'[v] # <<>> /\ Len(ledger'[v]) = Len(s) + 1 /\ ledger'[v][Len(s) + 1] = row
      BY <2>4, <2>7
    <3> QED
      BY <1>4, <3>1 DEF LastBalance
  <2>10. Settled(v)'
    BY <1>2, <2>2, <2>3, <2>9 DEF Settled
  <2> QED
    BY <1>7, <2>8, <2>10
<1> QED
  BY <1>6, <1>7

\* An adjustment, the death of a request, and the page's two statements.
LEMMA AdjustReplay ==
  ASSUME PointsTypeOK, ReplayInv, NEW c \in Clerks, NEW delta \in Deltas,
         AdjustPoints(c, delta), NEW v \in Users, v = work[c].user
  PROVE  ReplayInv'
<1> DEFINE b == NewTotal(work[c].base, delta)
           g == IF delta > 0 THEN delta ELSE 0
<1>1. /\ b \in Nat /\ g \in Nat /\ work[c] \in Task
      /\ work' = [work EXCEPT ![c] = None] /\ UNCHANGED <<ledger, opening>>
      /\ \/ UNCHANGED <<points, worth, carried, astray>>
         \/ Balance(c, v, b, g) /\ astray' = [astray EXCEPT ![v] = TRUE]
  BY AdjustMoves
<1>2. work[c] # None /\ work[c].at = "loaded"
  BY AtTask DEF AdjustPoints
<1> HIDE DEF b, g
<1>3. CASE UNCHANGED <<points, worth, carried, astray>>
  BY <1>1, <1>2, <1>3, QuietReplay
<1>4. CASE Balance(c, v, b, g) /\ astray' = [astray EXCEPT ![v] = TRUE]
  <2>1. \A u \in Users \ {v} : points'[u] = points[u]
    BY <1>1, <1>4, BalanceType
  <2>2. astray'[v] /\ \A u \in Users \ {v} : astray'[u] = astray[u]
    BY <1>4, AstrayType DEF PointsTypeOK
  <2>3. ASSUME NEW u \in Users, ~astray'[u] PROVE Chained(u)' /\ Settled(u)'
    <3>1. u # v /\ ~astray[u] /\ points'[u] = points[u]
      BY <2>1, <2>2, <2>3
    <3>2. c \notin Unbooked(u)
      BY <1>2, UnbookedAre
    <3>3. Unbooked(u)' = Unbooked(u) /\ \A d \in Unbooked(u) : work'[d] = work[d]
      BY <1>1, <3>2, SameUnbooked
    <3> QED
      BY <1>1, <3>1, <3>3, SameReplay DEF ReplayInv
  <2> QED
    BY <2>3 DEF ReplayInv
<1> QED
  BY <1>1, <1>3, <1>4

\* The death of a request between its writes is remembered.
LEMMA KillReplay ==
  ASSUME PointsTypeOK, ReplayInv, NEW c \in Clerks, KillClerk(c) PROVE ReplayInv'
<1>1. /\ work' = [work EXCEPT ![c] = None] /\ UNCHANGED <<points, ledger, opening>>
      /\ \A u \in Users : ~astray'[u] => ~astray[u] /\ c \notin Unbooked(u)
  BY DEF KillClerk
<1>2. ASSUME NEW u \in Users, ~astray'[u] PROVE Chained(u)' /\ Settled(u)'
  <2>1. ~astray[u] /\ c \notin Unbooked(u)
    BY <1>1, <1>2
  <2>2. Unbooked(u)' = Unbooked(u) /\ \A d \in Unbooked(u) : work'[d] = work[d]
    BY <1>1, <2>1, SameUnbooked
  <2> QED
    BY <1>1, <2>1, <2>2, SameReplay DEF ReplayInv
<1> QED
  BY <1>2 DEF ReplayInv

\* An emptied ledger starts from the balance there is.
LEMMA EmptyReplay ==
  ASSUME NEW u \in Users, ledger'[u] = <<>>, opening'[u] = points'[u], Unbooked(u)' = {}
  PROVE  Chained(u)' /\ Settled(u)'
<1>1. Len(ledger'[u]) = 0
  OBVIOUS
<1>2. Chained(u)'
  BY <1>1 DEF Chained
<1>3. LastBalance(u)' = opening'[u]
  BY DEF LastBalance
<1> QED
  BY <1>2, <1>3 DEF Settled

\* The page's statements leave a ledger that replays, or say that it does not.
LEMMA ResetReplay ==
  ASSUME PointsTypeOK, ReplayInv, TruncateLedger \/ ZeroPoints PROVE ReplayInv'
<1>1. \A u : Unbooked(u) \subseteq Busy(u)
  BY DEF Unbooked
<1>2. CASE TruncateLedger
  <2>1. ASSUME NEW u \in Users, ~astray'[u] PROVE Chained(u)' /\ Settled(u)'
    <3>1. /\ ledger'[u] = <<>> /\ opening'[u] = points'[u] /\ Busy(u) = {} /\ work' = work
      BY <1>2, <2>1 DEF TruncateLedger
    <3>2. Unbooked(u) = {}
      BY <1>1, <3>1
    <3>3. \A d : d \notin Unbooked(u)'
      BY <3>1, <3>2, UnbookedAre
    <3>4. Unbooked(u)' = {}
      BY <3>3
    <3> QED
      BY <3>1, <3>4, EmptyReplay
  <2> QED
    BY <2>1 DEF ReplayInv
<1>3. CASE ZeroPoints
  <2>1. \A u, d : d \in Unbooked(u)' <=> d \in Unbooked(u)
    BY <1>3, StaleMarks, UnbookedAre
  <2>2. \A u : \A d \in Unbooked(u) :
          work'[d].base = work[d].base /\ work'[d].amount = work[d].amount
    BY <1>3, StaleMarks, UnbookedAre
  <2>3. ASSUME NEW u \in Users, ~astray'[u] PROVE Chained(u)' /\ Settled(u)'
    <3>1. Unbooked(u)' = Unbooked(u)
      BY <2>1
    <3>2. CASE u \in Employees
      <4>1. /\ Busy(u) = {} /\ ledger[u] = <<>> /\ ledger' = ledger
            /\ opening'[u] = 0 /\ points'[u] = 0
        BY <1>3, <2>3, <3>2 DEF ZeroPoints
      <4>2. Unbooked(u)' = {}
        BY <1>1, <3>1, <4>1
      <4> QED
        BY <4>1, <4>2, EmptyReplay
    <3>3. CASE u \notin Employees
      <4>1. /\ ~astray[u] /\ ledger' = ledger
            /\ opening'[u] = opening[u] /\ points'[u] = points[u]
        BY <1>3, <2>3, <3>3 DEF ZeroPoints
      <4> QED
        BY <2>2, <3>1, <4>1, SameReplay DEF ReplayInv
    <3> QED
      BY <3>2, <3>3
  <2> QED
    BY <2>3 DEF ReplayInv
<1> QED
  BY <1>2, <1>3

\* Every step of the points keeps the replay.
LEMMA ReplayStep == PointsTypeOK /\ ReplayInv /\ [PointsNext]_ledgerVars => ReplayInv'
<1> SUFFICES ASSUME PointsTypeOK, ReplayInv, [PointsNext]_ledgerVars PROVE ReplayInv'
  OBVIOUS
<1>1. ASSUME NEW c \in Clerks, NEW u \in Users, NEW r \in Rewards, GrantBadge(c, u, r)
      PROVE  ReplayInv'
  <2> DEFINE t == [at |-> "granted", user |-> u, amount |-> r, base |-> 0, stale |-> FALSE]
  <2>1. t \in Task /\ t.at = "granted"
    BY PointsAssumption DEF Task
  <2>2. work' = [work EXCEPT ![c] = t] /\ UNCHANGED <<points, ledger, opening, astray>>
        /\ work[c] = None
    BY <1>1 DEF GrantBadge, ledgerHistory
  <2> HIDE DEF t
  <2> QED
    BY <2>1, <2>2, QuietReplay
<1>2. ASSUME NEW c \in Clerks, NEW u \in Users, LoadRecord(c, u) PROVE ReplayInv'
  <2> DEFINE t == [at |-> "loaded", user |-> u, amount |-> 0, base |-> points[u],
                   stale |-> FALSE]
  <2>1. points[u] \in Nat
    BY DEF PointsTypeOK
  <2>2. t \in Task /\ t.at = "loaded"
    BY <2>1 DEF Task
  <2>3. work' = [work EXCEPT ![c] = t] /\ UNCHANGED <<points, ledger, opening, astray>>
        /\ work[c] = None
    BY <1>2 DEF LoadRecord, ledgerHistory
  <2> HIDE DEF t
  <2> QED
    BY <2>2, <2>3, QuietReplay
<1>3. ASSUME NEW c \in Clerks, ReadUser(c) PROVE ReplayInv'
  <2> DEFINE t == [work[c] EXCEPT !.at = "read", !.base = points[work[c].user]]
  <2>1. t \in Task /\ work' = [work EXCEPT ![c] = t] /\ t.at = "read"
    BY <1>3, ClerkMoves
  <2>2. UNCHANGED <<points, ledger, opening, astray>> /\ work[c].at = "granted"
    BY <1>3 DEF ReadUser, ledgerHistory, At
  <2> HIDE DEF t
  <2> QED
    BY <2>1, <2>2, QuietReplay
<1>4. ASSUME NEW c \in Clerks, SaveUser(c) PROVE ReplayInv'
  BY <1>4, SaveReplay, AtTask DEF SaveUser
<1>5. ASSUME NEW c \in Clerks, Book(c) PROVE ReplayInv'
  BY <1>5, BookReplay, AtTask DEF Book
<1>6. ASSUME NEW c \in Clerks, NEW delta \in Deltas, AdjustPoints(c, delta)
      PROVE  ReplayInv'
  <2>1. work[c].user \in Users
    BY <1>6, AtTask DEF AdjustPoints
  <2> QED
    BY <1>6, <2>1, AdjustReplay
<1>7. ASSUME UNCHANGED ledgerVars PROVE ReplayInv'
  <2>1. /\ UNCHANGED <<points, ledger, opening, astray, work>>
    BY <1>7 DEF ledgerVars, ledgerHistory
  <2>2. \A u : Unbooked(u)' = Unbooked(u)
    BY <2>1 DEF Unbooked, Busy, At
  <2> QED
    BY <2>1, <2>2, SameReplay DEF ReplayInv
<1> QED
  BY <1>1, <1>2, <1>3, <1>4, <1>5, <1>6, <1>7, KillReplay, ResetReplay
     DEF PointsNext, ClerkStart, ClerkStep

\* What ReplayInv says of a user, as LedgerReplays states it.
LEMMA ReplayMeans == ReplayInv => LedgerReplays
<1> SUFFICES ASSUME ReplayInv, NEW u \in Users, ~astray[u]
             PROVE  /\ Chained(u)
                    /\ IF Unbooked(u) = {} THEN points[u] = LastBalance(u)
                       ELSE \E c \in Unbooked(u) : points[u] = LastBalance(u) + work[c].amount
  BY DEF LedgerReplays, Chained
<1>1. Chained(u) /\ Settled(u)
  BY DEF ReplayInv
<1>2. ASSUME Unbooked(u) # {}
      PROVE  \E c \in Unbooked(u) : points[u] = LastBalance(u) + work[c].amount
  <2>1. PICK c : c \in Unbooked(u)
    BY <1>2
  <2> QED
    BY <1>1, <2>1 DEF Settled
<1> QED
  BY <1>1, <1>2 DEF Settled

-----------------------------------------------------------------------------
(* Rows of assignments. *)

\* Taking marks away,
LEMMA UnmarkedRows ==
  ASSUME NEW rows \in Seq(Row), NEW S
  PROVE  /\ Unmarked(rows, S) \in Seq(Row) /\ Len(Unmarked(rows, S)) = Len(rows)
         /\ Current(Unmarked(rows, S)) = Current(rows) \ S
         /\ \A i \in DOMAIN rows \ S : Unmarked(rows, S)[i] = rows[i]
<1> DEFINE new == Unmarked(rows, S)
<1>1. \A i \in 1..Len(rows) : rows[i] \in Row
  OBVIOUS
<1>2. /\ DOMAIN new = DOMAIN rows /\ DOMAIN rows = 1..Len(rows)
      /\ \A i \in 1..Len(rows) :
           new[i] = IF i \in S THEN [rows[i] EXCEPT !.current = FALSE] ELSE rows[i]
  <2>1. DOMAIN rows = 1..Len(rows)
    OBVIOUS
  <2>2. new = [i \in 1..Len(rows) |->
                 IF i \in S THEN [rows[i] EXCEPT !.current = FALSE] ELSE rows[i]]
    BY <2>1 DEF Unmarked
  <2> HIDE DEF new
  <2> QED
    BY <2>1, <2>2
<1>3. \A i \in 1..Len(rows) : new[i] \in Row /\ (i \in S => new[i].current = FALSE)
  BY <1>1, <1>2 DEF Row
<1>4. new = [i \in 1..Len(rows) |-> new[i]]
  BY DEF Unmarked
<1> HIDE DEF new
<1>5. Len(rows) \in Nat
  OBVIOUS
<1>6. new \in Seq(Row) /\ Len(new) = Len(rows)
  BY <1>3, <1>4, <1>5
<1>7. \A i : i \in Current(new) <=> i \in Current(rows) \ S
  BY <1>2, <1>3 DEF Current
<1>8. \A i \in DOMAIN rows \ S : new[i] = rows[i]
  BY <1>2
<1> QED
  BY <1>6, <1>7, <1>8 DEF new

\* replacing a row,
LEMMA ReplacedRow ==
  ASSUME NEW rows \in Seq(Row), NEW i \in DOMAIN rows, NEW row \in Row
  PROVE  LET new == [rows EXCEPT ![i] = row] IN
         /\ new \in Seq(Row) /\ Len(new) = Len(rows) /\ new[i] = row
         /\ row.current => Current(new) = Current(rows) \cup {i}
         /\ (row.current => rows[i].current) => Current(new) \subseteq Current(rows)
<1> DEFINE new == [rows EXCEPT ![i] = row]
<1>1. /\ new \in Seq(Row) /\ Len(new) = Len(rows) /\ DOMAIN new = DOMAIN rows
      /\ new[i] = row /\ \A j \in DOMAIN rows \ {i} : new[j] = rows[j]
  OBVIOUS
<1> HIDE DEF new
<1>2. ASSUME row.current PROVE \A j : j \in Current(new) <=> j \in Current(rows) \cup {i}
  <2> TAKE j
  <2>1. CASE j = i
    BY <1>1, <1>2, <2>1 DEF Current
  <2>2. CASE j # i
    BY <1>1, <2>2 DEF Current
  <2> QED
    BY <2>1, <2>2
<1>3. ASSUME row.current => rows[i].current PROVE Current(new) \subseteq Current(rows)
  <2>1. ASSUME NEW j \in Current(new) PROVE j \in Current(rows)
    <3>1. CASE j = i
      BY <1>1, <1>3, <2>1, <3>1 DEF Current
    <3>2. CASE j # i
      BY <1>1, <2>1, <3>2 DEF Current
    <3> QED
      BY <3>1, <3>2
  <2> QED
    BY <2>1
<1>4. row.current => Current(new) = Current(rows) \cup {i}
  BY <1>2
<1> QED
  BY <1>1, <1>3, <1>4 DEF new

\* and adding one.
LEMMA AddedRow ==
  ASSUME NEW rows \in Seq(Row), NEW row \in Row, row.current
  PROVE  LET new == Append(rows, row) IN
         /\ new \in Seq(Row) /\ Len(new) = Len(rows) + 1 /\ new[Len(rows) + 1] = row
         /\ Current(new) = Current(rows) \cup {Len(rows) + 1}
<1> DEFINE new == Append(rows, row)
<1>1. /\ new \in Seq(Row) /\ Len(new) = Len(rows) + 1 /\ Len(rows) \in Nat
      /\ DOMAIN new = 1..(Len(rows) + 1) /\ DOMAIN rows = 1..Len(rows)
      /\ new[Len(rows) + 1] = row /\ \A j \in 1..Len(rows) : new[j] = rows[j]
  OBVIOUS
<1> HIDE DEF new
<1>2. \A j : j \in Current(new) <=> j \in Current(rows) \cup {Len(rows) + 1}
  <2> TAKE j
  <2>1. CASE j = Len(rows) + 1
    BY <1>1, <2>1 DEF Current
  <2>2. CASE j # Len(rows) + 1
    BY <1>1, <2>2 DEF Current
  <2> QED
    BY <2>1, <2>2
<1> QED
  BY <1>1, <1>2 DEF new

\* The first row that satisfies a test is one of the rows.
LEMMA FirstRow ==
  ASSUME NEW rows \in Seq(Row), NEW S \in SUBSET DOMAIN rows
  PROVE  First(S) \in 0..Len(rows) /\ (S # {} => First(S) \in S)
<1>1. CASE S = {}
  BY <1>1 DEF First
<1>2. CASE S # {}
  <2>1. S \subseteq Nat /\ S # {}
    BY <1>2
  <2>2. \E i \in S : \A j \in S : i =< j
    <3>1. PICK i \in S : \A j \in S : ~(<<j, i>> \in OpToRel(<, Nat))
      BY <2>1, NatLessThanWellFounded, WFMin
    <3>2. \A j \in S : ~(j < i)
      BY <2>1, <3>1 DEF OpToRel
    <3> QED
      BY <2>1, <3>2
  <2>3. First(S) \in S
    BY <1>2, <2>2 DEF First
  <2> QED
    BY <2>3
<1> QED
  BY <1>1, <1>2

-----------------------------------------------------------------------------
(* Assignments and their switches. *)

\* What the rows of a user owe what is remembered of him.
GoodUser(rows, cross, choice) ==
  /\ ~cross => \A i, j \in Current(rows) : i = j
  /\ choice # None => \E i \in DOMAIN rows :
       Current(rows) = {i} /\ ~rows[i].over /\ rows[i].shift = choice

\* What a request in the middle of a switch may rely on: the row it loaded,
\* and if it has been alone with the user, the marks it left.
GoodSwitch(s, rows) ==
  /\ s.row \in 0..Len(rows)
  /\ s.at \in {"loaded", "cleared"} => s.row # 0
  /\ s.alone =>
       /\ s.at = "cleared" => Current(rows) \subseteq {s.row}
       /\ s.at \in {"detached", "sought"} => Current(rows) = {}
       /\ s.at \in {"loaded", "cleared"} /\ s.wasCurrent => s.row \in Current(rows)

ShiftsInv ==
  /\ assigned \in [Users -> Seq(Row)]
  /\ switch \in [Managers -> Switch \cup {None}]
  /\ crossed \in [Users -> BOOLEAN]
  /\ chosen \in [Users -> Shifts \cup {None}]
  /\ \A u \in Users : GoodUser(assigned[u], crossed[u], chosen[u])
  /\ \A m \in Managers : switch[m] # None =>
       /\ GoodSwitch(switch[m], assigned[switch[m].user])
       /\ switch[m].alone => NoOther(m, switch[m].user)

\* A user is left with these rows, and they are as they should be.
Leaves(v, rows, cross, choice) ==
  /\ rows \in Seq(Row) /\ cross \in BOOLEAN /\ choice \in Shifts \cup {None}
  /\ assigned' = [assigned EXCEPT ![v] = rows] /\ Len(assigned[v]) =< Len(rows)
  /\ crossed' = [crossed EXCEPT ![v] = cross]
  /\ chosen' = [chosen EXCEPT ![v] = choice]
  /\ GoodUser(rows, cross, choice)

\* A request for user v goes on as t, or ends.
GoesOn(m, t, v, rows) ==
  /\ switch[m] # None /\ v = switch[m].user
  /\ switch' = [switch EXCEPT ![m] = t]
  /\ t # None => /\ t \in Switch /\ t.user = v /\ (t.alone => switch[m].alone)
                 /\ GoodSwitch(t, rows)

LEMMA SwitchStep ==
  ASSUME ShiftsInv, NEW m \in Managers, NEW t, NEW v \in Users,
         NEW rows, NEW cross, NEW choice,
         Leaves(v, rows, cross, choice), GoesOn(m, t, v, rows)
  PROVE  ShiftsInv'
<1>0. /\ rows \in Seq(Row) /\ cross \in BOOLEAN /\ choice \in Shifts \cup {None}
      /\ assigned' = [assigned EXCEPT ![v] = rows] /\ Len(assigned[v]) =< Len(rows)
      /\ crossed' = [crossed EXCEPT ![v] = cross]
      /\ chosen' = [chosen EXCEPT ![v] = choice]
      /\ GoodUser(rows, cross, choice)
      /\ switch[m] # None /\ v = switch[m].user
      /\ switch' = [switch EXCEPT ![m] = t]
      /\ t # None => /\ t.user = v /\ (t.alone => switch[m].alone)
                     /\ GoodSwitch(t, rows)
      /\ t \in Switch \cup {None}
  BY DEF Leaves, GoesOn
<1> USE <1>0
<1>1. /\ assigned' \in [Users -> Seq(Row)]
      /\ switch' \in [Managers -> Switch \cup {None}]
      /\ chosen' \in [Users -> Shifts \cup {None}]
  BY DEF ShiftsInv
<1>2. crossed' \in [Users -> BOOLEAN]
  BY DEF ShiftsInv
<1>3. /\ assigned'[v] = rows /\ (crossed'[v] <=> cross) /\ chosen'[v] = choice
      /\ \A u \in Users \ {v} : /\ assigned'[u] = assigned[u] /\ crossed'[u] = crossed[u]
                                /\ chosen'[u] = chosen[u]
      /\ switch'[m] = t /\ \A n \in Managers \ {m} : switch'[n] = switch[n]
  BY DEF ShiftsInv
<1>4. \A u \in Users : GoodUser(assigned[u], crossed[u], chosen[u])'
  <2> SUFFICES ASSUME NEW u \in Users PROVE GoodUser(assigned'[u], crossed'[u], chosen'[u])
    OBVIOUS
  <2>1. CASE u = v
    BY <1>3, <2>1 DEF GoodUser
  <2>2. CASE u # v
    BY <1>3, <2>2 DEF ShiftsInv
  <2> QED
    BY <2>1, <2>2
<1>5. ASSUME NEW n \in Managers, switch'[n] # None
      PROVE  /\ GoodSwitch(switch'[n], assigned'[switch'[n].user])
             /\ switch'[n].alone => \A k \in Managers \ {n} :
                                      switch'[k] = None \/ switch'[k].user # switch'[n].user
  <2>1. CASE n = m
    <3>1. t # None /\ switch'[n] = t /\ t.user = v
      BY <1>3, <1>5, <2>1
    <3>2. ASSUME t.alone, NEW k \in Managers \ {n} PROVE switch'[k] = None \/ switch'[k].user # v
      BY <1>3, <2>1, <3>1, <3>2 DEF ShiftsInv, NoOther
    <3> QED
      BY <1>3, <3>1, <3>2
  <2>2. CASE n # m
    <3>1. switch'[n] = switch[n] /\ switch[n].user \in Users /\ switch[n] \in Switch
      BY <1>3, <1>5, <2>2 DEF ShiftsInv, Switch
    <3>2. /\ GoodSwitch(switch[n], assigned[switch[n].user])
          /\ switch[n].alone => NoOther(n, switch[n].user)
      BY <1>5, <3>1 DEF ShiftsInv
    <3>3. switch[n].alone => switch[n].user # v
      BY <2>2, <3>2 DEF NoOther
    <3>4. GoodSwitch(switch[n], assigned'[switch[n].user])
      <4>1. CASE switch[n].user = v
        <5>1. switch[n].row \in 0..Len(rows) /\ ~switch[n].alone
          BY <3>2, <3>3, <4>1 DEF GoodSwitch, ShiftsInv
        <5> QED
          BY <1>3, <3>2, <4>1, <5>1 DEF GoodSwitch
      <4>2. CASE switch[n].user # v
        BY <1>3, <3>1, <3>2, <4>2
      <4> QED
        BY <4>1, <4>2
    <3>5. ASSUME switch[n].alone, NEW k \in Managers \ {n}
          PROVE  switch'[k] = None \/ switch'[k].user # switch[n].user
      <4>1. switch[k] = None \/ switch[k].user # switch[n].user
        BY <3>2, <3>5 DEF NoOther
      <4>2. CASE k = m
        BY <1>3, <3>3, <3>5, <4>2
      <4>3. CASE k # m
        BY <1>3, <4>1, <4>3
      <4> QED
        BY <4>2, <4>3
    <3> QED
      BY <3>1, <3>4, <3>5
  <2> QED
    BY <2>1, <2>2
<1>6. \A n \in Managers : switch'[n] # None =>
        /\ GoodSwitch(switch[n], assigned[switch[n].user])'
        /\ switch'[n].alone => NoOther(n, switch[n].user)'
  BY <1>5 DEF NoOther, GoodSwitch
<1> QED
  BY <1>1, <1>2, <1>4, <1>6 DEF ShiftsInv

\* A request that takes a user in hand.
LEMMA TakeStep ==
  ASSUME ShiftsInv, NEW m \in Managers, switch[m] = None, NEW v \in Users,
         NEW s \in Switch, s.user = v, s.alone => NoOther(m, v), Take(m, v, s),
         NEW rows, NEW cross, NEW choice,
         GoodSwitch(s, rows), Leaves(v, rows, cross, choice)
  PROVE  ShiftsInv'
<1>0. /\ rows \in Seq(Row) /\ cross \in BOOLEAN /\ choice \in Shifts \cup {None}
      /\ assigned' = [assigned EXCEPT ![v] = rows] /\ Len(assigned[v]) =< Len(rows)
      /\ crossed' = [crossed EXCEPT ![v] = cross]
      /\ chosen' = [chosen EXCEPT ![v] = choice]
      /\ GoodUser(rows, cross, choice)
  BY DEF Leaves
<1> USE <1>0
<1>1. /\ assigned' \in [Users -> Seq(Row)]
      /\ chosen' \in [Users -> Shifts \cup {None}]
  BY DEF ShiftsInv
<1>2. crossed' \in [Users -> BOOLEAN]
  BY DEF ShiftsInv
<1>3. /\ assigned'[v] = rows /\ (crossed'[v] <=> cross) /\ chosen'[v] = choice
      /\ \A u \in Users \ {v} : /\ assigned'[u] = assigned[u] /\ crossed'[u] = crossed[u]
                                /\ chosen'[u] = chosen[u]
  BY DEF ShiftsInv
<1>4. /\ switch'[m] = s /\ s # None
      /\ \A n \in Managers \ {m} :
           switch'[n] = IF switch[n] # None /\ switch[n].user = v
                        THEN [switch[n] EXCEPT !.alone = FALSE] ELSE switch[n]
  BY ShiftsAssumption DEF Take
<1>5. ASSUME NEW n \in Managers \ {m}, switch[n] # None
      PROVE  /\ switch'[n] \in Switch /\ switch'[n] # None
             /\ switch'[n].user = switch[n].user /\ switch'[n].at = switch[n].at
             /\ switch'[n].row = switch[n].row
             /\ switch'[n].alone => switch[n].user # v /\ switch'[n] = switch[n]
  <2>1. switch[n] \in Switch
    BY <1>5 DEF ShiftsInv
  <2>2. CASE switch[n].user = v
    <3> DEFINE t == [switch[n] EXCEPT !.alone = FALSE]
    <3>1. switch'[n] = t
      BY <1>4, <1>5, <2>2
    <3>2. /\ t \in Switch /\ t.user = switch[n].user /\ t.at = switch[n].at
          /\ t.row = switch[n].row /\ t.alone = FALSE
      BY <2>1 DEF Switch
    <3>3. t # None
      BY <3>2, ShiftsAssumption
    <3> HIDE DEF t
    <3> QED
      BY <3>1, <3>2, <3>3
  <2>3. CASE switch[n].user # v
    <3>1. switch'[n] = switch[n]
      BY <1>4, <1>5, <2>3
    <3> QED
      BY <1>5, <2>1, <2>3, <3>1
  <2> QED
    BY <2>2, <2>3
<1>6. \A n \in Managers \ {m} : switch[n] = None => switch'[n] = None
  BY <1>4
<1>7. switch' \in [Managers -> Switch \cup {None}]
  <2>1. \A n \in Managers : switch'[n] \in Switch \cup {None}
    BY <1>4, <1>5, <1>6
  <2>2. switch' = [n \in Managers |-> switch'[n]]
    BY DEF Take
  <2> HIDE DEF Switch
  <2> QED
    BY <2>1, <2>2
<1>8. \A u \in Users : GoodUser(assigned[u], crossed[u], chosen[u])'
  <2> SUFFICES ASSUME NEW u \in Users PROVE GoodUser(assigned'[u], crossed'[u], chosen'[u])
    OBVIOUS
  <2>1. CASE u = v
    BY <1>3, <2>1 DEF GoodUser
  <2>2. CASE u # v
    BY <1>3, <2>2 DEF ShiftsInv
  <2> QED
    BY <2>1, <2>2
<1>9. ASSUME NEW n \in Managers, switch'[n] # None
      PROVE  /\ GoodSwitch(switch'[n], assigned'[switch'[n].user])
             /\ switch'[n].alone => \A k \in Managers \ {n} :
                                      switch'[k] = None \/ switch'[k].user # switch'[n].user
  <2>1. CASE n = m
    <3>1. ASSUME s.alone, NEW k \in Managers \ {m} PROVE switch'[k] = None \/ switch'[k].user # v
      BY <1>5, <1>6, <3>1 DEF NoOther
    <3> QED
      BY <1>3, <1>4, <2>1, <3>1
  <2>2. CASE n # m
    <3>1. switch[n] # None /\ switch[n] \in Switch /\ switch[n].user \in Users
      BY <1>6, <1>9, <2>2 DEF ShiftsInv, Switch
    <3>2. /\ switch'[n].user = switch[n].user /\ switch'[n].at = switch[n].at
          /\ switch'[n].row = switch[n].row
          /\ switch'[n].alone => switch[n].user # v /\ switch'[n] = switch[n]
      BY <1>5, <2>2, <3>1
    <3>3. /\ GoodSwitch(switch[n], assigned[switch[n].user])
          /\ switch[n].alone => NoOther(n, switch[n].user)
      BY <3>1 DEF ShiftsInv
    <3>4. CASE ~switch'[n].alone
      <4>1. /\ switch[n].row \in 0..Len(assigned[switch[n].user])
            /\ switch[n].at \in {"loaded", "cleared"} => switch[n].row # 0
        BY <3>3 DEF GoodSwitch
      <4>2. switch[n].row \in 0..Len(assigned'[switch[n].user])
        <5>1. CASE switch[n].user = v
          BY <1>3, <4>1, <5>1 DEF ShiftsInv
        <5>2. CASE switch[n].user # v
          BY <1>3, <3>1, <4>1, <5>2
        <5> QED
          BY <5>1, <5>2
      <4> QED
        BY <3>2, <3>4, <4>1, <4>2 DEF GoodSwitch
    <3>5. CASE switch'[n].alone
      <4>1. switch'[n] = switch[n] /\ switch[n].user # v /\ switch[n].alone
        BY <3>2, <3>5
      <4>2. assigned'[switch[n].user] = assigned[switch[n].user]
        BY <1>3, <3>1, <4>1
      <4>3. ASSUME NEW k \in Managers \ {n}
            PROVE  switch'[k] = None \/ switch'[k].user # switch[n].user
        <5>1. switch[k] = None \/ switch[k].user # switch[n].user
          BY <3>3, <4>1 DEF NoOther
        <5>2. CASE k = m
          BY <1>4, <4>1, <5>2
        <5>3. CASE k # m
          BY <1>5, <1>6, <5>1, <5>3
        <5> QED
          BY <5>2, <5>3
      <4> QED
        BY <3>3, <4>1, <4>2, <4>3
    <3> QED
      BY <3>4, <3>5
  <2> QED
    BY <2>1, <2>2
<1>10. \A n \in Managers : switch'[n] # None =>
         /\ GoodSwitch(switch[n], assigned[switch[n].user])'
         /\ switch'[n].alone => NoOther(n, switch[n].user)'
  BY <1>9 DEF NoOther, GoodSwitch
<1> QED
  BY <1>1, <1>2, <1>7, <1>8, <1>10 DEF ShiftsInv

-----------------------------------------------------------------------------
(* The steps of a switch. *)

\* What a request knows of its switch.
LEMMA SwitchFields ==
  ASSUME ShiftsInv, NEW m \in Managers, NEW S, Switching(m, S)
  PROVE  /\ switch[m] # None /\ switch[m] \in Switch /\ switch[m].at \in S
         /\ switch[m].user \in Users /\ switch[m].row \in Nat
         /\ switch[m].wasCurrent \in BOOLEAN /\ switch[m].alone \in BOOLEAN
         /\ assigned[switch[m].user] \in Seq(Row)
         /\ GoodSwitch(switch[m], assigned[switch[m].user])
         /\ GoodUser(assigned[switch[m].user], crossed[switch[m].user],
                     chosen[switch[m].user])
  BY DEF Switching, ShiftsInv, Switch

\* Leaving a user's rows and memory as they are.
LEMMA UnchangedUser ==
  ASSUME ShiftsInv, UNCHANGED <<assigned, crossed, chosen>>, NEW v \in Users
  PROVE  Leaves(v, assigned[v], crossed[v], chosen[v])
  BY DEF ShiftsInv, Leaves

\* Loading an assignment only takes its user in hand.
LEMMA LoadStep ==
  ASSUME ShiftsInv, NEW m \in Managers, NEW v \in Users, NEW i \in DOMAIN assigned[v],
         LoadAssignment(m, v, i)
  PROVE  ShiftsInv'
<1> DEFINE s == [user |-> v, at |-> "loaded", row |-> i,
                 wasCurrent |-> assigned[v][i].current, alone |-> NoOther(m, v)]
<1>1. /\ switch[m] = None /\ Take(m, v, s) /\ UNCHANGED <<assigned, crossed, chosen>>
  BY DEF LoadAssignment
<1>2. /\ Leaves(v, assigned[v], crossed[v], chosen[v])
      /\ assigned[v] \in Seq(Row)
  BY <1>1, UnchangedUser DEF ShiftsInv
<1>3. /\ i \in 1..Len(assigned[v]) /\ i \in Nat /\ Len(assigned[v]) \in Nat
      /\ assigned[v][i].current \in BOOLEAN
  <2>1. PICK old \in Seq(Row) : old = assigned[v]
    BY <1>2
  <2>2. i \in 1..Len(old) /\ old[i] \in Row /\ Len(old) \in Nat
    BY <2>1
  <2> QED
    BY <2>1, <2>2 DEF Row
<1>4. NoOther(m, v) \in BOOLEAN
  BY DEF NoOther
<1>5. s \in Switch
  BY <1>3, <1>4 DEF Switch
<1>6. /\ s.user = v /\ s.at = "loaded" /\ s.row = i
      /\ s.wasCurrent = assigned[v][i].current
  OBVIOUS
<1>7. s.alone => NoOther(m, v)
  OBVIOUS
<1> HIDE DEF s
<1>8. GoodSwitch(s, assigned[v])
  BY <1>3, <1>6 DEF GoodSwitch, Current
<1>9. PICK r \in Switch : r = s
  BY <1>5
<1>10. /\ switch[m] = None /\ Take(m, v, r) /\ GoodSwitch(r, assigned[v])
       /\ r.user = v /\ (r.alone => NoOther(m, v))
  BY <1>1, <1>6, <1>7, <1>8, <1>9
<1> QED
  BY <1>2, <1>10, TakeStep

\* Clearing the others leaves the marks of one who was alone in his own row.
LEMMA ClearStep ==
  ASSUME ShiftsInv, NEW m \in Managers, ClearOthers(m)
  PROVE  ShiftsInv'
<1>1. /\ switch[m] # None /\ switch[m] \in Switch /\ switch[m].at = "loaded"
      /\ switch[m].user \in Users /\ switch[m].row \in Nat
      /\ switch[m].wasCurrent \in BOOLEAN /\ switch[m].alone \in BOOLEAN
      /\ assigned[switch[m].user] \in Seq(Row)
      /\ GoodSwitch(switch[m], assigned[switch[m].user])
  BY SwitchFields DEF ClearOthers
<1>2. PICK v \in Users : v = switch[m].user
  BY <1>1
<1>3. PICK s \in Switch : s = switch[m]
  BY <1>1
<1>4. PICK old \in Seq(Row) : old = assigned[v]
  BY <1>1, <1>2
<1> DEFINE rows == Unmarked(old, DOMAIN old \ {s.row})
<1> DEFINE t == [s EXCEPT !.at = "cleared"]
<1>5. /\ rows \in Seq(Row) /\ Len(rows) = Len(old)
      /\ Current(rows) = Current(old) \ (DOMAIN old \ {s.row})
  BY UnmarkedRows
<1>6. /\ assigned' = [assigned EXCEPT ![v] = rows]
      /\ crossed' = [crossed EXCEPT ![v] = ~s.alone]
      /\ chosen' = [chosen EXCEPT ![v] = IF s.alone THEN None ELSE None]
  BY <1>2, <1>3, <1>4 DEF ClearOthers, Write
<1>7. switch' = [switch EXCEPT ![m] = t]
  BY <1>3 DEF ClearOthers
<1>8. /\ t \in Switch /\ t.user = s.user /\ t.row = s.row /\ t.at = "cleared"
      /\ (t.alone <=> s.alone) /\ (t.wasCurrent <=> s.wasCurrent)
  BY DEF Switch
<1> HIDE DEF rows, t
<1>9. /\ s.row \in 0..Len(old) /\ s.row # 0
      /\ s.alone => (s.wasCurrent => s.row \in Current(old))
  BY <1>1, <1>2, <1>3, <1>4 DEF GoodSwitch
<1>10. Current(old) \subseteq DOMAIN old
  BY DEF Current
<1>11. Current(rows) \subseteq {s.row}
  BY <1>5, <1>10
<1>12. GoodSwitch(t, rows)
  <2>1. s.wasCurrent /\ s.alone => s.row \in Current(rows)
    BY <1>5, <1>9
  <2> QED
    BY <1>5, <1>8, <1>9, <1>11, <2>1 DEF GoodSwitch
<1>13. GoodUser(rows, ~s.alone, None)
  BY <1>11 DEF GoodUser
<1>14. /\ chosen' = [chosen EXCEPT ![v] = None] /\ (~s.alone) \in BOOLEAN
       /\ Len(assigned[v]) =< Len(rows) /\ t.user = v
  BY <1>2, <1>3, <1>4, <1>5, <1>6, <1>8
<1>15. t.alone => switch[m].alone
  BY <1>3, <1>8
<1>16. t \in Switch \cup {None} /\ None \in Shifts \cup {None} /\ switch[m] # None
  BY <1>1, <1>8
<1>17. Leaves(v, rows, ~s.alone, None)
  BY <1>5, <1>6, <1>13, <1>14, <1>16 DEF Leaves
<1>18. GoesOn(m, t, v, rows)
  BY <1>2, <1>7, <1>8, <1>12, <1>14, <1>15, <1>16 DEF GoesOn
<1> QED
  BY <1>17, <1>18, SwitchStep

\* Setting his own then makes it the only one.
LEMMA SetStep ==
  ASSUME ShiftsInv, NEW m \in Managers, SetCurrent(m)
  PROVE  ShiftsInv'
<1>1. /\ switch[m] # None /\ switch[m] \in Switch /\ switch[m].at = "cleared"
      /\ switch[m].user \in Users /\ switch[m].row \in Nat
      /\ switch[m].wasCurrent \in BOOLEAN /\ switch[m].alone \in BOOLEAN
      /\ assigned[switch[m].user] \in Seq(Row)
      /\ GoodSwitch(switch[m], assigned[switch[m].user])
  BY SwitchFields DEF SetCurrent
<1>2. PICK v \in Users : v = switch[m].user
  BY <1>1
<1>3. PICK s \in Switch : s = switch[m]
  BY <1>1
<1>4. PICK old \in Seq(Row) : old = assigned[v]
  BY <1>1, <1>2
<1> DEFINE row == [old[s.row] EXCEPT !.current = TRUE]
<1> DEFINE rows == IF s.wasCurrent THEN old ELSE [old EXCEPT ![s.row] = row]
<1> DEFINE given == IF old[s.row].over THEN None ELSE old[s.row].shift
<1> DEFINE choice == IF s.alone THEN given ELSE None
<1>5. /\ s.row \in DOMAIN old /\ old[s.row] \in Row
      /\ s.alone => Current(old) \subseteq {s.row}
      /\ s.alone /\ s.wasCurrent => s.row \in Current(old)
  <2>1. /\ s.row \in 0..Len(old) /\ s.row # 0
        /\ s.alone => Current(old) \subseteq {s.row}
        /\ s.alone /\ s.wasCurrent => s.row \in Current(old)
    BY <1>1, <1>2, <1>3, <1>4 DEF GoodSwitch
  <2> QED
    BY <2>1
<1>6. row \in Row /\ row.current /\ row.over = old[s.row].over /\ row.shift = old[s.row].shift
  BY <1>5 DEF Row
<1>7. /\ assigned' = [assigned EXCEPT ![v] = rows]
      /\ crossed' = [crossed EXCEPT ![v] = ~s.alone]
      /\ chosen' = [chosen EXCEPT ![v] = choice]
      /\ switch' = [switch EXCEPT ![m] = None]
  BY <1>2, <1>3, <1>4 DEF SetCurrent, Write
<1>8. given \in Shifts \cup {None}
  BY <1>5 DEF Row
<1> HIDE DEF row
<1>9. /\ rows \in Seq(Row) /\ Len(rows) = Len(old)
      /\ s.alone => Current(rows) = {s.row}
      /\ s.row \in DOMAIN rows /\ rows[s.row].over = old[s.row].over
      /\ rows[s.row].shift = old[s.row].shift
  <2>1. CASE s.wasCurrent
    BY <1>5, <2>1
  <2>2. CASE ~s.wasCurrent
    <3> DEFINE new == [old EXCEPT ![s.row] = row]
    <3>1. rows = new
      BY <2>2
    <3>2. /\ new \in Seq(Row) /\ Len(new) = Len(old) /\ new[s.row] = row
          /\ Current(new) = Current(old) \cup {s.row}
      BY <1>5, <1>6, ReplacedRow
    <3> HIDE DEF new, rows
    <3>3. s.row \in DOMAIN new
      BY <1>5, <3>2
    <3> QED
      BY <1>5, <1>6, <3>1, <3>2, <3>3
  <2> QED
    BY <2>1, <2>2
<1> HIDE DEF rows
<1>10. GoodUser(rows, ~s.alone, choice)
  <2>1. CASE s.alone
    <3>1. given # None => ~rows[s.row].over /\ rows[s.row].shift = given
      BY <1>9
    <3> HIDE DEF given
    <3>2. choice = given
      BY <2>1
    <3> HIDE DEF choice
    <3> QED
      BY <1>9, <2>1, <3>1, <3>2 DEF GoodUser
  <2>2. CASE ~s.alone
    BY <2>2 DEF GoodUser
  <2> QED
    BY <2>1, <2>2
<1> HIDE DEF given
<1>11. choice \in Shifts \cup {None}
  BY <1>8
<1> HIDE DEF choice
<1>12. (~s.alone) \in BOOLEAN /\ Len(assigned[v]) =< Len(rows) /\ switch[m] # None
  BY <1>1, <1>4, <1>9
<1>13. Leaves(v, rows, ~s.alone, choice)
  BY <1>7, <1>9, <1>10, <1>11, <1>12 DEF Leaves
<1>14. GoesOn(m, None, v, rows)
  BY <1>1, <1>2, <1>7 DEF GoesOn
<1> QED
  BY <1>13, <1>14, SwitchStep

\* Ending an assignment marks nothing.
LEMMA TerminateStep ==
  ASSUME ShiftsInv, NEW m \in Managers, Terminate(m)
  PROVE  ShiftsInv'
<1>1. /\ switch[m] # None /\ switch[m] \in Switch /\ switch[m].at = "loaded"
      /\ switch[m].user \in Users /\ switch[m].wasCurrent \in BOOLEAN
      /\ assigned[switch[m].user] \in Seq(Row)
      /\ GoodSwitch(switch[m], assigned[switch[m].user])
      /\ GoodUser(assigned[switch[m].user], crossed[switch[m].user],
                  chosen[switch[m].user])
  BY SwitchFields DEF Terminate
<1>2. PICK v \in Users : v = switch[m].user
  BY <1>1
<1>3. PICK s \in Switch : s = switch[m]
  BY <1>1
<1>4. PICK old \in Seq(Row) : old = assigned[v]
  BY <1>1, <1>2
<1>5. PICK cross \in BOOLEAN : cross = crossed[v]
  BY DEF ShiftsInv
<1> DEFINE row == [old[s.row] EXCEPT !.over = TRUE, !.current = old[s.row].current /\ ~s.wasCurrent]
<1> DEFINE rows == [old EXCEPT ![s.row] = row]
<1>6. s.row \in DOMAIN old /\ old[s.row] \in Row
  <2>1. s.row \in 0..Len(old) /\ s.row # 0
    BY <1>1, <1>2, <1>3, <1>4 DEF GoodSwitch
  <2> QED
    BY <2>1
<1>7. row \in Row /\ (row.current => old[s.row].current)
  <2>1. PICK r \in Row, b \in BOOLEAN :
          r = old[s.row] /\ (b <=> old[s.row].current /\ ~s.wasCurrent)
    BY <1>6
  <2>2. row = [r EXCEPT !.over = TRUE, !.current = b]
    BY <2>1
  <2>3. [r EXCEPT !.over = TRUE, !.current = b] \in Row
    BY DEF Row
  <2>4. [r EXCEPT !.over = TRUE, !.current = b].current = b
    BY DEF Row
  <2> HIDE DEF row
  <2>5. row \in Row /\ row.current = b
    BY <2>2, <2>3, <2>4
  <2> QED
    BY <2>1, <2>5
<1>8. /\ assigned' = [assigned EXCEPT ![v] = rows]
      /\ crossed' = [crossed EXCEPT ![v] = cross]
      /\ chosen' = [chosen EXCEPT ![v] = None]
  <2>1. assigned' = [assigned EXCEPT ![v] = rows]
    BY <1>2, <1>3, <1>4 DEF Terminate
  <2>2. crossed' = [crossed EXCEPT ![v] = cross]
    BY <1>5 DEF Terminate, ShiftsInv
  <2> QED
    BY <1>2, <2>1, <2>2 DEF Terminate
<1>9. switch' = [switch EXCEPT ![m] = None]
  BY DEF Terminate
<1> HIDE DEF row
<1>10. /\ rows \in Seq(Row) /\ Len(rows) = Len(old)
       /\ Current(rows) \subseteq Current(old)
  BY <1>6, <1>7, ReplacedRow
<1> HIDE DEF rows
<1>11. GoodUser(rows, cross, None)
  BY <1>1, <1>2, <1>4, <1>5, <1>10 DEF GoodUser
<1>12. Len(assigned[v]) =< Len(rows)
  BY <1>4, <1>10
<1>13. /\ switch[m] # None /\ switch' = [switch EXCEPT ![m] = None]
       /\ None \in Shifts \cup {None}
  BY <1>1, <1>9
<1>14. Leaves(v, rows, cross, None)
  BY <1>8, <1>10, <1>11, <1>12, <1>13 DEF Leaves
<1>15. GoesOn(m, None, v, rows)
  BY <1>2, <1>13 DEF GoesOn
<1> QED
  BY <1>14, <1>15, SwitchStep

\* A request that dies leaves no trace of its own.
LEMMA KillStep ==
  ASSUME ShiftsInv, NEW m \in Managers, switch' = [switch EXCEPT ![m] = None],
         UNCHANGED <<assigned, crossed, chosen>>
  PROVE  ShiftsInv'
<1>1. CASE switch[m] = None
  <2>1. switch' = switch
    BY <1>1 DEF ShiftsInv
  <2> QED
    <3>1. \A u \in Users : GoodUser(assigned'[u], crossed'[u], chosen'[u])
      BY DEF ShiftsInv
    <3>2. \A u \in Users : GoodUser(assigned[u], crossed[u], chosen[u])'
      BY <3>1 DEF GoodUser
    <3>3. \A n \in Managers : switch'[n] # None =>
            /\ GoodSwitch(switch'[n], assigned'[switch'[n].user])
            /\ switch'[n].alone => \A k \in Managers \ {n} :
                 switch'[k] = None \/ switch'[k].user # switch'[n].user
      BY <2>1 DEF ShiftsInv, NoOther
    <3>4. \A n \in Managers : switch'[n] # None =>
            /\ GoodSwitch(switch[n], assigned[switch[n].user])'
            /\ switch'[n].alone => NoOther(n, switch[n].user)'
      BY <3>3 DEF NoOther, GoodSwitch
    <3> QED
      BY <2>1, <3>2, <3>4 DEF ShiftsInv
<1>2. CASE switch[m] # None
  <2>1. switch[m].user \in Users
    BY <1>2 DEF ShiftsInv, Switch
  <2>2. PICK v \in Users : v = switch[m].user
    BY <2>1
  <2>3. Leaves(v, assigned[v], crossed[v], chosen[v])
    BY UnchangedUser
  <2>4. GoesOn(m, None, v, assigned[v])
    BY <1>2, <2>2 DEF GoesOn
  <2> QED
    BY <2>3, <2>4, SwitchStep
<1> QED
  BY <1>1, <1>2

\* The page takes all the marks away,
LEMMA DetachStep ==
  ASSUME ShiftsInv, NEW m \in Managers, NEW v \in Users, Detach(m, v)
  PROVE  ShiftsInv'
<1> DEFINE s == [user |-> v, at |-> "detached", row |-> 0,
                 wasCurrent |-> FALSE, alone |-> NoOther(m, v)]
<1>1. PICK old \in Seq(Row) : old = assigned[v]
  BY DEF ShiftsInv
<1>2. PICK r \in Switch : /\ r = s /\ r.user = v /\ r.at = "detached" /\ r.row = 0
                          /\ (r.alone => NoOther(m, v))
  <2>1. NoOther(m, v) \in BOOLEAN
    BY DEF NoOther
  <2>2. s \in Switch
    BY <2>1 DEF Switch
  <2> QED
    BY <2>2
<1>3. switch[m] = None /\ Take(m, v, r)
  BY <1>2 DEF Detach
<1> HIDE DEF s
<1>4. PICK alone \in BOOLEAN : alone = NoOther(m, v)
  BY DEF NoOther
<1> DEFINE rows == Unmarked(old, DOMAIN old)
<1>5. /\ assigned' = [assigned EXCEPT ![v] = rows]
      /\ crossed' = [crossed EXCEPT ![v] = ~alone]
      /\ chosen' = [chosen EXCEPT ![v] = IF alone THEN None ELSE None]
  BY <1>1, <1>4 DEF Detach, Write
<1>6. rows \in Seq(Row) /\ Len(rows) = Len(old) /\ Current(rows) = {}
  <2>1. Current(rows) = Current(old) \ DOMAIN old
    BY UnmarkedRows
  <2>2. rows \in Seq(Row) /\ Len(rows) = Len(old)
    BY UnmarkedRows
  <2> HIDE DEF rows
  <2> QED
    BY <2>1, <2>2 DEF Current
<1> HIDE DEF rows
<1>7. GoodSwitch(r, rows)
  BY <1>2, <1>6 DEF GoodSwitch
<1>8. GoodUser(rows, ~alone, None)
  BY <1>6 DEF GoodUser
<1>9. /\ (~alone) \in BOOLEAN /\ None \in Shifts \cup {None}
      /\ Len(assigned[v]) =< Len(rows) /\ chosen' = [chosen EXCEPT ![v] = None]
  BY <1>1, <1>5, <1>6
<1>10. Leaves(v, rows, ~alone, None)
  BY <1>5, <1>6, <1>8, <1>9 DEF Leaves
<1> QED
  BY <1>2, <1>3, <1>7, <1>10, TakeStep

\* looks for the standard shift among the rows,
LEMMA SeekStep ==
  ASSUME ShiftsInv, NEW m \in Managers, SeekStandard(m)
  PROVE  ShiftsInv'
<1>1. /\ switch[m] # None /\ switch[m] \in Switch /\ switch[m].at = "detached"
      /\ switch[m].user \in Users
      /\ GoodSwitch(switch[m], assigned[switch[m].user])
  BY SwitchFields DEF SeekStandard
<1>2. PICK v \in Users : v = switch[m].user
  BY <1>1
<1>3. PICK s \in Switch : s = switch[m]
  BY <1>1
<1>4. Leaves(v, assigned[v], crossed[v], chosen[v])
  BY UnchangedUser DEF SeekStandard
<1>5. PICK rows \in Seq(Row) : rows = assigned[v]
  BY DEF ShiftsInv
<1>6. PICK i \in 0..Len(rows) : i = First({j \in DOMAIN rows : rows[j].shift = Standard})
  BY FirstRow
<1> DEFINE t == [s EXCEPT !.at = "sought", !.row = i]
<1>7. switch' = [switch EXCEPT ![m] = t]
  BY <1>2, <1>3, <1>5, <1>6 DEF SeekStandard, ShiftsInv
<1>8. /\ t \in Switch /\ t.user = s.user /\ t.row = i /\ t.at = "sought"
      /\ (t.alone <=> s.alone)
  <2>1. t \in Switch
    <3>1. i \in Nat
      BY <1>6
    <3> QED
      BY <3>1 DEF Switch
  <2>2. t.user = s.user /\ t.row = i /\ t.at = "sought"
    BY DEF Switch
  <2>3. t.alone = s.alone
    BY DEF Switch
  <2> QED
    BY <2>1, <2>2, <2>3
<1> HIDE DEF t
<1>9. t \in Switch \cup {None} /\ t.user = v /\ (t.alone => switch[m].alone)
  BY <1>2, <1>3, <1>8
<1>10. GoodSwitch(t, rows)
  <2>1. s.alone => Current(rows) = {}
    BY <1>1, <1>2, <1>3, <1>5 DEF GoodSwitch
  <2> QED
    BY <1>8, <2>1 DEF GoodSwitch
<1>11. GoesOn(m, t, v, rows)
  BY <1>1, <1>2, <1>7, <1>8, <1>9, <1>10 DEF GoesOn
<1> QED
  BY <1>4, <1>5, <1>11, SwitchStep

\* and marks it, or gives it anew.
LEMMA AttachStep ==
  ASSUME ShiftsInv, NEW m \in Managers, AttachStandard(m)
  PROVE  ShiftsInv'
<1>1. /\ switch[m] # None /\ switch[m] \in Switch /\ switch[m].at = "sought"
      /\ switch[m].user \in Users /\ switch[m].row \in Nat
      /\ switch[m].alone \in BOOLEAN
      /\ assigned[switch[m].user] \in Seq(Row)
      /\ GoodSwitch(switch[m], assigned[switch[m].user])
  BY SwitchFields DEF AttachStandard
<1>2. PICK v \in Users : v = switch[m].user
  BY <1>1
<1>3. PICK s \in Switch : s = switch[m]
  BY <1>1
<1>4. PICK old \in Seq(Row) : old = assigned[v]
  BY <1>1, <1>2
<1> DEFINE row == [shift |-> Standard, over |-> FALSE, current |-> TRUE]
<1> DEFINE rows == IF s.row = 0 THEN Append(old, row) ELSE [old EXCEPT ![s.row] = row]
<1> DEFINE i == IF s.row = 0 THEN Len(old) + 1 ELSE s.row
<1>5. /\ s.row \in 0..Len(old) /\ (s.alone => Current(old) = {})
  BY <1>1, <1>2, <1>3, <1>4 DEF GoodSwitch
<1>6. row \in Row /\ row.current /\ ~row.over /\ row.shift = Standard
  BY ShiftsAssumption DEF Row
<1>7. /\ assigned' = [assigned EXCEPT ![v] = rows]
      /\ crossed' = [crossed EXCEPT ![v] = ~s.alone]
      /\ chosen' = [chosen EXCEPT ![v] = IF s.alone THEN Standard ELSE None]
      /\ switch' = [switch EXCEPT ![m] = None]
  BY <1>2, <1>3, <1>4 DEF AttachStandard, Write
<1> HIDE DEF row
<1>8. /\ rows \in Seq(Row) /\ Len(old) =< Len(rows) /\ i \in DOMAIN rows /\ rows[i] = row
      /\ Current(rows) = Current(old) \cup {i}
  <2>1. CASE s.row = 0
    <3> DEFINE new == Append(old, row)
    <3>1. /\ new \in Seq(Row) /\ Len(new) = Len(old) + 1 /\ new[Len(old) + 1] = row
          /\ Current(new) = Current(old) \cup {Len(old) + 1}
      BY <1>6, AddedRow
    <3>2. rows = new /\ i = Len(old) + 1
      BY <2>1
    <3> HIDE DEF new, rows, i
    <3> QED
      BY <3>1, <3>2
  <2>2. CASE s.row # 0
    <3> DEFINE new == [old EXCEPT ![s.row] = row]
    <3>1. s.row \in DOMAIN old
      BY <1>5, <2>2
    <3>2. /\ new \in Seq(Row) /\ Len(new) = Len(old) /\ new[s.row] = row
          /\ Current(new) = Current(old) \cup {s.row}
      BY <1>6, <3>1, ReplacedRow
    <3>3. rows = new /\ i = s.row
      BY <2>2
    <3> HIDE DEF new, rows, i
    <3> QED
      BY <3>1, <3>2, <3>3
  <2> QED
    BY <2>1, <2>2
<1> HIDE DEF rows, i
<1> DEFINE choice == IF s.alone THEN Standard ELSE None
<1>9. GoodUser(rows, ~s.alone, choice)
  <2>1. CASE s.alone
    BY <1>5, <1>6, <1>8, <2>1 DEF GoodUser
  <2>2. CASE ~s.alone
    BY <2>2 DEF GoodUser
  <2> QED
    BY <2>1, <2>2
<1>10. choice \in Shifts \cup {None}
  BY ShiftsAssumption
<1>11. chosen' = [chosen EXCEPT ![v] = choice]
  BY <1>7
<1> HIDE DEF choice
<1>12. (~s.alone) \in BOOLEAN /\ Len(assigned[v]) =< Len(rows)
  BY <1>4, <1>8
<1>13. switch[m] # None
  BY <1>1
<1>14. Leaves(v, rows, ~s.alone, choice)
  BY <1>7, <1>8, <1>9, <1>10, <1>11, <1>12 DEF Leaves
<1>15. GoesOn(m, None, v, rows)
  BY <1>2, <1>7, <1>13 DEF GoesOn
<1> QED
  BY <1>14, <1>15, SwitchStep

\* What requests do to the assignments.
ShiftMove(m) ==
  \/ \E v \in Users : Detach(m, v) \/ \E i \in DOMAIN assigned[v] : LoadAssignment(m, v, i)
  \/ ClearOthers(m) \/ SetCurrent(m) \/ Terminate(m)
  \/ SeekStandard(m) \/ AttachStandard(m)
  \/ switch' = [switch EXCEPT ![m] = None] /\ UNCHANGED <<assigned, crossed, chosen>>

LEMMA ShiftStep ==
  ASSUME ShiftsInv, UNCHANGED shiftVars \/ \E m \in Managers : ShiftMove(m)
  PROVE  ShiftsInv'
<1>1. ASSUME UNCHANGED shiftVars PROVE ShiftsInv'
  <2>1. \A u \in Users : GoodUser(assigned[u], crossed[u], chosen[u])'
    <3>1. \A u \in Users : GoodUser(assigned'[u], crossed'[u], chosen'[u])
      BY <1>1 DEF ShiftsInv, shiftVars
    <3> QED
      BY <3>1 DEF GoodUser
  <2>2. \A n \in Managers : switch'[n] # None =>
          /\ GoodSwitch(switch[n], assigned[switch[n].user])'
          /\ switch'[n].alone => NoOther(n, switch[n].user)'
    <3>1. \A n \in Managers : switch'[n] # None =>
            /\ GoodSwitch(switch'[n], assigned'[switch'[n].user])
            /\ switch'[n].alone => \A k \in Managers \ {n} :
                 switch'[k] = None \/ switch'[k].user # switch'[n].user
      BY <1>1 DEF ShiftsInv, shiftVars, NoOther
    <3> QED
      BY <3>1 DEF NoOther, GoodSwitch
  <2> QED
    BY <1>1, <2>1, <2>2 DEF ShiftsInv, shiftVars
<1>2. ASSUME NEW m \in Managers, ShiftMove(m) PROVE ShiftsInv'
  <2>1. ASSUME NEW v \in Users, Detach(m, v) PROVE ShiftsInv'
    BY <2>1, DetachStep
  <2>2. ASSUME NEW v \in Users, NEW i \in DOMAIN assigned[v], LoadAssignment(m, v, i)
        PROVE  ShiftsInv'
    BY <2>2, LoadStep
  <2>3. CASE ClearOthers(m)
    BY <2>3, ClearStep
  <2>4. CASE SetCurrent(m)
    BY <2>4, SetStep
  <2>5. CASE Terminate(m)
    BY <2>5, TerminateStep
  <2>6. CASE SeekStandard(m)
    BY <2>6, SeekStep
  <2>7. CASE AttachStandard(m)
    BY <2>7, AttachStep
  <2>8. CASE switch' = [switch EXCEPT ![m] = None] /\ UNCHANGED <<assigned, crossed, chosen>>
    BY <2>8, KillStep
  <2> QED
    BY <1>2, <2>1, <2>2, <2>3, <2>4, <2>5, <2>6, <2>7, <2>8 DEF ShiftMove
<1> QED
  BY <1>1, <1>2

LEMMA ShiftsStart == ShiftsInit => ShiftsInv
<1> SUFFICES ASSUME ShiftsInit PROVE ShiftsInv
  OBVIOUS
<1>1. \A u \in Users : assigned[u] \in Assignments /\ crossed[u] = FALSE /\ chosen[u] = None
  BY DEF ShiftsInit
<1>2. \A u \in Users : GoodUser(assigned[u], crossed[u], chosen[u])
  BY <1>1, ShiftsAssumption DEF GoodUser
<1>3. assigned \in [Users -> Seq(Row)]
  BY ShiftsAssumption DEF ShiftsInit
<1>4. \A m \in Managers : switch[m] = None
  BY DEF ShiftsInit
<1> QED
  BY <1>2, <1>3, <1>4 DEF ShiftsInv, ShiftsInit

LEMMA ShiftsMean == ShiftsInv => ShiftsTypeOK /\ OneCurrent /\ SwitchTakesEffect
<1> SUFFICES ASSUME ShiftsInv PROVE ShiftsTypeOK /\ OneCurrent /\ SwitchTakesEffect
  OBVIOUS
<1>1. ShiftsTypeOK
  BY DEF ShiftsInv, ShiftsTypeOK, GoodSwitch
<1>2. OneCurrent
  BY DEF ShiftsInv, OneCurrent, GoodUser
<1>3. ASSUME NEW u \in Users, chosen[u] # None PROVE ActiveShift(u) = chosen[u]
  <2> DEFINE S == {j \in Current(assigned[u]) : ~assigned[u][j].over}
  <2>1. PICK i \in DOMAIN assigned[u] :
          /\ Current(assigned[u]) = {i}
          /\ ~assigned[u][i].over /\ assigned[u][i].shift = chosen[u]
    BY <1>3 DEF ShiftsInv, GoodUser
  <2>2. S = {i} /\ S # {}
    BY <2>1
  <2>3. assigned[u] \in Seq(Row) /\ i \in Nat /\ i # 0
    <3>1. PICK rows \in Seq(Row) : rows = assigned[u]
      BY DEF ShiftsInv
    <3>2. i \in 1..Len(rows)
      BY <2>1, <3>1
    <3> QED
      BY <3>1, <3>2
  <2>4. S \in SUBSET DOMAIN assigned[u]
    BY <2>2
  <2> HIDE DEF S
  <2>5. First(S) = i
    BY <2>2, <2>3, <2>4, FirstRow
  <2> QED
    BY <2>1, <2>3, <2>5 DEF ActiveShift, S
<1> QED
  BY <1>1, <1>2, <1>3 DEF SwitchTakesEffect

-----------------------------------------------------------------------------
(* Both parts beside the page. *)

LEMMA PageMoves ==
  ASSUME NEW p \in Pages, PageStep(p)
  PROVE  /\ UNCHANGED ledgerVars \/ TruncateLedger \/ ZeroPoints
         /\ UNCHANGED shiftVars \/ ShiftMove(p)
<1>1. CASE \E job \in Jobs : OpenPage(p, job)
  BY <1>1 DEF OpenPage
<1>2. CASE Truncate(p)
  BY <1>2 DEF Truncate
<1>3. CASE Zero(p)
  BY <1>3 DEF Zero
<1>4. CASE ShiftsDone(p)
  BY <1>4 DEF ShiftsDone
<1>5. CASE KillPage(p)
  BY <1>5 DEF KillPage, ShiftMove
<1>6. ASSUME NEW u \in Employees, DetachNext(p, u)
      PROVE  UNCHANGED ledgerVars /\ ShiftMove(p)
  BY <1>6 DEF DetachNext, ShiftMove, Employees
<1>7. CASE (SeekStandard(p) \/ AttachStandard(p)) /\ UNCHANGED ledgerVars
  BY <1>7 DEF ShiftMove
<1> QED
  BY <1>1, <1>2, <1>3, <1>4, <1>5, <1>6, <1>7 DEF PageStep

LEMMA ManagerMoves ==
  ASSUME NEW m \in Managers, ManagerDoes(m)
  PROVE  UNCHANGED ledgerVars /\ ShiftMove(m)
<1>1. CASE \E u \in Users : \E i \in DOMAIN assigned[u] : LoadAssignment(m, u, i)
  BY <1>1 DEF ManagerDoes, ShiftMove
<1>2. CASE ClearOthers(m) \/ SetCurrent(m) \/ Terminate(m)
  BY <1>2 DEF ManagerDoes, ShiftMove
<1>3. CASE KillSwitch(m)
  BY <1>3 DEF ManagerDoes, ShiftMove, KillSwitch
<1> QED
  BY <1>1, <1>2, <1>3 DEF ManagerDoes

\* Every step does to the points what one of the ledger does, or nothing: the
\* invariants of the ledger are those of the whole.
LEMMA PointsMove == [Next]_vars => [PointsNext]_ledgerVars
<1> SUFFICES ASSUME [Next]_vars PROVE PointsNext \/ UNCHANGED ledgerVars
  OBVIOUS
<1>1. ASSUME NEW p \in Pages, PageStep(p) PROVE PointsNext \/ UNCHANGED ledgerVars
  BY <1>1, PageMoves DEF PointsNext
<1>2. ASSUME NEW c \in Clerks, ClerkDoes(c) PROVE PointsNext
  BY <1>2 DEF ClerkDoes, PointsNext
<1>3. ASSUME NEW m \in Managers \ Pages, ManagerDoes(m) PROVE UNCHANGED ledgerVars
  BY <1>3, ManagerMoves
<1>4. CASE UNCHANGED vars
  BY <1>4 DEF vars
<1> QED
  BY <1>1, <1>2, <1>3, <1>4 DEF Next

LEMMA ShiftsMove ==
  [Next]_vars => UNCHANGED shiftVars \/ \E m \in Managers : ShiftMove(m)
<1> SUFFICES ASSUME [Next]_vars
             PROVE  UNCHANGED shiftVars \/ \E m \in Managers : ShiftMove(m)
  OBVIOUS
<1>1. ASSUME NEW p \in Pages, PageStep(p)
      PROVE  UNCHANGED shiftVars \/ \E m \in Managers : ShiftMove(m)
  <2>1. p \in Managers
    BY DeploymentAssumption
  <2> QED
    BY <1>1, <2>1, PageMoves
<1>2. ASSUME NEW c \in Clerks, ClerkDoes(c) PROVE UNCHANGED shiftVars
  BY <1>2 DEF ClerkDoes
<1>3. ASSUME NEW m \in Managers \ Pages, ManagerDoes(m)
      PROVE  \E n \in Managers : ShiftMove(n)
  BY <1>3, ManagerMoves
<1>4. CASE UNCHANGED vars
  BY <1>4 DEF vars
<1> QED
  BY <1>1, <1>2, <1>3, <1>4 DEF Next

LEMMA PointsStart == PointsInit => WorthInv /\ ReplayInv
<1> SUFFICES ASSUME PointsInit PROVE WorthInv /\ ReplayInv
  OBVIOUS
<1>1. /\ \A u \in Users : /\ points[u] = 0 /\ opening[u] = 0 /\ worth[u] = 0
                          /\ ledger[u] = <<>>
      /\ \A c \in Clerks : work[c] = None
  BY DEF PointsInit
<1>2. PointsTypeOK
  BY DEF PointsInit, PointsTypeOK
<1>3. NoPointsFromNowhere /\ ReadInv
  BY <1>1 DEF NoPointsFromNowhere, ReadInv, At
<1>4. \A u \in Users : Unbooked(u) = {}
  BY <1>1 DEF Unbooked, Busy, At
<1>5. ASSUME NEW u \in Users PROVE Chained(u) /\ Settled(u)
  <2>1. ledger[u] = <<>> /\ Len(ledger[u]) = 0 /\ points[u] = opening[u]
    BY <1>1
  <2>2. Chained(u)
    BY <2>1 DEF Chained
  <2>3. Settled(u)
    BY <1>4, <2>1 DEF Settled, LastBalance
  <2> QED
    BY <2>2, <2>3
<1> QED
  BY <1>2, <1>3, <1>5 DEF WorthInv, ReplayInv

\* Lost updates, cut requests and resets never make points (UserBadge::award(),
\* the adjust_points action and DeploymentDataPage::resetAllRecords() at once).
THEOREM PointsComeFromSomewhere == Spec => []NoPointsFromNowhere
<1>1. Init => WorthInv
  BY PointsStart DEF Init
<1>2. WorthInv /\ [Next]_vars => WorthInv'
  BY PointsMove, WorthStep
<1>3. WorthInv => NoPointsFromNowhere
  BY DEF WorthInv
<1> QED
  BY <1>1, <1>2, <1>3, PTL DEF Spec

\* The rows of points_transactions replay to users.total_points until requests
\* of award() overlap or are cut short or points are adjusted, and again after
\* a reset that came between requests.
THEOREM LedgerCanBeReplayed == Spec => []LedgerReplays
<1>1. Init => PointsTypeOK /\ ReplayInv
  BY PointsStart DEF Init, WorthInv
<1>2. PointsTypeOK /\ ReplayInv /\ [Next]_vars => (PointsTypeOK /\ ReplayInv)'
  BY PointsMove, PointsTypeStep, ReplayStep
<1>3. PointsTypeOK /\ ReplayInv => LedgerReplays
  BY ReplayMeans
<1> QED
  BY <1>1, <1>2, <1>3, PTL DEF Spec

LEMMA ShiftsKept == Spec => []ShiftsInv
<1>1. Init => ShiftsInv
  BY ShiftsStart DEF Init
<1>2. ShiftsInv /\ [Next]_vars => ShiftsInv'
  BY ShiftsMove, ShiftStep
<1> QED
  BY <1>1, <1>2, PTL DEF Spec

\* makeCurrent(), terminate() and applyStandardShift(), cut short anywhere,
\* never leave two current assignments if no other request overlapped them.
THEOREM OneCurrentKept == Spec => []OneCurrent
<1>1. ShiftsInv => OneCurrent
  BY ShiftsMean
<1> QED
  BY <1>1, ShiftsKept, PTL

\* User::activeShift() is the shift the last switch gave, after a switch that
\* finished undisturbed.
THEOREM SwitchesTakeEffect == Spec => []SwitchTakesEffect
<1>1. ShiftsInv => SwitchTakesEffect
  BY ShiftsMean
<1> QED
  BY <1>1, ShiftsKept, PTL

-----------------------------------------------------------------------------
(* The page itself. *)

\* What the page has left to do.
Agenda == Jobs \cup {<<"zero">>, <<"zero", "shifts">>, <<>>}

PageInv ==
  /\ page \in [Pages -> Agenda]
  /\ left \in [Pages -> SUBSET Employees]
  /\ \A p \in Pages : left[p] # {} => page[p] = <<"shifts">>
  /\ requests \in 0..MaxRequests

\* The agenda a step leaves, and who is left to be given a shift with it.
LEMMA AgendaTail ==
  ASSUME NEW a \in Agenda, a # <<>>
  PROVE  /\ Tail(a) \in Agenda
         /\ Head(Tail(a) \o <<"end">>) = "shifts" => Tail(a) = <<"shifts">>
<1>1. CASE a = <<"truncate", "zero">>
  <2>1. Tail(a) = <<"zero">> /\ Head(Tail(a) \o <<"end">>) = "zero"
    BY <1>1
  <2> QED
    BY <2>1 DEF Agenda
<1>2. CASE a = <<"shifts">>
  <2>1. Tail(a) = <<>> /\ Head(Tail(a) \o <<"end">>) = "end"
    BY <1>2
  <2> QED
    BY <2>1 DEF Agenda
<1>3. CASE a = <<"truncate", "zero", "shifts">>
  <2>1. Tail(a) = <<"zero", "shifts">> /\ Head(Tail(a) \o <<"end">>) = "zero"
    BY <1>3
  <2> QED
    BY <2>1 DEF Agenda
<1>4. CASE a = <<"zero">>
  <2>1. Tail(a) = <<>> /\ Head(Tail(a) \o <<"end">>) = "end"
    BY <1>4
  <2> QED
    BY <2>1 DEF Agenda
<1>5. CASE a = <<"zero", "shifts">>
  <2>1. Tail(a) = <<"shifts">>
    BY <1>5
  <2> QED
    BY <2>1 DEF Agenda, Jobs
<1> QED
  BY <1>1, <1>2, <1>3, <1>4, <1>5 DEF Agenda, Jobs

LEMMA DoneStep ==
  ASSUME PageInv, NEW p \in Pages, page[p] # <<>>, Done(p)
  PROVE  PageInv'
<1>1. page[p] \in Agenda
  BY DEF PageInv
<1> DEFINE a == Tail(page[p])
<1>2. a \in Agenda /\ (Head(a \o <<"end">>) = "shifts" => a = <<"shifts">>)
  BY <1>1, AgendaTail
<1>3. page' = [page EXCEPT ![p] = a]
  BY DEF Done
<1>4. PICK rest \in SUBSET Employees :
        /\ left' = [left EXCEPT ![p] = rest]
        /\ rest # {} => Head(a \o <<"end">>) = "shifts"
  BY DEF Done
<1> HIDE DEF a
<1>5. rest # {} => a = <<"shifts">>
  BY <1>2, <1>4
<1> QED
  BY <1>2, <1>3, <1>4, <1>5 DEF PageInv, Done

LEMMA PageKept == PageInv /\ [Next]_vars => PageInv'
<1> SUFFICES ASSUME PageInv, [Next]_vars PROVE PageInv'
  OBVIOUS
<1>1. ASSUME NEW p \in Pages, PageStep(p) PROVE PageInv'
  <2>1. ASSUME NEW job \in Jobs, OpenPage(p, job) PROVE PageInv'
    <3>1. PICK rest \in SUBSET Employees :
            /\ left' = [left EXCEPT ![p] = rest]
            /\ rest # {} => Head(job) = "shifts"
      BY <2>1 DEF OpenPage
    <3>2. Head(job) = "shifts" => job = <<"shifts">>
      BY DEF Jobs
    <3>3. job \in Agenda
      BY DEF Agenda
    <3>4. requests' \in 0..MaxRequests
      BY <2>1, DeploymentAssumption DEF OpenPage, Request, PageInv
    <3>5. page' = [page EXCEPT ![p] = job]
      BY <2>1 DEF OpenPage
    <3> QED
      BY <3>1, <3>2, <3>3, <3>4, <3>5 DEF PageInv
  <2>2. CASE Truncate(p)
    BY <2>2, DoneStep DEF Truncate, Turn
  <2>3. CASE Zero(p)
    BY <2>3, DoneStep DEF Zero, Turn
  <2>4. CASE ShiftsDone(p)
    BY <2>4, DoneStep DEF ShiftsDone, Turn
  <2>5. CASE KillPage(p)
    BY <2>5 DEF KillPage, PageInv, Agenda
  <2>6. ASSUME NEW u \in Employees, DetachNext(p, u) PROVE PageInv'
    <3>1. left' = [left EXCEPT ![p] = left[p] \ {u}] /\ left[p] # {}
      BY <2>6 DEF DetachNext
    <3> QED
      BY <2>6, <3>1 DEF DetachNext, PageInv
  <2>7. CASE UNCHANGED <<page, left, requests>>
    BY <2>7 DEF PageInv
  <2> QED
    BY <1>1, <2>1, <2>2, <2>3, <2>4, <2>5, <2>6, <2>7 DEF PageStep
<1>2. ASSUME UNCHANGED <<page, left>>, Request \/ UNCHANGED requests PROVE PageInv'
  BY <1>2, DeploymentAssumption DEF PageInv, Request
<1>3. ASSUME NEW c \in Clerks, ClerkDoes(c) PROVE PageInv'
  BY <1>2, <1>3 DEF ClerkDoes
<1>4. ASSUME NEW m \in Managers \ Pages, ManagerDoes(m) PROVE PageInv'
  BY <1>2, <1>4 DEF ManagerDoes
<1>5. CASE UNCHANGED vars
  BY <1>2, <1>5 DEF vars
<1> QED
  BY <1>1, <1>3, <1>4, <1>5 DEF Next

\* Every variable of the deployment page, the ledger and the assignments keeps
\* its type: points never go below zero, a request's row is one the user has,
\* and nobody is left over once the page has come to the end of its steps.
THEOREM DeploymentTyped == Spec => []TypeOK
<1>1. Init => PointsTypeOK /\ PageInv
  <2>1. PointsInit => PointsTypeOK
    BY PointsStart DEF WorthInv
  <2>2. Init => PageInv
    BY DeploymentAssumption DEF Init, PageInv, Agenda
  <2> QED
    BY <2>1, <2>2 DEF Init
<1>2. PointsTypeOK /\ PageInv /\ [Next]_vars => (PointsTypeOK /\ PageInv)'
  BY PointsMove, PointsTypeStep, PageKept
<1>3. PointsTypeOK /\ PageInv /\ ShiftsInv => TypeOK
  BY ShiftsMean DEF TypeOK, PageInv, Agenda
<1> QED
  BY <1>1, <1>2, <1>3, ShiftsKept, PTL DEF Spec
=============================================================================
