-------------------------- MODULE PermissionsProofs --------------------------
(***************************************************************************)
(* What the user_permissions table means to a check, whatever              *)
(* administrators do to it, one row at a time or in bulk.                  *)
(***************************************************************************)
EXTENDS Permissions, TLAPS

\* A bulk grant goes over each permission once, and over none once it failed.
WorkInv ==
  \A a \in Admins :
    /\ granted[a] \cap todo[a] = {}
    /\ broken[a] => todo[a] = {}

\* Its answer about a row is still right, unless someone else has written it.
LookInv ==
  \A a \in Admins : checked[a] # None =>
    \/ checked[a].slug \in disturbed[a]
    \/ checked[a].exists <=> rows[checked[a].slug] # None

\* What it granted is a grant, unless someone else has written it.
GrantInv ==
  \A a \in Admins : \A p \in granted[a] \ disturbed[a] :
    rows[p] # None /\ rows[p].type = "grant"

BulkInv == TypeOK /\ WorkInv /\ LookInv /\ GrantInv /\ BulkGrantFinishes

-----------------------------------------------------------------------------
(* Type correctness. *)

\* Writing a row of the table keeps it one.
LEMMA RowsType == ASSUME rows \in [Slugs -> Row \cup {None}], NEW p \in Slugs,
                         NEW row \in Row \cup {None}
                  PROVE  [rows EXCEPT ![p] = row] \in [Slugs -> Row \cup {None}]
  OBVIOUS

\* Noting a write keeps the note.
LEMMA DisturbType == ASSUME disturbed \in [Admins -> SUBSET Slugs],
                            NEW S \in SUBSET Slugs, NEW a, Disturb(S, a)
                     PROVE  disturbed' \in [Admins -> SUBSET Slugs]
  BY DEF Disturb

\* An administrator's change is counted.
LEMMA ChangeType == ASSUME changes \in 0..MaxChanges, Change
                    PROVE  changes' \in 0..MaxChanges
  BY PermissionsAssumption DEF Change

\* Every step keeps the types.
LEMMA TypeStep == TypeOK /\ [Next]_vars => TypeOK'
<1> SUFFICES ASSUME TypeOK, [Next]_vars PROVE TypeOK'
  OBVIOUS
<1>1. ASSUME NEW p \in Slugs, NEW row \in Row, AddRow(p, row) PROVE TypeOK'
  <2>1. rows' \in [Slugs -> Row \cup {None}]
    BY <1>1, RowsType DEF AddRow, TypeOK
  <2>2. disturbed' \in [Admins -> SUBSET Slugs] /\ changes' \in 0..MaxChanges
    BY <1>1, DisturbType, ChangeType DEF AddRow, TypeOK
  <2> QED
    BY <1>1, <2>1, <2>2 DEF AddRow, TypeOK
<1>2. ASSUME NEW p \in Slugs, NEW q \in Slugs, NEW row \in Row, EditRow(p, q, row)
      PROVE  TypeOK'
  <2>1. rows' \in [Slugs -> Row \cup {None}]
    BY <1>2 DEF EditRow, TypeOK
  <2>2. disturbed' \in [Admins -> SUBSET Slugs] /\ changes' \in 0..MaxChanges
    BY <1>2, DisturbType, ChangeType DEF EditRow, TypeOK
  <2> QED
    BY <1>2, <2>1, <2>2 DEF EditRow, TypeOK
<1>3. ASSUME NEW p \in Slugs, DeleteRow(p) PROVE TypeOK'
  <2>1. rows' \in [Slugs -> Row \cup {None}]
    BY <1>3, RowsType DEF DeleteRow, TypeOK
  <2>2. disturbed' \in [Admins -> SUBSET Slugs] /\ changes' \in 0..MaxChanges
    BY <1>3, DisturbType, ChangeType DEF DeleteRow, TypeOK
  <2> QED
    BY <1>3, <2>1, <2>2 DEF DeleteRow, TypeOK
<1>4. ASSUME ChangeLevel PROVE TypeOK'
  BY <1>4, ChangeType DEF ChangeLevel, TypeOK, bulk
<1>5. ASSUME NEW a \in Admins, NEW S \in SUBSET Slugs, BulkGrant(a, S) PROVE TypeOK'
  <2>1. changes' \in 0..MaxChanges
    BY <1>5, ChangeType DEF BulkGrant, TypeOK
  <2>2. \A b \in Admins : checked'[b] # None => checked'[b].slug \in todo'[b]
    BY <1>5 DEF BulkGrant, TypeOK
  <2> QED
    BY <1>5, <2>1, <2>2 DEF BulkGrant, TypeOK
<1>6. ASSUME NEW a \in Admins, NEW p \in Slugs, Look(a, p) PROVE TypeOK'
  <2> DEFINE answer == [slug |-> p, exists |-> rows[p] # None]
  <2>1. answer \in Check /\ answer.slug = p
    BY DEF Check
  <2>2. checked' = [checked EXCEPT ![a] = answer] /\ p \in todo[a]
    BY <1>6 DEF Look
  <2> HIDE DEF answer
  <2>3. checked' \in [Admins -> Check \cup {None}]
    BY <2>1, <2>2 DEF TypeOK
  <2>4. \A b \in Admins : checked'[b] # None => checked'[b].slug \in todo[b]
    BY <2>1, <2>2 DEF TypeOK
  <2> QED
    BY <1>6, <2>3, <2>4 DEF Look, TypeOK
<1>7. ASSUME NEW a \in Admins, NEW p \in Slugs, Advance(a, p),
             rows' \in [Slugs -> Row \cup {None}],
             disturbed' \in [Admins -> SUBSET Slugs]
      PROVE  TypeOK'
  BY <1>7 DEF Advance, TypeOK
<1>8. ASSUME NEW a \in Admins, NEW p \in Slugs, Create(a, p) PROVE TypeOK'
  <2>1. [type |-> "grant", until |-> None] \in Row
    BY DEF Row
  <2>2. rows' \in [Slugs -> Row \cup {None}]
    BY <1>8, <2>1, RowsType DEF Create, TypeOK
  <2>3. disturbed' \in [Admins -> SUBSET Slugs]
    BY <1>8, DisturbType DEF Create, TypeOK
  <2> QED
    BY <1>7, <1>8, <2>2, <2>3 DEF Create
<1>9. ASSUME NEW a \in Admins, NEW p \in Slugs, Conflict(a, p) PROVE TypeOK'
  BY <1>9 DEF Conflict, TypeOK
<1>10. ASSUME NEW a \in Admins, NEW p \in Slugs, Update(a, p) PROVE TypeOK'
  <2>1. rows' \in [Slugs -> Row \cup {None}]
    <3>1. CASE rows[p] # None /\ rows[p].type = "revoke"
      <4>1. [rows[p] EXCEPT !.type = "grant"] \in Row
        BY <3>1 DEF TypeOK, Row
      <4>2. rows' = [rows EXCEPT ![p] = [rows[p] EXCEPT !.type = "grant"]]
        BY <1>10, <3>1 DEF Update
      <4> QED
        BY <4>1, <4>2, RowsType DEF TypeOK
    <3>2. CASE ~(rows[p] # None /\ rows[p].type = "revoke")
      BY <1>10, <3>2 DEF Update, TypeOK
    <3> QED
      BY <3>1, <3>2
  <2>2. disturbed' \in [Admins -> SUBSET Slugs]
    BY <1>10, DisturbType DEF Update, TypeOK
  <2> QED
    BY <1>7, <1>10, <2>1, <2>2 DEF Update
<1>11. ASSUME Tick PROVE TypeOK'
  BY <1>11, PermissionsAssumption DEF Tick, TypeOK, Times, bulk
<1>12. ASSUME UNCHANGED vars PROVE TypeOK'
  BY <1>12 DEF vars, bulk, TypeOK
<1> QED
  BY <1>1, <1>2, <1>3, <1>4, <1>5, <1>6, <1>8, <1>9, <1>10, <1>11, <1>12 DEF Next

\* Every reachable state is well typed.
THEOREM PermissionsTyped == Spec => []TypeOK
<1>1. ASSUME Init PROVE TypeOK
  <2>1. now \in Times /\ changes \in 0..MaxChanges
    BY <1>1, PermissionsAssumption DEF Init, Times
  <2>2. bypass \in BOOLEAN /\ broken \in [Admins -> BOOLEAN]
    BY <1>1 DEF Init
  <2>3. /\ rows \in [Slugs -> Row \cup {None}]
        /\ checked \in [Admins -> Check \cup {None}]
        /\ \A a \in Admins : checked[a] # None => checked[a].slug \in todo[a]
    BY <1>1 DEF Init
  <2>4. /\ todo \in [Admins -> SUBSET Slugs]
        /\ granted \in [Admins -> SUBSET Slugs]
        /\ disturbed \in [Admins -> SUBSET Slugs]
    BY <1>1 DEF Init
  <2> QED
    BY <2>1, <2>2, <2>3, <2>4 DEF TypeOK
<1> QED
  BY <1>1, TypeStep, PTL DEF Spec

-----------------------------------------------------------------------------
(* The two readings. *)

\* What hasPermission() and getEffectivePermissions() make of the rows is the
\* same, for whatever rows there are: a page never lists a permission that the
\* checks refuse, nor hides one they allow.
THEOREM ReadingsAlwaysAgree == Spec => []ReadingsAgree
<1>1. ReadingsAgree
  <2>1. Granted \subseteq Slugs
    BY DEF Granted
  <2> QED
    BY <2>1 DEF ReadingsAgree, HasPermission, EffectivePermissions
<1> QED
  BY <1>1, PTL

\* A step that writes rows leaves the clock and the user's level alone.
LEMMA WriterStep == [Next]_vars /\ rows' # rows => UNCHANGED <<bypass, now>>
<1> SUFFICES ASSUME [Next]_vars, rows' # rows PROVE UNCHANGED <<bypass, now>>
  OBVIOUS
<1>1. ASSUME NEW p, NEW row, AddRow(p, row) PROVE UNCHANGED <<bypass, now>>
  BY <1>1 DEF AddRow
<1>2. ASSUME NEW p, NEW q, NEW row, EditRow(p, q, row) PROVE UNCHANGED <<bypass, now>>
  BY <1>2 DEF EditRow
<1>3. ASSUME NEW p, DeleteRow(p) PROVE UNCHANGED <<bypass, now>>
  BY <1>3 DEF DeleteRow
<1>4. ASSUME NEW a, NEW p, \/ Look(a, p) \/ Create(a, p) \/ Conflict(a, p) \/ Update(a, p)
      PROVE  UNCHANGED <<bypass, now>>
  BY <1>4 DEF Look, Create, Conflict, Update, Advance
<1>5. ~ChangeLevel /\ ~Tick /\ ~UNCHANGED vars /\ \A a, S : ~BulkGrant(a, S)
  BY DEF ChangeLevel, Tick, vars, BulkGrant
<1> QED
  BY <1>1, <1>2, <1>3, <1>4, <1>5 DEF Next

\* Revoking by rows, whatever the other rows are, takes and never gives.
THEOREM RevokingTakes == Spec => RevokingOnlyTakes
<1>1. ASSUME TypeOK, [Next]_vars, rows' # rows,
             \A p \in Slugs : rows'[p] # rows[p] => p \in Revoked'
      PROVE  EffectivePermissions' \subseteq EffectivePermissions
  <2>1. bypass' = bypass /\ now' = now
    BY <1>1, WriterStep
  <2>2. ASSUME NEW p \in Granted' PROVE p \in Granted
    <3>1. p \in Slugs /\ p \notin Revoked'
      BY <2>2 DEF Granted, Revoked
    <3>2. rows'[p] = rows[p]
      BY <1>1, <3>1
    <3> QED
      BY <2>1, <2>2, <3>2 DEF Granted, InForce
  <2>3. ASSUME NEW p \in Revoked PROVE p \in Revoked'
    <3>1. CASE rows'[p] = rows[p]
      BY <2>1, <2>3, <3>1 DEF Revoked, InForce
    <3>2. CASE rows'[p] # rows[p]
      BY <1>1, <2>3, <3>2 DEF Revoked
    <3> QED
      BY <3>1, <3>2
  <2> QED
    BY <2>1, <2>2, <2>3 DEF EffectivePermissions
<1>2. TypeOK /\ [Next]_vars =>
        (/\ rows' # rows
         /\ \A p \in Slugs : rows'[p] # rows[p] => p \in Revoked'
         => EffectivePermissions' \subseteq EffectivePermissions)
  BY <1>1
<1> QED
  BY <1>2, PermissionsTyped, PTL DEF Spec, RevokingOnlyTakes

-----------------------------------------------------------------------------
(* Bulk grants. *)

\* Someone else's write is noted by a bulk grant.
LEMMA Disturbed ==
  ASSUME disturbed \in [Admins -> SUBSET Slugs], NEW S, NEW a, Disturb(S, a)
  PROVE  /\ \A b \in Admins : b # a => disturbed'[b] = disturbed[b] \cup S
         /\ \A b \in Admins : b = a => disturbed'[b] = disturbed[b]
  BY DEF Disturb

\* Writes to the rows S by an administrator who is not granting in bulk.
LEMMA OutsideWrite ==
  ASSUME BulkInv, NEW S \in SUBSET Slugs, Disturb(S, Nobody),
         \A p \in Slugs \ S : rows'[p] = rows[p],
         UNCHANGED <<todo, checked, granted, broken>>
  PROVE  WorkInv' /\ LookInv' /\ GrantInv' /\ BulkGrantFinishes'
<1>1. \A b \in Admins : disturbed'[b] = disturbed[b] \cup S
  BY Disturbed, PermissionsAssumption DEF BulkInv, TypeOK, Nobody
<1>2. WorkInv'
  BY DEF BulkInv, WorkInv
<1>3. LookInv'
  <2>1. \A b \in Admins : checked[b] # None => checked[b].slug \in Slugs
    BY DEF BulkInv, TypeOK, Check
  <2> QED
    BY <1>1, <2>1 DEF BulkInv, LookInv
<1>4. GrantInv'
  <2>1. \A b \in Admins : granted[b] \subseteq Slugs
    BY DEF BulkInv, TypeOK
  <2> QED
    BY <1>1, <2>1 DEF BulkInv, GrantInv
<1>5. BulkGrantFinishes'
  BY <1>1 DEF BulkInv, BulkGrantFinishes
<1> QED
  BY <1>2, <1>3, <1>4, <1>5

\* Bulk grant a has written row p, or found it as it should be.
LEMMA BulkWrite ==
  ASSUME BulkInv, NEW a \in Admins, NEW p \in Slugs, Advance(a, p),
         NEW S \in SUBSET {p}, Disturb(S, a),
         rows' \in [Slugs -> Row \cup {None}],
         \A q \in Slugs \ S : rows'[q] = rows[q],
         p \notin disturbed[a] => rows'[p] # None /\ rows'[p].type = "grant",
         S # {} => rows'[p] # None /\ rows'[p].type = "grant",
         broken[a] = FALSE
  PROVE  WorkInv' /\ LookInv' /\ GrantInv' /\ BulkGrantFinishes'
<1>1. /\ \A b \in Admins : b # a => disturbed'[b] = disturbed[b] \cup S
      /\ disturbed'[a] = disturbed[a]
  BY Disturbed DEF BulkInv, TypeOK
<1>2. /\ todo'[a] = todo[a] \ {p} /\ granted'[a] = granted[a] \cup {p} /\ checked'[a] = None
      /\ \A b \in Admins : b # a => /\ todo'[b] = todo[b] /\ granted'[b] = granted[b]
                                    /\ checked'[b] = checked[b]
      /\ broken' = broken
  BY DEF Advance, BulkInv, TypeOK
<1>3. WorkInv'
  <2>1. ASSUME NEW b \in Admins
        PROVE  granted'[b] \cap todo'[b] = {} /\ (broken[b] => todo'[b] = {})
    <3>1. granted[b] \cap todo[b] = {} /\ (broken[b] => todo[b] = {})
      BY DEF BulkInv, WorkInv
    <3> QED
      BY <1>2, <3>1
  <2> QED
    BY <1>2, <2>1 DEF WorkInv
<1>4. LookInv'
  <2>1. \A b \in Admins : checked[b] # None => checked[b].slug \in Slugs
    BY DEF BulkInv, TypeOK, Check
  <2>2. ASSUME NEW b \in Admins, checked'[b] # None
        PROVE  \/ checked'[b].slug \in disturbed'[b]
               \/ checked'[b].exists <=> rows'[checked'[b].slug] # None
    <3>1. b # a /\ checked'[b] = checked[b] /\ disturbed'[b] = disturbed[b] \cup S
      BY <1>1, <1>2, <2>2
    <3> QED
      BY <2>1, <2>2, <3>1 DEF BulkInv, LookInv
  <2> QED
    BY <2>2 DEF LookInv
<1>5. GrantInv'
  <2>1. ASSUME NEW b \in Admins, NEW q \in granted'[b] \ disturbed'[b]
        PROVE  rows'[q] # None /\ rows'[q].type = "grant"
    <3>1. CASE b = a /\ q = p
      BY <1>1, <2>1, <3>1
    <3>2. CASE ~(b = a /\ q = p)
      <4>1. q \in granted[b] \ disturbed[b] /\ q \in Slugs
        BY <1>1, <1>2, <2>1, <3>2 DEF BulkInv, TypeOK
      <4>2. rows[q] # None /\ rows[q].type = "grant"
        BY <4>1 DEF BulkInv, GrantInv
      <4>3. CASE q \in S
        BY <4>3
      <4>4. CASE q \notin S
        BY <4>1, <4>2, <4>4
      <4> QED
        BY <4>3, <4>4
    <3> QED
      BY <3>1, <3>2
  <2> QED
    BY <2>1 DEF GrantInv
<1>6. BulkGrantFinishes'
  <2>1. ASSUME NEW b \in Admins, broken[b] PROVE disturbed'[b] \ granted'[b] # {}
    <3>1. b # a /\ disturbed[b] \ granted[b] # {}
      BY <2>1 DEF BulkInv, BulkGrantFinishes
    <3> QED
      BY <1>1, <1>2, <3>1
  <2> QED
    BY <1>2, <2>1 DEF BulkGrantFinishes
<1> QED
  BY <1>3, <1>4, <1>5, <1>6

\* Every step keeps what bulk grants rely on.
LEMMA BulkStep == BulkInv /\ [Next]_vars => BulkInv'
<1> SUFFICES ASSUME BulkInv, [Next]_vars
             PROVE  WorkInv' /\ LookInv' /\ GrantInv' /\ BulkGrantFinishes'
  BY TypeStep DEF BulkInv
<1> DEFINE Goal == WorkInv' /\ LookInv' /\ GrantInv' /\ BulkGrantFinishes'
<1>0. rows' \in [Slugs -> Row \cup {None}]
  BY TypeStep DEF BulkInv, TypeOK
<1>1. ASSUME NEW p \in Slugs, NEW row \in Row, AddRow(p, row) PROVE Goal
  <2>1. \A q \in Slugs \ {p} : rows'[q] = rows[q]
    BY <1>1 DEF AddRow, BulkInv, TypeOK
  <2> QED
    BY <1>1, <2>1, OutsideWrite DEF AddRow
<1>2. ASSUME NEW p \in Slugs, NEW q \in Slugs, NEW row \in Row, EditRow(p, q, row)
      PROVE  Goal
  <2>1. \A r \in Slugs \ {p, q} : rows'[r] = rows[r]
    BY <1>2 DEF EditRow, BulkInv, TypeOK
  <2> QED
    BY <1>2, <2>1, OutsideWrite DEF EditRow
<1>3. ASSUME NEW p \in Slugs, DeleteRow(p) PROVE Goal
  <2>1. \A q \in Slugs \ {p} : rows'[q] = rows[q]
    BY <1>3 DEF DeleteRow, BulkInv, TypeOK
  <2> QED
    BY <1>3, <2>1, OutsideWrite DEF DeleteRow
<1>4. ASSUME UNCHANGED <<rows, bulk>> PROVE Goal
  BY <1>4 DEF bulk, BulkInv, WorkInv, LookInv, GrantInv, BulkGrantFinishes
<1>5. ASSUME NEW a \in Admins, NEW S \in SUBSET Slugs, BulkGrant(a, S) PROVE Goal
  <2>1. checked[a] = None /\ todo[a] = {}
    BY <1>5 DEF BulkGrant, BulkInv, TypeOK
  <2>2. /\ granted'[a] = {} /\ broken'[a] = FALSE
        /\ \A b \in Admins : b # a => /\ todo'[b] = todo[b] /\ granted'[b] = granted[b]
                                      /\ broken'[b] = broken[b]
                                      /\ disturbed'[b] = disturbed[b]
        /\ rows' = rows /\ checked' = checked
    BY <1>5 DEF BulkGrant, BulkInv, TypeOK
  <2>3. WorkInv'
    BY <2>2 DEF BulkInv, WorkInv
  <2>4. LookInv'
    BY <2>1, <2>2 DEF BulkInv, LookInv
  <2>5. GrantInv'
    BY <2>2 DEF BulkInv, GrantInv
  <2>6. BulkGrantFinishes'
    BY <2>2 DEF BulkInv, BulkGrantFinishes
  <2> QED
    BY <2>3, <2>4, <2>5, <2>6
<1>6. ASSUME NEW a \in Admins, NEW p \in Slugs, Look(a, p) PROVE Goal
  <2> DEFINE answer == [slug |-> p, exists |-> rows[p] # None]
  <2>1. answer.slug = p /\ (answer.exists <=> rows[p] # None)
    OBVIOUS
  <2>2. checked' = [checked EXCEPT ![a] = answer]
    BY <1>6 DEF Look
  <2>3. UNCHANGED <<rows, todo, granted, broken, disturbed>>
    BY <1>6 DEF Look
  <2> HIDE DEF answer
  <2>4. LookInv'
    BY <2>1, <2>2, <2>3 DEF BulkInv, TypeOK, LookInv
  <2> QED
    BY <2>3, <2>4 DEF BulkInv, WorkInv, GrantInv, BulkGrantFinishes
<1>7. ASSUME NEW a \in Admins, NEW p \in Slugs, checked[a] # None, checked[a].slug = p
      PROVE  /\ p \in todo[a] /\ p \notin granted[a] /\ broken[a] = FALSE
             /\ p \in disturbed[a] \/ (checked[a].exists <=> rows[p] # None)
  BY <1>7 DEF BulkInv, TypeOK, WorkInv, LookInv
<1>8. ASSUME NEW a \in Admins, NEW p \in Slugs, NEW exists \in BOOLEAN,
             checked[a] = [slug |-> p, exists |-> exists]
      PROVE  checked[a] # None /\ checked[a].slug = p /\ checked[a].exists = exists
  BY <1>8, PermissionsAssumption DEF Check
<1>9. ASSUME NEW a \in Admins, NEW p \in Slugs, Create(a, p) PROVE Goal
  <2>1. broken[a] = FALSE
    BY <1>7, <1>8, <1>9 DEF Create
  <2>2. rows'[p] # None /\ rows'[p].type = "grant"
    <3>1. [type |-> "grant", until |-> None] \in Row
      BY DEF Row
    <3> QED
      BY <1>9, <3>1, PermissionsAssumption DEF Create, BulkInv, TypeOK
  <2>3. \A q \in Slugs \ {p} : rows'[q] = rows[q]
    BY <1>9 DEF Create, BulkInv, TypeOK
  <2> QED
    BY <1>0, <1>9, <2>1, <2>2, <2>3, BulkWrite DEF Create
<1>10. ASSUME NEW a \in Admins, NEW p \in Slugs, Conflict(a, p) PROVE Goal
  <2>1. p \in disturbed[a] /\ p \notin granted[a]
    BY <1>7, <1>8, <1>10 DEF Conflict
  <2>2. /\ todo'[a] = {} /\ checked'[a] = None
        /\ \A b \in Admins : b # a => /\ todo'[b] = todo[b] /\ checked'[b] = checked[b]
                                      /\ broken'[b] = broken[b]
        /\ UNCHANGED <<rows, granted, disturbed>>
    BY <1>10 DEF Conflict, BulkInv, TypeOK
  <2>3. WorkInv'
    BY <2>2 DEF BulkInv, WorkInv
  <2>4. LookInv'
    BY <2>2 DEF BulkInv, LookInv
  <2>5. BulkGrantFinishes'
    BY <2>1, <2>2 DEF BulkInv, BulkGrantFinishes
  <2> QED
    BY <2>2, <2>3, <2>4, <2>5 DEF BulkInv, GrantInv
<1>11. ASSUME NEW a \in Admins, NEW p \in Slugs, Update(a, p) PROVE Goal
  <2>1. broken[a] = FALSE /\ (p \in disturbed[a] \/ rows[p] # None)
    <3>1. checked[a] # None /\ checked[a].slug = p /\ checked[a].exists = TRUE
      BY <1>8, <1>11 DEF Update
    <3> QED
      BY <1>7, <3>1
  <2>2. CASE rows[p] # None /\ rows[p].type = "revoke"
    <3> DEFINE new == [rows[p] EXCEPT !.type = "grant"]
    <3>1. rows[p] \in Row
      BY <2>2 DEF BulkInv, TypeOK
    <3>2. new \in Row /\ new.type = "grant"
      BY <3>1 DEF Row
    <3>3. rows' = [rows EXCEPT ![p] = new]
      BY <1>11, <2>2 DEF Update
    <3> HIDE DEF new
    <3>4. /\ rows'[p] # None /\ rows'[p].type = "grant" /\ rows' # rows
          /\ \A q \in Slugs \ {p} : rows'[q] = rows[q]
      BY <2>2, <3>2, <3>3, PermissionsAssumption DEF BulkInv, TypeOK
    <3>5. Disturb({p}, a)
      BY <1>11, <3>4 DEF Update
    <3> QED
      BY <1>0, <1>11, <2>1, <3>4, <3>5, BulkWrite DEF Update
  <2>3. CASE ~(rows[p] # None /\ rows[p].type = "revoke")
    <3>1. rows' = rows
      BY <1>11, <2>3 DEF Update
    <3>2. Disturb({}, a)
      BY <1>11, <3>1 DEF Update
    <3>3. p \notin disturbed[a] => rows'[p] # None /\ rows'[p].type = "grant"
      <4>1. rows[p] # None => rows[p].type \in {"grant", "revoke"}
        BY DEF BulkInv, TypeOK, Row
      <4> QED
        BY <2>1, <2>3, <3>1, <4>1
    <3> QED
      BY <1>0, <1>11, <2>1, <3>1, <3>2, <3>3, BulkWrite DEF Update
  <2> QED
    BY <2>2, <2>3
<1>12. ASSUME \/ ChangeLevel \/ Tick \/ UNCHANGED vars PROVE UNCHANGED <<rows, bulk>>
  BY <1>12 DEF ChangeLevel, Tick, vars, bulk
<1> QED
  BY <1>1, <1>2, <1>3, <1>4, <1>5, <1>6, <1>9, <1>10, <1>11, <1>12 DEF Next

\* The invariant holds in every reachable state.
LEMMA BulkInvariant == Spec => []BulkInv
<1>1. ASSUME Init PROVE WorkInv /\ LookInv /\ GrantInv /\ BulkGrantFinishes
  BY <1>1 DEF Init, WorkInv, LookInv, GrantInv, BulkGrantFinishes
<1> QED
  BY <1>1, BulkStep, PermissionsTyped, PTL DEF Spec, BulkInv

\* What a bulk grant went over is granted, whoever else grants, revokes and
\* edits at the same time, until someone else writes that very row.
THEOREM BulkGrantsHold == Spec => []BulkGrantHolds
<1>1. BulkInv => BulkGrantHolds
  <2> SUFFICES ASSUME BulkInv, NEW a \in Admins, NEW p \in granted[a] \ disturbed[a]
               PROVE  /\ rows[p] # None /\ rows[p].type = "grant"
                      /\ rows[p].until = None => HasPermission(p)
    BY DEF BulkGrantHolds
  <2>1. rows[p] # None /\ rows[p].type = "grant" /\ p \in Slugs
    BY DEF BulkInv, GrantInv, TypeOK
  <2> QED
    BY <2>1 DEF HasPermission, Granted, Revoked, InForce
<1> QED
  BY <1>1, BulkInvariant, PTL

\* A bulk grant that ends in an error was disturbed at a row it had not
\* granted yet: two of them over disjoint rows never fail each other.
THEOREM BulkGrantsFinish == Spec => []BulkGrantFinishes
  BY BulkInvariant, PTL DEF BulkInv

-----------------------------------------------------------------------------
(* Implication. *)

\* The table is spelled out: what an implied permission implies is listed too.
LEMMA SpelledOut ==
  ASSUME NEW p, NEW q \in PermissionImplies(p)
  PROVE  PermissionImplies(q) \subseteq PermissionImplies(p)
  BY DEF PermissionImplies

\* So looking one step down, as hasPermission() does, is looking to the end:
\* whoever may do something may do all that it implies but for what is taken
\* from him by name, whatever permissions the table holds.
THEOREM ImplicationComplete == Spec => []ImpliedToTheEnd
<1>1. ImpliedToTheEnd
  BY SpelledOut DEF ImpliedToTheEnd, HasPermission
<1> QED
  BY <1>1, PTL
=============================================================================
