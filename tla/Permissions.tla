---------------------------- MODULE Permissions ----------------------------
(***************************************************************************)
(* The permissions of one user: the user_permissions table, the            *)
(* administrators who write it from the user's page, and what              *)
(* hasPermission() and getEffectivePermissions() read out of it.           *)
(*                                                                         *)
(* A request reads the active rows once and keeps them, so each of its     *)
(* answers is that of one state of the table.                              *)
(***************************************************************************)
EXTENDS Naturals

CONSTANTS
  Slugs,         \* the permissions table
  Admins,        \* administrators' requests that grant in bulk
  MaxTime,       \* bound on the clock
  MaxChanges,    \* bound on changes of a single row, and on bulk grants
  None           \* NULL, or no row

Times == 0..MaxTime

Row == [type : {"grant", "revoke"}, until : Times \cup {None}]

\* What a bulk grant has read of a permission.
Check == [slug : Slugs, exists : BOOLEAN]

ASSUME PermissionsAssumption ==
  /\ MaxTime \in Nat /\ MaxChanges \in Nat
  /\ None \notin Row \cup Times \cup Check \cup Admins

VARIABLES
  rows,              \* user_permissions, one row for a permission at most
  bypass,            \* is_super_admin or security_level 10
  now,
  todo, checked,     \* what a bulk grant has left, and the row it asked for
  granted, broken,   \* history: what it has granted, that it was cut short
  disturbed,         \* history: rows others wrote since it began
  changes

bulk == <<todo, checked, granted, broken, disturbed>>
vars == <<rows, bypass, now, bulk, changes>>

TypeOK ==
  /\ rows \in [Slugs -> Row \cup {None}]
  /\ bypass \in BOOLEAN
  /\ now \in Times
  /\ todo \in [Admins -> SUBSET Slugs]
  /\ checked \in [Admins -> Check \cup {None}]
  /\ \A a \in Admins : checked[a] # None => checked[a].slug \in todo[a]
  /\ granted \in [Admins -> SUBSET Slugs]
  /\ broken \in [Admins -> BOOLEAN]
  /\ disturbed \in [Admins -> SUBSET Slugs]
  /\ changes \in 0..MaxChanges

Init ==
  /\ rows = [p \in Slugs |-> None]
  /\ bypass = FALSE
  /\ now = 0
  /\ todo = [a \in Admins |-> {}] /\ checked = [a \in Admins |-> None]
  /\ granted = [a \in Admins |-> {}] /\ broken = [a \in Admins |-> FALSE]
  /\ disturbed = [a \in Admins |-> {}]
  /\ changes = 0

-----------------------------------------------------------------------------
(* Reading. *)

\* Mutant: the table is not spelled out to the end.
ShortPermissionImplies(p) ==
  CASE p = "finance.manage_salaries" -> {"finance.view_all", "finance.dashboard"}
    [] p = "finance.view_all"        -> {"finance.view_branch", "finance.view_own"}
    [] OTHER -> {}

\* User::$permissionImplies.
PermissionImplies(p) ==
  CASE p = "attendance.view_all" ->
         {"attendance.view_branch", "attendance.view_team", "attendance.view_own"}
    [] p = "attendance.view_branch" -> {"attendance.view_team", "attendance.view_own"}
    [] p \in {"attendance.view_team", "attendance.manual_entry", "attendance.export"} ->
         {"attendance.view_own"}
    [] p = "attendance.approve" -> {"attendance.view_team", "attendance.view_own"}
    [] p = "finance.view_all" ->
         {"finance.view_branch", "finance.view_team", "finance.view_own"}
    [] p = "finance.view_branch" -> {"finance.view_team", "finance.view_own"}
    [] p \in {"finance.view_team", "finance.dashboard"} -> {"finance.view_own"}
    [] p = "finance.manage_salaries" ->
         {"finance.view_all", "finance.view_branch", "finance.view_team",
          "finance.view_own", "finance.dashboard"}
    [] p = "finance.generate_reports" -> {"finance.view_own", "finance.dashboard"}
    [] p \in {"users.create", "users.edit", "users.delete", "users.manage_roles"} ->
         {"users.view"}
    [] p \in {"branches.create", "branches.edit", "branches.delete"} -> {"branches.view"}
    [] p = "leaves.approve"  -> {"leaves.view_all", "leaves.request"}
    [] p = "leaves.view_all" -> {"leaves.request"}
    [] p = "whistleblower.investigate" -> {"whistleblower.view", "whistleblower.submit"}
    [] p = "whistleblower.view" -> {"whistleblower.submit"}
    [] p \in {"messaging.broadcast", "messaging.circulars"} -> {"messaging.chat"}
    [] p = "gamification.manage" -> {"gamification.view_all", "gamification.view_own"}
    [] p = "gamification.view_all" -> {"gamification.view_own"}
    [] p = "system.settings" -> {"system.audit_logs", "system.manage_holidays"}
    [] OTHER -> {}

InForce(p) == rows[p] # None /\ (rows[p].until = None \/ rows[p].until > now)

Granted == {p \in Slugs : InForce(p) /\ rows[p].type = "grant"}
Revoked == {p \in Slugs : InForce(p) /\ rows[p].type = "revoke"}

\* Mutant: what a grant implies is not looked up among the revocations.
LenientHasPermission(p) ==
  bypass \/ p \in Granted \/ \E g \in Granted : p \in PermissionImplies(g)

HasPermission(p) ==
  \/ bypass
  \/ /\ p \notin Revoked
     /\ p \in Granted \/ \E g \in Granted : p \in PermissionImplies(g)

\* Mutant: a revoked permission still implies others.
GenerousEffectivePermissions ==
  IF bypass THEN Slugs
  ELSE (Granted \cup (Slugs \cap UNION {PermissionImplies(g) : g \in Granted \cup Revoked}))
         \ Revoked

EffectivePermissions ==
  IF bypass THEN Slugs
  ELSE (Granted \cup (Slugs \cap UNION {PermissionImplies(g) : g \in Granted})) \ Revoked

-----------------------------------------------------------------------------
(* Writing. *)

Change == changes < MaxChanges /\ changes' = changes + 1

\* Rows S were written by someone else than a.
Disturb(S, a) ==
  disturbed' = [b \in Admins |-> IF b = a THEN disturbed[b] ELSE disturbed[b] \cup S]

Nobody == None

\* unique(user_id, permission_id) lets a new row in.
AddRow(p, row) ==
  /\ Change
  /\ rows[p] = None
  /\ rows' = [rows EXCEPT ![p] = row]
  /\ Disturb({p}, Nobody)
  /\ UNCHANGED <<bypass, now, todo, checked, granted, broken>>

\* The form writes every column, the permission among them.
EditRow(p, q, row) ==
  /\ Change
  /\ rows[p] # None
  /\ q = p \/ rows[q] = None
  /\ rows' = [rows EXCEPT ![p] = None, ![q] = row]
  /\ Disturb({p, q}, Nobody)
  /\ UNCHANGED <<bypass, now, todo, checked, granted, broken>>

DeleteRow(p) ==
  /\ Change
  /\ rows[p] # None
  /\ rows' = [rows EXCEPT ![p] = None]
  /\ Disturb({p}, Nobody)
  /\ UNCHANGED <<bypass, now, todo, checked, granted, broken>>

\* The user's level or super-admin flag is edited.
ChangeLevel ==
  /\ Change
  /\ bypass' = ~bypass
  /\ UNCHANGED <<rows, now, bulk>>

-----------------------------------------------------------------------------
(* The bulk_grant action: two statements for each permission, no          *)
(* transaction around them.                                               *)

BulkGrant(a, S) ==
  /\ Change
  /\ todo[a] = {}
  /\ todo' = [todo EXCEPT ![a] = S]
  /\ granted' = [granted EXCEPT ![a] = {}]
  /\ broken' = [broken EXCEPT ![a] = FALSE]
  /\ disturbed' = [disturbed EXCEPT ![a] = {}]
  /\ UNCHANGED <<rows, bypass, now, checked>>

\* Mutant: exists() among the rows in force.
ActiveLook(a, p) ==
  /\ checked[a] = None
  /\ p \in todo[a]
  /\ checked' = [checked EXCEPT ![a] = [slug |-> p, exists |-> InForce(p)]]
  /\ UNCHANGED <<rows, bypass, now, todo, granted, broken, disturbed, changes>>

Look(a, p) ==
  /\ checked[a] = None
  /\ p \in todo[a]
  /\ checked' = [checked EXCEPT ![a] = [slug |-> p, exists |-> rows[p] # None]]
  /\ UNCHANGED <<rows, bypass, now, todo, granted, broken, disturbed, changes>>

\* Mutant: the answer for the last permission is kept.
StickyAdvance(a, p) ==
  /\ todo' = [todo EXCEPT ![a] = @ \ {p}]
  /\ granted' = [granted EXCEPT ![a] = @ \cup {p}]
  /\ UNCHANGED <<bypass, now, checked, broken, changes>>

Advance(a, p) ==
  /\ todo' = [todo EXCEPT ![a] = @ \ {p}]
  /\ checked' = [checked EXCEPT ![a] = None]
  /\ granted' = [granted EXCEPT ![a] = @ \cup {p}]
  /\ UNCHANGED <<bypass, now, broken, changes>>

Create(a, p) ==
  /\ checked[a] = [slug |-> p, exists |-> FALSE]
  /\ rows[p] = None
  /\ rows' = [rows EXCEPT ![p] = [type |-> "grant", until |-> None]]
  /\ Disturb({p}, a)
  /\ Advance(a, p)

\* The unique index refuses the row and the exception ends the loop.
Conflict(a, p) ==
  /\ checked[a] = [slug |-> p, exists |-> FALSE]
  /\ rows[p] # None
  /\ todo' = [todo EXCEPT ![a] = {}]
  /\ checked' = [checked EXCEPT ![a] = None]
  /\ broken' = [broken EXCEPT ![a] = TRUE]
  /\ UNCHANGED <<rows, bypass, now, granted, disturbed, changes>>

\* Mutant: a permission that has a row is taken for granted.
TrustingUpdate(a, p) ==
  /\ checked[a] = [slug |-> p, exists |-> TRUE]
  /\ Advance(a, p)
  /\ UNCHANGED <<rows, disturbed>>

\* UPDATE ... WHERE type = 'revoke': the expiry stays.
Update(a, p) ==
  /\ checked[a] = [slug |-> p, exists |-> TRUE]
  /\ rows' = IF rows[p] # None /\ rows[p].type = "revoke"
             THEN [rows EXCEPT ![p].type = "grant"] ELSE rows
  /\ Disturb(IF rows' = rows THEN {} ELSE {p}, a)
  /\ Advance(a, p)

Tick ==
  /\ now < MaxTime
  /\ now' = now + 1
  /\ UNCHANGED <<rows, bypass, bulk, changes>>

Next ==
  \/ \E p \in Slugs, row \in Row : AddRow(p, row)
  \/ \E p, q \in Slugs, row \in Row : EditRow(p, q, row)
  \/ \E p \in Slugs : DeleteRow(p)
  \/ ChangeLevel
  \/ \E a \in Admins, S \in SUBSET Slugs \ {{}} : BulkGrant(a, S)
  \/ \E a \in Admins, p \in Slugs : \/ Look(a, p) \/ Create(a, p)
                                    \/ Conflict(a, p) \/ Update(a, p)
  \/ Tick

Spec == Init /\ [][Next]_vars

-----------------------------------------------------------------------------
(* Properties. *)

\* The two readings of the table never differ: what a page lists as the
\* user's permissions is what the checks let him do.
ReadingsAgree == \A p \in Slugs : HasPermission(p) <=> p \in EffectivePermissions

\* Authority goes down to the end of the map as it is written: whoever may do
\* something, by a grant or because another implies it, may do all that the map
\* says it implies, but for what is taken from him by name.  The code looks
\* one step down only and relies on the map to be spelled out, as its comment
\* says it is.  What the map should hold is another matter: see
\* ManageImpliesViewOwn.
ImpliedToTheEnd ==
  \A p \in Slugs : HasPermission(p) =>
    \A q \in PermissionImplies(p) \ Revoked : HasPermission(q)

\* Writing revocations that are in force, over whatever stood there, never
\* gives anybody anything.
RevokingOnlyTakes ==
  [][ /\ rows' # rows
      /\ \A p \in Slugs : rows'[p] # rows[p] => p \in Revoked'
      => EffectivePermissions' \subseteq EffectivePermissions ]_vars

\* A bulk grant leaves every permission it went over granted, and in force
\* unless the row found there had an expiry, for as long as nobody else
\* writes that row.
BulkGrantHolds ==
  \A a \in Admins : \A p \in granted[a] \ disturbed[a] :
    /\ rows[p] # None
    /\ rows[p].type = "grant"
    /\ rows[p].until = None => HasPermission(p)

\* It stops half way only because someone else wrote one of its rows.
BulkGrantFinishes ==
  \A a \in Admins : broken[a] => disturbed[a] \ granted[a] # {}

-----------------------------------------------------------------------------
(* A claim of a test that the code does not keep. *)

\* "attendance.manage implies attendance.view_own" (TC-RBAC-005): whoever has
\* the first has the second, unless it is taken from him.  The map has no
\* entry for attendance.manage.
ManageImpliesViewOwn ==
  /\ HasPermission("attendance.manage")
  /\ "attendance.view_own" \notin Revoked
  => HasPermission("attendance.view_own")
=============================================================================
