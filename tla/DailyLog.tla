------------------------------ MODULE DailyLog ------------------------------
(***************************************************************************)
(* What the attendance engine promises, with its requests, queue, retries, *)
(* saved models and crashes left out: a sheet of entries, one for a user   *)
(* and a day.  An entry is opened by an arrival, never of a day to come;   *)
(* the arrival then stays as it is, and the departure once there is one is *)
(* only replaced by another.  Everything else is a correction made by an   *)
(* administrator, and each of them touches at most one entry: it adds,     *)
(* moves, rewrites or removes it.                                          *)
(***************************************************************************)
EXTENDS Naturals

CONSTANT Empty          \* no arrival or no departure

VARIABLES sheet,        \* a set of records [user, day, in, out]
          today,
          corrections   \* how many an administrator has made

vars == <<sheet, today, corrections>>

Added   == sheet' \ sheet
Removed == sheet \ sheet'

Init == sheet = {} /\ today = 0 /\ corrections = 0

Arrive ==
  /\ \E e \in Added :
       /\ e.out = Empty
       /\ e.day <= today
       /\ \A f \in sheet : f.user # e.user \/ f.day # e.day
       /\ sheet' = sheet \cup {e}
  /\ UNCHANGED <<today, corrections>>

Leave ==
  /\ \E e \in Removed, f \in Added :
       /\ f.out # Empty
       /\ f = [e EXCEPT !.out = f.out]
       /\ sheet' = (sheet \ {e}) \cup {f}
  /\ UNCHANGED <<today, corrections>>

Correct ==
  /\ corrections' = corrections + 1
  /\ \A e, f \in Added : e = f
  /\ \A e \in Added : e.day <= today
  /\ \A e, f \in Removed : e = f
  /\ UNCHANGED today

NextDay ==
  /\ today' = today + 1
  /\ UNCHANGED <<sheet, corrections>>

Next == Arrive \/ Leave \/ Correct \/ NextDay

Spec == Init /\ [][Next]_vars
=============================================================================
