----------------------------- MODULE QueueStatus -----------------------------
(***************************************************************************)
(* The life cycle of a request queue, shared by every osrdyne module.      *)
(*                                                                         *)
(* A Rust Option<QueueStatus> is one of the three strings below: None      *)
(* stands for "no such queue", both in the tracker's OrdMap (the key is    *)
(* not in the map) and in the result of QueueStatus::next.                 *)
(***************************************************************************)

Active  == "Active"
Unbound == "Unbound"
None    == "None"

Status       == {Active, Unbound}
OptionStatus == {Active, Unbound, None}

\* QueueStatus::next: the step a queue takes when it is no longer required.
NextStatus(s) == IF s = Active THEN Unbound ELSE None

\* How far a status is along the schedule; spooling down only goes up.
Rank(s) == IF s = Active THEN 0 ELSE IF s = Unbound THEN 1 ELSE 2
=============================================================================
