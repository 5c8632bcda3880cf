---------------------------- MODULE MCItinerary -----------------------------
(* Itineraries on a line of three operational points: a stored train       *)
(* without a rolling stock and a new one with it; two points or none are   *)
(* typed in, with an unknown one before or between them.                   *)
EXTENDS Itinerary

MCTrains == {[stock |-> NoStock, tag |-> "T1", path |-> <<1, 2>>],
             [stock |-> "S1", tag |-> "T1", path |-> <<>>]}
MCTyped == {<<3, Unknown, 1>>, <<Unknown, 1, 3>>, <<>>}
=============================================================================
