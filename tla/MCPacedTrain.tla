---------------------------- MODULE MCPacedTrain ----------------------------
(* A paced train of three occurrences, which another pace makes one.       *)
EXTENDS PacedTrain

MCGroups == {"path_and_schedule", "rolling_stock", "speed_limit_tag"}
MCPaces == {[window |-> 5, interval |-> 2], [window |-> 2, interval |-> 2]}
=============================================================================
