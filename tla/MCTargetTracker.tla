--------------------------- MODULE MCTargetTracker ---------------------------
(* Two worker groups, one of them with a queue at startup, and the two       *)
(* tasks of a pool that require worker groups.                               *)
EXTENDS TargetTracker

CONSTANTS k1, k2, c1, c2

MCKey         == {k1, k2}
MCClient      == {c1, c2}
MCInitialKeys == {k1}
=============================================================================
