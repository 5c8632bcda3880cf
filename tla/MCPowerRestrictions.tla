------------------------ MODULE MCPowerRestrictions -------------------------
(* Power restrictions on a path of four units, with or without a via in    *)
(* the middle; the electrification changes at one point.                   *)
EXTENDS PowerRestrictions

MCVias == {{}, {2}}
=============================================================================
