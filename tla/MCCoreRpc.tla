------------------------------ MODULE MCCoreRpc ------------------------------
(* Three calls, one of them lethal to its worker and one to an unknown path. *)
EXTENDS CoreRpc

CONSTANTS good, lethal, unknown, w1, w2

MCCall      == {good, lethal, unknown}
MCWorker    == {w1, w2}
MCPoison    == {lethal}
MCUnknown   == {unknown}
=============================================================================
