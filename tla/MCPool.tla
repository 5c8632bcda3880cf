------------------------------- MODULE MCPool --------------------------------
(* One worker group and two requests.                                        *)
EXTENDS Pool

CONSTANT k1

MCKey == {k1}
=============================================================================
