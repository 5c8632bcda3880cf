------------------------------ MODULE MCStdcm -------------------------------
(* The short-term page with one set of inputs.                             *)
EXTENDS Stdcm

CONSTANT i1

MCInput == {i1}
=============================================================================
