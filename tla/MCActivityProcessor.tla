------------------------- MODULE MCActivityProcessor -------------------------
(* One activity processor and two worker groups.                             *)
EXTENDS ActivityProcessor

CONSTANTS k1, k2, c1

MCKey         == {k1, k2}
MCClient      == {c1}
MCInitialKeys == {k1}
=============================================================================
