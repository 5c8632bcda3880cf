---------------------------- MODULE MCMacroEditor ---------------------------
(* Two trains from or to one station; a third station is named by its      *)
(* id in the path, not by its trigram. No station is named in two ways.    *)
EXTENDS MacroEditor

MCTrains == << <<Key("trigram", "A"), Key("trigram", "B")>>,
               <<Key("trigram", "B"), Key("op_id", "C")>> >>
=============================================================================
