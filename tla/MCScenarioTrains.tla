-------------------------- MODULE MCScenarioTrains --------------------------
(* Two trains and batches of two. A timetable of t2 alone is one of t1     *)
(* alone with the trains exchanged.                                        *)
EXTENDS ScenarioTrains

CONSTANTS t1, t2

MCTrain == {t1, t2}
MCTimetables == {{}, {t1}, {t1, t2}}
=============================================================================
