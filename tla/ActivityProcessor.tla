-------------------------- MODULE ActivityProcessor --------------------------
(***************************************************************************)
(* The activity processor of a pool (activity_processor in pool.rs),       *)
(* composed with the target tracker: workers report their activity on the  *)
(* activity exchange, and the processor requires their worker group so     *)
(* that it stays active, unless the report is debounced.                   *)
(***************************************************************************)
EXTENDS TargetTracker

VARIABLE
  last_activities  \* [Key -> instant of the last report], NoTime before the first

allVars == <<vars, last_activities>>

ActivityInit ==
  /\ Init
  /\ last_activities = [k \in Key |-> NoTime]

\* The test of the processor: `last_activity + extra_lifetime < now`.
Debounced(k) ==
  /\ last_activities[k] # NoTime
  /\ last_activities[k] + ExtraLifetime < clock

\* A delivery from the activity queue. The processor awaits the tracker's answer
\* before it takes the next delivery, and ignores it.
HandleActivity(c, k) ==
  /\ clock <= RequestHorizon
  /\ pc # "stopped"
  /\ client[c] = Idle
  /\ last_activities' = [last_activities EXCEPT ![k] = clock]
  /\ IF Debounced(k) THEN UNCHANGED vars ELSE SendRequire(c, k)

ActivityNext ==
  \/ \E c \in Client, k \in Key : HandleActivity(c, k)
  \/ /\ Tick \/ Actor \/ \E c \in Client : TakeAnswer(c)
     /\ UNCHANGED last_activities

ActivitySpec == ActivityInit /\ [][ActivityNext]_allVars

-----------------------------------------------------------------------------
\* The tracker knows of every report the processor has finished with.
Handled(k) == \A c \in Client : client[c].at = "waiting" => client[c].key # k

\* Debouncing does not lower "the active time of worker groups" (client.rs:23):
\* once the processor is done with a report, dropped or not, the worker group is
\* not spooled down until unbind_delay after that report.
ActivityKeepsActive ==
  \A k \in Key :
    (last_activities[k] # NoTime /\ Handled(k)) =>
      (state[k] # Active => iteration_time >= last_activities[k] + UnbindDelay)
=============================================================================
