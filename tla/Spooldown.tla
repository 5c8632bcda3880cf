------------------------------ MODULE Spooldown ------------------------------
(***************************************************************************)
(* What the target tracker of osrdyne promises to the rest of the pool,    *)
(* with its clock and its tables abstracted away: each key has a target    *)
(* status, a change of it costs one generation, a required key is Active,  *)
(* a key nobody requires only moves down its life cycle, and subscribers   *)
(* see snapshots <<generation, queues>>.                                   *)
(*                                                                         *)
(* The timed module TargetTracker implements this one; the pool modules    *)
(* take it as the environment that drives them.                            *)
(***************************************************************************)
EXTENDS Naturals, QueueStatus

CONSTANTS
  Key,          \* the worker groups: infra ids, or infra id - timetable id
  InitialKeys   \* the request queues found on the broker at startup

VARIABLES
  target,       \* [Key -> OptionStatus], the tracker's state map
  generation,   \* how many times the target changed since startup
  published     \* the last snapshot sent on the watch channel

trackerVars == <<target, generation, published>>

\* The watch channel carries the whole target under its generation.
Snapshot(g, t) == [generation |-> g, queues |-> t]

InitialTarget == [k \in Key |-> IF k \in InitialKeys THEN Active ELSE None]

Init ==
  /\ target = InitialTarget
  /\ generation = 0
  /\ published = Snapshot(0, InitialTarget)

\* Somebody requires the key: it is Active from the generation that results.
Require(k) ==
  /\ target' = [target EXCEPT ![k] = Active]
  /\ generation' = IF target[k] = Active THEN generation ELSE generation + 1
  /\ UNCHANGED published

\* Nobody required the key for long enough: it moves down, by one step or two.
SpoolDown(k) ==
  /\ \E s \in OptionStatus :
       /\ Rank(s) > Rank(target[k])
       /\ target' = [target EXCEPT ![k] = s]
  /\ generation' = generation + 1
  /\ UNCHANGED published

\* Subscribers are shown the current target.
Publish ==
  /\ published' = Snapshot(generation, target)
  /\ UNCHANGED <<target, generation>>

Next ==
  \/ \E k \in Key : Require(k) \/ SpoolDown(k)
  \/ Publish

Spec == Init /\ [][Next]_trackerVars

-----------------------------------------------------------------------------
TypeOK ==
  /\ target \in [Key -> OptionStatus]
  /\ generation \in Nat
  /\ published \in [generation : Nat, queues : [Key -> OptionStatus]]

(***************************************************************************)
(* A generation names one target: queue_controller.rs and the orphan       *)
(* processor compare generations only, so two different targets published  *)
(* under the same generation, or a generation that goes back, would make   *)
(* them act on the wrong queues.                                           *)
(***************************************************************************)
GenerationNamesTarget ==
  [][ /\ published'.generation >= published.generation
      /\ published'.generation = published.generation
           => published'.queues = published.queues ]_published
=============================================================================
