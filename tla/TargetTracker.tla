---------------------------- MODULE TargetTracker ----------------------------
(***************************************************************************)
(* osrdyne's target tracker: the TargetTracker tables                      *)
(* (target_tracker.rs), the actor loop that owns them                      *)
(* (target_tracker/actor.rs) and the clients that talk to it               *)
(* (target_tracker/client.rs).                                             *)
(*                                                                         *)
(* One iteration of the actor loop is: take a message or hit a deadline,   *)
(* read the clock, apply the transitions that are due one by one           *)
(* (evolve_until), handle the message, answer it, publish the target. The  *)
(* clock and the clients run freely between these steps. The Arena of      *)
(* queues, the index by key, the priority queue of planned transitions and *)
(* the map of statuses are updated separately by the code; they are three  *)
(* functions of the key here, the arena and its index being one table.     *)
(***************************************************************************)
EXTENDS Integers, Sequences, FiniteSets, QueueStatus

CONSTANTS
  Key,              \* worker groups
  Client,           \* the tasks that call require_worker_group
  InitialKeys,      \* queues that exist on the broker at startup
  UnbindDelay,      \* TargetTrackerConfig::unbind_delay
  DeleteDelay,      \* TargetTrackerConfig::delete_delay
  TimeoutAllowance, \* TargetTrackerConfig::timeout_allowance
  ExtraLifetime,    \* Pool::extra_lifetime, the argument of every require
  MaxTime,          \* bound: the clock stops here
  RequestHorizon    \* bound: clients send nothing after this instant

ASSUME TrackerAssumption ==
  /\ InitialKeys \subseteq Key
  /\ UnbindDelay \in Nat \ {0}
  /\ DeleteDelay \in Nat \ {0}
  /\ TimeoutAllowance \in Nat
  /\ ExtraLifetime \in Nat
  /\ MaxTime \in Nat
  /\ RequestHorizon \in Nat

VARIABLES
  clock,                \* Instant::now()
  queues,               \* [Key -> schedule_start], NoTime where there is no queue
  planned_transitions,  \* [Key -> instant of the next transition], NoTime if none
  state,                \* [Key -> OptionStatus], the target
  generation,           \* GenerationId
  published,            \* value held by the watch channel
  inbox,                \* the actor's mpsc queue
  client,               \* [Client -> what the client is doing]
  pc,                   \* where the actor is in its iteration
  iteration_time,       \* the instant read at the top of the iteration
  msg,                  \* the message of this iteration, NoMsg on a deadline
  last_require          \* history: [Key -> instant and extra of the last require]

tables  == <<queues, planned_transitions, state, generation>>
actor   == <<pc, iteration_time, msg>>
vars    == <<clock, tables, published, inbox, client, actor, last_require>>

NoTime == -1
NoMsg  == [type |-> "NoMsg"]

Time == Nat \cup {NoTime}

RequireMsgs == [type : {"RequireQueue"}, key : Key, from : Client]
MainMsgs    == [type : {"Subscribe", "Stop"}]
Messages    == RequireMsgs \cup MainMsgs

Waiting(k)    == [at |-> "waiting", key |-> k]
Answered(k, g) == [at |-> "answered", key |-> k, generation |-> g]
Idle          == [at |-> "idle"]

-----------------------------------------------------------------------------
(* TargetTracker: the schedule.                                            *)

\* Fault: the delays are counted backwards.
event_time_Backwards(last_used_at, s) ==
  CASE s = Active  -> last_used_at
    [] s = Unbound -> last_used_at - UnbindDelay
    [] s = None    -> last_used_at - UnbindDelay - DeleteDelay

\* TargetTracker::event_time
event_time(last_used_at, s) ==
  CASE s = Active  -> last_used_at
    [] s = Unbound -> last_used_at + UnbindDelay
    [] s = None    -> last_used_at + UnbindDelay + DeleteDelay

\* Fault: a transition is not due yet at its own instant.
expected_status_OffByOne(last_used_at, now) ==
  IF now <= event_time(last_used_at, Unbound)   THEN Active
  ELSE IF now <= event_time(last_used_at, None) THEN Unbound
  ELSE None

\* TargetTracker::expected_status: the first status whose successor is not
\* due yet; the loop of the code has at most two turns.
expected_status(last_used_at, now) ==
  IF now < event_time(last_used_at, Unbound)   THEN Active
  ELSE IF now < event_time(last_used_at, None) THEN Unbound
  ELSE None

\* TargetTracker::deadline: the queues whose transition is the next planned.
Planned == {k \in Key : planned_transitions[k] # NoTime}
\* Fault: the priority queue is not reversed, the last transition comes first.
IsNextPlanned_NotReversed(k) ==
  /\ k \in Planned
  /\ \A j \in Planned : planned_transitions[k] >= planned_transitions[j]

IsNextPlanned(k) ==
  /\ k \in Planned
  /\ \A j \in Planned : planned_transitions[k] <= planned_transitions[j]

\* The queues the loop of evolve_until still has to treat.
Due == {k \in Planned : planned_transitions[k] <= iteration_time}

-----------------------------------------------------------------------------
(* TargetTracker::new: every initial key is required at time 0 with no     *)
(* extra lifetime, then the generation is reset.                           *)

InitialState == [k \in Key |-> IF k \in InitialKeys THEN Active ELSE None]

Init ==
  /\ clock = 0
  /\ queues = [k \in Key |-> IF k \in InitialKeys THEN 0 ELSE NoTime]
  /\ state = InitialState
  /\ planned_transitions =
       [k \in Key |-> IF k \in InitialKeys THEN event_time(0, Unbound) ELSE NoTime]
  /\ generation = 0
  /\ published = [generation |-> 0, queues |-> InitialState]
  /\ inbox = <<>>
  /\ client = [c \in Client |-> Idle]
  /\ pc = "select" /\ iteration_time = 0 /\ msg = NoMsg
  /\ last_require =
       [k \in Key |-> [at |-> IF k \in InitialKeys THEN 0 ELSE NoTime, extra |-> 0]]

-----------------------------------------------------------------------------
(* The environment: time and the clients.                                  *)

Tick ==
  /\ clock < MaxTime
  /\ clock' = clock + 1
  /\ UNCHANGED <<tables, published, inbox, client, actor, last_require>>

\* TargetTrackerClient::require_worker_group up to rx.await. A client has one
\* request in flight, so the 100 slots of the channel are never exhausted.
SendRequire(c, k) ==
  /\ clock <= RequestHorizon
  /\ pc # "stopped"
  /\ client[c] = Idle
  /\ client' = [client EXCEPT ![c] = Waiting(k)]
  /\ inbox' = Append(inbox, [type |-> "RequireQueue", key |-> k, from |-> c])
  /\ UNCHANGED <<clock, tables, published, actor, last_require>>

\* require_worker_group returns the generation to its caller.
TakeAnswer(c) ==
  /\ client[c].at = "answered"
  /\ client' = [client EXCEPT ![c] = Idle]
  /\ UNCHANGED <<clock, tables, published, inbox, actor, last_require>>

\* TargetTrackerClient::subscribe, at each (re)connection of main, and stop, on
\* its way out. Main awaits the answer before it goes on.
SendFromMain(m) ==
  /\ pc # "stopped"
  /\ clock <= RequestHorizon
  /\ \A i \in 1..Len(inbox) : inbox[i] \notin MainMsgs
  /\ msg \notin MainMsgs
  /\ inbox' = Append(inbox, m)
  /\ UNCHANGED <<clock, tables, published, client, actor, last_require>>

-----------------------------------------------------------------------------
(* The actor loop.                                                         *)

\* next_event, Ok(Some(msg)): the inbox is polled before the timer.
ReceiveMessage ==
  /\ pc = "select"
  /\ inbox # <<>>
  /\ msg' = Head(inbox)
  /\ inbox' = Tail(inbox)
  /\ iteration_time' = clock
  /\ pc' = "evolve"
  /\ UNCHANGED <<clock, tables, published, client, last_require>>

\* next_event, Err(Elapsed): the deadline and its allowance are over.
ReachDeadline ==
  /\ pc = "select"
  /\ inbox = <<>>
  /\ \E k \in Key :
       /\ IsNextPlanned(k)
       /\ clock >= planned_transitions[k] + TimeoutAllowance
  /\ msg' = NoMsg
  /\ iteration_time' = clock
  /\ pc' = "evolve"
  /\ UNCHANGED <<clock, tables, published, inbox, client, last_require>>

\* Fault: removing a queue does not bump the generation.
queue_apply_transition_NoBump(k) ==
  LET expected == expected_status(queues[k], iteration_time)
  IN  /\ state[k] # expected
      /\ state' = [state EXCEPT ![k] = expected]
      /\ IF expected # None
         THEN /\ planned_transitions' =
                   [planned_transitions EXCEPT
                      ![k] = event_time(queues[k], NextStatus(expected))]
              /\ generation' = generation + 1
              /\ UNCHANGED queues
         ELSE /\ planned_transitions' = [planned_transitions EXCEPT ![k] = NoTime]
              /\ queues' = [queues EXCEPT ![k] = NoTime]
              /\ UNCHANGED generation

\* queue_apply_transition(iteration_time, k). When no transition is required
\* the code logs an error and leaves everything as it is, the planned
\* transition included: evolve_until would then find the same queue forever.
queue_apply_transition(k) ==
  LET expected == expected_status(queues[k], iteration_time)
  IN  \/ /\ state[k] = expected
         /\ UNCHANGED tables
      \/ /\ state[k] # expected
         /\ state' = [state EXCEPT ![k] = expected]
         /\ generation' = generation + 1
         /\ IF expected # None
            THEN /\ planned_transitions' =
                      [planned_transitions EXCEPT
                         ![k] = event_time(queues[k], NextStatus(expected))]
                 /\ UNCHANGED queues
            ELSE /\ planned_transitions' = [planned_transitions EXCEPT ![k] = NoTime]
                 /\ queues' = [queues EXCEPT ![k] = NoTime]

\* One turn of the loop of evolve_until: the earliest planned queue, if due.
EvolveStep ==
  /\ pc = "evolve"
  /\ \E k \in Due : IsNextPlanned(k) /\ queue_apply_transition(k)
  /\ UNCHANGED <<clock, published, inbox, client, actor, last_require>>

\* evolve_until breaks: nothing planned is due at the iteration's instant.
EvolveDone ==
  /\ pc = "evolve"
  /\ Due = {}
  /\ pc' = "handle"
  /\ UNCHANGED <<clock, tables, published, inbox, client, iteration_time, msg,
                 last_require>>

\* Fault: the transition of a queue that exists is not planned again.
require_queue_NotReplanned(at, k) ==
  LET start == IF queues[k] # NoTime THEN at ELSE at + ExtraLifetime
  IN  /\ queues' = [queues EXCEPT ![k] = start]
      /\ state' = [state EXCEPT ![k] = Active]
      /\ generation' = IF state[k] = Active THEN generation ELSE generation + 1
      /\ planned_transitions' =
           IF queues[k] # NoTime THEN planned_transitions
           ELSE [planned_transitions EXCEPT ![k] = event_time(start, Unbound)]

\* Fault: nothing is done for a queue that is active already.
require_queue_NotRefreshed(at, k) ==
  IF state[k] = Active
  THEN UNCHANGED tables
  ELSE LET start == IF queues[k] # NoTime THEN at ELSE at + ExtraLifetime
       IN  /\ queues' = [queues EXCEPT ![k] = start]
           /\ state' = [state EXCEPT ![k] = Active]
           /\ generation' = generation + 1
           /\ planned_transitions' =
                [planned_transitions EXCEPT ![k] = event_time(start, Unbound)]

\* Fault: the generation moves although the target does not.
require_queue_AlwaysBumps(at, k) ==
  LET start == IF queues[k] # NoTime THEN at ELSE at + ExtraLifetime
  IN  /\ queues' = [queues EXCEPT ![k] = start]
      /\ state' = [state EXCEPT ![k] = Active]
      /\ generation' = generation + 1
      /\ planned_transitions' =
           [planned_transitions EXCEPT ![k] = event_time(start, Unbound)]

\* Fault: only the creation of a queue bumps the generation.
require_queue_NoBump(at, k) ==
  LET start == IF queues[k] # NoTime THEN at ELSE at + ExtraLifetime
  IN  /\ queues' = [queues EXCEPT ![k] = start]
      /\ state' = [state EXCEPT ![k] = Active]
      /\ generation' = IF queues[k] = NoTime THEN generation + 1 ELSE generation
      /\ planned_transitions' =
           [planned_transitions EXCEPT ![k] = event_time(start, Unbound)]

\* require_queue(at, extra_lifetime, k), queue_update_transition included. The
\* extra lifetime only counts for a queue that does not exist yet.
require_queue(at, k) ==
  LET start == IF queues[k] # NoTime THEN at ELSE at + ExtraLifetime
  IN  /\ queues' = [queues EXCEPT ![k] = start]
      /\ state' = [state EXCEPT ![k] = Active]
      /\ generation' = IF state[k] = Active THEN generation ELSE generation + 1
      /\ planned_transitions' =
           [planned_transitions EXCEPT ![k] = event_time(start, NextStatus(Active))]

\* Fault: the generation is read before the queue is required.
HandleRequire_StaleGeneration ==
  /\ pc = "handle"
  /\ msg.type = "RequireQueue"
  /\ require_queue(iteration_time, msg.key)
  /\ client' = [client EXCEPT ![msg.from] = Answered(msg.key, generation)]
  /\ last_require' = [last_require EXCEPT
                        ![msg.key] = [at |-> iteration_time, extra |-> ExtraLifetime]]
  /\ pc' = "publish"
  /\ UNCHANGED <<clock, published, inbox, iteration_time, msg>>

\* ActorMessage::RequireQueue: the generation is answered before it is
\* published, so the client may run with a generation nobody has seen.
HandleRequire ==
  /\ pc = "handle"
  /\ msg.type = "RequireQueue"
  /\ require_queue(iteration_time, msg.key)
  /\ client' = [client EXCEPT ![msg.from] = Answered(msg.key, generation')]
  /\ last_require' = [last_require EXCEPT
                        ![msg.key] = [at |-> iteration_time, extra |-> ExtraLifetime]]
  /\ pc' = "publish"
  /\ UNCHANGED <<clock, published, inbox, iteration_time, msg>>

\* A deadline carries no message, Subscribe hands out the watch channel, Stop
\* answers and ends the loop: none of them touches the tables.
HandleOther ==
  /\ pc = "handle"
  /\ msg.type \in {"NoMsg", "Subscribe", "Stop"}
  /\ pc' = "publish"
  /\ UNCHANGED <<clock, tables, published, inbox, client, iteration_time, msg,
                 last_require>>

\* stream.send_replace, and the test of `running`.
PublishTarget ==
  /\ pc = "publish"
  /\ published' = [generation |-> generation, queues |-> state]
  /\ pc' = IF msg.type = "Stop" THEN "stopped" ELSE "select"
  /\ msg' = NoMsg
  /\ UNCHANGED <<clock, tables, inbox, client, iteration_time, last_require>>

Actor ==
  \/ ReceiveMessage
  \/ ReachDeadline
  \/ EvolveStep
  \/ EvolveDone
  \/ HandleRequire
  \/ HandleOther
  \/ PublishTarget

Next ==
  \/ Tick
  \/ \E c \in Client : TakeAnswer(c) \/ \E k \in Key : SendRequire(c, k)
  \/ \E m \in MainMsgs : SendFromMain(m)
  \/ Actor

Spec == Init /\ [][Next]_vars

\* Time goes on and the actor is polled; nobody has to send anything.
FairSpec == Spec /\ WF_vars(Tick) /\ WF_vars(Actor)

-----------------------------------------------------------------------------
(* Properties.                                                             *)

TypeOK ==
  /\ clock \in Nat
  /\ queues \in [Key -> Time]
  /\ planned_transitions \in [Key -> Time]
  /\ state \in [Key -> OptionStatus]
  /\ generation \in Nat
  /\ published \in [generation : Nat, queues : [Key -> OptionStatus]]
  /\ inbox \in Seq(Messages)
  /\ client \in [Client -> {Idle} \cup [at : {"waiting"}, key : Key]
                         \cup [at : {"answered"}, key : Key, generation : Nat]]
  /\ pc \in {"select", "evolve", "handle", "publish", "stopped"}
  /\ iteration_time \in Nat
  /\ msg \in Messages \cup {NoMsg}
  /\ last_require \in [Key -> [at : Time, extra : Nat]]

\* The tables describe the same queues, and each queue's next transition is
\* planned at the instant its status ends. `queue_update_transition` has to
\* follow every change of schedule_start or of the status for this to hold.
TablesConsistent ==
  \A k \in Key :
    /\ queues[k] = NoTime <=> state[k] = None
    /\ planned_transitions[k] = NoTime <=> state[k] = None
    /\ state[k] # None =>
         planned_transitions[k] = event_time(queues[k], NextStatus(state[k]))

\* evolve_until terminates: a queue whose planned transition is due always has
\* a transition to make. Otherwise queue_apply_transition returns early from
\* its "inconsistent state" branch and the while loop spins for ever, with the
\* whole actor in it.
EvolveAdvances ==
  pc = "evolve" =>
    \A k \in Due : state[k] # expected_status(queues[k], iteration_time)

\* A queue is not unbound less than unbind_delay after it was last required,
\* nor deleted less than delete_delay later, whatever the order in which
\* requires, deadlines and their processing fall.
NotSpooledDownEarly ==
  \A k \in Key :
    last_require[k].at # NoTime =>
      /\ state[k] = Unbound =>
           iteration_time >= event_time(last_require[k].at, Unbound)
      /\ state[k] = None =>
           iteration_time >= event_time(last_require[k].at, None)

\* The generation returned by require_worker_group is one "where this worker
\* group starts being active" (client.rs): as long as it is the published
\* generation, the published target has the queue Active. The orphan processor
\* republishes a request on the strength of it.
AnsweredGenerationIsActive ==
  \A c \in Client :
    (client[c].at = "answered" /\ client[c].generation = published.generation)
      => published.queues[client[c].key] = Active

\* What subscribers hold is never ahead of the tracker, and is the target
\* itself when the generations agree.
PublishedIsTarget ==
  /\ published.generation <= generation
  /\ published.generation = generation => published.queues = state

\* The tracker does what Spooldown promises.
Abstract == INSTANCE Spooldown WITH target <- state
RefinesSpooldown == Abstract!Spec
GenerationNamesTarget == Abstract!GenerationNamesTarget

\* A client that waits is answered, unless the actor is told to stop.
RequireIsAnswered ==
  \A c \in Client :
    client[c].at = "waiting" ~> (client[c].at = "answered" \/ pc = "stopped")

\* A transition that is overdue is made and published, even if no message ever
\* wakes the actor up again.
Overdue(k) ==
  /\ planned_transitions[k] # NoTime
  /\ planned_transitions[k] + TimeoutAllowance <= clock
OverdueIsPublished ==
  \A k \in Key :
    Overdue(k) ~> \/ ~Overdue(k) /\ published = [generation |-> generation, queues |-> state]
                 \/ pc = "stopped"
=============================================================================
