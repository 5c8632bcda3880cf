--------------------------- MODULE QueueController ---------------------------
(***************************************************************************)
(* osrdyne's queue controller (queue_controller.rs): one task follows the  *)
(* target published by the tracker and keeps one RabbitMQ request queue    *)
(* per worker group in the wanted state, through asynchronous update jobs  *)
(* that share an AMQP channel.                                             *)
(*                                                                         *)
(* The loop, each poll of a job, and the execution of one command by the   *)
(* broker are the atomic steps. A job that is aborted may still finish the *)
(* poll it is in, which takes less than a round trip to the broker. When   *)
(* the loop panics, or any other task of the pool ends, main drops the     *)
(* connection and starts all over (main.rs). The broker is external: it is *)
(* modelled by what the controller relies on, commands of one channel are  *)
(* executed in order, a refused command closes the channel, and the        *)
(* exclusive orphan queue dies with the connection.                        *)
(***************************************************************************)
EXTENDS Naturals, Sequences, FiniteSets, QueueStatus

CONSTANTS
  Key,                \* worker groups
  MaxGeneration,      \* bound: no queue is spooled down after this generation
  MaxOvertaking,      \* bound: nor before the controller is ready after this one
  MaxMsgs,            \* bound: requests in flight
  MaxDisconnects,     \* bound: connections lost for outside reasons
  JobsPerKey,         \* bound: jobs of one key in the JoinSet
  DrainInTime         \* is a queue unbound and empty when delete_delay is over?

ASSUME ControllerAssumption ==
  /\ MaxGeneration \in Nat /\ MaxOvertaking \in Nat
  /\ MaxMsgs \in Nat /\ MaxDisconnects \in Nat
  /\ JobsPerKey \in Nat \ {0}
  /\ DrainInTime \in BOOLEAN

VARIABLES
  published,    \* what the tracker published last
  loop,         \* "running", or "down" from a panic to the reconnection
  target,       \* the loop's copy of the target
  reported,     \* QueuesState, the watch channel read by the orphan processor
  jobs,         \* [Key -> [Slot -> job]], the JoinSet
  jobs_by_key,  \* [Key -> slot of the abort handle], NoSlot when absent
  finished,     \* jobs that ended and were not joined, in order
  wire,         \* commands sent on the channel, not executed yet
  link,         \* "open", or "closed" by a refused command
  broker,       \* [Key -> the request queue]
  orphans,      \* [Key -> requests in the orphan queue]
  disconnects,  \* connections lost so far
  overtaken     \* history: keys spooled down, since the loop was started, before
                \* the controller was done with the previous change

controller == <<loop, target, reported, jobs, jobs_by_key, finished>>
channel    == <<wire, link>>
vars       == <<published, controller, channel, broker, orphans, disconnects, overtaken>>

Slot   == 1..JobsPerKey
NoSlot == 0

NoJob == [state |-> "none"]
Job(status) ==
  [state |-> "running", status |-> status, sent |-> 0, reply |-> "none",
   aborted |-> FALSE]

\* Fault: queues are deleted whatever they hold.
Commands_NotIfEmpty(status) ==
  CASE status = Active  -> <<"declare", "bind">>
    [] status = Unbound -> <<"declare", "unbind">>
    [] status = None    -> <<"unbind", "delete">>

\* Fault: a queue is bound without being declared.
Commands_NotDeclared(status) ==
  CASE status = Active  -> <<"bind", "bind">>
    [] status = Unbound -> <<"declare", "unbind">>
    [] status = None    -> <<"unbind", "delete_if_empty">>

\* The commands update_queue sends for a status, one after the other's answer.
Commands(status) ==
  CASE status = Active  -> <<"declare", "bind">>
    [] status = Unbound -> <<"declare", "unbind">>
    [] status = None    -> <<"unbind", "delete_if_empty">>

-----------------------------------------------------------------------------
(* Starting the loop, at startup and after each reconnection: the queues   *)
(* found on the broker are reported Unbound, and a job is started for each *)
(* of them and for each queue of the target.                               *)

Listed(b) == {k \in Key : b[k].exists}

\* Fault: queues that are not supposed to be there stay.
Started_TargetOnly(t, b) == {k \in Key : t.queues[k] # None}

Started(t, b) == {k \in Key : t.queues[k] # None} \cup Listed(b)

StartLoop(t, b) ==
  /\ loop' = "running"
  /\ target' = t
  /\ reported' = [target_generation |-> t.generation,
                  queues |-> [k \in Key |-> IF k \in Listed(b) THEN Unbound ELSE None]]
  /\ jobs' = [k \in Key |-> [s \in Slot |->
                IF s = 1 /\ k \in Started(t, b) THEN Job(t.queues[k]) ELSE NoJob]]
  /\ jobs_by_key' = [k \in Key |-> IF k \in Started(t, b) THEN 1 ELSE NoSlot]
  /\ finished' = <<>>
  /\ wire' = <<>> /\ link' = "open"

\* At startup the tracker wants every listed queue, bound or not.
Init ==
  \E b \in [Key -> [exists : BOOLEAN, bound : BOOLEAN, msgs : {0}]] :
    /\ \A k \in Key : b[k].bound => b[k].exists
    /\ broker = b
    /\ published = [generation |-> 0,
                    queues |-> [k \in Key |-> IF b[k].exists THEN Active ELSE None]]
    /\ loop = "down"
    /\ target = published
    /\ reported = [target_generation |-> 0, queues |-> [k \in Key |-> None]]
    /\ jobs = [k \in Key |-> [s \in Slot |-> NoJob]]
    /\ jobs_by_key = [k \in Key |-> NoSlot]
    /\ finished = <<>> /\ wire = <<>> /\ link = "open"
    /\ orphans = [k \in Key |-> 0]
    /\ disconnects = 0
    /\ overtaken = {}

-----------------------------------------------------------------------------
(* The environment: the tracker, the clients of the pool, its workers.     *)

Live(k) == {s \in Slot : jobs[k][s] # NoJob}

Retarget(k, status) ==
  /\ published' = [generation |-> published.generation + 1,
                   queues |-> [published.queues EXCEPT ![k] = status]]
  /\ UNCHANGED <<controller, channel, broker, orphans, disconnects>>

\* The loop has seen the last change of the key, and its jobs are over.
Ready(k) ==
  loop = "running" => target.queues[k] = published.queues[k] /\ Live(k) = {}

\* The tracker is required a queue that is not active.
Require(k) ==
  /\ published.queues[k] # Active
  /\ Retarget(k, Active)
  /\ UNCHANGED overtaken

\* The tracker spools a queue down. It does not wait for the controller, which
\* is done long before unless it has just been started again: the delays are
\* ten minutes, and the tracker runs on across reconnections.
SpoolDown(k, inTime) ==
  /\ published.generation < MaxGeneration
  /\ inTime \/ published.generation < MaxOvertaking
  /\ published.queues[k] # None
  /\ DrainInTime /\ published.queues[k] = Unbound =>
       /\ ~broker[k].bound /\ broker[k].msgs = 0
       /\ \A i \in DOMAIN wire : wire[i].key # k
  /\ Retarget(k, NextStatus(published.queues[k]))
  /\ overtaken' = IF inTime THEN overtaken ELSE overtaken \cup {k}

\* A client publishes a request to the pool's exchange. Its alternate exchange
\* takes what no queue is bound for to the orphan queue.
PublishRequest(k) ==
  /\ broker[k].msgs + orphans[k] < MaxMsgs
  /\ IF broker[k].bound
     THEN /\ broker' = [broker EXCEPT ![k].msgs = @ + 1]
          /\ UNCHANGED orphans
     ELSE /\ orphans' = [orphans EXCEPT ![k] = @ + 1]
          /\ UNCHANGED broker
  /\ UNCHANGED <<published, controller, channel, disconnects, overtaken>>

\* A worker of the group takes a request; the group lives as long as the
\* tracker wants the queue.
Consume(k) ==
  /\ published.queues[k] # None
  /\ broker[k].msgs > 0
  /\ broker' = [broker EXCEPT ![k].msgs = @ - 1]
  /\ UNCHANGED <<published, controller, channel, orphans, disconnects, overtaken>>

-----------------------------------------------------------------------------
(* The control loop.                                                       *)

\* The branch of expected_state.changed(): a job for each key whose status
\* differs, in place of the key's previous job, which is aborted.
Abort(job) == IF job.state = "running" THEN [job EXCEPT !.aborted = TRUE] ELSE job

Free(k) == {s \in Slot : jobs[k][s] = NoJob}
NewSlot(k) == CHOOSE s \in Free(k) : \A t \in Free(k) : s <= t

\* Fault: the previous job goes on.
Respawned_NoAbort(k) ==
  [s \in Slot |->
     IF s = NewSlot(k) THEN Job(published.queues[k]) ELSE jobs[k][s]]

Respawned(k) ==
  [s \in Slot |->
     IF s = NewSlot(k) THEN Job(published.queues[k])
     ELSE IF s = jobs_by_key[k] THEN Abort(jobs[k][s])
     ELSE jobs[k][s]]

TargetChanged ==
  /\ loop = "running"
  /\ published # target
  /\ LET Changed == {k \in Key : published.queues[k] # target.queues[k]}
     IN  /\ \A k \in Changed : Free(k) # {}
         /\ jobs' = [k \in Key |-> IF k \in Changed THEN Respawned(k) ELSE jobs[k]]
         /\ jobs_by_key' =
              [k \in Key |-> IF k \in Changed THEN NewSlot(k) ELSE jobs_by_key[k]]
  /\ target' = published
  /\ reported' = [reported EXCEPT !.target_generation = published.generation]
  /\ UNCHANGED <<published, loop, finished, channel, broker, orphans, disconnects, overtaken>>

\* The branch of jobs.join_next(), for a job that went well: its key's handle
\* is forgotten, whichever job that handle is for.
JoinJob ==
  /\ loop = "running"
  /\ finished # <<>>
  /\ LET k == Head(finished)[1]
         s == Head(finished)[2]
     IN  /\ jobs[k][s].state = "done"
         /\ jobs_by_key' = [jobs_by_key EXCEPT ![k] = NoSlot]
         /\ reported' = [reported EXCEPT !.queues[k] = jobs[k][s].status]
         /\ jobs' = [jobs EXCEPT ![k][s] = NoJob]
  /\ finished' = Tail(finished)
  /\ UNCHANGED <<published, loop, target, channel, broker, orphans, disconnects, overtaken>>

\* The same branch for a job that was cancelled or failed: both results are
\* unwrapped, and the loop panics.
JoinPanics ==
  /\ loop = "running"
  /\ finished # <<>>
  /\ jobs[Head(finished)[1]][Head(finished)[2]].state \in {"failed", "cancelled"}
  /\ loop' = "down"
  /\ UNCHANGED <<published, target, reported, jobs, jobs_by_key, finished, channel,
                 broker, orphans, disconnects, overtaken>>

-----------------------------------------------------------------------------
(* The jobs.                                                               *)

Finish(k, s, how) ==
  /\ jobs' = [jobs EXCEPT ![k][s].state = how]
  /\ finished' = Append(finished, <<k, s>>)

Runs(k, s) == loop = "running" /\ jobs[k][s].state = "running"
Answered(job) == job.sent > 0 /\ job.reply = "ok"

\* One poll of update_queue: the answer of the last command has come, and the
\* next command is sent. An aborted job goes no further than this poll.
JobSends(k, s) ==
  /\ Runs(k, s)
  /\ LET job == jobs[k][s]
         cmd == [op |-> Commands(job.status)[job.sent + 1], key |-> k, slot |-> s]
     IN  /\ job.sent = 0 \/ Answered(job)
         /\ job.sent < 2
         /\ link = "open"
         /\ wire' = Append(wire, cmd)
         /\ IF job.aborted
            THEN Finish(k, s, "cancelled")
            ELSE /\ jobs' = [jobs EXCEPT ![k][s].sent = @ + 1, ![k][s].reply = "none"]
                 /\ UNCHANGED finished
  /\ UNCHANGED <<published, loop, target, reported, jobs_by_key, link, broker, orphans,
                 disconnects, overtaken>>

\* The last answer has come: the job returns Ok, even if it was aborted.
JobReturns(k, s) ==
  /\ Runs(k, s)
  /\ jobs[k][s].sent = 2 /\ Answered(jobs[k][s])
  /\ Finish(k, s, "done")
  /\ UNCHANGED <<published, loop, target, reported, jobs_by_key, channel, broker,
                 orphans, disconnects, overtaken>>

\* A command failed, or cannot be sent on a closed channel.
JobFails(k, s) ==
  /\ Runs(k, s)
  /\ LET job == jobs[k][s]
     IN  \/ job.reply = "error"
         \/ link = "closed" /\ job.sent < 2 /\ (job.sent = 0 \/ Answered(job))
  /\ Finish(k, s, "failed")
  /\ UNCHANGED <<published, loop, target, reported, jobs_by_key, channel, broker,
                 orphans, disconnects, overtaken>>

\* An aborted job is dropped where it awaits.
JobCancelled(k, s) ==
  /\ Runs(k, s)
  /\ jobs[k][s].aborted
  /\ Finish(k, s, "cancelled")
  /\ UNCHANGED <<published, loop, target, reported, jobs_by_key, channel, broker,
                 orphans, disconnects, overtaken>>

JobStep ==
  \E k \in Key, s \in Slot :
    JobSends(k, s) \/ JobReturns(k, s) \/ JobFails(k, s) \/ JobCancelled(k, s)

-----------------------------------------------------------------------------
(* The broker (external).                                                  *)

\* What the broker answers with a channel exception.
Refused(cmd) ==
  LET q == broker[cmd.key]
  IN  \/ cmd.op = "bind" /\ ~q.exists
      \/ cmd.op = "delete_if_empty" /\ q.exists /\ q.msgs > 0

Executed(cmd, q) ==
  CASE cmd.op = "declare" -> [q EXCEPT !.exists = TRUE]
    [] cmd.op = "bind"    -> [q EXCEPT !.bound = TRUE]
    [] cmd.op = "unbind"  -> [q EXCEPT !.bound = FALSE]
    [] OTHER              -> [exists |-> FALSE, bound |-> FALSE, msgs |-> 0]

\* A poll that is under way ends before the broker's next answer.
PollsOver == \A k \in Key, s \in Slot : Runs(k, s) => ~jobs[k][s].aborted

Reply(cmd, answer) ==
  IF jobs[cmd.key][cmd.slot].state = "running"
  THEN [jobs EXCEPT ![cmd.key][cmd.slot].reply = answer]
  ELSE jobs

BrokerExecutes ==
  /\ link = "open" /\ wire # <<>> /\ PollsOver
  /\ LET cmd == Head(wire)
     IN  /\ ~Refused(cmd)
         /\ broker' = [broker EXCEPT ![cmd.key] = Executed(cmd, @)]
         /\ jobs' = Reply(cmd, "ok")
  /\ wire' = Tail(wire)
  /\ UNCHANGED <<published, loop, target, reported, jobs_by_key, finished, link, orphans,
                 disconnects, overtaken>>

\* A channel exception: whoever awaits an answer on this channel gets an error.
BrokerRefuses ==
  /\ link = "open" /\ wire # <<>> /\ PollsOver
  /\ Refused(Head(wire))
  /\ link' = "closed"
  /\ wire' = <<>>
  /\ jobs' = [k \in Key |-> [s \in Slot |->
                IF Runs(k, s) /\ jobs[k][s].sent > 0 /\ jobs[k][s].reply = "none"
                THEN [jobs[k][s] EXCEPT !.reply = "error"]
                ELSE jobs[k][s]]]
  /\ UNCHANGED <<published, loop, target, reported, jobs_by_key, finished, broker,
                 orphans, disconnects, overtaken>>

-----------------------------------------------------------------------------
(* main's reconnection loop.                                               *)

\* The connection is lost: a consumer ends, and main aborts every task.
Disconnect ==
  /\ loop = "running"
  /\ disconnects < MaxDisconnects
  /\ disconnects' = disconnects + 1
  /\ loop' = "down"
  /\ UNCHANGED <<published, target, reported, jobs, jobs_by_key, finished, channel,
                 broker, orphans, overtaken>>

\* A new connection: the orphan queue was exclusive to the old one.
Reconnect ==
  /\ loop = "down"
  /\ StartLoop(published, broker)
  /\ orphans' = [k \in Key |-> 0]
  /\ overtaken' = {}
  /\ UNCHANGED <<published, broker, disconnects>>

Loop   == TargetChanged \/ JoinJob \/ JoinPanics
Broker == BrokerExecutes \/ BrokerRefuses

Next ==
  \/ \E k \in Key : \/ Require(k) \/ SpoolDown(k, Ready(k))
                    \/ PublishRequest(k) \/ Consume(k)
  \/ Loop
  \/ JobStep
  \/ Broker
  \/ Disconnect
  \/ Reconnect

Spec == Init /\ [][Next]_vars

-----------------------------------------------------------------------------
(* Properties.                                                             *)

\* The broker's queue is in the state a status stands for.
InState(q, status) ==
  CASE status = Active  -> q.exists /\ q.bound
    [] status = Unbound -> q.exists /\ ~q.bound
    [] status = None    -> ~q.exists

\* When the loop has nothing left to do, the broker has the queues of the target,
\* bound as it says, and the loop reports exactly that, for every key that was
\* not spooled down before its jobs were over. This is what the orphan processor
\* and the worker controller rely on.
QuietMeansConverged ==
  (loop = "running" /\ target = published /\ \A k \in Key : Live(k) = {}) =>
    /\ reported.target_generation = published.generation
    /\ \A k \in Key \ overtaken : /\ reported.queues[k] = target.queues[k]
                                  /\ InState(broker[k], target.queues[k])

\* "start new update jobs, cancelling conflicting ones if necessary"
\* (queue_controller.rs:84): two jobs of one key never work at the same time.
AtMostOneJob(k) ==
  Cardinality({s \in Slot : Runs(k, s) /\ ~jobs[k][s].aborted}) <= 1
JobsNeverConflict == \A k \in Key : AtMostOneJob(k)

\* The same where it holds. Requires may come at any instant, before the loop has
\* seen the previous change and between any two steps of its jobs; only a queue
\* that is spooled down before its jobs are over may see two of them conflict.
NoConflictingJobs == \A k \in Key \ overtaken : AtMostOneJob(k)

\* A request that reached a request queue only leaves it through a worker:
\* a queue is deleted if_empty, whatever the races between jobs, commands and
\* clients.
OnlyWorkersTakeRequests ==
  [][ \A k \in Key :
        broker'[k].msgs < broker[k].msgs =>
          broker[k].exists /\ broker'[k] = [broker[k] EXCEPT !.msgs = @ - 1] ]_broker

\* The target stops changing some day; from then on the queues reach it and
\* stay there, through every abort, panic and reconnection, as long as no queue
\* is spooled down before its jobs are over.
Converged ==
  /\ reported.queues = published.queues
  /\ \A k \in Key : InState(broker[k], published.queues[k])
EventuallyConverged == [](overtaken = {}) => <>[]Converged
=============================================================================
