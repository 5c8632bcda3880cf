-------------------------------- MODULE Pool ---------------------------------
(***************************************************************************)
(* A pool of osrdyne (pool.rs, main.rs): the orphan processor, which gives *)
(* a queue to the requests that had none, and the worker control loop,     *)
(* which runs a worker group for each queue of the target, composed with   *)
(* the queue controller and main's reconnections.                          *)
(*                                                                         *)
(* The requests of each key are counted: a client publishes one, and from  *)
(* there on it is in a request queue, in the orphan queue, done, or lost   *)
(* with the orphan queue of a connection that was dropped. `orphans`       *)
(* includes the delivery the processor holds, which it acknowledges last.  *)
(* The tracker's answer and its publication are one step here;             *)
(* TargetTracker has them apart.                                           *)
(***************************************************************************)
EXTENDS QueueController

CONSTANTS
  MaxRequests,        \* bound: requests published by clients for one key
  MaxDriverFailures   \* bound: calls of the worker driver that fail

ASSUME PoolAssumption == MaxRequests \in Nat /\ MaxDriverFailures \in Nat

VARIABLES
  orphan,     \* the orphan processor: where it is, and the delivery it holds
  workers,    \* keys with a worker group
  iteration,  \* the worker control loop: the calls left in this iteration
  failures,   \* calls of the driver that failed
  sent,       \* [Key -> requests published by clients]
  done,       \* [Key -> requests a worker took]
  lost        \* [Key -> requests that went down with a connection]

ledger   == <<sent, done, lost>>
driver   == <<workers, iteration, failures>>
poolVars == <<orphan, driver, ledger>>
allVars  == <<vars, poolVars>>

IdleOrphan    == [at |-> "idle"]
IdleIteration == [destroy |-> {}, create |-> {}]

PoolInit ==
  /\ Init
  /\ orphan = IdleOrphan
  /\ workers \in SUBSET Key
  /\ iteration = IdleIteration
  /\ failures = 0
  /\ sent = [k \in Key |-> 0] /\ done = sent /\ lost = sent

-----------------------------------------------------------------------------
(* Clients and workers.                                                    *)

ClientPublishes(k) ==
  /\ sent[k] < MaxRequests
  /\ PublishRequest(k)
  /\ sent' = [sent EXCEPT ![k] = @ + 1]
  /\ UNCHANGED <<orphan, driver, done, lost>>

WorkerConsumes(k) ==
  /\ k \in workers
  /\ broker[k].msgs > 0
  /\ broker' = [broker EXCEPT ![k].msgs = @ - 1]
  /\ done' = [done EXCEPT ![k] = @ + 1]
  /\ UNCHANGED <<published, controller, channel, orphans, disconnects, overtaken, orphan,
                 driver, sent, lost>>

\* A worker reports its activity, and the activity processor requires its group.
WorkerReports(k) ==
  /\ loop = "running"
  /\ k \in workers
  /\ Require(k)
  /\ UNCHANGED poolVars

-----------------------------------------------------------------------------
(* orphan_processor: one delivery at a time.                               *)

\* consumer.next, and the require: the generation the tracker answers.
OrphanRequires(k) ==
  /\ loop = "running"
  /\ orphan.at = "idle"
  /\ orphans[k] > 0
  /\ \/ published.queues[k] = Active /\ UNCHANGED vars
     \/ Require(k)
  /\ orphan' = [at |-> "generation", key |-> k, generation |-> published'.generation]
  /\ UNCHANGED <<driver, ledger>>

\* The first wait: the controller has seen the generation.
OrphanSeesGeneration ==
  /\ loop = "running"
  /\ orphan.at = "generation"
  /\ reported.target_generation >= orphan.generation
  /\ orphan' = [orphan EXCEPT !.at = "status"]
  /\ UNCHANGED <<vars, driver, ledger>>

\* The second wait: the controller reports the queue Active.
OrphanSeesActive ==
  /\ loop = "running"
  /\ orphan.at = "status"
  /\ reported.queues[orphan.key] = Active
  /\ orphan' = [orphan EXCEPT !.at = "publish"]
  /\ UNCHANGED <<vars, driver, ledger>>

\* basic_publish to the request exchange, which routes the request like any other.
OrphanRepublishes ==
  /\ loop = "running"
  /\ orphan.at = "publish"
  /\ LET k == orphan.key
     IN  IF broker[k].bound
         THEN /\ broker' = [broker EXCEPT ![k].msgs = @ + 1]
              /\ UNCHANGED orphans
         ELSE /\ orphans' = [orphans EXCEPT ![k] = @ + 1]
              /\ UNCHANGED broker
  /\ orphan' = [orphan EXCEPT !.at = "ack"]
  /\ UNCHANGED <<published, controller, channel, disconnects, overtaken, driver, ledger>>

\* Fault: the delivery is not acknowledged.
OrphanAcks_Forgotten ==
  /\ loop = "running"
  /\ orphan.at = "ack"
  /\ orphan' = IdleOrphan
  /\ UNCHANGED <<vars, driver, ledger>>

OrphanAcks ==
  /\ loop = "running"
  /\ orphan.at = "ack"
  /\ orphans' = [orphans EXCEPT ![orphan.key] = @ - 1]
  /\ orphan' = IdleOrphan
  /\ UNCHANGED <<published, controller, channel, broker, disconnects, overtaken, driver,
                 ledger>>

Orphan ==
  \/ \E k \in Key : OrphanRequires(k)
  \/ OrphanSeesGeneration
  \/ OrphanSeesActive
  \/ OrphanRepublishes
  \/ OrphanAcks

-----------------------------------------------------------------------------
(* worker_control_iteration.                                               *)

\* Fault: an unbound queue is left without workers.
IterationStarts_ActiveOnly ==
  /\ loop = "running"
  /\ iteration = IdleIteration
  /\ LET wanted == {k \in Key : published.queues[k] = Active}
     IN  /\ wanted # {} \/ workers # {}
         /\ iteration' = [destroy |-> workers \ wanted, create |-> wanted]
  /\ UNCHANGED <<vars, orphan, workers, failures, ledger>>

\* The target is read and the worker groups listed; unwanted groups are to be
\* destroyed, then wanted ones created. A failure to list skips the iteration.
IterationStarts ==
  /\ loop = "running"
  /\ iteration = IdleIteration
  /\ LET wanted == {k \in Key : published.queues[k] # None}
     IN  /\ wanted # {} \/ workers # {}
         /\ iteration' = [destroy |-> workers \ wanted, create |-> wanted]
  /\ UNCHANGED <<vars, orphan, workers, failures, ledger>>

\* One call of the driver, which may fail; the loop goes on to the next key.
Destroys(k) ==
  /\ loop = "running"
  /\ k \in iteration.destroy
  /\ iteration' = [iteration EXCEPT !.destroy = @ \ {k}]
  /\ \/ workers' = workers \ {k} /\ UNCHANGED failures
     \/ /\ failures < MaxDriverFailures
        /\ failures' = failures + 1
        /\ UNCHANGED workers
  /\ UNCHANGED <<vars, orphan, ledger>>

Creates(k) ==
  /\ loop = "running"
  /\ iteration.destroy = {}
  /\ k \in iteration.create
  /\ iteration' = [iteration EXCEPT !.create = @ \ {k}]
  /\ \/ workers' = workers \cup {k} /\ UNCHANGED failures
     \/ /\ failures < MaxDriverFailures
        /\ failures' = failures + 1
        /\ UNCHANGED workers
  /\ UNCHANGED <<vars, orphan, ledger>>

WorkerControl == IterationStarts \/ \E k \in Key : Destroys(k) \/ Creates(k)

-----------------------------------------------------------------------------
(* main: every task is aborted, then started again.                        *)

\* Requests of the key that are in the orphan queue and republished already.
Held(k) == IF orphan.at = "ack" /\ orphan.key = k THEN 1 ELSE 0

PoolReconnects ==
  /\ Reconnect
  /\ lost' = [k \in Key |-> lost[k] + orphans[k] - Held(k)]
  /\ orphan' = IdleOrphan
  /\ iteration' = IdleIteration
  /\ UNCHANGED <<workers, failures, sent, done>>

\* The tracker does not wait for the orphan processor either, which requires the
\* queue of the delivery it holds and waits for it to be reported Active.
Awaited(k) == loop = "running" /\ orphan.at \in {"generation", "status"} /\ orphan.key = k
PoolSpoolsDown(k) == SpoolDown(k, Ready(k) /\ ~Awaited(k))

PoolNext ==
  \/ \E k \in Key : ClientPublishes(k) \/ WorkerConsumes(k) \/ WorkerReports(k)
  \/ Orphan
  \/ WorkerControl
  \/ PoolReconnects
  \/ /\ \/ \E k \in Key : PoolSpoolsDown(k)
        \/ Loop \/ JobStep \/ Broker \/ Disconnect
     /\ UNCHANGED poolVars

\* Tasks that are ready are polled, the broker answers, main reconnects and the
\* workers consume. Nothing obliges the target to change or clients to publish.
PoolFairness ==
  /\ WF_allVars(Loop /\ UNCHANGED poolVars)
  /\ WF_allVars((JoinJob \/ JoinPanics) /\ UNCHANGED poolVars)
  /\ WF_allVars(JobStep /\ UNCHANGED poolVars)
  /\ WF_allVars(Broker /\ UNCHANGED poolVars)
  /\ WF_allVars(PoolReconnects)
  /\ WF_allVars(Orphan) /\ WF_allVars(WorkerControl)
  /\ \A k \in Key : WF_allVars(WorkerConsumes(k))

PoolSpec     == PoolInit /\ [][PoolNext]_allVars
FairPoolSpec == PoolSpec /\ PoolFairness

-----------------------------------------------------------------------------
(* Properties.                                                             *)

\* No request disappears or is duplicated between a client and a worker: each
\* is in a queue of its key, done, or went down with the orphan queue of a
\* connection. Republishing before acknowledging must not break this, so the
\* delivery the processor holds is in the orphan queue until it acknowledges it.
RequestsAccountedFor ==
  \A k \in Key :
    /\ sent[k] + Held(k) = done[k] + lost[k] + orphans[k] + broker[k].msgs
    /\ orphan # IdleOrphan /\ orphan.key = k => orphans[k] > 0

\* Every request a client published is some day done, or lost with a
\* connection: none waits for ever in a queue nobody binds or serves, as long as
\* no queue is spooled down before its jobs, or the wait for it, are over.
EventuallyServed ==
  [](overtaken = {}) => <>[](\A k \in Key : done[k] + lost[k] = sent[k])
=============================================================================
