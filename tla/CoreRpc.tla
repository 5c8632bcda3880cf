------------------------------- MODULE CoreRpc -------------------------------
(***************************************************************************)
(* The remote procedure call from editoast to core: the RabbitMQ client of *)
(* editoast (core_client/src/mq_client.rs, lib.rs), the request queue of   *)
(* one worker group, and the core workers that consume it                  *)
(* (WorkerCommand.kt).                                                     *)
(*                                                                         *)
(* A call registers its correlation id, publishes its request, and waits   *)
(* for the first response or for its timeout, which is also the request's  *)
(* time to live on the broker. A worker replies and then acknowledges; one *)
(* that dies gives back what it holds. The broker is external. Time is     *)
(* abstracted: a timeout may come at any moment.                           *)
(***************************************************************************)
EXTENDS Naturals, Sequences, FiniteSets, SequencesExt

CONSTANTS
  Call,        \* calls of CoreClient::fetch
  Worker,      \* workers of the group
  Poison,      \* calls whose endpoint throws an unrecoverable error
  Unknown,     \* calls to a path core does not serve
  Threads,     \* WORKER_THREADS, the prefetch count
  MaxCrashes   \* bound: workers that die for outside reasons

ASSUME RpcAssumption ==
  /\ Poison \subseteq Call /\ Unknown \subseteq Call /\ Poison \cap Unknown = {}
  /\ Threads \in Nat \ {0} /\ MaxCrashes \in Nat

VARIABLES
  caller,            \* [Call -> where the call is]
  response_tracker,  \* the correlation ids the dispatching loops know
  queue,             \* the request queue
  worker,            \* [Worker -> state]
  held,              \* [Worker -> deliveries without a reply]
  replied,           \* [Worker -> deliveries with a reply, not acknowledged]
  replies,           \* replies on their way to editoast
  expired,           \* requests whose time to live ran out
  crashes            \* workers that died for outside reasons

client == <<caller, response_tracker>>
core   == <<worker, held, replied>>
vars   == <<client, queue, core, replies, expired, crashes>>

Good == Call \ (Poison \cup Unknown)

Init ==
  /\ caller = [c \in Call |-> "idle"]
  /\ response_tracker = {}
  /\ queue = <<>>
  /\ worker = [w \in Worker |-> "starting"]
  /\ held = [w \in Worker |-> {}]
  /\ replied = [w \in Worker |-> {}]
  /\ replies = {}
  /\ expired = {}
  /\ crashes = 0

-----------------------------------------------------------------------------
(* call_with_multiple_responses, and fetch, which takes one response.      *)

\* Fault: the response is registered under another id.
Register_OtherId(c) ==
  /\ caller[c] = "idle"
  /\ caller' = [caller EXCEPT ![c] = "registered"]
  /\ UNCHANGED <<response_tracker, queue, core, replies, expired, crashes>>

\* A channel is taken from the pool and the correlation id registered.
Register(c) ==
  /\ caller[c] = "idle"
  /\ caller' = [caller EXCEPT ![c] = "registered"]
  /\ response_tracker' = response_tracker \cup {c}
  /\ UNCHANGED <<queue, core, replies, expired, crashes>>

\* Fault: a request is published again when the confirmation is late.
Publish_Twice(c) ==
  /\ caller[c] = "registered"
  /\ caller' = [caller EXCEPT ![c] = "waiting"]
  /\ queue' = queue \o <<c, c>>
  /\ UNCHANGED <<response_tracker, core, replies, expired, crashes>>

Publish(c) ==
  /\ caller[c] = "registered"
  /\ caller' = [caller EXCEPT ![c] = "waiting"]
  /\ queue' = Append(queue, c)
  /\ UNCHANGED <<response_tracker, core, replies, expired, crashes>>

\* basic_publish fails: the call returns the error, and stays registered.
PublishFails(c) ==
  /\ caller[c] = "registered"
  /\ caller' = [caller EXCEPT ![c] = "failed"]
  /\ UNCHANGED <<response_tracker, queue, core, replies, expired, crashes>>

\* The stream yields ResponseTimeout, and is dropped.
Timeout(c) ==
  /\ caller[c] = "waiting"
  /\ caller' = [caller EXCEPT ![c] = "timeout"]
  /\ UNCHANGED <<response_tracker, queue, core, replies, expired, crashes>>

\* The dispatching loop hands a response to the call's channel. Core sets no
\* x-non-final-message header, so the response is not taken for the last one:
\* the id is only forgotten when the channel is closed.
Dispatch(c) ==
  /\ c \in replies
  /\ replies' = replies \ {c}
  /\ LET known == c \in response_tracker
         open  == caller[c] = "waiting"
     IN  /\ caller' = [caller EXCEPT ![c] = IF known /\ open THEN "answered" ELSE @]
         /\ response_tracker' =
              IF known /\ ~open THEN response_tracker \ {c} ELSE response_tracker
  /\ UNCHANGED <<queue, core, expired, crashes>>

-----------------------------------------------------------------------------
(* The broker (external).                                                  *)

\* A request whose time is over is dropped from the head of its queue. Its dead
\* letter is answered without a correlation id, which editoast ignores.
Expire ==
  /\ queue # <<>>
  /\ expired' = expired \cup {Head(queue)}
  /\ queue' = Tail(queue)
  /\ UNCHANGED <<client, core, replies, crashes>>

\* basicConsume, with as many unacknowledged deliveries as there are threads. A
\* request expires on the broker no later than its caller gives up.
Deliver(w) ==
  /\ worker[w] = "ready"
  /\ queue # <<>>
  /\ caller[Head(queue)] # "timeout"
  /\ Cardinality(held[w] \cup replied[w]) < Threads
  /\ held' = [held EXCEPT ![w] = @ \cup {Head(queue)}]
  /\ queue' = Tail(queue)
  /\ UNCHANGED <<client, worker, replied, replies, expired, crashes>>

-----------------------------------------------------------------------------
(* WorkerCommand.                                                          *)

\* The infrastructure is loaded, and the worker starts to consume.
WorkerReady(w) ==
  /\ worker[w] = "starting"
  /\ worker' = [worker EXCEPT ![w] = "ready"]
  /\ UNCHANGED <<client, queue, held, replied, replies, expired, crashes>>

\* A request for an unknown path: it is rejected without being requeued, and the
\* reply has no correlation id.
RejectUnknown(w, c) ==
  /\ c \in held[w] \cap Unknown
  /\ held' = [held EXCEPT ![w] = @ \ {c}]
  /\ UNCHANGED <<client, queue, worker, replied, replies, expired, crashes>>

\* The endpoint returns, or throws a recoverable error: a reply in both cases.
Reply(w, c) ==
  /\ c \in held[w] \cap Good
  /\ held' = [held EXCEPT ![w] = @ \ {c}]
  /\ replied' = [replied EXCEPT ![w] = @ \cup {c}]
  /\ replies' = replies \cup {c}
  /\ UNCHANGED <<client, queue, worker, expired, crashes>>

Acknowledge(w, c) ==
  /\ c \in replied[w]
  /\ replied' = [replied EXCEPT ![w] = @ \ {c}]
  /\ UNCHANGED <<client, queue, worker, held, replies, expired, crashes>>

\* Fault: deliveries are acknowledged when they are sent.
Exit_AutoAck(w) ==
  /\ worker' = [worker EXCEPT ![w] = "down"]
  /\ held' = [held EXCEPT ![w] = {}]
  /\ replied' = [replied EXCEPT ![w] = {}]
  /\ UNCHANGED <<client, queue, replies, expired>>

\* The process exits: the broker requeues what it had not acknowledged.
Exit(w) ==
  /\ worker' = [worker EXCEPT ![w] = "down"]
  /\ \E given \in SetToSeqs(held[w] \cup replied[w]) : queue' = given \o queue
  /\ held' = [held EXCEPT ![w] = {}]
  /\ replied' = [replied EXCEPT ![w] = {}]
  /\ UNCHANGED <<client, replies, expired>>

\* terminatorCallback: an unrecoverable error ends the worker.
ExitOnPoison(w) ==
  /\ held[w] \cap Poison # {}
  /\ Exit(w)
  /\ UNCHANGED crashes

\* The worker is destroyed or dies, the infrastructure cannot be loaded, or the
\* channel is closed.
ExitAnyway(w) ==
  /\ worker[w] # "down"
  /\ crashes < MaxCrashes
  /\ crashes' = crashes + 1
  /\ Exit(w)

\* The worker driver starts another one.
Respawn(w) ==
  /\ worker[w] = "down"
  /\ worker' = [worker EXCEPT ![w] = "starting"]
  /\ UNCHANGED <<client, queue, held, replied, replies, expired, crashes>>

WorkerStep(w) ==
  \/ WorkerReady(w) \/ Deliver(w) \/ ExitOnPoison(w) \/ Respawn(w)
  \/ \E c \in Call : RejectUnknown(w, c) \/ Reply(w, c) \/ Acknowledge(w, c)

Next ==
  \/ \E c \in Call : Register(c) \/ Publish(c) \/ PublishFails(c) \/ Timeout(c) \/ Dispatch(c)
  \/ Expire
  \/ \E w \in Worker : WorkerStep(w) \/ ExitAnyway(w)

\* Workers, the dispatching loops and the timers of hopeless calls make progress;
\* the broker drops a request whose caller has timed out. Nothing is assumed of
\* the timeouts of good calls.
Fairness ==
  /\ \A w \in Worker : /\ WF_vars(WorkerStep(w)) /\ WF_vars(Deliver(w))
                       /\ \A c \in Call : WF_vars(Reply(w, c)) /\ WF_vars(Acknowledge(w, c))
  /\ \A c \in Call : WF_vars(Dispatch(c))
  /\ \A c \in Poison : WF_vars(Timeout(c))
  /\ WF_vars(Expire /\ caller[Head(queue)] = "timeout")

Spec     == Init /\ [][Next]_vars
FairSpec == Spec /\ Fairness

-----------------------------------------------------------------------------
(* Properties.                                                             *)

Queued(c) == \E i \in DOMAIN queue : queue[i] = c
HeldBy(c) == {w \in Worker : c \in held[w] \cup replied[w]}

\* A request is never in two places: redelivered, requeued or rejected, it waits
\* once in the queue or is with one worker, not yet or already replied to. So two
\* workers never compute the same call at the same time.
OneCopy ==
  /\ \A i, j \in DOMAIN queue : queue[i] = queue[j] => i = j
  /\ \A c \in Call : Queued(c) => HeldBy(c) = {}
  /\ \A c \in Call : \A v, w \in HeldBy(c) : v = w
  /\ \A w \in Worker : held[w] \cap replied[w] = {}

\* A request that can be served is not lost while its caller waits: it is in the
\* queue, with a worker, answered, or its time to live is over. Workers may die
\* at any point, between the reply and the acknowledgement included.
RequestNotLost ==
  \A c \in Good :
    caller[c] = "waiting" =>
      Queued(c) \/ HeldBy(c) # {} \/ c \in replies \/ c \in expired

\* The caller of a good request that is not answered has timed out, or its
\* request expired: requests that kill their worker, again and again, and
\* requests for unknown paths do not keep the others waiting for ever.
GoodCallsAnswered ==
  \A c \in Good :
    caller[c] = "waiting" ~> caller[c] \in {"answered", "timeout"} \/ c \in expired
=============================================================================
