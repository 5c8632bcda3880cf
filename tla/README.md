# OSRD: TLA+ models

OSRD simulates railways. Users edit trains in a web page (*front*); requests of the web service
(*editoast*) are computed by JVM workers (*core*), one group of workers per infrastructure, and a
small supervisor (*osrdyne*) creates and removes those groups and their RabbitMQ queues on demand.

This directory models the two places where the repository has concurrency of its own, and where a
unit test reaches least: what osrdyne does with queues and workers and how a call travels from
editoast to core and back; and, in the front end, what the page does while requests are in flight
and what long sequences of edits do to the data of a train.

## 1. Inventory

### How the parts interact

    editoast --publish--> <pool>-req-xchg --bound--> request queue of the key --> core worker
        ^                       | (no queue bound: alternate exchange)                |  |
        |                       v                                                     |  |
        |                 orphan queue --> orphan processor --require--+              |  |
        |                                                              v              |  |
        |            activity queue --> activity processor --require-> target tracker |  |
        |                 ^                                            | watch channel|  |
        |                 +----------- activity report ----------------|--------------+  |
        |                                     +------------------------+                 |
        |                                     v                        v                 |
        |                              queue controller        worker control loop       |
        |                              (AMQP commands)         (worker driver calls)     |
        +------------------------------ reply-to -----------------------------------------+

| Part | State | Operations | What makes it correct |
|---|---|---|---|
| target tracker (`osrdyne/src/target_tracker*`) | arena of queues with `schedule_start`, priority queue of planned transitions, map of statuses, generation, watch channel, inbox | `require_queue`, `evolve_until`, `queue_apply_transition`, subscribe, stop | tables agree; no queue spooled down early; the loop ends; a generation names one target; requires are answered, deadlines kept |
| queue controller (`queue_controller.rs`) | copy of the target, reported state, `JoinSet` of jobs, abort handles by key | start, target change, job completion, `update_queue` | idle means converged; no request deleted with its queue; conflicting jobs are cancelled; convergence |
| pool (`pool.rs`) | orphan delivery under way, last activities, worker groups | orphan processor, activity processor, worker control iteration, dead letter responder | no request lost or doubled; each gets a queue and a worker; busy groups stay active |
| main (`main.rs`) | connection, tasks | reconnect and restart of every task; the tracker survives | recovery from any interruption |
| worker drivers (`drivers/*`) | containers, deployments, scalers, processes | list, create, destroy, clean up | one group per key whatever call fails |
| editoast client (`editoast/core_client`) | correlation ids, pool of channels, connection | call, dispatch a response, time out, reconnect | an answer reaches its caller; nothing leaks |
| core worker (`WorkerCommand.kt`) | unacknowledged deliveries, threads | load, take a request, reply, acknowledge, reject, exit | a request survives its worker |
| core caches (`InfraManager.kt`, `TimetableCacheManager.kt`) | entries with a status and a version | load, download, delete | no thread sees a half loaded entry |
| editoast core tasks (`core_task`) | chunks read from the cache, results to come | batched cached computations | one result per input |
| scenario trains (`useScenarioData`, lazy loaders) | list of trains, maps of simulations and projections, one queue and one batch in flight per loader | load, create, save, drag, delete, simulate, project, change infrastructure or path | removed trains stay removed; what is shown is at the list's departures and, once quiet, of the present versions |
| STDCM page (`useStdcm`, `stdcmConf`) | status, launches, cancel flag, simulations, selection | launch, cancel, select, retain, start again, load the environment | the selection exists; a stopped request adds nothing; the form is unlocked again |
| power restrictions (`powerRestrictionReducer`, selector) | path steps, restrictions by step ids, custom ranges | edit, cut, merge, delete, resize | restrictions refer to steps; steps are in order |
| itinerary (`usePathfinding`) | path steps, rolling stock, tag, state of the search, path | click, type, remove, reverse, reset, choose a stock or tag, suggested vias | the path shown is the present one; no step is off it; the search ends |
| macro editor (`MacroEditorState`, `osrdToNge`, `ngeToOsrd`) | nodes with two indices, trainrun ids, trains and round trips of editoast | events of the graphical editor, refresh | indices agree; editoast has what the editor shows |
| paced trains (`buildPacedTrainException`, `useOccurrenceActions`) | model train, pace, exceptions, form, selection | edit, disable, restore, delete, add, edit the model | exceptions name one occurrence each; an edit sticks and touches nothing else |
| other parts | see `PROJECT.json`: simulation, signaling, conflict detection, core's pathfinding and STDCM, web service and models, authorization, search, gateway, presentation, tools | | |

### What is hard

* Four tasks of osrdyne read the target at different times: the generation a client is given,
  the generation the controller reports and the statuses it reports advance separately.
* Update jobs of one key can overlap: an abort is asynchronous, a job that ended may wait to be
  joined while it is being replaced, and commands already sent are executed anyway.
* The reaction to nearly any error is to panic or end a task, which drops the connection, and
  with it the exclusive orphan queue, and starts all over from what the broker lists.
* Delays (unbind, delete, debounce, request time to live) race messages.
* A worker may die between reply and acknowledgement, and an error that kills the worker comes
  back with the redelivered request.

* In the page, requests are seldom cancelled and never numbered: an answer is applied to whatever
  the page holds when it comes. A callback made by `useCallback` uses the values of the render it
  was made in. A whole object is sent for every small edit, and the last answer wins.
* Trains are found by index, by key, by path key or by an id of another program, and each edit
  rewrites some of those references: a long sequence of legal edits is what breaks them.

`PROJECT.json` lists these hazards at their lines, with the properties aimed at each.

## 2. Modules

| Module | Code | Role |
|---|---|---|
| `QueueStatus` | `target_tracker.rs` `QueueStatus` | statuses and their successor; a key without a queue is `None` |
| `Spooldown` | the tracker as its subscribers see it | abstract specification: a target, a generation, what was published |
| `TargetTracker` | `target_tracker.rs`, `actor.rs`, `client.rs` | tables, timed actor loop, clients |
| `TargetTrackerProofs` | | inductive invariant, safety theorems, refinement of `Spooldown` |
| `ActivityProcessor` | `activity_processor` in `pool.rs` | composed with `TargetTracker` (EXTENDS): the processor is the tracker's client |
| `QueueController` | `queue_controller.rs`, reconnection of `main.rs` | loop, jobs, AMQP channel; broker external |
| `QueueControllerProofs` | | structure of jobs and channel, steering of each key, three safety theorems; balance of the pool's requests, the controller inside the pool |
| `Pool` | `orphan_processor`, `worker_control_loop`, `main.rs` | composed with `QueueController` (EXTENDS) |
| `CoreRpc` | `core_client/src/mq_client.rs`, `lib.rs`, `WorkerCommand.kt` | calls from editoast to core |
| `CoreRpcProofs` | | a request is in one place and is not lost |
| `LazyLoader` | `TrainSimulationLazyLoader`, `TrainProjectionLazyLoaderAbstract` | the promise chain of a loader, as operators |
| `ScenarioTrains` | `useScenarioData`, `useLazySimulateTrains`, `useLazyProjectTrains` | composes two `LazyLoader`s with the list of trains |
| `ScenarioTrainsProofs` | | maps of the hooks against the list; a quiet page is fresh |
| `Stdcm` | `useStdcm`, `stdcmConf`, `StdcmView`, `useStdcmEnv` | launches and the page around them |
| `Arrays` | `utils/array.ts`, array methods of JavaScript | filter, find, insert, sort and flatten, as operators without recursion |
| `ArrayProofs` | | lemmas about them, for the proofs about lists below |
| `PowerRestrictions` | `powerRestrictionReducer`, `usePowerRestrictionsSelectorBehaviours`, its helpers | restrictions and the steps made for them |
| `Itinerary` | `usePathfinding`, `setPointIti`, `insertViaFromMap`, `upsertPathStep`, buttons | overlapping searches for a path |
| `ItineraryProofs` | | the path shown is the present one; steps and restrictions are on it |
| `MacroNodes` | `MacroEditorState` | nodes and their indices, as operators |
| `MacroEditor` | `ngeToOsrd`, `osrdToNge`, `ScenarioContent` | events, their handlers, refreshes; uses `MacroNodes` |
| `PageProofs` | | STDCM: selection, stopped requests; power restrictions: references and order; macro editor: the indices |
| `PacedTrain` | `buildPacedTrainException`, `pacedTrain`, `useOccurrenceActions`, the form | exceptions under edits |
| `PacedTrainProofs` | | the selected occurrence; what edits do to exceptions |
| `MC*` | | constants for TLC |

Definitions that end in `_Something` after a mapped name (`require_queue_NoBump`) are faulty
variants: each states a plausible mistake, and is there to show that some property notices it.

**Target tracker.** One iteration of the actor is several steps: take a message or reach the
deadline, read the clock, `EvolveStep` once per due transition, handle the message, answer,
publish. Clients and the clock move between any two. The arena and its index are one table;
arena, priority queue and status map stay three variables because the code updates them
separately. `last_require` is a history variable.

**Queue controller.** A job is a record (status wanted, commands sent, answer of the last one,
aborted or not) in one of `JobsPerKey` slots of its key; `jobs_by_key` holds a slot, so a handle
may outlive or mistake its job exactly as in the code. One poll of `update_queue` is one step.
An aborted job may finish the poll it is in (tokio's rule) or be dropped; if it was cancelled,
joining it panics, because the code unwraps the `JoinError`. Commands of one channel are executed
in order; a refused one (bind of a missing queue, `if_empty` delete of a filled one) closes the
channel and fails every job that waits. After a panic `Reconnect` lists the queues and starts
again. The tracker is the environment here: `Require` and `SpoolDown` are the steps of
`Spooldown` with answer and publication in one. Both may come at any instant. The history variable
`overtaken` notes the keys that were spooled down, since the loop was started, while the controller
had not seen their previous change or a job of theirs was not joined (`~Ready`): a queue spooled down
too early may be left in an older state, which the properties say of these keys only.

**Pool.** The requests of each key are counted. `orphans` includes the delivery the processor holds, because it is
acknowledged last. A driver call is one step that succeeds or, within `MaxDriverFailures`, does
nothing. `cleanup_stalled` and the status page's list of workers change nothing modelled here.

**CoreRpc.** A call is its correlation id. Poisonous calls raise an unrecoverable `OSRDError`,
unknown ones name a path core does not serve. The dead letter of an expired request has no
correlation id (`pool.rs:579`), so editoast ignores it: expiry is the end of a request.

**The page.** JavaScript runs to the next await without interruption, so an action is what happens
between two answers of the network; a React state update is rendered before the next answer. The
server is modelled by the handlers of editoast and core behind the requests, each in one step that
succeeds or fails as a whole (one transaction); its answer comes then or later, in any order where
the code allows several.

**ScenarioTrains.** A train is a version, raised by each edit, a departure, and the kind of object the
page holds. Objects that come from the store (first fetch, creation) are frozen by Immer, a saved form
puts in an object of its own, a drag puts a copy into the list; the map of the projection hook keeps the
object it was given, and the assignment of the new departure to it throws when it is frozen
(`AssignStart`). A batch is computed
from the table of the moment the server handles it and fails as a whole if one of its trains is
gone. `lost` holds the trains of rejected batches.

**Stdcm.** A launch is one run of `launchStdcmRequest`, with its own program counter. All launches of
one mounted page share a status and one `isCancelledRef`; loading the environment unmounts the
page, and launches of the old page still write to the store.

**PowerRestrictions.** Sequential: one action per thing the user can do to a range, each the reducers
it dispatches in order. Positions are small integers, standing for millimetres that survive the
conversion to metres and back (section 5), and ids are chosen fresh.

**Itinerary.** A launch is one run of `launchPathfinding`, with up to four awaits. `byStock` and
`byTag` are what the two memoised callbacks close over; they are renewed when the array of steps is
replaced by another, which a launch with the same array does not do. Locations are points of a
line, and one the infrastructure does not know. `stale` becomes true when an older launch writes
after a newer one, a callback with outdated values is used or a via is taken from an outdated
list, and false at the next change of the itinerary.

**MacroEditor.** `tasks` are the handlers, the awaited one and those nobody waits for. Each refresh
makes a new `MacroEditorState`; a handler keeps the one it started with. `raced` records a refresh
or an unawaited label update in between.

**PacedTrain.** A PUT carries the whole train. The edit form is a modal over the list and works on
the train it was opened with. `selected.safe` is false when an occurrence was selected while a
PUT without it was under way. Change groups are compared by value but for `power_restrictions`, which
are stored with `path_and_schedule` and not compared (`Whole`). `Payload` is what
`formatPacedTrainWithDetailsToPacedTrainPayload` sends: without the speed limit tag, and with an
empty rolling stock name when the stock is not found; `Lost` names these fields. `want` is what the
user asked for, taken from the form or from the train shown and not from what is sent.

## 3. Runs

| Run | Instance | States | What it shows |
|---|---|---|---|
| `tracker` | 2 keys (one with a queue at startup), 2 clients, delays 2 and 1, clock to 4 | 769,000 | table consistency, progress of `evolve_until`, no early spool-down, generations, refinement of `Spooldown`; requires are answered and overdue transitions published without any message |
| `controller` | 2 keys, spool-downs up to generation 2, the first at any instant, 1 request, 1 lost connection, queues that may not drain | 3,758,000 | convergence when idle, no conflicting jobs, no request deleted |
| `controller_race` | violation: 1 key | | section 5 |
| `debounce` | violation: 2 keys, delays 2 and 1, clock to 6 | | section 5 |
| `pool` | 1 key, 2 requests, spool-downs up to generation 2, the first at any instant, 1 lost connection, 1 failed driver call | 859,000 | requests are accounted for and served; the target is reached for good |
| `rpc` | 3 calls (good, lethal, unknown path), 2 workers of 2 threads, 1 crash besides | 67,000 | a request is in one place, none is lost, good calls are answered |
| `scenario` | 2 trains in batches of 2, 2 edits, 2 infrastructures, projection on a path, batches rejected because a train was deleted | 706,000 | removed trains stay removed, projections follow the list but for dragged objects of the store, what is shown when quiet is fresh, simulations come when nothing is deleted |
| `stdcm` | 2 launches, 1 loading of the environment | 279,000 | the selection exists, stopped requests add nothing, "pending" ends |
| `power` | a path of 4 units with or without a via, 1 code, 5 edits | 47,000 | restrictions refer to steps, steps stay in order |
| `itinerary` | line of 3 points, a stored train without a rolling stock and a new one with it, 3 launches, 1 failed request | 118,000 | the path shown is the present one, steps and restrictions are on it, the search ends |
| `macro` | 3 stations, 2 trains, 2 operations, 1 edit elsewhere, labels | 1,242,000 | indices agree, what is drawn is saved |
| `paced` | 3 occurrences (or 1), 3 change groups, a stock that is found or not, 3 operations (selections too), 2 in flight | 1,370,000 | exceptions identify their occurrences, edits stick and leave the rest but for what the payload loses and the restrictions that are not compared, the selection exists |

Deadlock is not checked: all these systems stop when their bounded inputs are used up.

**Bounds.** Delays 2 and 1 distinguish the two instants of a schedule, the instants just before,
at and after them, and let two transitions be due at once; the clock goes past a full spool-down
after the last require. Two keys are what makes jobs share a channel and a refused command fail
another key's job; a third key only repeats it. Two slots per key hold a job and the one it
replaces; `controller_race` needs three. `MaxGeneration` lets a queue go through a full
spool-down, or two keys one step each, and after the bound each key can
still be required once. `MaxOvertaking` = 1 lets the first spool-down come at any instant; more
of them only add keys of which nothing is said. `pool` has one key because two keys with fairness are out of a run's
reach; so how the sequential orphan processor delays one key for another is not checked.

In `scenario` a batch is rejected when one of its trains was deleted; rejections for other reasons
(`MaxFailures`) are left to the proofs, which have any number of them.

In the page, two trains make a batch in which one is removed and one stays; two edits are one that
races an answer and one after it. Two launches of `stdcm` are one cancelled and the one that resets
its flag; three of `itinerary` are the first of the form and two edits that overlap it and each
other. Five edits of `power` make, split, resize, merge and delete a range. Two operations of `macro` and one
refresh between them are the shortest sequence in which ids of one load meet the state of another.
Three operations of `paced` make an exception, change it or its train, and undo it, with an
answer out of order; selecting an occurrence counts as one. Three occurrences leave one on each side
of the one edited.

**Timing assumptions**, all about delays that are minutes against steps that take milliseconds:

* None about when queues are spooled down. The tracker does not wait for the controller and runs
  on across reconnections; delays are ten minutes by default, so that the controller is usually
  done long before, but not when it was just started again. The safety properties hold for every
  key that is not in `overtaken`, whatever happens to the others; the liveness properties
  `EventuallyConverged` and `EventuallyServed` are about behaviours in which no key is (`[](overtaken = {})`, a
  premise and not a restriction of the model). `controller_race` shows what happens otherwise.
* `SpoolDown` moves a queue one status at a time. `Spooldown` also allows Active to nothing in one
  step, which takes a tracker that did not run for a whole `delete_delay`.
* A poll that is under way when its job is aborted ends before the broker's next answer.
* In `Pool` a key is also overtaken when it is spooled down while the orphan processor waits for it
  (`Awaited`): the processor then waits until the key is required again.
* `DrainInTime`: in the runs with liveness (and in the violation run, which does not depend on
  it) a queue is unbound and empty when it is deleted. Without it the code can loop: the delete is
  refused, the loop panics, the reconnection deletes again, and no worker is left to drain the
  queue. The run `controller` leaves it open.
* `Reconnect` succeeds, and commands of a dropped connection are executed before the new one
  lists the queues or not at all. A failing reconnection ends the process (`main.rs:157`).
* A request's time to live on the broker ends no later than its caller's timeout, the two being
  set from one value (`mq_client.rs:459`, `:489`).

**Fairness.** Weak fairness of what the schedulers run: the actor and the clock; the loop, its
jobs, the pool's tasks (tokio polls what is ready; `select!` takes its branches in random order,
hence the separate condition on the join branch); the broker's execution of commands, main's
reconnection; workers' steps and the dispatching loops. Nothing obliges clients to call, queues
to be spooled down, or a good call to time out. In the page: every request is answered or rejected,
and the page goes on by itself (effects, loaders); the user owes nothing.

## 4. Proofs

Every theorem holds for all sets of keys, calls, clients, workers, trains and inputs and for all
bounds, from the ASSUME of its module (bounds and delays are naturals, sizes are positive) and
from nothing else. Each rests on one inductive invariant, with
one lemma per action; `PROJECT.json` lists which property each theorem states.

**Target tracker** (`TargetTrackerProofs`): `TypeCorrect`, `TablesStayConsistent`,
`EvolveTerminates`, `NeverEarly`, `AnswerIsActive`, `PublishedFollowsTarget`, and
`ImplementsSpooldown`, from which `GenerationsNameTargets` follows. `TablesConsistent` and `TypeOK`
are not inductive alone: a due transition is only known to move a queue forward because
its planned instant is `event_time` of its schedule, and that instant is compared with the time
of the iteration. `IInv` adds that schedules start no earlier than the last require
(`StartsAfterRequire`), that a queue that left Active did so at an instant already past
(`LeftActiveInThePast`), that the time of the iteration is not ahead of the clock
(`IterationInThePast`), and that a generation that was answered is one in which the queue is
active until the generation changes (`AnswersHold`). The refinement maps `target`
to `state`: `EvolveStep` is `SpoolDown`, `HandleRequire` is `Require` (which changes nothing when
the key is active), `PublishTarget` is `Publish`, anything else is a stutter.

**Queue controller** (`QueueControllerProofs`): `RequestsAreKept`. Its invariant,
`Structure`, says what jobs, channel and JoinSet know of each other: a command on the channel is
the one its job awaits, unless that job was cancelled (`WireOwned`, `WireOnce`); the jobs that are over
are those to be joined, each once (`FinishedListed`, `FinishedOnce`); only a queue that exists
holds requests (`QueuesExist`), so that a delete that is not refused deletes nothing.

`JobsDoNotConflict` and `QuietControllerConverged` are about the keys that are not in `overtaken`, with
no assumption on when the tracker spools down: `controller_race` is the counterexample for the
others, and that the jobs of an overtaken key share channel, JoinSet and panics with those of the
rest and still do not disturb them is part of what is proved. The invariant `Steered` is about one
key at a time while the loop runs. A job is *current* when it works towards the target's status, *former*
otherwise. While a key that is not overtaken has jobs its target is only ever raised (`OnlyRaised`), so there is at most
one current job, whoever works unaborted is current, and jobs of a key on its way down can still
be aborted (`LoweredIsAbortable`). Joining a former job forgets the handle of the current
one, and nothing in these conditions needs that handle once the target is Active: this is why the
defect does no harm to these keys. For convergence the current job must end last. Its first
answer comes after the former jobs are over (`WaitsForFormer`, because a poll under way ends before
the broker's next answer), it is joined after them (`FormerFirst`), and what it was answered shows
in the queue (`QueueFollows`). A key with a failed or cancelled job is exempt: the loop panics when
it joins that job.

**Pool** (`QueueControllerProofs`): `NoRequestUnaccounted` is the balance of each key's requests. It needs
`Structure` for what the broker may do to a queue, and that the delivery the orphan processor holds
is in the orphan queue, part of the property itself: otherwise a reconnection between
republication and acknowledgement would count a request that is not there. `QuietPoolConverged`
carries `QuietMeansConverged` over to the composition: each step of the
pool is a step of the controller or moves requests only (`PoolStep`).

**Remote call** (`CoreRpcProofs`): `RequestInOnePlace` and `NoRequestLost`, with `IInv` that adds:
what is queued, held or on its way back was published (`OnlyPublished`); the dispatching loops
know a call that waits (`WaitingIsKnown`); a delivery is acknowledged once its reply is on its way
(`RepliedIsOnItsWay`); a worker holds finitely many deliveries, which go back to the queue each
once when it dies.

**Scenario** (`ScenarioTrainsProofs`): `RemovedForGood` and `ChartFollowsList` are proved
together: trains go from the simulation's map to the projection's as the list has them at that
moment, which is sound only because the simulation's map is part of the list; which object each map
holds is part of the invariant, since it decides whether a drag reaches the projection. The loaders' queues,
which keep the ids of removed trains, do not occur in that invariant: the maps are consulted when an
answer comes. `QuietTrainsAreFresh` (the property `QuietMeansFresh`) needs them: `FreshInv` says
that each train of a map is being edited, queued, in the batch, lost in a rejected batch, or has the
result it should have (`Accounted`); that an answer already received is of the present version
unless the train is queued again or being edited, and that only a rejection leaves trains queued
without a batch (`Runs`); and that the list has the server's versions but for the edits under way
(`ServerKnows`). One lemma per function of a hook (`SoundSimulate`, `SoundRemove`, `SoundServe`,
`SoundFail`, `SoundProgress`, `SoundRestart`, `SoundUpdate`) serves both hooks. `Train` is assumed
finite: a hook writes its trains into a queue.

**STDCM** (`PageProofs`): `SelectionIsSound` and `StoppedLeavesNothing`. A launch that was stopped
takes no further step (`StoppedIsOver`), and simulations are added by the last step of a launch
(`SimulationsAreFinal`); that the flag is shared with later launches does not matter for this.

**Arrays** (`ArrayProofs`). The page's data are lists that are filtered, searched, inserted into, sorted
and flattened. `Arrays` defines these operations by what they give (the increasing numbering of the
indices kept, the order of places) and not by recursion, so that the lemmas need no induction over
data: a least counterexample, or counting the elements before a place, does instead.

**Power restrictions** (`PageProofs`): `RestrictionsKeepTheirSteps` and `PathStaysInOrder`, with `PowerInv`: the
steps are a path from 0 to its length, every restriction is between steps of it, and the custom
ranges are between positions. The order is stated for every two steps, not for neighbours, which
is what filtering keeps. Ranges shown lie on the path, so a step made at the end of one is
inserted neither before the origin nor after the destination; `cleanPathSteps` keeps both and every
step that some restriction names, which is why references and order are one invariant.

**Itinerary** (`ItineraryProofs`): `StepsAreFound`, `ThePathIsCurrent` and `RestrictionsAreOnPath`. `IInv` has a part
that always holds: the steps marked invalid are the unknown points, all of them once core has
told them (`Sane`), also in the steps each launch works on (`LaunchSane`), and no callback is ahead of the
worker (`NotAhead`). The rest (`Fresh`) holds while nothing outdated was used (`~stale`): the launch that
counts works for the present stock, tag and restrictions and shows nothing before it ends
(`LaunchCurrent`), and a path that is shown is the path of the present steps, each at its position on it
(`PathShown`). Older launches may still be under way; that they cannot write without `stale` becoming
true is what the proof comes down to, one lemma per await of `launchPathfinding`.

**Paced trains** (`PacedTrainProofs`): `SelectionExists`. The invariant looks ahead (`SelectionSafe`):
the selection is in the train shown and in each train a PUT under way may put in its place.
`OccurrencesIdentified`, `EditsStick`, and the action properties `OthersStay` and `ChangesSurvive` rest on
`ExceptionInv`: the train shown, the one in the form and those of the PUTs under way all name each
occurrence once, use each key once, and have only exceptions that fit their pace (`TrainsSound`);
the form is about an occurrence of its own train (`FormSound`); keys of drafted exceptions are in no
train the form can be opened with (`DraftsSound`). An exception has power restrictions exactly when it has
a path and schedule (`Paired`), which is why one that loses its path loses nothing but them. What the list operations return is characterised
once (`IsUpdate`, `Replaces`, `IsChecked`, `IsJoin`), and one lemma per action shows the invariant in
the next state and both action properties of the step together (`StepGood`): each needs that the
exception sought is the only one found.

**Macro editor** (`PageProofs`): `IndicesAgree`. `IndexSound` is not inductive: `indexNodeByKey` writes the index of
a node's new key, and another node could be there. `Calm` adds what keeps it free: every live node of the
current state has its row in editoast, under its key (`CurrentSaved`), and so have the nodes a refresh
has read or will give new ids (`RefreshesSound`, `RowsNumbered`). Editoast refuses a second row with a key,
so an accepted rename or creation means that no other node of the state has the key. All tasks work on the
current state (`TasksCurrent`). This is the case until `raced`, which the property excludes: a handler that
outlives its state works on one whose rows may be gone. Aliases made by `dedupNodes` are covered: a node
drawn with the trigram of an alias takes the place of the node the alias leads to.

Only model-checked, and why:

* liveness (`RequireIsAnswered`, `OverdueIsPublished`, `EventuallyServed`, `EventuallyConverged`,
  `GoodCallsAnswered`, `EventuallySimulated`, `PendingEnds`, `RunningEnds`): fairness is out of the proof
  system's reach;
* `QuietMeansSaved` of `MacroEditor`: it is not true of all constants. Where paths name one station both by
  trigram and by id, the node drawn in place of the merged one (see above) leaves the trainruns through the
  old one without their node. The run's instance names each station in one way. A proof would
  need this as a condition on the paths, kept by every step, besides an invariant of the half
  done updates; it was not attempted.

## 5. Where the code does otherwise

Two disagreements are runs of their own:

* `controller_race` - joining a job forgets the abort handle of the job that replaced it
  (`queue_controller.rs:99`); the next change leaves two jobs of one key at work (`JobsNeverConflict`, the comment at `:84`);
* `debounce` - the test of the activity processor is the wrong way round (`pool.rs:424`): it drops the
  reports that come late and forwards those that come close together, so that a group that
  reported less than `unbind_delay` ago is spooled down. `client.rs:22` says that debouncing
  does not lower the active time of worker groups (`ActivityKeepsActive`).

The others were met while modelling. The models follow the code; the properties say what holds all
the same.

In osrdyne, editoast and core:

* the extra lifetime is ignored when the required queue exists (`target_tracker.rs:181`), against the
  comment of `schedule_start` (`:37`);
* a status reported Active can be older than the reported generation (`pool.rs:372`, comment `:367`):
  the orphan processor republishes to a queue that is not bound, and the request comes back;
* `final_message` is negated (`mq_client.rs:171`): correlation ids of answered calls stay in
  `response_tracker`, as do those of failed and timed out calls (`:193`);
* a failing reconnection ends the process (`main.rs:157`), and the dead letter responder stops after
  200 letters it never acknowledges (`pool.rs:553`).

In the page:

* one deleted train makes the simulations of its whole batch be thrown away
  (`formatTimetableItemSummaries.ts:23`), and the loader stops with ids still waiting, although
  `useLazySimulateTrains.ts:26-27` promises completed simulations for these trains; `EventuallySimulated`
  keeps that promise only where nothing is deleted or rejected;
* the new departure of a dragged train is assigned to the object the projection hook holds
  (`useLazyProjectTrains.ts:130`), which for a train of the first fetch or a creation is an object of
  the store: Immer froze it and the assignment throws. The curve has moved already, but the next
  projection draws the train at its old departure, against the comment at `:124-127`;
* positions on the path are turned from millimetres into metres and back, and compared with `===`
  (`PowerRestrictionsSelector/helpers/utils.ts:11`): for about one whole number of millimetres in seventy
  (1001 is the first) the result is another double. The step is then not found, and a
  second one is made a rounding error beside it, which at the destination may come to lie behind
  the last step and be inserted before it. The model has no such positions;
* cancelling a request aborts the additional requests of a later launch too (`useStdcm.ts:248`), and a
  request answered after the environment was reset adds its simulation to the new page;
* `cutPowerRestrictionRanges` cuts a range at the next via instead of at its end when it
  covers several steps (`powerRestrictionReducer.ts:76`, comment `:74`);
* an older search for a path overwrites the steps of a newer one (`usePathfinding.ts:228`), which can
  leave steps off the path shown and makes `upsertPathStepsInOPs` throw; a rolling stock chosen while
  the search for a new tag runs is searched with the old tag (`ManageTimetableItem.tsx:107`);
  starting again for invalid steps uses the rolling stock the launch closed over and
  drops the restrictions of a train that was only opened (`usePathfinding.ts:152`); a rolling
  stock that cannot be read leaves the search running (`:274`); suggested vias come from the
  list the window was opened with (`ModalSuggestedVias.tsx:87`);
* an event of the macro editor is handled with the ids of a later refresh (`ScenarioContent.tsx:148`),
  and of two refreshes the slower one is kept (`:90`); a node drawn with the trigram of a station that
  paths also name by id replaces the merged node (`MacroEditorState.ts:168`);
* an edit of one occurrence sends the train without its speed limit tag
  (`formatTimetableItemPayload.ts:79`: `formatPacedTrainWithDetails` has renamed it), although the
  comment at `:148` says the exact same train is sent; a rolling stock that is not found becomes the empty
  name in the same payload (`:77`), for every occurrence; an edit of nothing but the power restrictions of an
  occurrence makes no exception, and an exception that comes to differ from its train in nothing else is
  dropped (`buildPacedTrainException.ts:56`, `:254`: `computeBasePathStep` has no power restrictions); occurrence 0 is taken for no index
  (`trainId.ts:143`); leaving the form keeps the exceptions drafted in it
  (`ManageTimetableItemLeftPanel.tsx:56`).

## 6. Plan

Done: target tracker with its abstract specification and proofs; queue controller with reconnections;
activity processor; pool; remote call; of the page, the scenario's trains, STDCM, power
restrictions, itinerary, macro editor and paced trains; proofs of every safety invariant and action
property of the passing runs but `QuietMeansSaved`. To come, in order:

1. `QuietMeansSaved` under a condition on the names in paths, and its proof;
2. `WorkerDriver`: the drivers as sequences of API calls that may fail between any two, refining the
   one-step driver calls of `Pool`;
3. dead letter responder, editoast's channel pool and reconnection;
4. `InfraManager` and `TimetableCacheManager`: threads that load, reload, fail and delete under one
   entry's lock; `CoreTask`: one result per input, whatever fails.

## 7. Not modelled

Of osrdyne: status API, management client, configuration and logging (input and output only). Of
core: train simulation, pathfinding and STDCM (floating point, large graphs). Of editoast: the web
service, its database models and the infrastructure cache (concurrency is the database's),
authorization (OpenFGA) and search (SQL). The gateway, Python tools and deployment files.

Of the front end, most of its lines: components that render one state, charts, maps, styles,
translations, generated API types, test data and storybooks have no state of their own to get
wrong over several steps, and a model of them would be their text again. Of what has state: the
times and stops table, the new itinerary window (`ItineraryModal`, `usePathfindingV2`), the groups
`options` and `initial_speed` of an exception and the conversion between unique and paced trains,
notes and box positions of the macro editor, the infrastructure and rolling stock editors. The cache of RTK Query is
taken to be transparent. Two edits of one train in flight at once are left out of `ScenarioTrains`, and positions
that floating point conversion changes out of `PowerRestrictions`.
`PROJECT.json` gives the reason for each component.

## 8. Running

    tlc -workers 2 -config MCTargetTracker.cfg MCTargetTracker
    tlapm TargetTrackerProofs.tla
    tlapm QueueControllerProofs.tla

and likewise for each run listed in `PROJECT.json`. With two workers a run takes from ten
seconds to four minutes; the proofs of a module take from seconds to some ten minutes.
