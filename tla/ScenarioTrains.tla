--------------------------- MODULE ScenarioTrains ---------------------------
(***************************************************************************)
(* The trains of one scenario in one browser tab: the list of timetable    *)
(* items (useScenarioData), their simulations (useLazySimulateTrains) and  *)
(* their projections on the current path (useLazyProjectTrains), each      *)
(* filled batch by batch by a lazy loader while the user edits trains.     *)
(*                                                                         *)
(* A train is a version (its content, raised by every edit), a departure   *)
(* time, and the kind of object the page holds: one of the store, which    *)
(* Immer froze ("frozen"), a copy that a drag made of such a one ("copy"), *)
(* or one that the page built ("own"). db is editoast's table of trains: a *)
(* batch is computed from db when the server handles it, and fails as a    *)
(* whole when one of its trains is gone. State updates of React are        *)
(* rendered before the next network answer is handled. An edit of a train  *)
(* starts when the previous edit of that train is answered.                *)
(***************************************************************************)
EXTENDS LazyLoader, FiniteSets

CONSTANTS
  Train,        \* database ids of trains
  Timetables,   \* the sets of trains a page may find when it is opened
  MaxEdits,     \* bound: trains created, saved, dragged or deleted
  MaxInfras,    \* bound: simulation loaders, one per infra and profile set
  MaxPaths,     \* bound: projection loaders, one per path and kind
  MaxFailures   \* bound: batches the server rejects for another reason

ASSUME ScenarioAssumption ==
  /\ MaxEdits \in Nat /\ MaxInfras \in Nat /\ MaxPaths \in Nat /\ MaxFailures \in Nat
  /\ IsFiniteSet(Train) /\ Timetables \subseteq SUBSET Train

VARIABLES
  db,        \* editoast: train -> version
  used,      \* ids given so far
  inFlight,  \* train -> the edit whose answer is on its way
  loaded,    \* the list was fetched
  ready,     \* workerStatus is READY
  items,     \* timetableItems: train -> [ver, start, obj]
  sim,       \* useLazySimulateTrains, a hook (below)
  proj,      \* useLazyProjectTrains, a hook
  edits, failures   \* used up of the bounds

server == <<db, used, inFlight, edits>>
vars   == <<server, loaded, ready, items, sim, proj, failures>>

Empty == [t \in {} |-> 0]
Without(f, S) == [t \in DOMAIN f \ S |-> f[t]]
Only(t, v)    == [x \in {t} |-> v]
\* f, and g where f says nothing. (The provers do not know TLC's @@.)
Over(f, g)    == [t \in DOMAIN f \cup DOMAIN g |-> IF t \in DOMAIN f THEN f[t] ELSE g[t]]

\* The requests a loader sends for a batch: the summaries; the curves and, when
\* there is a path, the occupancy blocks.
Parts == {"summary", "curves", "blocks"}
NoAnswer == [part \in {} |-> Empty]

\* A hook: mode is the loader it has ("none": no loader), opts the options of
\* that loader, ref its timetableItemsByIdRef, results the map it returns, answer
\* what the server answered to the batch in flight, and lost (history) the
\* trains whose last batch was rejected.
Hook == [mode |-> "none", opts |-> 0, ref |-> Empty, loader |-> NewLoader,
         answer |-> NoAnswer, results |-> Empty, lost |-> {}]

Init ==
  /\ \E S \in Timetables : db = [t \in S |-> 0] /\ used = S
  /\ inFlight = Empty
  /\ loaded = FALSE /\ ready = FALSE /\ items = Empty
  /\ sim = Hook /\ proj = Hook
  /\ edits = 0 /\ failures = 0

-----------------------------------------------------------------------------
(* The functions the hooks return.                                         *)

\* Trains are noted in the map and, when there is a loader, queued.
SimulateTimetableItems(h, its) ==
  [h EXCEPT !.ref = Over(its, @),
            !.loader = IF h.mode = "none" THEN @ ELSE Enqueue(@, SetToSeq(DOMAIN its))]

ProjectTimetableItems(h, its) == SimulateTimetableItems(h, its)

\* Only the maps forget the trains: the loader keeps the ids.
RemoveSimulatedTimetableItems(h, S) ==
  [h EXCEPT !.ref = Without(@, S), !.results = Without(@, S)]

RemoveProjectedTimetableItems(h, S) ==
  [h EXCEPT !.ref = Without(@, S), !.results = Without(@, S)]

SetStart(f, t, s) == IF t \in DOMAIN f THEN [f EXCEPT ![t].start = s] ELSE f

\* Fault: the train noted for later projections keeps its old departure.
UpdateProjectedDepartureTime_OldReference(h, t, s) == [h EXCEPT !.results = SetStart(@, t, s)]

\* The assignment to a train of the map. It throws on an object of the store.
AssignStart(ref, t, s) ==
  IF t \in DOMAIN ref /\ ref[t].obj = "frozen" THEN ref ELSE SetStart(ref, t, s)

\* The curve moves, then the train noted for later projections.
UpdateProjectedDepartureTime(h, t, s) ==
  [h EXCEPT !.results = SetStart(@, t, s), !.ref = AssignStart(@, t, s)]

-----------------------------------------------------------------------------
(* The list of trains.                                                     *)

\* "First load of the summaries": the effect runs after every change of the
\* list, of the worker status and of the simulations, and simulates the whole
\* list as long as there is no simulation. h is the hook after the rest of the
\* step.
FirstLoad(h) ==
  IF loaded' /\ ready' /\ h.results = Empty THEN SimulateTimetableItems(h, items') ELSE h

\* The answer to the first fetch of the list: objects of the store.
FetchTimetableItems ==
  /\ ~loaded /\ loaded' = TRUE
  /\ items' = [t \in DOMAIN db |-> [ver |-> db[t], start |-> 0, obj |-> "frozen"]]
  /\ UNCHANGED <<server, ready, proj, failures>>
  /\ sim' = FirstLoad(sim)

\* The poll of the worker status says READY and ends.
WorkerReady ==
  /\ ~ready /\ ready' = TRUE
  /\ UNCHANGED <<server, loaded, items, proj, failures>>
  /\ sim' = FirstLoad(sim)

\* The user starts an edit of kind k; editoast applies it.
Edit(t, k) ==
  /\ loaded /\ edits < MaxEdits /\ t \notin DOMAIN inFlight
  /\ IF k = "create" THEN t \notin used ELSE t \in DOMAIN items
  /\ db' = IF k = "delete" THEN Without(db, {t})
           ELSE IF k = "drag" THEN db ELSE Over(Only(t, edits + 1), db)
  /\ used' = used \cup {t}
  /\ inFlight' = Over(Only(t, [kind |-> k, stamp |-> edits + 1]), inFlight)
  /\ edits' = edits + 1
  /\ UNCHANGED <<loaded, ready, items, sim, proj, failures>>

Answered(t, kinds) ==
  /\ t \in DOMAIN inFlight /\ inFlight[t].kind \in kinds
  /\ inFlight' = Without(inFlight, {t})
  /\ UNCHANGED <<db, used, edits, loaded, ready, failures>>

\* The train of an answer: of a creation as it came, of a saved form as the form
\* sent it.
UpsertedItem(edit) ==
  [ver |-> edit.stamp, start |-> edit.stamp, obj |-> IF edit.kind = "create" THEN "frozen" ELSE "own"]

\* The answer to a creation or to a saved form: the projection is dropped, and
\* the train simulated again.
UpsertTimetableItems(t) ==
  /\ Answered(t, {"create", "save"})
  /\ items' = Over(Only(t, UpsertedItem(inFlight[t])), items)
  /\ proj' = RemoveProjectedTimetableItems(proj, {t})
  /\ sim' = FirstLoad(SimulateTimetableItems(sim, Only(t, items'[t])))

\* The answer to a deletion.
RemoveTimetableItems(t) ==
  /\ Answered(t, {"delete"})
  /\ items' = Without(items, {t})
  /\ proj' = RemoveProjectedTimetableItems(proj, {t})
  /\ sim' = FirstLoad(RemoveSimulatedTimetableItems(sim, {t}))

\* The list takes a copy of the train with the new departure.
Dragged(f, t, s) ==
  IF t \in DOMAIN f
  THEN [f EXCEPT ![t] = [ver |-> @.ver, start |-> s, obj |-> IF @.obj = "own" THEN "own" ELSE "copy"]]
  ELSE f

\* The answer to a drag: the train is neither simulated nor projected again.
\* (The start time of a simulation is not modelled.)
SetTimetableItemDepartureTime(t) ==
  /\ Answered(t, {"drag"})
  /\ items' = Dragged(items, t, inFlight[t].stamp)
  /\ proj' = UpdateProjectedDepartureTime(proj, t, inFlight[t].stamp)
  /\ sim' = FirstLoad(sim)

-----------------------------------------------------------------------------
(* Batches.                                                                *)

\* The server answers one request of the batch in flight of h: from
\* its table, or not at all when a train is gone or something else fails.
Serve(h, part) ==
  LET ids == ToSet(h.loader.batch)
      ok  == [h EXCEPT !.answer = Over(Only(part, [t \in ids |-> db[t]]), @)]
      rejected == [h EXCEPT !.answer = Over(Only(part, Empty), @)]
  IN  IF ids \subseteq DOMAIN db
      THEN {ok} \cup (IF failures < MaxFailures THEN {rejected} ELSE {})
      ELSE {rejected}

Rejected(h, part) == part \in DOMAIN h.answer /\ h.answer[part] = Empty

\* processBatch of the simulation loader: one request.
SimulationRequests == {"summary"}

\* processBatch of the track projection: curves and blocks, both awaited.
TrackProjectionRequests == {"curves", "blocks"}

\* processBatch of the projection on operational points: the blocks only with
\* a path.
OpProjectionRequests(mode) == IF mode = "opWithPath" THEN {"curves", "blocks"} ELSE {"curves"}

ProjectionRequests(mode) ==
  IF mode = "track" THEN TrackProjectionRequests ELSE OpProjectionRequests(mode)

ServeSimulation ==
  /\ sim.loader.batch # <<>>
  /\ \E part \in SimulationRequests \ DOMAIN sim.answer : sim' \in Serve(sim, part)
  /\ failures' = IF \E part \in Parts : Rejected(sim', part) /\ ToSet(sim.loader.batch) \subseteq DOMAIN db
                 THEN failures + 1 ELSE failures
  /\ UNCHANGED <<server, loaded, ready, items, proj>>

ServeProjection ==
  /\ proj.loader.batch # <<>>
  /\ \E part \in ProjectionRequests(proj.mode) \ DOMAIN proj.answer :
       /\ proj' \in Serve(proj, part)
       /\ failures' = IF Rejected(proj', part) /\ ToSet(proj.loader.batch) \subseteq DOMAIN db
                      THEN failures + 1 ELSE failures
  /\ UNCHANGED <<server, loaded, ready, items, sim>>

\* The loader goes on with the results of its batch.
Progress(h, results) ==
  [h EXCEPT !.results = Over(results, @), !.lost = @ \ ToSet(h.loader.batch),
            !.answer = NoAnswer, !.loader = BatchDone(@)]

\* Nothing of the batch is kept.
Fail(h) ==
  [h EXCEPT !.lost = @ \cup ToSet(h.loader.batch), !.answer = NoAnswer, !.loader = BatchFailed(@)]

\* formatTimetableItemSummaries throws "Missing timetable item" when a train of
\* the batch is not in the map any more.
CanFormatSummaries == ToSet(sim.loader.batch) \subseteq DOMAIN sim.ref

\* The summaries reach the hook, whose onProgress hands the trains over to the
\* projection.
SimulationProgress ==
  LET ids == ToSet(sim.loader.batch) IN
  /\ DOMAIN sim.answer = SimulationRequests /\ ~Rejected(sim, "summary") /\ CanFormatSummaries
  /\ sim' = Progress(sim, [t \in ids |-> [ver |-> sim.answer["summary"][t], opts |-> sim.opts]])
  /\ proj' = ProjectTimetableItems(proj, [t \in ids |-> items[t]])
  /\ UNCHANGED <<server, loaded, ready, items, failures>>

SimulationFails ==
  /\ DOMAIN sim.answer = SimulationRequests
  /\ Rejected(sim, "summary") \/ ~CanFormatSummaries
  /\ sim' = Fail(sim)
  /\ UNCHANGED <<server, loaded, ready, items, proj, failures>>

Drawn(h, t, start) ==
  [opts |-> h.opts, start |-> start, ver |-> [part \in DOMAIN h.answer |-> h.answer[part][t]]]

\* Fault: the projection of a train that was removed meanwhile is kept.
UpsertNewProjectedTrains_AnyTrain(h) ==
  [t \in ToSet(h.loader.batch) |-> Drawn(h, t, IF t \in DOMAIN items THEN items[t].start ELSE 0)]

\* Trains that are not in the map any more are passed over.
UpsertNewProjectedTrains(h) ==
  [t \in ToSet(h.loader.batch) \cap DOMAIN h.ref |-> Drawn(h, t, h.ref[t].start)]

ProjectionProgress ==
  /\ proj.loader.batch # <<>>
  /\ DOMAIN proj.answer = ProjectionRequests(proj.mode)
  /\ \A part \in DOMAIN proj.answer : ~Rejected(proj, part)
  /\ proj' = Progress(proj, UpsertNewProjectedTrains(proj))
  /\ UNCHANGED <<server, loaded, ready, items, sim, failures>>

\* The curves are awaited first: blocks that are rejected are noticed when the
\* curves are there.
ProjectionFails ==
  /\ Rejected(proj, "curves") \/ (Rejected(proj, "blocks") /\ "curves" \in DOMAIN proj.answer)
  /\ proj' = Fail(proj)
  /\ UNCHANGED <<server, loaded, ready, items, sim, failures>>

-----------------------------------------------------------------------------
(* A change of options cancels the loader; the new one, when there is one, *)
(* starts with every train of the map.                                     *)

\* Fault: the new loader starts empty.
Restart_Empty(h, mode, opts) ==
  [h EXCEPT !.mode = mode, !.opts = opts, !.answer = NoAnswer, !.lost = {}, !.loader = NewLoader]

Restart(h, mode, opts) ==
  [h EXCEPT !.mode = mode, !.opts = opts, !.answer = NoAnswer, !.lost = {},
            !.loader = IF mode = "none" THEN NewLoader
                       ELSE Enqueue(NewLoader, SetToSeq(DOMAIN h.ref))]

\* The rolling stocks arrive, or the infra or the electrical profiles change.
NewSimulationLoader ==
  /\ sim.opts < MaxInfras
  /\ sim' = Restart(sim, "simulation", sim.opts + 1)
  /\ UNCHANGED <<server, loaded, ready, items, proj, failures>>

\* Path, kind of projection or operational points change. Without a path and
\* with fewer than two points there is no loader.
NewProjectionLoader(mode) ==
  /\ proj.opts < MaxPaths
  /\ proj' = Restart(proj, mode, proj.opts + 1)
  /\ UNCHANGED <<server, loaded, ready, items, sim, failures>>

Modes == {"none", "track", "opWithPath", "op"}

Next ==
  \/ FetchTimetableItems \/ WorkerReady
  \/ \E t \in Train, k \in {"create", "save", "drag", "delete"} : Edit(t, k)
  \/ \E t \in Train : UpsertTimetableItems(t)
  \/ \E t \in Train : RemoveTimetableItems(t)
  \/ \E t \in Train : SetTimetableItemDepartureTime(t)
  \/ ServeSimulation \/ SimulationProgress \/ SimulationFails
  \/ ServeProjection \/ ProjectionProgress \/ ProjectionFails
  \/ NewSimulationLoader \/ \E mode \in Modes : NewProjectionLoader(mode)

Spec == Init /\ [][Next]_vars

\* The page goes on by itself and the server answers; the user owes nothing.
Fairness ==
  /\ WF_vars(FetchTimetableItems) /\ WF_vars(WorkerReady)
  /\ WF_vars(sim.mode = "none" /\ NewSimulationLoader)
  /\ \A t \in Train : WF_vars(UpsertTimetableItems(t) \/ RemoveTimetableItems(t)
                              \/ SetTimetableItemDepartureTime(t))
  /\ WF_vars(ServeSimulation) /\ WF_vars(SimulationProgress \/ SimulationFails)
  /\ WF_vars(ServeProjection) /\ WF_vars(ProjectionProgress \/ ProjectionFails)

FairSpec == Spec /\ Fairness

-----------------------------------------------------------------------------
(* Properties.                                                             *)

\* A train that was removed has no simulation and no projection, whatever was
\* in flight when it was removed (formatTimetableItemSummaries and
\* upsertNewProjectedTrains look it up when the answer comes).
RemovedTrainsStayRemoved ==
  /\ DOMAIN sim.ref \subseteq DOMAIN items /\ DOMAIN sim.results \subseteq DOMAIN items
  /\ DOMAIN proj.ref \subseteq DOMAIN items /\ DOMAIN proj.results \subseteq DOMAIN items

\* The chart follows the list through edits and drags as far as the objects of
\* the page let it: the map of the projection hook has each train in the version
\* of the list, and at its departure unless the object it holds is the store's
\* (updateProjectedTimetableItemDepartureTime cannot assign to that); and a train
\* is drawn at the departure of the list unless such an object was ever dragged.
ProjectionFollowsList ==
  /\ \A t \in DOMAIN proj.ref \cap DOMAIN items :
       /\ proj.ref[t].ver = items[t].ver
       /\ proj.ref[t].obj = "frozen" \/ proj.ref[t].start = items[t].start
  /\ \A t \in DOMAIN proj.results \cap DOMAIN items :
       items[t].obj = "copy" \/ proj.results[t].start = items[t].start

SimulationFresh(t) ==
  t \in DOMAIN sim.results /\ sim.results[t] = [ver |-> items[t].ver, opts |-> sim.opts]

ProjectionFresh(t) ==
  /\ t \in DOMAIN proj.results /\ proj.results[t].opts = proj.opts
  /\ proj.results[t].ver = [part \in ProjectionRequests(proj.mode) |-> items[t].ver]

\* A batch was rejected and no later one has been started.
Stopped(h) == h.lost # {} /\ h.loader.batch = <<>>

Awaited(h) == h.lost \cup IF Stopped(h) THEN ToSet(h.loader.pending) ELSE {}

\* When every answer is in, each train a hook knows is simulated as it is now,
\* with the present options, or projected on the present path, curves and blocks
\* of the same version, unless its last batch was rejected or it still waits
\* behind one that was.
QuietMeansFresh ==
  inFlight = Empty /\ sim.loader.batch = <<>> /\ proj.loader.batch = <<>> =>
    /\ sim.mode # "none" => \A t \in DOMAIN sim.ref \ Awaited(sim) : SimulationFresh(t)
    /\ proj.mode # "none" => \A t \in DOMAIN proj.ref \ Awaited(proj) : ProjectionFresh(t)

\* "[simulatedTrainsById] is eventually populated" (useLazySimulateTrains), as
\* long as the user deletes no train and the server rejects no batch: each train
\* handed to the simulation hook is some day simulated as it is now, whatever is
\* saved, dragged or created and however often the options change meanwhile.
EventuallySimulated ==
  [](used = DOMAIN db /\ failures = 0) =>
    \A t \in Train : t \in DOMAIN sim.ref ~> SimulationFresh(t)
=============================================================================
