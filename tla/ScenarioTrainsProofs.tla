------------------------- MODULE ScenarioTrainsProofs -------------------------
(***************************************************************************)
(* Proofs, for any trains, batch sizes, edits, failures and changes of     *)
(* options, that a removed train is neither simulated nor drawn again,     *)
(* that the chart is where the list says but for dragged objects of the    *)
(* store, and that what a quiet page shows is of the present versions,     *)
(* options and path.                                                       *)
(***************************************************************************)
EXTENDS ScenarioTrains, FiniteSetTheorems, SequenceTheorems, TLAPS

\* The shapes of the maps and records, which EXCEPT relies on.
IsMap(f)   == f = [t \in DOMAIN f |-> f[t]]
IsItem(i)  == i \in [ver : {i.ver}, start : {i.start}, obj : {i.obj}]
IsDrawn(d) == d \in [opts : {d.opts}, start : {d.start}, ver : {d.ver}]
IsHook(h)  ==
  h \in [mode : {h.mode}, opts : {h.opts}, ref : {h.ref}, loader : {h.loader},
         answer : {h.answer}, results : {h.results}, lost : {h.lost}]

ListShape == IsMap(items) /\ \A t \in DOMAIN items : IsItem(items[t])

\* Before the list is fetched there is nothing to show and nothing to edit.
NothingBeforeFetch == ~loaded => DOMAIN items = {} /\ DOMAIN inFlight = {}

\* The hooks know trains of the list only, and the projection hook knows them as
\* the list does, but for the departure of a train of the store that was dragged.
SimulationKnown ==
  IsHook(sim) /\ DOMAIN sim.ref \subseteq DOMAIN items /\ DOMAIN sim.results \subseteq DOMAIN items

ProjectionKnown ==
  /\ IsHook(proj) /\ IsMap(proj.ref) /\ IsMap(proj.results)
  /\ DOMAIN proj.ref \subseteq DOMAIN items /\ DOMAIN proj.results \subseteq DOMAIN items
  /\ \A t \in DOMAIN proj.ref :
       /\ IsItem(proj.ref[t]) /\ proj.ref[t].ver = items[t].ver
       /\ proj.ref[t].obj = "frozen" \/ proj.ref[t].start = items[t].start
       /\ items[t].obj = "copy" \/ proj.ref[t] = items[t]
  /\ \A t \in DOMAIN proj.results :
       /\ IsDrawn(proj.results[t])
       /\ items[t].obj = "copy" \/ proj.results[t].start = items[t].start

\* The inductive invariant.
IInv == ListShape /\ NothingBeforeFetch /\ SimulationKnown /\ ProjectionKnown

-----------------------------------------------------------------------------
(* The operators on maps and hooks.                                        *)

LEMMA EmptyMap == DOMAIN Empty = {} /\ IsMap(Empty)
  BY DEF Empty, IsMap

LEMMA OnlyEffect ==
  ASSUME NEW t, NEW v
  PROVE  DOMAIN Only(t, v) = {t} /\ Only(t, v)[t] = v
  BY DEF Only

LEMMA OverEffect ==
  ASSUME NEW f, NEW g
  PROVE  /\ IsMap(Over(f, g)) /\ DOMAIN Over(f, g) = DOMAIN f \cup DOMAIN g
         /\ \A t \in DOMAIN f : Over(f, g)[t] = f[t]
         /\ \A t \in DOMAIN g \ DOMAIN f : Over(f, g)[t] = g[t]
  BY DEF IsMap, Over

LEMMA WithoutEffect ==
  ASSUME NEW f, NEW S
  PROVE  /\ IsMap(Without(f, S)) /\ DOMAIN Without(f, S) = DOMAIN f \ S
         /\ \A t \in DOMAIN f \ S : Without(f, S)[t] = f[t]
  BY DEF IsMap, Without

LEMMA SimulateEffect ==
  ASSUME NEW h, IsHook(h), NEW its
  PROVE  /\ IsHook(SimulateTimetableItems(h, its))
         /\ SimulateTimetableItems(h, its).ref = Over(its, h.ref)
         /\ SimulateTimetableItems(h, its).results = h.results
         /\ SimulateTimetableItems(h, its).mode = h.mode
  BY DEF SimulateTimetableItems, IsHook

LEMMA RemoveEffect ==
  ASSUME NEW h, IsHook(h), NEW S
  PROVE  /\ IsHook(RemoveSimulatedTimetableItems(h, S))
         /\ RemoveSimulatedTimetableItems(h, S).ref = Without(h.ref, S)
         /\ RemoveSimulatedTimetableItems(h, S).results = Without(h.results, S)
         /\ RemoveSimulatedTimetableItems(h, S).mode = h.mode
         /\ RemoveProjectedTimetableItems(h, S) = RemoveSimulatedTimetableItems(h, S)
  BY DEF RemoveSimulatedTimetableItems, RemoveProjectedTimetableItems, IsHook

LEMMA ProgressEffect ==
  ASSUME NEW h, IsHook(h), NEW results
  PROVE  /\ IsHook(Progress(h, results)) /\ Progress(h, results).ref = h.ref
         /\ Progress(h, results).results = Over(results, h.results)
         /\ Progress(h, results).mode = h.mode
  BY DEF Progress, IsHook

LEMMA FailEffect ==
  ASSUME NEW h, IsHook(h)
  PROVE  /\ IsHook(Fail(h)) /\ Fail(h).ref = h.ref /\ Fail(h).results = h.results
         /\ Fail(h).mode = h.mode
  BY DEF Fail, IsHook

LEMMA RestartEffect ==
  ASSUME NEW h, IsHook(h), NEW mode, NEW opts
  PROVE  /\ IsHook(Restart(h, mode, opts)) /\ Restart(h, mode, opts).ref = h.ref
         /\ Restart(h, mode, opts).results = h.results
  BY DEF Restart, IsHook

\* A train that is dragged moves in the list, whose object is then no longer the
\* store's; the others stay.
LEMMA DraggedEffect ==
  ASSUME NEW f, IsMap(f), NEW t, NEW s, \A u \in DOMAIN f : IsItem(f[u])
  PROVE  /\ IsMap(Dragged(f, t, s)) /\ DOMAIN Dragged(f, t, s) = DOMAIN f
         /\ \A u \in DOMAIN f \ {t} : Dragged(f, t, s)[u] = f[u]
         /\ \A u \in DOMAIN f : IsItem(Dragged(f, t, s)[u])
         /\ t \in DOMAIN f => /\ Dragged(f, t, s)[t].ver = f[t].ver
                              /\ Dragged(f, t, s)[t].start = s
                              /\ Dragged(f, t, s)[t].obj = IF f[t].obj = "own" THEN "own" ELSE "copy"
<1>1. CASE t \notin DOMAIN f
  BY <1>1 DEF Dragged
<1>2. CASE t \in DOMAIN f
  <2> DEFINE new == [ver |-> f[t].ver, start |-> s, obj |-> IF f[t].obj = "own" THEN "own" ELSE "copy"]
  <2>1. Dragged(f, t, s) = [f EXCEPT ![t] = new]
    BY <1>2 DEF Dragged
  <2>2. /\ IsItem(new) /\ new.ver = f[t].ver /\ new.start = s
        /\ new.obj = IF f[t].obj = "own" THEN "own" ELSE "copy"
    BY DEF IsItem
  <2> HIDE DEF new
  <2>3. /\ IsMap(Dragged(f, t, s)) /\ DOMAIN Dragged(f, t, s) = DOMAIN f
        /\ \A u \in DOMAIN f \ {t} : Dragged(f, t, s)[u] = f[u]
        /\ Dragged(f, t, s)[t] = new
    BY <1>2, <2>1 DEF IsMap
  <2> QED
    BY <1>2, <2>2, <2>3
<1> QED
  BY <1>1, <1>2

\* In a map, a train that is dragged moves where it is known.
LEMMA SetStartItem ==
  ASSUME NEW f, IsMap(f), NEW t, NEW s, \A u \in DOMAIN f : IsItem(f[u])
  PROVE  /\ IsMap(SetStart(f, t, s)) /\ DOMAIN SetStart(f, t, s) = DOMAIN f
         /\ \A u \in DOMAIN f \ {t} : SetStart(f, t, s)[u] = f[u]
         /\ \A u \in DOMAIN f : IsItem(SetStart(f, t, s)[u])
         /\ t \in DOMAIN f => SetStart(f, t, s)[t] = [ver |-> f[t].ver, start |-> s, obj |-> f[t].obj]
<1>1. CASE t \notin DOMAIN f
  BY <1>1 DEF SetStart
<1>2. CASE t \in DOMAIN f
  <2>1. SetStart(f, t, s) = [f EXCEPT ![t] = [f[t] EXCEPT !.start = s]]
    BY <1>2 DEF SetStart
  <2> DEFINE new == [f[t] EXCEPT !.start = s]
  <2>2. new = [ver |-> f[t].ver, start |-> s, obj |-> f[t].obj] /\ IsItem(new)
    BY <1>2 DEF IsItem
  <2> HIDE DEF new
  <2>3. /\ IsMap(SetStart(f, t, s)) /\ DOMAIN SetStart(f, t, s) = DOMAIN f
        /\ \A u \in DOMAIN f \ {t} : SetStart(f, t, s)[u] = f[u]
        /\ SetStart(f, t, s)[t] = new
    BY <1>2, <2>1 DEF IsMap, new
  <2> QED
    BY <1>2, <2>2, <2>3
<1> QED
  BY <1>1, <1>2

LEMMA SetStartDrawn ==
  ASSUME NEW f, IsMap(f), NEW t, NEW s, \A u \in DOMAIN f : IsDrawn(f[u])
  PROVE  /\ IsMap(SetStart(f, t, s)) /\ DOMAIN SetStart(f, t, s) = DOMAIN f
         /\ \A u \in DOMAIN f \ {t} : SetStart(f, t, s)[u] = f[u]
         /\ \A u \in DOMAIN f : IsDrawn(SetStart(f, t, s)[u])
         /\ \A u \in DOMAIN f : /\ SetStart(f, t, s)[u].ver = f[u].ver
                              /\ SetStart(f, t, s)[u].opts = f[u].opts
         /\ t \in DOMAIN f => SetStart(f, t, s)[t].start = s
<1>1. CASE t \notin DOMAIN f
  BY <1>1 DEF SetStart
<1>2. CASE t \in DOMAIN f
  <2>1. SetStart(f, t, s) = [f EXCEPT ![t] = [f[t] EXCEPT !.start = s]]
    BY <1>2 DEF SetStart
  <2> DEFINE new == [f[t] EXCEPT !.start = s]
  <2>2. new.start = s /\ IsDrawn(new) /\ new.ver = f[t].ver /\ new.opts = f[t].opts
    BY <1>2 DEF IsDrawn
  <2> HIDE DEF new
  <2>3. /\ IsMap(SetStart(f, t, s)) /\ DOMAIN SetStart(f, t, s) = DOMAIN f
        /\ \A u \in DOMAIN f \ {t} : SetStart(f, t, s)[u] = f[u]
        /\ SetStart(f, t, s)[t] = new
    BY <1>2, <2>1 DEF IsMap, new
  <2> QED
    BY <1>2, <2>2, <2>3
<1> QED
  BY <1>1, <1>2

\* The assignment moves a train of the map unless it is an object of the store.
LEMMA AssignEffect ==
  ASSUME NEW f, IsMap(f), NEW t, NEW s, \A u \in DOMAIN f : IsItem(f[u])
  PROVE  /\ IsMap(AssignStart(f, t, s)) /\ DOMAIN AssignStart(f, t, s) = DOMAIN f
         /\ \A u \in DOMAIN f \ {t} : AssignStart(f, t, s)[u] = f[u]
         /\ \A u \in DOMAIN f : /\ IsItem(AssignStart(f, t, s)[u])
                                /\ AssignStart(f, t, s)[u].ver = f[u].ver
                                /\ AssignStart(f, t, s)[u].obj = f[u].obj
         /\ t \in DOMAIN f /\ f[t].obj # "frozen" => AssignStart(f, t, s)[t].start = s
<1> DEFINE moved == SetStart(f, t, s)
<1>1. /\ IsMap(moved) /\ DOMAIN moved = DOMAIN f
      /\ \A u \in DOMAIN f \ {t} : moved[u] = f[u]
      /\ \A u \in DOMAIN f : IsItem(moved[u])
      /\ t \in DOMAIN f => moved[t] = [ver |-> f[t].ver, start |-> s, obj |-> f[t].obj]
  BY SetStartItem
<1>2. AssignStart(f, t, s) = IF t \in DOMAIN f /\ f[t].obj = "frozen" THEN f ELSE moved
  BY DEF AssignStart
<1> HIDE DEF moved
<1>3. /\ \A u \in DOMAIN f : moved[u].ver = f[u].ver /\ moved[u].obj = f[u].obj
      /\ t \in DOMAIN f => moved[t].start = s
  BY <1>1
<1> QED
  BY <1>1, <1>2, <1>3

LEMMA UpdateEffect ==
  ASSUME NEW h, IsHook(h), NEW t, NEW s
  PROVE  /\ IsHook(UpdateProjectedDepartureTime(h, t, s))
         /\ UpdateProjectedDepartureTime(h, t, s).ref = AssignStart(h.ref, t, s)
         /\ UpdateProjectedDepartureTime(h, t, s).results = SetStart(h.results, t, s)
         /\ UpdateProjectedDepartureTime(h, t, s).mode = h.mode
  BY DEF UpdateProjectedDepartureTime, IsHook

\* The effect of the first load leaves nothing in the map but trains of the list.
LEMMA FirstLoadEffect ==
  ASSUME NEW h, IsHook(h)
  PROVE  /\ IsHook(FirstLoad(h)) /\ FirstLoad(h).results = h.results
         /\ DOMAIN FirstLoad(h).ref \subseteq DOMAIN h.ref \cup DOMAIN items'
<1>1. /\ IsHook(SimulateTimetableItems(h, items'))
      /\ SimulateTimetableItems(h, items').ref = Over(items', h.ref)
      /\ SimulateTimetableItems(h, items').results = h.results
  BY SimulateEffect
<1>2. DOMAIN Over(items', h.ref) = DOMAIN items' \cup DOMAIN h.ref
  BY OverEffect
<1> QED
  BY <1>1, <1>2 DEF FirstLoad

LEMMA ServeEffect ==
  ASSUME NEW h, IsHook(h), NEW part, NEW g \in Serve(h, part)
  PROVE  IsHook(g) /\ g.ref = h.ref /\ g.results = h.results /\ g.mode = h.mode
  BY DEF Serve, IsHook

-----------------------------------------------------------------------------
(* Every action preserves the invariant.                                   *)

\* Steps that leave the list and what is shown of it alone.
LEMMA SameMapsPreserve ==
  ASSUME IInv, items' = items, loaded' = loaded, loaded \/ inFlight' = inFlight,
         sim' = sim \/ (IsHook(sim') /\ sim'.results = sim.results
                        /\ DOMAIN sim'.ref \subseteq DOMAIN sim.ref \cup DOMAIN items),
         proj' = proj \/ (IsHook(proj') /\ proj'.results = proj.results /\ proj'.ref = proj.ref)
  PROVE  IInv'
<1>1. ListShape' /\ NothingBeforeFetch'
  BY DEF IInv, ListShape, NothingBeforeFetch
<1>2. SimulationKnown'
  BY DEF IInv, SimulationKnown
<1>3. ProjectionKnown'
  BY DEF IInv, ProjectionKnown
<1> QED
  BY <1>1, <1>2, <1>3 DEF IInv

\* The list changes, and the hooks with it.
LEMMA ListStepPreserves ==
  ASSUME IInv, ListShape', NothingBeforeFetch', ProjectionKnown', NEW h, IsHook(h),
         DOMAIN h.ref \subseteq DOMAIN items', DOMAIN h.results \subseteq DOMAIN items',
         sim' = FirstLoad(h)
  PROVE  IInv'
<1>1. SimulationKnown'
  BY FirstLoadEffect DEF SimulationKnown
<1> QED
  BY <1>1 DEF IInv

LEMMA FetchPreserves == IInv /\ FetchTimetableItems => IInv'
<1> SUFFICES ASSUME IInv, FetchTimetableItems PROVE IInv'
  OBVIOUS
<1>1. /\ ~loaded /\ loaded' = TRUE /\ proj' = proj /\ sim' = FirstLoad(sim)
      /\ items' = [t \in DOMAIN db |-> [ver |-> db[t], start |-> 0, obj |-> "frozen"]]
  BY DEF FetchTimetableItems
<1>2. ListShape' /\ NothingBeforeFetch'
  BY <1>1 DEF ListShape, NothingBeforeFetch, IsMap, IsItem
<1>3. /\ IsHook(sim) /\ DOMAIN sim.ref = {} /\ DOMAIN sim.results = {}
      /\ DOMAIN proj.ref = {} /\ DOMAIN proj.results = {}
  BY <1>1 DEF IInv, NothingBeforeFetch, SimulationKnown, ProjectionKnown
<1>4. ProjectionKnown'
  BY <1>1, <1>3 DEF IInv, ProjectionKnown
<1> QED
  BY <1>1, <1>2, <1>3, <1>4, ListStepPreserves

LEMMA UpsertPreserves ==
  ASSUME IInv, NEW t \in Train, UpsertTimetableItems(t)
  PROVE  IInv'
<1> DEFINE new == UpsertedItem(inFlight[t])
<1>1. /\ loaded' = loaded /\ items' = Over(Only(t, new), items)
      /\ proj' = RemoveProjectedTimetableItems(proj, {t})
      /\ sim' = FirstLoad(SimulateTimetableItems(sim, Only(t, items'[t])))
  BY DEF UpsertTimetableItems, Answered
<1>2. IsItem(new)
  BY DEF IsItem, UpsertedItem
<1>3. /\ IsMap(items') /\ DOMAIN items' = DOMAIN items \cup {t} /\ items'[t] = new
      /\ \A u \in DOMAIN items \ {t} : items'[u] = items[u]
  <2>1. DOMAIN Only(t, new) = {t} /\ Only(t, new)[t] = new
    BY OnlyEffect
  <2> HIDE DEF new
  <2> QED
    BY <1>1, <2>1 DEF Over, IsMap
<1> HIDE DEF new
<1>4. ListShape' /\ NothingBeforeFetch'
  <2>1. loaded
    BY DEF UpsertTimetableItems, Answered, IInv, NothingBeforeFetch
  <2> QED
    BY <1>1, <1>2, <1>3, <2>1 DEF IInv, ListShape, NothingBeforeFetch
<1>5. ProjectionKnown'
  <2>1. IsHook(proj) /\ IsHook(proj') /\ proj'.ref = Without(proj.ref, {t})
        /\ proj'.results = Without(proj.results, {t})
    BY <1>1, RemoveEffect DEF IInv, ProjectionKnown
  <2>2. /\ IsMap(proj'.ref) /\ DOMAIN proj'.ref = DOMAIN proj.ref \ {t}
        /\ \A u \in DOMAIN proj.ref \ {t} : proj'.ref[u] = proj.ref[u]
    BY <2>1 DEF Without, IsMap
  <2>3. /\ IsMap(proj'.results) /\ DOMAIN proj'.results = DOMAIN proj.results \ {t}
        /\ \A u \in DOMAIN proj.results \ {t} : proj'.results[u] = proj.results[u]
    BY <2>1 DEF Without, IsMap
  <2> QED
    BY <1>3, <2>1, <2>2, <2>3 DEF IInv, ProjectionKnown
<1> DEFINE h == SimulateTimetableItems(sim, Only(t, items'[t]))
<1>6. /\ IsHook(h) /\ DOMAIN h.ref \subseteq DOMAIN items' /\ DOMAIN h.results \subseteq DOMAIN items'
  <2>1. IsHook(sim) /\ DOMAIN sim.ref \subseteq DOMAIN items /\ DOMAIN sim.results \subseteq DOMAIN items
    BY DEF IInv, SimulationKnown
  <2>2. IsHook(h) /\ h.ref = Over(Only(t, items'[t]), sim.ref) /\ h.results = sim.results
    BY <2>1, SimulateEffect
  <2>3. DOMAIN Only(t, items'[t]) = {t}
    BY OnlyEffect
  <2>4. DOMAIN h.ref = {t} \cup DOMAIN sim.ref
    BY <2>2, <2>3 DEF Over
  <2> QED
    BY <1>3, <2>1, <2>2, <2>4
<1> HIDE DEF h
<1> QED
  BY <1>1, <1>4, <1>5, <1>6, ListStepPreserves DEF h

LEMMA RemovePreserves ==
  ASSUME IInv, NEW t \in Train, RemoveTimetableItems(t)
  PROVE  IInv'
<1>1. /\ loaded' = loaded /\ items' = Without(items, {t})
      /\ proj' = RemoveProjectedTimetableItems(proj, {t})
      /\ sim' = FirstLoad(RemoveSimulatedTimetableItems(sim, {t}))
  BY DEF RemoveTimetableItems, Answered
<1>2. loaded
  BY DEF RemoveTimetableItems, Answered, IInv, NothingBeforeFetch
<1>3. /\ IsMap(items') /\ DOMAIN items' = DOMAIN items \ {t}
      /\ \A u \in DOMAIN items \ {t} : items'[u] = items[u]
  BY <1>1, WithoutEffect
<1>4. ListShape' /\ NothingBeforeFetch'
  BY <1>1, <1>2, <1>3 DEF IInv, ListShape, NothingBeforeFetch
<1>5. ProjectionKnown'
  <2>1. IsHook(proj) /\ IsHook(proj') /\ proj'.ref = Without(proj.ref, {t})
        /\ proj'.results = Without(proj.results, {t})
    BY <1>1, RemoveEffect DEF IInv, ProjectionKnown
  <2>2. /\ IsMap(proj'.ref) /\ DOMAIN proj'.ref = DOMAIN proj.ref \ {t}
        /\ \A u \in DOMAIN proj.ref \ {t} : proj'.ref[u] = proj.ref[u]
    BY <2>1 DEF Without, IsMap
  <2>3. /\ IsMap(proj'.results) /\ DOMAIN proj'.results = DOMAIN proj.results \ {t}
        /\ \A u \in DOMAIN proj.results \ {t} : proj'.results[u] = proj.results[u]
    BY <2>1 DEF Without, IsMap
  <2> QED
    BY <1>3, <2>1, <2>2, <2>3 DEF IInv, ProjectionKnown
<1> DEFINE h == RemoveSimulatedTimetableItems(sim, {t})
<1>6. IsHook(h) /\ DOMAIN h.ref \subseteq DOMAIN items' /\ DOMAIN h.results \subseteq DOMAIN items'
  <2>1. IsHook(sim) /\ DOMAIN sim.ref \subseteq DOMAIN items /\ DOMAIN sim.results \subseteq DOMAIN items
    BY DEF IInv, SimulationKnown
  <2>2. IsHook(h) /\ h.ref = Without(sim.ref, {t}) /\ h.results = Without(sim.results, {t})
    BY <2>1, RemoveEffect
  <2>3. DOMAIN h.ref = DOMAIN sim.ref \ {t} /\ DOMAIN h.results = DOMAIN sim.results \ {t}
    BY <2>2, WithoutEffect
  <2> QED
    BY <1>3, <2>1, <2>2, <2>3
<1> HIDE DEF h
<1> QED
  BY <1>1, <1>4, <1>5, <1>6, ListStepPreserves DEF h

LEMMA DragPreserves ==
  ASSUME IInv, NEW t \in Train, SetTimetableItemDepartureTime(t)
  PROVE  IInv'
<1> DEFINE s == inFlight[t].stamp
<1>1. /\ loaded' = loaded /\ items' = Dragged(items, t, s)
      /\ proj' = UpdateProjectedDepartureTime(proj, t, s) /\ sim' = FirstLoad(sim)
  BY DEF SetTimetableItemDepartureTime, Answered
<1>2. loaded
  BY DEF SetTimetableItemDepartureTime, Answered, IInv, NothingBeforeFetch
<1> HIDE DEF s
<1>3. /\ IsMap(items') /\ DOMAIN items' = DOMAIN items
      /\ \A u \in DOMAIN items \ {t} : items'[u] = items[u]
      /\ \A u \in DOMAIN items : IsItem(items'[u])
      /\ t \in DOMAIN items => /\ items'[t].ver = items[t].ver /\ items'[t].start = s
                               /\ items'[t].obj = IF items[t].obj = "own" THEN "own" ELSE "copy"
  BY <1>1, DraggedEffect DEF IInv, ListShape
<1>4. ListShape' /\ NothingBeforeFetch'
  BY <1>1, <1>2, <1>3 DEF ListShape, NothingBeforeFetch
<1>5. ProjectionKnown'
  <2>1. IsHook(proj) /\ IsHook(proj') /\ proj'.ref = AssignStart(proj.ref, t, s)
        /\ proj'.results = SetStart(proj.results, t, s)
    BY <1>1, UpdateEffect DEF IInv, ProjectionKnown
  <2>2. /\ IsMap(proj'.ref) /\ DOMAIN proj'.ref = DOMAIN proj.ref
        /\ \A u \in DOMAIN proj.ref \ {t} : proj'.ref[u] = proj.ref[u]
        /\ \A u \in DOMAIN proj.ref : /\ IsItem(proj'.ref[u]) /\ proj'.ref[u].ver = proj.ref[u].ver
                                      /\ proj'.ref[u].obj = proj.ref[u].obj
        /\ t \in DOMAIN proj.ref /\ proj.ref[t].obj # "frozen" => proj'.ref[t].start = s
    BY <2>1, AssignEffect DEF IInv, ProjectionKnown
  <2>3. /\ IsMap(proj'.results) /\ DOMAIN proj'.results = DOMAIN proj.results
        /\ \A u \in DOMAIN proj.results \ {t} : proj'.results[u] = proj.results[u]
        /\ \A u \in DOMAIN proj.results : IsDrawn(proj'.results[u])
        /\ t \in DOMAIN proj.results => proj'.results[t].start = s
    <3>1. IsMap(proj.results) /\ \A u \in DOMAIN proj.results : IsDrawn(proj.results[u])
      BY DEF IInv, ProjectionKnown
    <3> DEFINE moved == SetStart(proj.results, t, s)
    <3>2. /\ IsMap(moved) /\ DOMAIN moved = DOMAIN proj.results
          /\ \A u \in DOMAIN proj.results \ {t} : moved[u] = proj.results[u]
          /\ \A u \in DOMAIN proj.results : IsDrawn(moved[u])
          /\ t \in DOMAIN proj.results => moved[t].start = s
      BY <3>1, SetStartDrawn
    <3> HIDE DEF moved
    <3> QED
      BY <2>1, <3>2 DEF moved
  <2>4. ASSUME NEW u \in DOMAIN proj'.ref
        PROVE  /\ IsItem(proj'.ref[u]) /\ proj'.ref[u].ver = items'[u].ver
               /\ proj'.ref[u].obj = "frozen" \/ proj'.ref[u].start = items'[u].start
               /\ items'[u].obj = "copy" \/ proj'.ref[u] = items'[u]
    <3>1. CASE u # t
      BY <1>3, <2>2, <3>1 DEF IInv, ProjectionKnown
    <3>2. CASE u = t
      <4>1. /\ t \in DOMAIN proj.ref /\ t \in DOMAIN items
            /\ IsItem(proj'.ref[t]) /\ proj'.ref[t].ver = items'[t].ver
            /\ proj'.ref[t].obj = "frozen" \/ proj'.ref[t].start = items'[t].start
        BY <1>3, <2>2, <3>2 DEF IInv, ProjectionKnown
      <4>2. CASE items[t].obj # "own"
        BY <1>3, <3>2, <4>1, <4>2
      <4>3. CASE items[t].obj = "own"
        <5>1. proj.ref[t].obj = "own" /\ items'[t].obj = "own"
          BY <1>3, <4>1, <4>3 DEF IInv, ProjectionKnown
        <5>2. proj'.ref[t].obj = items'[t].obj /\ proj'.ref[t].start = items'[t].start
          BY <1>3, <2>2, <4>1, <5>1
        <5>3. proj'.ref[t] = items'[t]
          BY <1>3, <4>1, <5>2 DEF IsItem
        <5> QED
          BY <3>2, <4>1, <5>3
      <4> QED
        BY <4>2, <4>3
    <3> QED
      BY <3>1, <3>2
  <2>5. \A u \in DOMAIN proj'.results :
          items'[u].obj = "copy" \/ proj'.results[u].start = items'[u].start
    BY <1>3, <2>3 DEF IInv, ProjectionKnown
  <2> QED
    BY <1>3, <2>1, <2>2, <2>3, <2>4, <2>5 DEF IInv, ProjectionKnown
<1> QED
  BY <1>1, <1>3, <1>4, <1>5, ListStepPreserves DEF IInv, SimulationKnown

\* Simulations that arrive are of trains in the map, which go to the projection as
\* the list has them.
LEMMA SimulationProgressPreserves == IInv /\ SimulationProgress => IInv'
<1> SUFFICES ASSUME IInv, SimulationProgress PROVE IInv'
  OBVIOUS
<1> DEFINE ids == ToSet(sim.loader.batch)
           its == [t \in ids |-> items[t]]
<1>1. PICK results :
        /\ DOMAIN results = ids /\ sim' = Progress(sim, results)
        /\ ids \subseteq DOMAIN sim.ref /\ proj' = SimulateTimetableItems(proj, its)
        /\ UNCHANGED <<inFlight, loaded, items>>
  BY DEF SimulationProgress, CanFormatSummaries, ProjectTimetableItems, server
<1> HIDE DEF ids
<1>2. ListShape' /\ NothingBeforeFetch'
  BY <1>1 DEF IInv, ListShape, NothingBeforeFetch
<1>3. SimulationKnown'
  <2>1. IsHook(sim') /\ sim'.ref = sim.ref /\ sim'.results = Over(results, sim.results)
    BY <1>1, ProgressEffect DEF IInv, SimulationKnown
  <2>2. DOMAIN sim'.results = DOMAIN results \cup DOMAIN sim.results
    BY <2>1 DEF Over
  <2> QED
    BY <1>1, <2>1, <2>2 DEF IInv, SimulationKnown
<1>4. ProjectionKnown'
  <2>1. DOMAIN its = ids /\ \A t \in ids : its[t] = items[t]
    OBVIOUS
  <2> HIDE DEF its
  <2>2. /\ IsHook(proj') /\ proj'.ref = Over(its, proj.ref) /\ proj'.results = proj.results
    BY <1>1, SimulateEffect DEF IInv, ProjectionKnown
  <2>3. /\ IsMap(proj'.ref) /\ DOMAIN proj'.ref = ids \cup DOMAIN proj.ref
        /\ \A t \in ids : proj'.ref[t] = its[t]
        /\ \A t \in DOMAIN proj.ref \ ids : proj'.ref[t] = proj.ref[t]
    BY <2>1, <2>2 DEF Over, IsMap
  <2>4. /\ DOMAIN proj'.ref \subseteq DOMAIN items
        /\ \A t \in DOMAIN proj'.ref :
             /\ IsItem(proj'.ref[t]) /\ proj'.ref[t].ver = items[t].ver
             /\ proj'.ref[t].obj = "frozen" \/ proj'.ref[t].start = items[t].start
             /\ items[t].obj = "copy" \/ proj'.ref[t] = items[t]
    BY <1>1, <2>1, <2>3 DEF IInv, ListShape, ProjectionKnown, SimulationKnown
  <2> QED
    BY <1>1, <2>2, <2>3, <2>4 DEF IInv, ProjectionKnown
<1> QED
  BY <1>2, <1>3, <1>4 DEF IInv

\* Curves that arrive are drawn where the map says, if the train is still there.
LEMMA ProjectionProgressPreserves == IInv /\ ProjectionProgress => IInv'
<1> SUFFICES ASSUME IInv, ProjectionProgress PROVE IInv'
  OBVIOUS
<1> DEFINE new == UpsertNewProjectedTrains(proj)
<1>1. proj' = Progress(proj, new) /\ UNCHANGED <<inFlight, loaded, items, sim>>
  BY DEF ProjectionProgress, server
<1>2. /\ DOMAIN new \subseteq DOMAIN proj.ref
      /\ \A t \in DOMAIN new : IsDrawn(new[t]) /\ new[t].start = proj.ref[t].start
  BY DEF UpsertNewProjectedTrains, Drawn, IsDrawn
<1> HIDE DEF new
<1>3. IsHook(proj') /\ proj'.ref = proj.ref /\ proj'.results = Over(new, proj.results)
  BY <1>1, ProgressEffect DEF IInv, ProjectionKnown
<1>4. /\ IsMap(proj'.results) /\ DOMAIN proj'.results = DOMAIN new \cup DOMAIN proj.results
      /\ \A t \in DOMAIN new : proj'.results[t] = new[t]
      /\ \A t \in DOMAIN proj.results \ DOMAIN new : proj'.results[t] = proj.results[t]
  BY <1>3 DEF Over, IsMap
<1>5. ProjectionKnown'
  BY <1>1, <1>2, <1>3, <1>4 DEF IInv, ProjectionKnown
<1>6. ListShape' /\ NothingBeforeFetch' /\ SimulationKnown'
  BY <1>1 DEF IInv, ListShape, NothingBeforeFetch, SimulationKnown
<1> QED
  BY <1>5, <1>6 DEF IInv

LEMMA InitEstablishes == Init => IInv
<1> SUFFICES ASSUME Init PROVE IInv
  OBVIOUS
<1>1. IsHook(Hook) /\ Hook.ref = Empty /\ Hook.results = Empty
  BY DEF Hook, IsHook
<1>2. items = Empty /\ inFlight = Empty /\ sim = Hook /\ proj = Hook
  BY DEF Init
<1>3. ListShape /\ NothingBeforeFetch
  BY <1>2, EmptyMap DEF ListShape, NothingBeforeFetch
<1>4. SimulationKnown /\ ProjectionKnown
  BY <1>1, <1>2, EmptyMap DEF SimulationKnown, ProjectionKnown
<1> QED
  BY <1>3, <1>4 DEF IInv

LEMMA NextPreserves == IInv /\ [Next]_vars => IInv'
<1> SUFFICES ASSUME IInv, [Next]_vars PROVE IInv'
  OBVIOUS
<1>0. IsHook(sim) /\ IsHook(proj)
  BY DEF IInv, SimulationKnown, ProjectionKnown
<1>1. CASE FetchTimetableItems \/ SimulationProgress \/ ProjectionProgress
  BY <1>1, FetchPreserves, SimulationProgressPreserves, ProjectionProgressPreserves
<1>2. CASE \E t \in Train : \/ UpsertTimetableItems(t) \/ RemoveTimetableItems(t)
                            \/ SetTimetableItemDepartureTime(t)
  BY <1>2, UpsertPreserves, RemovePreserves, DragPreserves
<1>3. CASE WorkerReady
  BY <1>0, <1>3, FirstLoadEffect, SameMapsPreserve DEF WorkerReady, server
<1>4. CASE \E t \in Train, k \in {"create", "save", "drag", "delete"} : Edit(t, k)
  BY <1>4, SameMapsPreserve DEF Edit
<1>5. CASE SimulationFails \/ NewSimulationLoader \/ ServeSimulation
  <2>1. UNCHANGED <<inFlight, loaded, items, proj>>
    BY <1>5 DEF SimulationFails, NewSimulationLoader, ServeSimulation, server
  <2>2. IsHook(sim') /\ sim'.results = sim.results /\ sim'.ref = sim.ref
    BY <1>0, <1>5, FailEffect, RestartEffect, ServeEffect
    DEF SimulationFails, NewSimulationLoader, ServeSimulation
  <2> QED
    BY <2>1, <2>2, SameMapsPreserve
<1>6. CASE ProjectionFails \/ (\E mode \in Modes : NewProjectionLoader(mode)) \/ ServeProjection
  <2>1. UNCHANGED <<inFlight, loaded, items, sim>>
    BY <1>6 DEF ProjectionFails, NewProjectionLoader, ServeProjection, server
  <2>2. IsHook(proj') /\ proj'.results = proj.results /\ proj'.ref = proj.ref
    BY <1>0, <1>6, FailEffect, RestartEffect, ServeEffect
    DEF ProjectionFails, NewProjectionLoader, ServeProjection
  <2> QED
    BY <2>1, <2>2, SameMapsPreserve
<1>7. CASE UNCHANGED vars
  BY <1>7, SameMapsPreserve DEF vars, server
<1> QED
  BY <1>1, <1>2, <1>3, <1>4, <1>5, <1>6, <1>7 DEF Next

\* The maps of the hooks never hold more than the list, nor anything older.
LEMMA Invariance == Spec => []IInv
  BY InitEstablishes, NextPreserves, PTL DEF Spec

\* A train that was deleted has no simulation, no projection and no entry that
\* would bring one back, whatever batches were in flight.
THEOREM RemovedForGood == Spec => []RemovedTrainsStayRemoved
<1>1. IInv => RemovedTrainsStayRemoved
  BY DEF IInv, SimulationKnown, ProjectionKnown, RemovedTrainsStayRemoved
<1> QED
  BY <1>1, Invariance, PTL

\* However edits, drags and late answers interleave, every curve of the chart
\* departs when the list says its train does, unless an object of the store was
\* dragged, and the projection hook falls behind the list in nothing but the
\* departure of such an object.
THEOREM ChartFollowsList == Spec => []ProjectionFollowsList
<1>1. IInv => ProjectionFollowsList
  BY DEF IInv, ProjectionKnown, ProjectionFollowsList
<1> QED
  BY <1>1, Invariance, PTL

-----------------------------------------------------------------------------
(* What the loaders do with the trains.                                    *)

Loaders == [pending : Seq(Train), batch : Seq(Train), links : Nat]

\* A set of trains is written into the queue once each.
LEMMA Listed ==
  ASSUME NEW S \in SUBSET Train
  PROVE  SetToSeq(S) \in Seq(Train) /\ ToSet(SetToSeq(S)) = S
<1> DEFINE D == 1..Cardinality(S)
<1>1. IsFiniteSet(S) /\ Cardinality(S) \in Nat
  BY ScenarioAssumption, FS_Subset, FS_CardinalityType
<1>2. IsFiniteSet(D) /\ Cardinality(D) = Cardinality(S)
  BY <1>1, FS_Interval
<1>3. \E f : f \in [D -> S] /\ IsInjective(f)
  <2>1. PICK f : f \in Bijection(D, S)
    BY <1>1, FS_CardinalityType DEF ExistsBijection
  <2> QED
    BY <2>1 DEF Bijection, Injection, IsInjective
<1>4. SetToSeq(S) \in [D -> S] /\ IsInjective(SetToSeq(S))
  BY <1>3 DEF SetToSeq
<1> DEFINE given == SetToSeq(S)
<1> HIDE DEF given
<1>5. given \in [D -> S] /\ IsInjective(given)
  BY <1>4 DEF given
<1>6. given \in Surjection(D, S)
  <2>1. given \in Injection(D, S)
    BY <1>5 DEF Injection, IsInjective
  <2> QED
    BY <1>1, <1>2, <2>1, FS_Injection
<1>7. given \in Seq(Train) /\ DOMAIN given = D
  BY <1>1, <1>5
<1>8. ToSet(given) = S
  BY <1>5, <1>6, <1>7 DEF Surjection, ToSet
<1> QED
  BY <1>7, <1>8 DEF given

IsLoader(l) == l \in [pending : {l.pending}, batch : {l.batch}, links : {l.links}]

LEMMA LoaderRecord ==
  ASSUME NEW l \in Loaders
  PROVE  /\ IsLoader(l)
         /\ l.pending \in Seq(Train) /\ l.batch \in Seq(Train) /\ l.links \in Nat
  BY DEF Loaders, IsLoader

LEMMA LoaderExcept ==
  ASSUME NEW l, IsLoader(l), NEW z
  PROVE  /\ [l EXCEPT !.pending = z] = [pending |-> z, batch |-> l.batch, links |-> l.links]
         /\ [l EXCEPT !.batch = z]   = [pending |-> l.pending, batch |-> z, links |-> l.links]
         /\ [l EXCEPT !.links = z]   = [pending |-> l.pending, batch |-> l.batch, links |-> z]
  BY DEF IsLoader

\* The head of the loop: what was pending is pending or in the batch, and
\* nothing is left behind without a batch.
LEMMA ProcessEffect ==
  ASSUME NEW l \in Loaders
  PROVE  /\ ProcessPending(l) \in Loaders
         /\ ToSet(ProcessPending(l).pending) \cup ToSet(ProcessPending(l).batch) = ToSet(l.pending)
         /\ ProcessPending(l).batch = <<>> => ProcessPending(l).pending = <<>>
<1> DEFINE p == l.pending
           n == IF Len(p) < BatchSize THEN Len(p) ELSE BatchSize
           rest == SubSeq(p, n + 1, Len(p))
           head == SubSeq(p, 1, n)
<1>1. p \in Seq(Train) /\ Len(p) \in Nat /\ l.links \in Nat /\ DOMAIN p = 1..Len(p)
  BY DEF Loaders
<1>2. n \in Nat /\ n <= Len(p) /\ (n = 0 => Len(p) = 0)
  BY <1>1, BatchSizeAssumption
<1>3. ProcessPending(l) = [pending |-> rest, batch |-> head, links |-> IF n = 0 THEN 0 ELSE l.links]
  BY DEF ProcessPending
<1> HIDE DEF p, n
<1>4. /\ rest \in Seq(Train) /\ Len(rest) = Len(p) - n /\ DOMAIN rest = 1..(Len(p) - n)
      /\ \A i \in 1..(Len(p) - n) : rest[i] = p[n + i]
  <2>1. \A i \in (n + 1)..Len(p) : p[i] \in Train
    BY <1>1, <1>2
  <2>2. n + 1 \in Int /\ Len(p) \in Int
    BY <1>1, <1>2
  <2>3. /\ rest \in Seq(Train)
        /\ Len(rest) = IF n + 1 <= Len(p) THEN Len(p) - (n + 1) + 1 ELSE 0
        /\ \A i \in 1..(Len(p) - (n + 1) + 1) : rest[i] = p[(n + 1) + i - 1]
    BY <2>1, <2>2, SubSeqProperties
  <2> HIDE DEF rest
  <2>4. \A a, b \in Nat : /\ a - (b + 1) + 1 = a - b
                         /\ \A i \in 1..(a - b) : (b + 1) + i - 1 = b + i
                         /\ b <= a /\ ~(b + 1 <= a) => a - b = 0
    OBVIOUS
  <2>5. Len(rest) = Len(p) - n
    <3>1. CASE n + 1 <= Len(p)
      <4>1. Len(rest) = Len(p) - (n + 1) + 1
        BY <2>3, <3>1
      <4> QED
        BY <1>1, <1>2, <4>1
    <3>2. CASE ~(n + 1 <= Len(p))
      <4>1. Len(rest) = 0
        BY <2>3, <3>2
      <4>2. Len(p) \in Nat /\ n \in Nat /\ n <= Len(p)
        BY <1>1, <1>2
      <4>3. Len(p) - n = 0
        BY <2>4, <3>2, <4>2
      <4> QED
        BY <4>1, <4>3
    <3> QED
      BY <3>1, <3>2
  <2>6. DOMAIN rest = 1..(Len(p) - n)
    BY <2>3, <2>5
  <2>7. \A i \in 1..(Len(p) - n) : rest[i] = p[n + i]
    <3>1. Len(p) - (n + 1) + 1 = Len(p) - n
      BY <1>1, <1>2, <2>4
    <3>2. \A i \in 1..(Len(p) - n) : (n + 1) + i - 1 = n + i
      BY <1>1, <1>2, <2>4
    <3> QED
      BY <2>3, <3>1, <3>2
  <2> QED
    BY <2>3, <2>5, <2>6, <2>7
<1>5. /\ head \in Seq(Train) /\ Len(head) = n /\ DOMAIN head = 1..n
      /\ \A i \in 1..n : head[i] = p[i]
  BY <1>1, <1>2
<1> HIDE DEF rest, head
<1>6. ToSet(rest) \cup ToSet(head) = ToSet(p)
  <2>1. ASSUME NEW x \in ToSet(p) PROVE x \in ToSet(rest) \cup ToSet(head)
    <3>1. PICK i \in 1..Len(p) : p[i] = x
      BY <1>1 DEF ToSet
    <3>2. CASE i \in 1..n
      BY <1>5, <3>1, <3>2 DEF ToSet
    <3>3. CASE i \notin 1..n
      <4>1. i - n \in 1..(Len(p) - n) /\ n + (i - n) = i
        BY <1>1, <1>2, <3>3
      <4>2. rest[i - n] = x /\ i - n \in DOMAIN rest
        BY <1>4, <3>1, <4>1
      <4> QED
        BY <4>2 DEF ToSet
    <3> QED
      BY <3>2, <3>3
  <2>2. ToSet(rest) \subseteq ToSet(p)
    <3> SUFFICES ASSUME NEW i \in 1..(Len(p) - n) PROVE rest[i] \in ToSet(p)
      BY <1>4 DEF ToSet
    <3>1. n + i \in DOMAIN p /\ rest[i] = p[n + i]
      BY <1>1, <1>2, <1>4
    <3> QED
      BY <3>1 DEF ToSet
  <2>3. ToSet(head) \subseteq ToSet(p)
    <3> SUFFICES ASSUME NEW i \in 1..n PROVE head[i] \in ToSet(p)
      BY <1>5 DEF ToSet
    <3>1. i \in DOMAIN p /\ head[i] = p[i]
      BY <1>1, <1>2, <1>5
    <3> QED
      BY <3>1 DEF ToSet
  <2> QED
    BY <2>1, <2>2, <2>3
<1>7. head = <<>> => rest = <<>>
  <2>1. head = <<>> => n = 0
    BY <1>5
  <2>2. n = 0 => Len(rest) = 0
    BY <1>2, <1>4
  <2> QED
    BY <1>4, <2>1, <2>2
<1> QED
  BY <1>1, <1>2, <1>3, <1>4, <1>5, <1>6, <1>7 DEF Loaders, p

\* Trains that are handed to a loader wait in it; a batch in flight stays.
LEMMA EnqueueEffect ==
  ASSUME NEW l \in Loaders, NEW S \in SUBSET Train
  PROVE  LET k == Enqueue(l, SetToSeq(S)) IN
         /\ k \in Loaders
         /\ ToSet(k.pending) \cup ToSet(k.batch) = ToSet(l.pending) \cup ToSet(l.batch) \cup S
         /\ l.batch # <<>> => /\ k.batch = l.batch
                              /\ ToSet(k.pending) = ToSet(l.pending) \cup S
         /\ l.batch = <<>> /\ k.batch = <<>> => k.pending = <<>>
<1> DEFINE s == SetToSeq(S)
           q == [pending |-> l.pending \o s, batch |-> l.batch, links |-> l.links]
           r == [pending |-> l.pending \o s, batch |-> l.batch, links |-> l.links + 1]
<1>1. s \in Seq(Train) /\ ToSet(s) = S
  BY Listed
<1> HIDE DEF s
<1>2. l.pending \in Seq(Train) /\ l.batch \in Seq(Train) /\ l.links \in Nat
  BY DEF Loaders
<1>3. l.pending \o s \in Seq(Train) /\ ToSet(l.pending \o s) = ToSet(l.pending) \cup S
  <2>1. /\ l.pending \o s \in Seq(Train) /\ Len(l.pending) \in Nat /\ Len(s) \in Nat
        /\ DOMAIN (l.pending \o s) = 1..(Len(l.pending) + Len(s))
        /\ DOMAIN l.pending = 1..Len(l.pending) /\ DOMAIN s = 1..Len(s)
        /\ \A i \in 1..Len(l.pending) : (l.pending \o s)[i] = l.pending[i]
        /\ \A i \in 1..Len(s) : (l.pending \o s)[Len(l.pending) + i] = s[i]
    BY <1>1, <1>2
  <2> DEFINE a == l.pending
             c == a \o s
  <2> HIDE DEF a, c
  <2>2. /\ Len(a) \in Nat /\ Len(s) \in Nat /\ DOMAIN c = 1..(Len(a) + Len(s))
        /\ DOMAIN a = 1..Len(a) /\ DOMAIN s = 1..Len(s)
        /\ \A i \in 1..Len(a) : c[i] = a[i]
        /\ \A i \in 1..Len(s) : c[Len(a) + i] = s[i]
    BY <2>1 DEF a, c
  <2>3. ToSet(c) \subseteq ToSet(a) \cup ToSet(s)
    <3> SUFFICES ASSUME NEW i \in DOMAIN c PROVE c[i] \in ToSet(a) \cup ToSet(s)
      BY DEF ToSet
    <3>1. CASE i \in 1..Len(a)
      BY <2>2, <3>1 DEF ToSet
    <3>2. CASE i \notin 1..Len(a)
      <4>1. i - Len(a) \in 1..Len(s) /\ Len(a) + (i - Len(a)) = i
        BY <2>2, <3>2
      <4>2. c[i] = s[i - Len(a)] /\ i - Len(a) \in DOMAIN s
        BY <2>2, <4>1
      <4> QED
        BY <4>2 DEF ToSet
    <3> QED
      BY <3>1, <3>2
  <2>4. ToSet(a) \subseteq ToSet(c)
    BY <2>2 DEF ToSet
  <2>5. ToSet(s) \subseteq ToSet(c)
    <3> SUFFICES ASSUME NEW i \in DOMAIN s PROVE s[i] \in ToSet(c)
      BY DEF ToSet
    <3>1. Len(a) + i \in DOMAIN c /\ c[Len(a) + i] = s[i]
      BY <2>2
    <3> QED
      BY <3>1 DEF ToSet
  <2> QED
    BY <1>1, <2>1, <2>3, <2>4, <2>5 DEF a, c
<1>4. q \in Loaders /\ r \in Loaders
  BY <1>2, <1>3 DEF Loaders
<1>5. Enqueue(l, SetToSeq(S)) = IF l.batch = <<>> THEN ProcessPending(q) ELSE r
  <2>1. [l EXCEPT !.pending = l.pending \o s] = q
    BY LoaderRecord, LoaderExcept
  <2>2. IsLoader(q) /\ q.links = l.links
    BY DEF IsLoader
  <2>3. [q EXCEPT !.links = q.links + 1] = r
    <3>1. [q EXCEPT !.links = q.links + 1]
            = [pending |-> q.pending, batch |-> q.batch, links |-> q.links + 1]
      <4> HIDE DEF q
      <4> QED
        BY <2>2, LoaderExcept
    <3> QED
      BY <3>1
  <2> HIDE DEF q, r
  <2> QED
    BY <2>1, <2>3 DEF Enqueue, s
<1>6. q.pending = l.pending \o s /\ r.pending = l.pending \o s /\ r.batch = l.batch
  OBVIOUS
<1> HIDE DEF q, r
<1>7. CASE l.batch = <<>>
  <2>1. ToSet(l.batch) = {}
    BY <1>7 DEF ToSet
  <2>2. /\ ProcessPending(q) \in Loaders
        /\ ToSet(ProcessPending(q).pending) \cup ToSet(ProcessPending(q).batch) = ToSet(q.pending)
        /\ ProcessPending(q).batch = <<>> => ProcessPending(q).pending = <<>>
    BY <1>4, ProcessEffect
  <2> QED
    BY <1>3, <1>5, <1>6, <1>7, <2>1, <2>2
<1>8. CASE l.batch # <<>>
  BY <1>3, <1>4, <1>5, <1>6, <1>8
<1> QED
  BY <1>7, <1>8

LEMMA NewLoaderEffect ==
  /\ NewLoader \in Loaders /\ NewLoader.pending = <<>> /\ NewLoader.batch = <<>>
  /\ ToSet(NewLoader.pending) = {} /\ ToSet(NewLoader.batch) = {}
  BY DEF NewLoader, Loaders, ToSet

LEMMA WithoutBatch ==
  ASSUME NEW l \in Loaders
  PROVE  /\ [l EXCEPT !.batch = <<>>] \in Loaders
         /\ [l EXCEPT !.batch = <<>>].pending = l.pending /\ [l EXCEPT !.batch = <<>>].batch = <<>>
         /\ l.links - 1 \in Nat =>
              /\ [l EXCEPT !.batch = <<>>, !.links = @ - 1] \in Loaders
              /\ [l EXCEPT !.batch = <<>>, !.links = @ - 1].pending = l.pending
<1>1. <<>> \in Seq(Train) /\ IsLoader(l)
  BY LoaderRecord
<1> DEFINE q == [pending |-> l.pending, batch |-> <<>>, links |-> l.links]
<1>2. [l EXCEPT !.batch = <<>>] = q
  BY <1>1, LoaderExcept
<1>3. IsLoader(q)
  BY DEF IsLoader
<1> HIDE DEF q
<1>4. [q EXCEPT !.links = l.links - 1] = [pending |-> q.pending, batch |-> q.batch, links |-> l.links - 1]
  BY <1>3, LoaderExcept
<1>5. [l EXCEPT !.batch = <<>>, !.links = l.links - 1] = [q EXCEPT !.links = l.links - 1]
  BY <1>2
<1> QED
  BY <1>1, <1>2, <1>4, <1>5, LoaderRecord DEF Loaders, q

\* After a batch the loop goes on as long as trains are pending.
LEMMA DoneEffect ==
  ASSUME NEW l \in Loaders
  PROVE  /\ BatchDone(l) \in Loaders
         /\ ToSet(BatchDone(l).pending) \cup ToSet(BatchDone(l).batch) = ToSet(l.pending)
         /\ BatchDone(l).batch = <<>> => BatchDone(l).pending = <<>>
<1> DEFINE q == [l EXCEPT !.batch = <<>>]
<1>1. q \in Loaders /\ q.pending = l.pending
  BY WithoutBatch
<1> HIDE DEF q
<1>2. BatchDone(l) = ProcessPending(q)
  BY DEF BatchDone, q
<1> QED
  BY <1>1, <1>2, ProcessEffect

\* After a batch that was rejected what is pending may stay behind.
LEMMA FailedEffect ==
  ASSUME NEW l \in Loaders
  PROVE  /\ BatchFailed(l) \in Loaders
         /\ ToSet(BatchFailed(l).pending) \cup ToSet(BatchFailed(l).batch) = ToSet(l.pending)
<1>1. CASE l.links = 0
  <2>1. BatchFailed(l) = [l EXCEPT !.batch = <<>>]
    BY <1>1 DEF BatchFailed
  <2>2. BatchFailed(l) \in Loaders /\ BatchFailed(l).pending = l.pending /\ BatchFailed(l).batch = <<>>
    BY <2>1, WithoutBatch
  <2> QED
    BY <2>2 DEF ToSet
<1>2. CASE l.links # 0
  <2> DEFINE q == [l EXCEPT !.batch = <<>>, !.links = @ - 1]
  <2>0. l.links - 1 \in Nat
    BY <1>2, LoaderRecord
  <2>1. q \in Loaders /\ q.pending = l.pending
    BY <2>0, WithoutBatch
  <2> HIDE DEF q
  <2>2. BatchFailed(l) = ProcessPending(q)
    BY <1>2 DEF BatchFailed, q
  <2> QED
    BY <2>1, <2>2, ProcessEffect
<1> QED
  BY <1>1, <1>2

-----------------------------------------------------------------------------
(* The trains of a hook are fresh or on their way. V gives the version of  *)
(* each train, C what a fresh result says of it, and B are the trains an   *)
(* edit is under way for.                                                  *)

Pending(h) == ToSet(h.loader.pending)
Batch(h)   == ToSet(h.loader.batch)

\* A loader without a batch has no answer, and leaves trains behind only after a
\* rejection; an answer that arrived is of the present version of each train, or
\* the train is queued again or being edited.
Runs(h, V, B) ==
  /\ h.loader \in Loaders
  /\ h.mode = "none" => h.loader.batch = <<>>
  /\ h.loader.batch = <<>> => DOMAIN h.answer = {} /\ (h.loader.pending = <<>> \/ h.lost # {})
  /\ \A part \in DOMAIN h.answer : ~Rejected(h, part) =>
       \A t \in Batch(h) \cap DOMAIN h.ref : t \in B \cup Pending(h) \/ h.answer[part][t] = V[t]

\* Each train the hook knows is being edited, queued, in flight, was rejected, or
\* has the result it should have.
Accounted(h, C, B) ==
  h.mode # "none" => \A t \in DOMAIN h.ref :
    \/ t \in B \cup Pending(h) \cup Batch(h) \cup h.lost
    \/ t \in DOMAIN h.results /\ h.results[t].opts = h.opts /\ h.results[t].ver = C[t]

Sound(h, V, C, B) == Runs(h, V, B) /\ Accounted(h, C, B)

LEMMA EmptyBatch ==
  ASSUME NEW h, h.loader \in Loaders
  PROVE  Batch(h) = {} <=> h.loader.batch = <<>>
<1>1. h.loader.batch \in Seq(Train)
  BY LoaderRecord
<1>2. h.loader.batch # <<>> => 1 \in DOMAIN h.loader.batch
  BY <1>1
<1>3. h.loader.batch # <<>> => Batch(h) # {}
  BY <1>2 DEF Batch, ToSet
<1>4. h.loader.batch = <<>> => Batch(h) = {}
  BY DEF Batch, ToSet
<1> QED
  BY <1>3, <1>4

\* Only what is said of the trains in the map matters.
LEMMA SoundSame ==
  ASSUME NEW h, NEW V, NEW C, NEW B, NEW W, NEW D, NEW E, Sound(h, V, C, B),
         \A t \in DOMAIN h.ref : W[t] = V[t] /\ D[t] = C[t] /\ (t \in B => t \in E)
  PROVE  Sound(h, W, D, E)
<1>1. Runs(h, W, E)
  BY DEF Sound, Runs
<1>2. Accounted(h, D, E)
  BY DEF Sound, Accounted
<1> QED
  BY <1>1, <1>2 DEF Sound

\* Trains handed to the hook are queued, whatever became of them.
LEMMA SoundSimulate ==
  ASSUME NEW h, IsHook(h), NEW its, DOMAIN its \subseteq Train,
         NEW V, NEW C, NEW B, NEW W, NEW D, NEW E, Sound(h, V, C, B),
         \A t \in DOMAIN h.ref \ DOMAIN its : W[t] = V[t] /\ D[t] = C[t] /\ (t \in B => t \in E)
  PROVE  Sound(SimulateTimetableItems(h, its), W, D, E)
<1> DEFINE g == SimulateTimetableItems(h, its)
<1>1. /\ g.mode = h.mode /\ g.opts = h.opts /\ g.answer = h.answer /\ g.results = h.results
      /\ g.lost = h.lost /\ g.ref = Over(its, h.ref)
      /\ g.loader = IF h.mode = "none" THEN h.loader
                    ELSE Enqueue(h.loader, SetToSeq(DOMAIN its))
  BY DEF SimulateTimetableItems, IsHook
<1> HIDE DEF g
<1>2. DOMAIN g.ref = DOMAIN its \cup DOMAIN h.ref
  BY <1>1 DEF Over
<1>3. Runs(h, V, B) /\ Accounted(h, C, B) /\ h.loader \in Loaders
  BY DEF Sound, Runs
<1>4. CASE h.mode = "none"
  <2>1. g.loader = h.loader /\ h.loader.batch = <<>> /\ DOMAIN h.answer = {}
    BY <1>1, <1>3, <1>4 DEF Runs
  <2>2. Runs(g, W, E)
    BY <1>1, <1>3, <2>1 DEF Runs
  <2>3. Accounted(g, D, E)
    BY <1>1, <1>4 DEF Accounted
  <2> QED
    BY <2>2, <2>3 DEF Sound, g
<1>5. CASE h.mode # "none"
  <2>1. g.loader = Enqueue(h.loader, SetToSeq(DOMAIN its))
    BY <1>1, <1>5
  <2>2. /\ g.loader \in Loaders
        /\ Pending(g) \cup Batch(g) = Pending(h) \cup Batch(h) \cup DOMAIN its
        /\ h.loader.batch # <<>> => /\ g.loader.batch = h.loader.batch
                                    /\ Pending(g) = Pending(h) \cup DOMAIN its
        /\ h.loader.batch = <<>> /\ g.loader.batch = <<>> => g.loader.pending = <<>>
    <3> DEFINE l == h.loader
               k == Enqueue(l, SetToSeq(DOMAIN its))
    <3>1. /\ k \in Loaders
          /\ ToSet(k.pending) \cup ToSet(k.batch) = ToSet(l.pending) \cup ToSet(l.batch) \cup DOMAIN its
          /\ l.batch # <<>> => k.batch = l.batch /\ ToSet(k.pending) = ToSet(l.pending) \cup DOMAIN its
          /\ l.batch = <<>> /\ k.batch = <<>> => k.pending = <<>>
      BY <1>3, EnqueueEffect
    <3>2. g.loader = k
      BY <2>1
    <3> HIDE DEF k
    <3> QED
      BY <3>1, <3>2 DEF Pending, Batch
  <2>3. Accounted(g, D, E)
    <3> SUFFICES ASSUME NEW t \in DOMAIN g.ref, t \notin DOMAIN its
                 PROVE  \/ t \in E \cup Pending(g) \cup Batch(g) \cup g.lost
                        \/ /\ t \in DOMAIN g.results /\ g.results[t].opts = g.opts
                           /\ g.results[t].ver = D[t]
      BY <2>2 DEF Accounted
    <3>1. t \in DOMAIN h.ref
      BY <1>2
    <3> QED
      BY <1>1, <1>3, <1>5, <2>2, <3>1 DEF Accounted
  <2>4. Runs(g, W, E)
    <3>1. CASE h.loader.batch = <<>>
      <4>1. DOMAIN g.answer = {}
        BY <1>1, <1>3, <3>1 DEF Runs
      <4> QED
        BY <1>1, <1>5, <2>2, <3>1, <4>1 DEF Runs
    <3>2. CASE h.loader.batch # <<>>
      <4>1. Batch(g) = Batch(h) /\ Pending(g) = Pending(h) \cup DOMAIN its /\ g.loader.batch # <<>>
        BY <2>2, <3>2 DEF Batch
      <4>2. ASSUME NEW part \in DOMAIN g.answer, ~Rejected(g, part),
                   NEW t \in Batch(g) \cap DOMAIN g.ref, t \notin DOMAIN its
            PROVE  t \in E \cup Pending(g) \/ g.answer[part][t] = W[t]
        <5>1. part \in DOMAIN h.answer /\ ~Rejected(h, part) /\ t \in Batch(h) \cap DOMAIN h.ref
          BY <1>1, <1>2, <4>1, <4>2 DEF Rejected
        <5>2. t \in B \cup Pending(h) \/ h.answer[part][t] = V[t]
          BY <1>3, <5>1 DEF Runs
        <5> QED
          BY <1>1, <4>1, <4>2, <5>1, <5>2
      <4> QED
        BY <1>1, <1>5, <2>2, <4>1, <4>2 DEF Runs
    <3> QED
      BY <3>1, <3>2
  <2> QED
    BY <2>3, <2>4 DEF Sound, g
<1> QED
  BY <1>4, <1>5

LEMMA SoundRemove ==
  ASSUME NEW h, IsHook(h), NEW S, NEW V, NEW C, NEW B, NEW W, NEW D, NEW E, Sound(h, V, C, B),
         \A t \in DOMAIN h.ref \ S : W[t] = V[t] /\ D[t] = C[t] /\ (t \in B => t \in E)
  PROVE  Sound(RemoveSimulatedTimetableItems(h, S), W, D, E)
<1> DEFINE g == RemoveSimulatedTimetableItems(h, S)
<1>1. /\ g.mode = h.mode /\ g.opts = h.opts /\ g.answer = h.answer /\ g.lost = h.lost
      /\ g.loader = h.loader /\ g.ref = Without(h.ref, S) /\ g.results = Without(h.results, S)
  BY DEF RemoveSimulatedTimetableItems, IsHook
<1> HIDE DEF g
<1>2. /\ DOMAIN g.ref = DOMAIN h.ref \ S /\ DOMAIN g.results = DOMAIN h.results \ S
      /\ \A t \in DOMAIN h.results \ S : g.results[t] = h.results[t]
  BY <1>1 DEF Without
<1>3. Pending(g) = Pending(h) /\ Batch(g) = Batch(h)
  BY <1>1 DEF Pending, Batch
<1>4. Runs(g, W, E)
  BY <1>1, <1>2, <1>3 DEF Sound, Runs, Rejected
<1>5. Accounted(g, D, E)
  BY <1>1, <1>2, <1>3 DEF Sound, Accounted
<1> QED
  BY <1>4, <1>5 DEF Sound, g

\* The server answers from its table.
LEMMA SoundServe ==
  ASSUME NEW h, IsHook(h), NEW V, NEW C, NEW B, Sound(h, V, C, B), h.loader.batch # <<>>,
         \A t \in DOMAIN h.ref \ B : db[t] = V[t], NEW part, NEW g \in Serve(h, part)
  PROVE  Sound(g, V, C, B)
<1> DEFINE served == [t \in Batch(h) |-> db[t]]
<1>1. /\ g.mode = h.mode /\ g.opts = h.opts /\ g.ref = h.ref /\ g.results = h.results
      /\ g.lost = h.lost /\ g.loader = h.loader
      /\ \E a \in {served, Empty} : g.answer = Over(Only(part, a), h.answer)
  BY DEF Serve, IsHook, Batch
<1>2. PICK a \in {served, Empty} : g.answer = Over(Only(part, a), h.answer)
  BY <1>1
<1>3. DOMAIN Only(part, a) = {part} /\ Only(part, a)[part] = a
  BY OnlyEffect
<1>4. /\ DOMAIN g.answer = {part} \cup DOMAIN h.answer /\ g.answer[part] = a
      /\ \A other \in DOMAIN h.answer \ {part} : g.answer[other] = h.answer[other]
  BY <1>2, <1>3 DEF Over
<1>5. Pending(g) = Pending(h) /\ Batch(g) = Batch(h)
  BY <1>1 DEF Pending, Batch
<1>6. \A t \in Batch(h) : served[t] = db[t]
  OBVIOUS
<1> HIDE DEF served
<1>7. ASSUME NEW other \in DOMAIN g.answer, ~Rejected(g, other), NEW t \in Batch(g) \cap DOMAIN g.ref
      PROVE  t \in B \cup Pending(g) \/ g.answer[other][t] = V[t]
  <2>1. CASE other = part
    <3>1. a = served
      BY <1>2, <1>4, <1>7, <2>1 DEF Rejected
    <3>2. g.answer[other][t] = db[t]
      BY <1>4, <1>5, <1>6, <2>1, <3>1
    <3> QED
      BY <1>1, <3>2
  <2>2. CASE other # part
    <3>1. other \in DOMAIN h.answer /\ ~Rejected(h, other) /\ g.answer[other] = h.answer[other]
      BY <1>4, <1>7, <2>2 DEF Rejected
    <3>2. t \in B \cup Pending(h) \/ h.answer[other][t] = V[t]
      BY <1>1, <1>5, <3>1 DEF Sound, Runs
    <3> QED
      BY <1>5, <3>1, <3>2
  <2> QED
    BY <2>1, <2>2
<1>8. Runs(g, V, B)
  BY <1>1, <1>7 DEF Sound, Runs
<1>9. Accounted(g, C, B)
  BY <1>1, <1>5 DEF Sound, Accounted
<1> QED
  BY <1>8, <1>9 DEF Sound

\* A batch that is rejected is lost, and only then may trains stay behind.
LEMMA SoundFail ==
  ASSUME NEW h, IsHook(h), NEW V, NEW C, NEW B, Sound(h, V, C, B), h.loader.batch # <<>>
  PROVE  Sound(Fail(h), V, C, B)
<1> DEFINE g == Fail(h)
<1>1. /\ g.mode = h.mode /\ g.opts = h.opts /\ g.ref = h.ref /\ g.results = h.results
      /\ g.lost = h.lost \cup Batch(h) /\ g.answer = NoAnswer /\ g.loader = BatchFailed(h.loader)
  BY DEF Fail, IsHook, Batch
<1> HIDE DEF g
<1>2. h.loader \in Loaders /\ h.mode # "none"
  BY DEF Sound, Runs
<1>3. Batch(h) # {}
  BY <1>2, EmptyBatch
<1>4. g.loader \in Loaders /\ Pending(g) \cup Batch(g) = Pending(h)
  BY <1>1, <1>2, FailedEffect DEF Pending, Batch
<1>5. DOMAIN g.answer = {}
  BY <1>1 DEF NoAnswer
<1>6. Runs(g, V, B)
  BY <1>1, <1>2, <1>3, <1>4, <1>5 DEF Runs
<1>7. Accounted(g, C, B)
  BY <1>1, <1>4 DEF Sound, Accounted
<1> QED
  BY <1>6, <1>7 DEF Sound, g

\* The results of a batch are fresh where nothing else is on its way.
LEMMA SoundProgress ==
  ASSUME NEW h, IsHook(h), NEW V, NEW C, NEW B, Sound(h, V, C, B), h.loader.batch # <<>>,
         NEW results, DOMAIN results = Batch(h) \cap DOMAIN h.ref,
         \A t \in DOMAIN results : /\ results[t].opts = h.opts
                                   /\ t \in B \cup Pending(h) \/ results[t].ver = C[t]
  PROVE  Sound(Progress(h, results), V, C, B)
<1> DEFINE g == Progress(h, results)
<1>1. /\ g.mode = h.mode /\ g.opts = h.opts /\ g.ref = h.ref
      /\ g.results = Over(results, h.results)
      /\ g.lost = h.lost \ Batch(h) /\ g.answer = NoAnswer /\ g.loader = BatchDone(h.loader)
  BY DEF Progress, IsHook, Batch
<1> HIDE DEF g
<1>2. h.loader \in Loaders /\ h.mode # "none"
  BY DEF Sound, Runs
<1>3. /\ g.loader \in Loaders /\ Pending(g) \cup Batch(g) = Pending(h)
      /\ g.loader.batch = <<>> => g.loader.pending = <<>>
  BY <1>1, <1>2, DoneEffect DEF Pending, Batch
<1>4. DOMAIN g.answer = {}
  BY <1>1 DEF NoAnswer
<1>5. Runs(g, V, B)
  BY <1>1, <1>2, <1>3, <1>4 DEF Runs
<1>6. /\ DOMAIN g.results = DOMAIN results \cup DOMAIN h.results
      /\ \A t \in DOMAIN results : g.results[t] = results[t]
      /\ \A t \in DOMAIN h.results \ DOMAIN results : g.results[t] = h.results[t]
  BY <1>1 DEF Over
<1>7. Accounted(g, C, B)
  <2> SUFFICES ASSUME NEW t \in DOMAIN h.ref
               PROVE  \/ t \in B \cup Pending(g) \cup Batch(g) \cup g.lost
                      \/ /\ t \in DOMAIN g.results /\ g.results[t].opts = g.opts
                         /\ g.results[t].ver = C[t]
    BY <1>1 DEF Accounted
  <2>1. CASE t \in Batch(h)
    BY <1>1, <1>3, <1>6, <2>1
  <2>2. CASE t \notin Batch(h)
    <3>1. \/ t \in B \cup Pending(h) \cup h.lost
          \/ t \in DOMAIN h.results /\ h.results[t].opts = h.opts /\ h.results[t].ver = C[t]
      BY <1>2, <2>2 DEF Sound, Accounted
    <3> QED
      BY <1>1, <1>3, <1>6, <2>2, <3>1
  <2> QED
    BY <2>1, <2>2
<1> QED
  BY <1>5, <1>7 DEF Sound, g

\* A new loader starts with every train of the map.
LEMMA SoundRestart ==
  ASSUME NEW h, IsHook(h), DOMAIN h.ref \subseteq Train, NEW mode, NEW opts, NEW V, NEW C, NEW B
  PROVE  Sound(Restart(h, mode, opts), V, C, B)
<1> DEFINE g == Restart(h, mode, opts)
<1>1. /\ g.mode = mode /\ g.opts = opts /\ g.ref = h.ref /\ g.results = h.results
      /\ g.lost = {} /\ g.answer = NoAnswer
      /\ g.loader = IF mode = "none" THEN NewLoader ELSE Enqueue(NewLoader, SetToSeq(DOMAIN h.ref))
  BY DEF Restart, IsHook
<1> HIDE DEF g
<1>2. DOMAIN g.answer = {}
  BY <1>1 DEF NoAnswer
<1>3. CASE mode = "none"
  BY <1>1, <1>2, <1>3, NewLoaderEffect DEF Sound, Runs, Accounted, g
<1>4. CASE mode # "none"
  <2>1. /\ g.loader \in Loaders /\ Pending(g) \cup Batch(g) = DOMAIN h.ref
        /\ g.loader.batch = <<>> => g.loader.pending = <<>>
    BY <1>1, <1>4, NewLoaderEffect, EnqueueEffect DEF Pending, Batch
  <2>2. Runs(g, V, B)
    BY <1>1, <1>2, <1>4, <2>1 DEF Runs
  <2>3. Accounted(g, C, B)
    BY <1>1, <2>1 DEF Accounted
  <2> QED
    BY <2>2, <2>3 DEF Sound, g
<1> QED
  BY <1>3, <1>4

\* A drag moves the curve and leaves its version and its path alone.
LEMMA SoundUpdate ==
  ASSUME NEW h, IsHook(h), NEW V, NEW C, NEW B, Sound(h, V, C, B), NEW t, NEW s,
         IsMap(h.results), \A u \in DOMAIN h.results : IsDrawn(h.results[u])
  PROVE  Sound(UpdateProjectedDepartureTime(h, t, s), V, C, B)
<1> DEFINE g == UpdateProjectedDepartureTime(h, t, s)
<1>1. /\ g.mode = h.mode /\ g.opts = h.opts /\ g.answer = h.answer /\ g.lost = h.lost
      /\ g.loader = h.loader /\ g.ref = AssignStart(h.ref, t, s) /\ g.results = SetStart(h.results, t, s)
  BY DEF UpdateProjectedDepartureTime, IsHook
<1> HIDE DEF g
<1>2. DOMAIN g.ref = DOMAIN h.ref
  <2> DEFINE moved == AssignStart(h.ref, t, s)
  <2>1. DOMAIN moved = DOMAIN h.ref
    BY DEF AssignStart, SetStart
  <2> HIDE DEF moved
  <2> QED
    BY <1>1, <2>1 DEF moved
<1>3. /\ DOMAIN g.results = DOMAIN h.results
      /\ \A u \in DOMAIN h.results : /\ g.results[u].ver = h.results[u].ver
                                     /\ g.results[u].opts = h.results[u].opts
  BY <1>1, SetStartDrawn
<1>4. Pending(g) = Pending(h) /\ Batch(g) = Batch(h)
  BY <1>1 DEF Pending, Batch
<1>5. Runs(g, V, B)
  BY <1>1, <1>2, <1>4 DEF Sound, Runs, Rejected
<1>6. Accounted(g, C, B)
  BY <1>1, <1>2, <1>3, <1>4 DEF Sound, Accounted
<1> QED
  BY <1>5, <1>6 DEF Sound, g

-----------------------------------------------------------------------------
(* The list, the server and the two hooks together.                        *)

Versions == [t \in DOMAIN items |-> items[t].ver]
Drawings == [t \in DOMAIN items |-> [part \in ProjectionRequests(proj.mode) |-> items[t].ver]]

\* A drag changes no version.
BusyTrains == {t \in DOMAIN inFlight : inFlight[t].kind # "drag"}

\* The list has the versions of the server, but for the trains an answer is on
\* its way for.
ServerKnows ==
  /\ DOMAIN db \subseteq Train /\ DOMAIN items \subseteq Train
  /\ \A t \in DOMAIN items \ BusyTrains : t \in DOMAIN db /\ items[t].ver = db[t]
  /\ \A t \in DOMAIN inFlight :
       inFlight[t].kind \in {"create", "save"} => t \in DOMAIN db /\ db[t] = inFlight[t].stamp

\* The inductive invariant, on top of IInv.
SimulationSound == Sound(sim, Versions, Versions, BusyTrains)
ProjectionSound == Sound(proj, Versions, Drawings, BusyTrains)
FreshInv == ServerKnows /\ SimulationSound /\ ProjectionSound

LEMMA SameVersion ==
  ASSUME NEW u \in DOMAIN items, u \in DOMAIN items', items'[u].ver = items[u].ver,
         proj'.mode = proj.mode
  PROVE  Versions'[u] = Versions[u] /\ Drawings'[u] = Drawings[u]
  BY DEF Versions, Drawings

LEMMA SoundFirstLoad ==
  ASSUME NEW h, IsHook(h), NEW V, NEW B, Sound(h, V, V, B), DOMAIN items' \subseteq Train
  PROVE  Sound(FirstLoad(h), V, V, B)
<1>1. Sound(SimulateTimetableItems(h, items'), V, V, B)
  BY SoundSimulate
<1> QED
  BY <1>1 DEF FirstLoad

\* Nothing is said of a map without trains.
LEMMA FetchFresh ==
  ASSUME IInv, FreshInv, FetchTimetableItems
  PROVE  FreshInv'
<1>1. /\ ~loaded /\ items' = [t \in DOMAIN db |-> [ver |-> db[t], start |-> 0, obj |-> "frozen"]]
      /\ db' = db /\ inFlight' = inFlight /\ proj' = proj /\ sim' = FirstLoad(sim)
  BY DEF FetchTimetableItems, server
<1>2. DOMAIN sim.ref = {} /\ DOMAIN proj.ref = {} /\ DOMAIN inFlight = {} /\ IsHook(sim)
  BY <1>1 DEF IInv, NothingBeforeFetch, SimulationKnown, ProjectionKnown
<1>3. DOMAIN items' = DOMAIN db /\ \A t \in DOMAIN db : items'[t].ver = db[t]
  BY <1>1
<1>4. ServerKnows'
  BY <1>1, <1>2, <1>3 DEF FreshInv, ServerKnows, BusyTrains
<1>5. Sound(sim, Versions', Versions', BusyTrains')
  BY <1>2, SoundSame DEF FreshInv, SimulationSound
<1>6. SimulationSound'
  BY <1>1, <1>2, <1>4, <1>5, SoundFirstLoad DEF SimulationSound, ServerKnows
<1>7. Sound(proj, Versions', Drawings', BusyTrains')
  BY <1>2, SoundSame DEF FreshInv, ProjectionSound
<1>8. ProjectionSound'
  BY <1>1, <1>7 DEF ProjectionSound
<1> QED
  BY <1>4, <1>6, <1>8 DEF FreshInv

\* An edit under way excuses its train.
LEMMA EditFresh ==
  ASSUME IInv, FreshInv, NEW t \in Train, NEW k \in {"create", "save", "drag", "delete"}, Edit(t, k)
  PROVE  FreshInv'
<1> DEFINE e == [kind |-> k, stamp |-> edits + 1]
<1>1. /\ t \notin DOMAIN inFlight /\ inFlight' = Over(Only(t, e), inFlight)
      /\ db' = IF k = "delete" THEN Without(db, {t})
               ELSE IF k = "drag" THEN db ELSE Over(Only(t, edits + 1), db)
      /\ items' = items /\ sim' = sim /\ proj' = proj
  BY DEF Edit
<1>2. e.kind = k /\ e.stamp = edits + 1
  OBVIOUS
<1> HIDE DEF e
<1>3. /\ DOMAIN inFlight' = DOMAIN inFlight \cup {t} /\ inFlight'[t] = e
      /\ \A u \in DOMAIN inFlight : inFlight'[u] = inFlight[u]
  BY <1>1 DEF Over, Only
<1>4. BusyTrains' = IF k = "drag" THEN BusyTrains ELSE BusyTrains \cup {t}
  BY <1>1, <1>2, <1>3 DEF BusyTrains
<1>5. /\ DOMAIN db' \subseteq DOMAIN db \cup {t}
      /\ \A u \in DOMAIN db \ {t} : u \in DOMAIN db' /\ db'[u] = db[u]
      /\ k = "drag" => db' = db
      /\ k \in {"create", "save"} => t \in DOMAIN db' /\ db'[t] = edits + 1
  <2>1. CASE k = "delete"
    BY <1>1, <2>1 DEF Without
  <2>2. CASE k = "drag"
    BY <1>1, <2>2
  <2>3. CASE k \in {"create", "save"}
    BY <1>1, <2>3 DEF Over, Only
  <2> QED
    BY <2>1, <2>2, <2>3
<1>6. ServerKnows'
  <2>1. DOMAIN db' \subseteq Train /\ DOMAIN items' \subseteq Train
    BY <1>1, <1>5 DEF FreshInv, ServerKnows
  <2>2. \A u \in DOMAIN items' \ BusyTrains' : u \in DOMAIN db' /\ items'[u].ver = db'[u]
    BY <1>1, <1>4, <1>5 DEF FreshInv, ServerKnows
  <2>3. \A u \in DOMAIN inFlight' : inFlight'[u].kind \in {"create", "save"} =>
          u \in DOMAIN db' /\ db'[u] = inFlight'[u].stamp
    <3>1. \A u \in DOMAIN inFlight : /\ inFlight'[u] = inFlight[u] /\ u # t
                                     /\ inFlight[u].kind \in {"create", "save"} =>
                                          u \in DOMAIN db /\ db[u] = inFlight[u].stamp
      BY <1>1, <1>3 DEF FreshInv, ServerKnows
    <3>2. k \in {"create", "save"} => t \in DOMAIN db' /\ db'[t] = inFlight'[t].stamp
      BY <1>2, <1>3, <1>5
    <3>3. inFlight'[t].kind = k
      BY <1>2, <1>3
    <3> QED
      BY <1>3, <1>5, <3>1, <3>2, <3>3
  <2> QED
    BY <2>1, <2>2, <2>3 DEF ServerKnows
<1>7. Versions' = Versions /\ Drawings' = Drawings /\ BusyTrains \subseteq BusyTrains'
  BY <1>1, <1>4 DEF Versions, Drawings
<1>8. Sound(sim, Versions', Versions', BusyTrains') /\ Sound(proj, Versions', Drawings', BusyTrains')
  BY <1>7, SoundSame DEF FreshInv, SimulationSound, ProjectionSound
<1> QED
  BY <1>1, <1>6, <1>8 DEF FreshInv, SimulationSound, ProjectionSound

\* What an answer to an edit of t does to the edits under way.
LEMMA AnsweredFacts ==
  ASSUME NEW t \in Train, NEW kinds, Answered(t, kinds)
  PROVE  /\ t \in DOMAIN inFlight /\ inFlight[t].kind \in kinds /\ db' = db
         /\ DOMAIN inFlight' = DOMAIN inFlight \ {t}
         /\ \A u \in DOMAIN inFlight' : inFlight'[u] = inFlight[u]
         /\ BusyTrains' = BusyTrains \ {t}
<1>1. /\ t \in DOMAIN inFlight /\ inFlight[t].kind \in kinds /\ db' = db
      /\ inFlight' = Without(inFlight, {t})
  BY DEF Answered
<1>2. /\ DOMAIN inFlight' = DOMAIN inFlight \ {t}
      /\ \A u \in DOMAIN inFlight' : inFlight'[u] = inFlight[u]
  BY <1>1 DEF Without
<1>3. BusyTrains' = BusyTrains \ {t}
  BY <1>2 DEF BusyTrains
<1> QED
  BY <1>1, <1>2, <1>3

LEMMA UpsertFresh ==
  ASSUME IInv, FreshInv, NEW t \in Train, UpsertTimetableItems(t)
  PROVE  FreshInv'
<1> DEFINE new == UpsertedItem(inFlight[t])
<1>1. /\ Answered(t, {"create", "save"}) /\ items' = Over(Only(t, new), items)
      /\ proj' = RemoveProjectedTimetableItems(proj, {t})
      /\ sim' = FirstLoad(SimulateTimetableItems(sim, Only(t, items'[t])))
  BY DEF UpsertTimetableItems
<1>2. new.ver = inFlight[t].stamp
  BY DEF UpsertedItem
<1> HIDE DEF new
<1>3. /\ t \in DOMAIN inFlight /\ inFlight[t].kind \in {"create", "save"} /\ db' = db
      /\ DOMAIN inFlight' = DOMAIN inFlight \ {t}
      /\ \A u \in DOMAIN inFlight' : inFlight'[u] = inFlight[u]
      /\ BusyTrains' = BusyTrains \ {t}
  BY <1>1, AnsweredFacts
<1>4. /\ DOMAIN items' = DOMAIN items \cup {t} /\ items'[t] = new
      /\ \A u \in DOMAIN items \ {t} : items'[u] = items[u]
  BY <1>1 DEF Over, Only
<1>5. ServerKnows'
  <2>1. DOMAIN db' \subseteq Train /\ DOMAIN items' \subseteq Train
    BY <1>3, <1>4 DEF FreshInv, ServerKnows
  <2>2. t \in DOMAIN db /\ items'[t].ver = db[t]
    BY <1>2, <1>3, <1>4 DEF FreshInv, ServerKnows
  <2>3. \A u \in DOMAIN items' \ BusyTrains' : u \in DOMAIN db /\ items'[u].ver = db[u]
    BY <1>3, <1>4, <2>2 DEF FreshInv, ServerKnows
  <2>4. \A u \in DOMAIN inFlight' : inFlight'[u].kind \in {"create", "save"} =>
          u \in DOMAIN db /\ db[u] = inFlight'[u].stamp
    BY <1>3 DEF FreshInv, ServerKnows
  <2> QED
    BY <1>3, <2>1, <2>3, <2>4 DEF ServerKnows
<1>6. /\ IsHook(sim) /\ IsHook(proj)
      /\ DOMAIN sim.ref \subseteq DOMAIN items /\ DOMAIN proj.ref \subseteq DOMAIN items
  BY DEF IInv, SimulationKnown, ProjectionKnown
<1>7. proj'.mode = proj.mode /\ proj' = RemoveSimulatedTimetableItems(proj, {t})
  BY <1>1, <1>6, RemoveEffect
<1>8. \A u \in DOMAIN items \ {t} : /\ Versions'[u] = Versions[u] /\ Drawings'[u] = Drawings[u]
                                    /\ u \in BusyTrains => u \in BusyTrains'
  BY <1>3, <1>4, <1>7, SameVersion
<1> DEFINE its == Only(t, items'[t])
           h   == SimulateTimetableItems(sim, its)
<1>9. DOMAIN its = {t}
  BY OnlyEffect
<1> HIDE DEF its
<1>10. IsHook(h) /\ Sound(h, Versions', Versions', BusyTrains')
  <2>1. Sound(sim, Versions, Versions, BusyTrains)
    BY DEF FreshInv, SimulationSound
  <2> QED
    BY <1>6, <1>8, <1>9, <2>1, SimulateEffect, SoundSimulate
<1> HIDE DEF h
<1>11. SimulationSound'
  <2>1. Sound(FirstLoad(h), Versions', Versions', BusyTrains')
    BY <1>5, <1>10, SoundFirstLoad DEF ServerKnows
  <2> QED
    BY <1>1, <2>1 DEF SimulationSound, h, its
<1>12. ProjectionSound'
  <2>1. Sound(proj, Versions, Drawings, BusyTrains)
    BY DEF FreshInv, ProjectionSound
  <2>2. Sound(RemoveSimulatedTimetableItems(proj, {t}), Versions', Drawings', BusyTrains')
    BY <1>6, <1>8, <2>1, SoundRemove
  <2> QED
    BY <1>7, <2>2 DEF ProjectionSound
<1> QED
  BY <1>5, <1>11, <1>12 DEF FreshInv

LEMMA RemoveFresh ==
  ASSUME IInv, FreshInv, NEW t \in Train, RemoveTimetableItems(t)
  PROVE  FreshInv'
<1>1. /\ Answered(t, {"delete"}) /\ items' = Without(items, {t})
      /\ proj' = RemoveProjectedTimetableItems(proj, {t})
      /\ sim' = FirstLoad(RemoveSimulatedTimetableItems(sim, {t}))
  BY DEF RemoveTimetableItems
<1>2. /\ db' = db /\ DOMAIN inFlight' = DOMAIN inFlight \ {t}
      /\ \A u \in DOMAIN inFlight' : inFlight'[u] = inFlight[u]
      /\ BusyTrains' = BusyTrains \ {t}
  BY <1>1, AnsweredFacts
<1>3. DOMAIN items' = DOMAIN items \ {t} /\ \A u \in DOMAIN items \ {t} : items'[u] = items[u]
  BY <1>1 DEF Without
<1>4. ServerKnows'
  <2>1. DOMAIN db' \subseteq Train /\ DOMAIN items' \subseteq Train
    BY <1>2, <1>3 DEF FreshInv, ServerKnows
  <2>2. \A u \in DOMAIN items' \ BusyTrains' : u \in DOMAIN db /\ items'[u].ver = db[u]
    BY <1>2, <1>3 DEF FreshInv, ServerKnows
  <2>3. \A u \in DOMAIN inFlight' : inFlight'[u].kind \in {"create", "save"} =>
          u \in DOMAIN db /\ db[u] = inFlight'[u].stamp
    BY <1>2 DEF FreshInv, ServerKnows
  <2> QED
    BY <1>2, <2>1, <2>2, <2>3 DEF ServerKnows
<1>5. /\ IsHook(sim) /\ IsHook(proj)
      /\ DOMAIN sim.ref \subseteq DOMAIN items /\ DOMAIN proj.ref \subseteq DOMAIN items
  BY DEF IInv, SimulationKnown, ProjectionKnown
<1>6. proj'.mode = proj.mode /\ proj' = RemoveSimulatedTimetableItems(proj, {t})
  BY <1>1, <1>5, RemoveEffect
<1>7. \A u \in DOMAIN items \ {t} : /\ Versions'[u] = Versions[u] /\ Drawings'[u] = Drawings[u]
                                    /\ u \in BusyTrains => u \in BusyTrains'
  BY <1>2, <1>3, <1>6, SameVersion
<1> DEFINE h == RemoveSimulatedTimetableItems(sim, {t})
<1>8. IsHook(h) /\ Sound(h, Versions', Versions', BusyTrains')
  <2>1. Sound(sim, Versions, Versions, BusyTrains)
    BY DEF FreshInv, SimulationSound
  <2> QED
    BY <1>5, <1>7, <2>1, RemoveEffect, SoundRemove
<1> HIDE DEF h
<1>9. SimulationSound'
  <2>1. Sound(FirstLoad(h), Versions', Versions', BusyTrains')
    BY <1>4, <1>8, SoundFirstLoad DEF ServerKnows
  <2> QED
    BY <1>1, <2>1 DEF SimulationSound, h
<1>10. ProjectionSound'
  <2>1. Sound(proj, Versions, Drawings, BusyTrains)
    BY DEF FreshInv, ProjectionSound
  <2>2. Sound(RemoveSimulatedTimetableItems(proj, {t}), Versions', Drawings', BusyTrains')
    BY <1>5, <1>7, <2>1, SoundRemove
  <2> QED
    BY <1>6, <2>2 DEF ProjectionSound
<1> QED
  BY <1>4, <1>9, <1>10 DEF FreshInv

LEMMA DragFresh ==
  ASSUME IInv, FreshInv, NEW t \in Train, SetTimetableItemDepartureTime(t)
  PROVE  FreshInv'
<1> DEFINE s == inFlight[t].stamp
<1>1. /\ Answered(t, {"drag"}) /\ items' = Dragged(items, t, s)
      /\ proj' = UpdateProjectedDepartureTime(proj, t, s) /\ sim' = FirstLoad(sim)
  BY DEF SetTimetableItemDepartureTime
<1> HIDE DEF s
<1>2. /\ inFlight[t].kind = "drag" /\ db' = db /\ DOMAIN inFlight' = DOMAIN inFlight \ {t}
      /\ \A u \in DOMAIN inFlight' : inFlight'[u] = inFlight[u]
      /\ BusyTrains' = BusyTrains \ {t}
  BY <1>1, AnsweredFacts
<1>3. BusyTrains' = BusyTrains
  BY <1>2 DEF BusyTrains
<1>4. DOMAIN items' = DOMAIN items /\ \A u \in DOMAIN items : items'[u].ver = items[u].ver
  <2>1. /\ DOMAIN items' = DOMAIN items
        /\ \A u \in DOMAIN items \ {t} : items'[u] = items[u]
        /\ t \in DOMAIN items => items'[t].ver = items[t].ver
    BY <1>1, DraggedEffect DEF IInv, ListShape
  <2> QED
    BY <2>1
<1>5. ServerKnows'
  <2>1. DOMAIN db' \subseteq Train /\ DOMAIN items' \subseteq Train
    BY <1>2, <1>4 DEF FreshInv, ServerKnows
  <2>2. \A u \in DOMAIN items' \ BusyTrains' : u \in DOMAIN db /\ items'[u].ver = db[u]
    BY <1>3, <1>4 DEF FreshInv, ServerKnows
  <2>3. \A u \in DOMAIN inFlight' : inFlight'[u].kind \in {"create", "save"} =>
          u \in DOMAIN db /\ db[u] = inFlight'[u].stamp
    BY <1>2 DEF FreshInv, ServerKnows
  <2> QED
    BY <1>2, <2>1, <2>2, <2>3 DEF ServerKnows
<1>6. /\ IsHook(sim) /\ IsHook(proj) /\ IsMap(proj.results)
      /\ \A u \in DOMAIN proj.results : IsDrawn(proj.results[u])
      /\ DOMAIN sim.ref \subseteq DOMAIN items /\ DOMAIN proj.ref \subseteq DOMAIN items
  BY DEF IInv, SimulationKnown, ProjectionKnown
<1>7. proj'.mode = proj.mode
  BY <1>1, <1>6, UpdateEffect
<1>8. \A u \in DOMAIN items : Versions'[u] = Versions[u] /\ Drawings'[u] = Drawings[u]
  BY <1>4, <1>7, SameVersion
<1>9. SimulationSound'
  <2>1. Sound(sim, Versions, Versions, BusyTrains)
    BY DEF FreshInv, SimulationSound
  <2>2. Sound(sim, Versions', Versions', BusyTrains')
    BY <1>3, <1>6, <1>8, <2>1, SoundSame
  <2>3. Sound(FirstLoad(sim), Versions', Versions', BusyTrains')
    BY <1>5, <1>6, <2>2, SoundFirstLoad DEF ServerKnows
  <2> QED
    BY <1>1, <2>3 DEF SimulationSound
<1>10. ProjectionSound'
  <2>1. Sound(proj, Versions, Drawings, BusyTrains)
    BY DEF FreshInv, ProjectionSound
  <2>2. Sound(proj, Versions', Drawings', BusyTrains')
    BY <1>3, <1>6, <1>8, <2>1, SoundSame
  <2>3. Sound(UpdateProjectedDepartureTime(proj, t, s), Versions', Drawings', BusyTrains')
    BY <1>6, <2>2, SoundUpdate
  <2> QED
    BY <1>1, <2>3 DEF ProjectionSound
<1> QED
  BY <1>5, <1>9, <1>10 DEF FreshInv

\* Steps of the loaders leave the list and the server alone.
LEMMA SameList ==
  ASSUME FreshInv, db' = db, inFlight' = inFlight, items' = items
  PROVE  /\ ServerKnows' /\ Versions' = Versions /\ BusyTrains' = BusyTrains
         /\ proj'.mode = proj.mode => Drawings' = Drawings
  BY DEF FreshInv, ServerKnows, Versions, Drawings, BusyTrains

\* What is known of the hooks, for the steps below.
LEMMA HookFacts ==
  ASSUME IInv, FreshInv
  PROVE  /\ IsHook(sim) /\ IsHook(proj)
         /\ DOMAIN sim.ref \subseteq DOMAIN items /\ DOMAIN proj.ref \subseteq DOMAIN items
         /\ DOMAIN items \subseteq Train
         /\ Sound(sim, Versions, Versions, BusyTrains) /\ Sound(proj, Versions, Drawings, BusyTrains)
         /\ \A t \in DOMAIN items : Versions[t] = items[t].ver
         /\ \A t \in DOMAIN items \ BusyTrains : db[t] = Versions[t]
         /\ sim.loader.batch = <<>> => DOMAIN sim.answer = {}
         /\ proj.loader.batch = <<>> => DOMAIN proj.answer = {}
<1>1. \A t \in DOMAIN items : Versions[t] = items[t].ver
  BY DEF Versions
<1>2. \A t \in DOMAIN items \ BusyTrains : db[t] = Versions[t]
  BY <1>1 DEF FreshInv, ServerKnows
<1>3. /\ sim.loader.batch = <<>> => DOMAIN sim.answer = {}
      /\ proj.loader.batch = <<>> => DOMAIN proj.answer = {}
  BY DEF FreshInv, SimulationSound, ProjectionSound, Sound, Runs
<1> QED
  BY <1>1, <1>2, <1>3
  DEF IInv, FreshInv, SimulationKnown, ProjectionKnown, ServerKnows, SimulationSound, ProjectionSound

\* The simulation hook alone moves.
LEMMA SimulationStep ==
  ASSUME FreshInv, UNCHANGED <<db, inFlight, items, proj>>,
         Sound(sim', Versions, Versions, BusyTrains)
  PROVE  FreshInv'
<1>1. /\ ServerKnows' /\ Versions' = Versions /\ BusyTrains' = BusyTrains /\ Drawings' = Drawings
  BY SameList
<1>2. SimulationSound'
  BY <1>1 DEF SimulationSound
<1>3. ProjectionSound'
  BY <1>1 DEF FreshInv, ProjectionSound
<1> QED
  BY <1>1, <1>2, <1>3 DEF FreshInv

\* The projection hook alone moves.
LEMMA ProjectionStep ==
  ASSUME FreshInv, UNCHANGED <<db, inFlight, items, sim>>,
         Sound(proj', Versions, Drawings', BusyTrains)
  PROVE  FreshInv'
<1>1. /\ ServerKnows' /\ Versions' = Versions /\ BusyTrains' = BusyTrains
  BY SameList
<1>2. SimulationSound'
  BY <1>1 DEF FreshInv, SimulationSound
<1>3. ProjectionSound'
  BY <1>1 DEF ProjectionSound
<1> QED
  BY <1>1, <1>2, <1>3 DEF FreshInv

LEMMA SimulationProgressFresh ==
  ASSUME IInv, FreshInv, SimulationProgress
  PROVE  FreshInv'
<1> DEFINE ids == Batch(sim)
           results == [t \in ids |-> [ver |-> sim.answer["summary"][t], opts |-> sim.opts]]
           its == [t \in ids |-> items[t]]
<1>1. /\ DOMAIN sim.answer = {"summary"} /\ ~Rejected(sim, "summary") /\ ids \subseteq DOMAIN sim.ref
      /\ sim' = Progress(sim, results) /\ proj' = SimulateTimetableItems(proj, its)
      /\ UNCHANGED <<db, inFlight, items>>
  BY DEF SimulationProgress, SimulationRequests, CanFormatSummaries, ProjectTimetableItems, server, Batch
<1>2. /\ IsHook(sim) /\ IsHook(proj)
      /\ DOMAIN sim.ref \subseteq DOMAIN items /\ DOMAIN items \subseteq Train
      /\ Sound(sim, Versions, Versions, BusyTrains) /\ Sound(proj, Versions, Drawings, BusyTrains)
      /\ sim.loader.batch # <<>>
  BY <1>1, HookFacts
<1>3. /\ DOMAIN results = ids /\ DOMAIN its = ids
      /\ \A t \in ids : results[t].ver = sim.answer["summary"][t] /\ results[t].opts = sim.opts
  OBVIOUS
<1> HIDE DEF results, its
<1>4. \A t \in ids : t \in BusyTrains \cup Pending(sim) \/ sim.answer["summary"][t] = Versions[t]
  BY <1>1, <1>2 DEF Sound, Runs
<1> HIDE DEF ids
<1>5. Sound(sim', Versions, Versions, BusyTrains)
  <2>1. DOMAIN results = Batch(sim) \cap DOMAIN sim.ref
    BY <1>1, <1>3 DEF ids
  <2>2. \A t \in DOMAIN results : /\ results[t].opts = sim.opts
                                  /\ t \in BusyTrains \cup Pending(sim) \/ results[t].ver = Versions[t]
    BY <1>3, <1>4
  <2>3. Sound(Progress(sim, results), Versions, Versions, BusyTrains)
    BY <1>2, <2>1, <2>2, SoundProgress
  <2> QED
    BY <1>1, <2>3
<1>6. proj'.mode = proj.mode /\ Sound(proj', Versions, Drawings, BusyTrains)
  <2>1. DOMAIN its \subseteq Train
    BY <1>1, <1>2, <1>3
  <2> QED
    BY <1>1, <1>2, <2>1, SimulateEffect, SoundSimulate
<1>7. /\ ServerKnows' /\ Versions' = Versions /\ BusyTrains' = BusyTrains /\ Drawings' = Drawings
  BY <1>1, <1>6, SameList
<1> QED
  BY <1>5, <1>6, <1>7 DEF FreshInv, SimulationSound, ProjectionSound

LEMMA ProjectionProgressFresh ==
  ASSUME IInv, FreshInv, ProjectionProgress
  PROVE  FreshInv'
<1> DEFINE new == UpsertNewProjectedTrains(proj)
<1>1. /\ proj.loader.batch # <<>> /\ DOMAIN proj.answer = ProjectionRequests(proj.mode)
      /\ \A part \in DOMAIN proj.answer : ~Rejected(proj, part)
      /\ proj' = Progress(proj, new) /\ UNCHANGED <<db, inFlight, items, sim>>
  BY DEF ProjectionProgress, server
<1>2. /\ IsHook(proj) /\ DOMAIN proj.ref \subseteq DOMAIN items
      /\ Sound(proj, Versions, Drawings, BusyTrains)
      /\ \A t \in DOMAIN items : Versions[t] = items[t].ver
  BY HookFacts
<1>3. /\ DOMAIN new = Batch(proj) \cap DOMAIN proj.ref
      /\ \A t \in DOMAIN new :
           /\ new[t].opts = proj.opts
           /\ new[t].ver = [part \in DOMAIN proj.answer |-> proj.answer[part][t]]
  BY DEF UpsertNewProjectedTrains, Drawn, Batch
<1> HIDE DEF new
<1>4. ASSUME NEW t \in DOMAIN new, t \notin BusyTrains \cup Pending(proj)
      PROVE  new[t].ver = Drawings[t]
  <2>1. \A part \in DOMAIN proj.answer : proj.answer[part][t] = items[t].ver
    BY <1>1, <1>2, <1>3, <1>4 DEF Sound, Runs
  <2>2. new[t].ver = [part \in ProjectionRequests(proj.mode) |-> items[t].ver]
    BY <1>1, <1>3, <2>1
  <2> QED
    BY <1>2, <1>3, <2>2 DEF Drawings
<1>5. Sound(Progress(proj, new), Versions, Drawings, BusyTrains)
  BY <1>1, <1>2, <1>3, <1>4, SoundProgress
<1>6. proj'.mode = proj.mode
  BY <1>1, <1>2, ProgressEffect
<1>7. Drawings' = Drawings
  BY <1>1, <1>6 DEF Drawings
<1> QED
  BY <1>1, <1>5, <1>7, ProjectionStep

LEMMA FreshEstablished == Init => FreshInv
<1> SUFFICES ASSUME Init PROVE FreshInv
  OBVIOUS
<1>1. /\ DOMAIN items = {} /\ DOMAIN inFlight = {} /\ DOMAIN db \subseteq Train
      /\ sim = Hook /\ proj = Hook
  BY EmptyMap, ScenarioAssumption DEF Init
<1>2. ServerKnows
  BY <1>1 DEF ServerKnows
<1>3. /\ Hook.mode = "none" /\ Hook.loader = NewLoader /\ Hook.answer = NoAnswer
      /\ DOMAIN NoAnswer = {}
  BY DEF Hook, NoAnswer
<1>4. \A V, C, B : Sound(Hook, V, C, B)
  BY <1>3, NewLoaderEffect DEF Sound, Runs, Accounted
<1> QED
  BY <1>1, <1>2, <1>4 DEF FreshInv, SimulationSound, ProjectionSound

LEMMA FreshPreserved == IInv /\ FreshInv /\ [Next]_vars => FreshInv'
<1> SUFFICES ASSUME IInv, FreshInv, [Next]_vars PROVE FreshInv'
  OBVIOUS
<1>0. /\ IsHook(sim) /\ IsHook(proj)
      /\ DOMAIN sim.ref \subseteq DOMAIN items /\ DOMAIN proj.ref \subseteq DOMAIN items
      /\ DOMAIN items \subseteq Train
      /\ Sound(sim, Versions, Versions, BusyTrains) /\ Sound(proj, Versions, Drawings, BusyTrains)
      /\ \A t \in DOMAIN items \ BusyTrains : db[t] = Versions[t]
      /\ sim.loader.batch = <<>> => DOMAIN sim.answer = {}
      /\ proj.loader.batch = <<>> => DOMAIN proj.answer = {}
  BY HookFacts
<1>1. CASE FetchTimetableItems \/ SimulationProgress \/ ProjectionProgress
  BY <1>1, FetchFresh, SimulationProgressFresh, ProjectionProgressFresh
<1>2. CASE \E t \in Train : \/ UpsertTimetableItems(t) \/ RemoveTimetableItems(t)
                            \/ SetTimetableItemDepartureTime(t)
  BY <1>2, UpsertFresh, RemoveFresh, DragFresh
<1>3. CASE WorkerReady
  <2>1. UNCHANGED <<db, inFlight, items, proj>> /\ sim' = FirstLoad(sim)
    BY <1>3 DEF WorkerReady, server
  <2>2. Sound(FirstLoad(sim), Versions, Versions, BusyTrains)
    BY <1>0, <2>1, SoundFirstLoad
  <2> QED
    BY <2>1, <2>2, SimulationStep
<1>4. CASE \E t \in Train, k \in {"create", "save", "drag", "delete"} : Edit(t, k)
  BY <1>4, EditFresh
<1>5. CASE ServeSimulation
  <2>1. UNCHANGED <<db, inFlight, items, proj>> /\ sim.loader.batch # <<>>
    BY <1>5 DEF ServeSimulation, server
  <2>2. PICK part : sim' \in Serve(sim, part)
    BY <1>5 DEF ServeSimulation
  <2>3. Sound(sim', Versions, Versions, BusyTrains)
    BY <1>0, <2>1, <2>2, SoundServe
  <2> QED
    BY <2>1, <2>3, SimulationStep
<1>6. CASE SimulationFails
  <2>1. UNCHANGED <<db, inFlight, items, proj>> /\ sim' = Fail(sim) /\ sim.loader.batch # <<>>
    BY <1>0, <1>6 DEF SimulationFails, SimulationRequests, server
  <2>2. Sound(Fail(sim), Versions, Versions, BusyTrains)
    BY <1>0, <2>1, SoundFail
  <2> QED
    BY <2>1, <2>2, SimulationStep
<1>7. CASE NewSimulationLoader
  <2>1. UNCHANGED <<db, inFlight, items, proj>> /\ sim' = Restart(sim, "simulation", sim.opts + 1)
    BY <1>7 DEF NewSimulationLoader, server
  <2>2. Sound(Restart(sim, "simulation", sim.opts + 1), Versions, Versions, BusyTrains)
    BY <1>0, SoundRestart
  <2> QED
    BY <2>1, <2>2, SimulationStep
<1>8. CASE ServeProjection
  <2>1. UNCHANGED <<db, inFlight, items, sim>> /\ proj.loader.batch # <<>>
    BY <1>8 DEF ServeProjection, server
  <2>2. PICK part : proj' \in Serve(proj, part)
    BY <1>8 DEF ServeProjection
  <2>3. proj'.mode = proj.mode /\ Sound(proj', Versions, Drawings, BusyTrains)
    BY <1>0, <2>1, <2>2, ServeEffect, SoundServe
  <2>4. Drawings' = Drawings
    BY <2>1, <2>3 DEF Drawings
  <2> QED
    BY <2>1, <2>3, <2>4, ProjectionStep
<1>9. CASE ProjectionFails
  <2>1. UNCHANGED <<db, inFlight, items, sim>> /\ proj' = Fail(proj) /\ proj.loader.batch # <<>>
    BY <1>0, <1>9 DEF ProjectionFails, Rejected, server
  <2>2. proj'.mode = proj.mode /\ Sound(Fail(proj), Versions, Drawings, BusyTrains)
    BY <1>0, <2>1, FailEffect, SoundFail
  <2>3. Drawings' = Drawings
    BY <2>1, <2>2 DEF Drawings
  <2> QED
    BY <2>1, <2>2, <2>3, ProjectionStep
<1>10. CASE \E mode \in Modes : NewProjectionLoader(mode)
  <2>1. PICK mode \in Modes : NewProjectionLoader(mode)
    BY <1>10
  <2>2. UNCHANGED <<db, inFlight, items, sim>> /\ proj' = Restart(proj, mode, proj.opts + 1)
    BY <2>1 DEF NewProjectionLoader, server
  <2>3. Sound(Restart(proj, mode, proj.opts + 1), Versions, Drawings', BusyTrains)
    BY <1>0, SoundRestart
  <2> QED
    BY <2>2, <2>3, ProjectionStep
<1>11. CASE UNCHANGED vars
  <2>1. UNCHANGED <<db, inFlight, items, proj, sim>>
    BY <1>11 DEF vars, server
  <2> QED
    BY <1>0, <2>1, SimulationStep
<1> QED
  BY <1>1, <1>2, <1>3, <1>4, <1>5, <1>6, <1>7, <1>8, <1>9, <1>10, <1>11 DEF Next

\* The shape of a simulation.
IsSimulated(r) == r \in [ver : {r.ver}, opts : {r.opts}]
SimulationShape == \A t \in DOMAIN sim.results : IsSimulated(sim.results[t])

LEMMA ShapePreserved == IInv /\ SimulationShape /\ [Next]_vars => SimulationShape'
<1> SUFFICES ASSUME IInv, SimulationShape, [Next]_vars PROVE SimulationShape'
  OBVIOUS
<1>0. IsHook(sim)
  BY DEF IInv, SimulationKnown
<1>1. CASE sim'.results = sim.results
  BY <1>1 DEF SimulationShape
<1>2. CASE FetchTimetableItems \/ WorkerReady \/ \E t \in Train : SetTimetableItemDepartureTime(t)
  <2>1. sim' = FirstLoad(sim)
    BY <1>2 DEF FetchTimetableItems, WorkerReady, SetTimetableItemDepartureTime
  <2> QED
    BY <1>0, <1>1, <2>1, FirstLoadEffect
<1>3. CASE \E t \in Train : UpsertTimetableItems(t)
  <2>1. PICK its : sim' = FirstLoad(SimulateTimetableItems(sim, its))
    BY <1>3 DEF UpsertTimetableItems
  <2> DEFINE h == SimulateTimetableItems(sim, its)
  <2>2. IsHook(h) /\ h.results = sim.results
    BY <1>0, SimulateEffect
  <2> HIDE DEF h
  <2>3. FirstLoad(h).results = h.results
    BY <2>2, FirstLoadEffect
  <2> QED
    BY <1>1, <2>1, <2>2, <2>3 DEF h
<1>4. CASE \E t \in Train : RemoveTimetableItems(t)
  <2>1. PICK t \in Train : sim' = FirstLoad(RemoveSimulatedTimetableItems(sim, {t}))
    BY <1>4 DEF RemoveTimetableItems
  <2> DEFINE h == RemoveSimulatedTimetableItems(sim, {t})
  <2>2. IsHook(h) /\ h.results = Without(sim.results, {t})
    BY <1>0, RemoveEffect
  <2> HIDE DEF h
  <2>3. FirstLoad(h).results = h.results
    BY <2>2, FirstLoadEffect
  <2>4. sim'.results = Without(sim.results, {t})
    BY <2>1, <2>2, <2>3 DEF h
  <2> QED
    BY <2>4 DEF Without, SimulationShape
<1>5. CASE SimulationProgress
  <2> DEFINE results == [t \in Batch(sim) |-> [ver |-> sim.answer["summary"][t], opts |-> sim.opts]]
  <2>1. sim' = Progress(sim, results)
    BY <1>5 DEF SimulationProgress, Batch
  <2>2. \A t \in DOMAIN results : IsSimulated(results[t])
    BY DEF IsSimulated
  <2> HIDE DEF results
  <2>3. sim'.results = Over(results, sim.results)
    BY <1>0, <2>1, ProgressEffect
  <2> QED
    BY <2>2, <2>3 DEF Over, SimulationShape
<1>6. CASE SimulationFails \/ NewSimulationLoader \/ ServeSimulation
  <2>1. sim'.results = sim.results
    BY <1>0, <1>6, FailEffect, RestartEffect, ServeEffect
    DEF SimulationFails, NewSimulationLoader, ServeSimulation
  <2> QED
    BY <1>1, <2>1
<1>7. CASE sim' = sim
  BY <1>1, <1>7
<1> QED
  BY <1>2, <1>3, <1>4, <1>5, <1>6, <1>7
  DEF Next, Edit, ServeProjection, ProjectionProgress, ProjectionFails, NewProjectionLoader, vars

\* When every answer is in, each train a hook knows is simulated as it is now with
\* the present options, and drawn on the present path, curves and blocks of one
\* version, unless its last batch was rejected or it waits behind one that was.
THEOREM QuietTrainsAreFresh == Spec => []QuietMeansFresh
<1>1. IInv /\ FreshInv /\ SimulationShape => QuietMeansFresh
  <2> SUFFICES ASSUME IInv, FreshInv, SimulationShape, inFlight = Empty,
                      sim.loader.batch = <<>>, proj.loader.batch = <<>>
               PROVE  /\ sim.mode # "none" =>
                           \A t \in DOMAIN sim.ref \ Awaited(sim) : SimulationFresh(t)
                      /\ proj.mode # "none" =>
                           \A t \in DOMAIN proj.ref \ Awaited(proj) : ProjectionFresh(t)
    BY DEF QuietMeansFresh
  <2>1. BusyTrains = {}
    BY EmptyMap DEF BusyTrains
  <2>2. /\ DOMAIN sim.ref \subseteq DOMAIN items /\ DOMAIN proj.ref \subseteq DOMAIN items
        /\ Sound(sim, Versions, Versions, BusyTrains) /\ Sound(proj, Versions, Drawings, BusyTrains)
        /\ \A t \in DOMAIN items : Versions[t] = items[t].ver
    BY HookFacts
  <2>3. ASSUME NEW h, NEW V, NEW C, Sound(h, V, C, {}), h.loader.batch = <<>>, h.mode # "none",
               NEW t \in DOMAIN h.ref \ Awaited(h)
        PROVE  t \in DOMAIN h.results /\ h.results[t].opts = h.opts /\ h.results[t].ver = C[t]
    <3>1. Batch(h) = {} /\ (h.loader.pending = <<>> \/ h.lost # {})
      BY <2>3, EmptyBatch DEF Sound, Runs
    <3>2. Pending(h) = {} \/ Stopped(h)
      BY <2>3, <3>1 DEF Stopped, Pending, ToSet
    <3>3. t \notin Pending(h) \cup h.lost
      BY <2>3, <3>2 DEF Awaited, Pending
    <3> QED
      BY <2>3, <3>1, <3>3 DEF Sound, Accounted
  <2>4. ASSUME sim.mode # "none", NEW t \in DOMAIN sim.ref \ Awaited(sim)
        PROVE  SimulationFresh(t)
    <3>1. t \in DOMAIN sim.results /\ sim.results[t].opts = sim.opts /\ sim.results[t].ver = items[t].ver
      BY <2>1, <2>2, <2>3, <2>4
    <3> QED
      BY <3>1 DEF SimulationFresh, SimulationShape, IsSimulated
  <2>5. ASSUME proj.mode # "none", NEW t \in DOMAIN proj.ref \ Awaited(proj)
        PROVE  ProjectionFresh(t)
    <3>1. /\ t \in DOMAIN proj.results /\ proj.results[t].opts = proj.opts
          /\ proj.results[t].ver = Drawings[t]
      BY <2>1, <2>2, <2>3, <2>5
    <3>2. Drawings[t] = [part \in ProjectionRequests(proj.mode) |-> items[t].ver]
      BY <2>2, <2>5 DEF Drawings
    <3> QED
      BY <3>1, <3>2 DEF ProjectionFresh
  <2> QED
    BY <2>4, <2>5
<1>2. Init => SimulationShape
  BY EmptyMap DEF Init, Hook, SimulationShape
<1> QED
  BY <1>1, <1>2, InitEstablishes, NextPreserves, FreshEstablished, FreshPreserved, ShapePreserved, PTL
  DEF Spec

=============================================================================
