----------------------------- MODULE Itinerary ------------------------------
(***************************************************************************)
(* The itinerary of a train being edited: the steps of its path in the     *)
(* store, the pathfinding launched at every change of them, of the rolling *)
(* stock or of the speed limit tag, and the window of suggested vias.      *)
(*                                                                         *)
(* usePathfinding awaits up to four requests per launch and never cancels  *)
(* one, so launches overlap; a launch, and a callback that launches, uses  *)
(* the rolling stock, the tag and the worker status of the render it comes *)
(* from. stale records that something outdated was used since the last     *)
(* change of the itinerary.                                                *)
(*                                                                         *)
(* Locations are operational points 1..LineLength of one line, one unit    *)
(* apart, and Unknown, a point the infrastructure does not have. A path    *)
(* never turns round. Points clicked on a track between operational points *)
(* are left out, and so are stops, margins, names and coordinates.         *)
(***************************************************************************)
EXTENDS Integers, FiniteSets, Arrays

CONSTANTS
  LineLength,    \* operational points of the line
  Trains,        \* [stock, tag, path]: the trains that may be edited
  Stock,         \* rolling stocks
  Tag,           \* speed limit tags
  Typed,         \* sequences of locations that may be typed in
  Clicked,       \* operational points that may be clicked on the map
  MaxLaunches,   \* bound: launches
  MaxFailures    \* bound: failed requests

Unknown == 0
Line == 1..LineLength
NoStock == "no stock"
NoPos == -1

ASSUME ItineraryAssumption ==
  /\ LineLength \in Nat \ {0} /\ NoStock \notin Stock
  /\ Typed \subseteq Seq(Line \cup {Unknown}) /\ Clicked \subseteq Line
  /\ Trains \subseteq [stock : Stock \cup {NoStock}, tag : Tag, path : Seq(Line \cup {Unknown})]
  /\ MaxLaunches \in Nat /\ MaxFailures \in Nat

VARIABLES
  steps,      \* pathSteps: [id, loc, pos, bad], pos for positionOnPath, bad for isInvalid
  restr,      \* powerRestriction: the ids of the steps it refers to
  stock, tag, \* rollingStockID, speedLimitByTag
  ready,      \* workerStatus is READY
  status,     \* pathfindingState
  props,      \* pathProperties: [ops, stock, tag], what the path was computed for
  launches,   \* the launches whose requests are under way, by their number
  turn,       \* number of the last launch
  byStock, byTag,  \* what onSelectRollingStock, onSelectSpeedLimitTag close over
  modal,      \* suggestedVias of the open window, <<>> when it is closed
  failures, stale

vars == <<steps, restr, stock, tag, ready, status, props, launches, turn, byStock, byTag, modal,
          failures, stale>>

Missing == [id |-> 0, loc |-> Unknown, pos |-> NoPos, bad |-> FALSE]   \* null
NoProps == [ops |-> <<>>, stock |-> NoStock, tag |-> "none"]
NoLaunch == [pc |-> "none"]
Lost == [pc |-> "lost"]
Rendered(st, tg, rd) == [stock |-> st, tag |-> tg, ready |-> rd]

Ids(ss) == {ss[i].id : i \in DOMAIN ss} \ {0}
FromLocs(locs, ids) == [i \in DOMAIN locs |-> [id |-> ids[i], loc |-> locs[i], pos |-> NoPos, bad |-> FALSE]]

Init ==
  /\ \E train \in Trains, rd \in BOOLEAN, r \in BOOLEAN :
       /\ stock = train.stock /\ tag = train.tag /\ ready = rd
       /\ steps = IF train.path = <<>> THEN <<Missing, Missing>>
                  ELSE FromLocs(train.path, [i \in DOMAIN train.path |-> i])
       /\ restr = IF r /\ train.path # <<>> THEN {1, Len(train.path)} ELSE {}
  /\ status = "initial" /\ props = NoProps /\ modal = <<>>
  /\ launches = [n \in 1..MaxLaunches |-> NoLaunch] /\ turn = 0
  /\ byStock = Rendered(stock, tag, ready) /\ byTag = byStock
  /\ failures = 0 /\ stale = FALSE

-----------------------------------------------------------------------------
(* Paths, as core finds them.                                              *)

Distance(a, b) == IF a <= b THEN b - a ELSE a - b

Valid(ss) == Kept(ss, {i \in DOMAIN ss : ~ss[i].bad})
Locs(ss) == [i \in DOMAIN ss |-> ss[i].loc]

HasPath(locs) ==
  /\ Len(locs) >= 2
  /\ \/ \A i \in 1..Len(locs) - 1 : locs[i] < locs[i + 1]
     \/ \A i \in 1..Len(locs) - 1 : locs[i] > locs[i + 1]

\* The operational points of the path, at positions 0, 1, ...
Ops(locs) ==
  LET from == locs[1]
      to == Last(locs)
  IN  [i \in 1..Distance(from, to) + 1 |-> IF from < to THEN from + i - 1 ELSE from - i + 1]

PathItemPositions(locs) == [i \in DOMAIN locs |-> Distance(locs[1], locs[i])]

-----------------------------------------------------------------------------
(* A launch.                                                               *)

\* useCallback: a new array of steps renews both callbacks, a new rolling stock the second.
Callbacks(isNew, st, tg, rd) ==
  /\ byStock' = IF isNew THEN Rendered(st, tg, rd) ELSE byStock
  /\ byTag' = IF isNew \/ st # stock THEN Rendered(st, tg, rd) ELSE byTag

\* Fault: the restrictions outlive the itinerary they were set on.
replaceItinerary_Keeps(ss) == steps' = ss /\ UNCHANGED restr

replaceItinerary(ss) == steps' = ss /\ restr' = {}

\* launchPathfinding up to its first await; from is what it closes over.
Begin(n, ss, st, tg, from, isInit) ==
  /\ IF isInit THEN UNCHANGED <<steps, restr>> ELSE replaceItinerary(ss)
  /\ props' = NoProps
  /\ IF Missing \in Range(ss) THEN status' = "missing" /\ launches' = [launches EXCEPT ![n] = NoLaunch]
     ELSE IF ~from.ready THEN UNCHANGED status /\ launches' = [launches EXCEPT ![n] = NoLaunch]
     ELSE /\ status' = IF st = NoStock THEN "missing" ELSE "running"
          /\ launches' = [launches EXCEPT ![n] =
               [pc |-> IF st = NoStock THEN "match missing" ELSE "stock",
                steps |-> ss, stock |-> st, tag |-> tg, from |-> from]]

Continue(n, pc) == launches' = [launches EXCEPT ![n].pc = pc]
End(n) == launches' = [launches EXCEPT ![n] = NoLaunch]
Outdated(n) == n # turn
At(n, pcs) == launches[n].pc \in pcs
Settings == <<stock, tag, ready, turn, modal>>
Path == <<steps, restr, props, byStock, byTag>>

\* getLightRollingStockById is answered. Without a valid step there is no query.
StockAnswered(n) ==
  /\ At(n, {"stock"})
  /\ \/ /\ Continue(n, "match missing") /\ Valid(launches[n].steps) = <<>>
        /\ status' = "missing" /\ stale' = (stale \/ Outdated(n))
     \/ Continue(n, "path") /\ Valid(launches[n].steps) # <<>> /\ UNCHANGED <<status, stale>>
  /\ UNCHANGED <<Settings, Path, failures>>

\* It is awaited outside the try: the rejection goes nowhere, and nothing is set.
StockFailed(n) ==
  /\ At(n, {"stock"}) /\ failures < MaxFailures
  /\ launches' = [launches EXCEPT ![n] = Lost] /\ failures' = failures + 1
  /\ UNCHANGED <<Settings, Path, status, stale>>

\* postPathfindingBlocks is answered.
PathAnswered(n) ==
  /\ At(n, {"path"})
  /\ LET locs == Locs(Valid(launches[n].steps))
     IN  \/ Continue(n, "match invalid") /\ Unknown \in Range(locs)
         \/ Continue(n, "match error") /\ Unknown \notin Range(locs)
         \/ \E pc \in {"props", "match relaxed"} :
              Continue(n, pc) /\ Unknown \notin Range(locs) /\ HasPath(locs)
  /\ UNCHANGED <<Settings, Path, status, failures, stale>>

\* The catch of launchPathfinding.
RequestFailed(n) ==
  /\ At(n, {"path", "props", "props relaxed"}) /\ failures < MaxFailures
  /\ End(n) /\ status' = "error" /\ failures' = failures + 1 /\ stale' = (stale \/ Outdated(n))
  /\ UNCHANGED <<Settings, Path>>

\* Fault: the steps found invalid before are counted twice.
PopulateSteps_CountsInvalid(ss) ==
  LET at == PathItemPositions(Locs(Valid(ss)))
  IN  [i \in DOMAIN ss |->
        [ss[i] EXCEPT !.pos = IF ss[i].bad THEN NoPos ELSE IF i \in DOMAIN at THEN at[i] ELSE NoPos]]

\* updatedPathSteps: the positions, which core gives for the valid steps only.
PopulateSteps(ss) ==
  LET at == PathItemPositions(Locs(Valid(ss)))
      validOpIndex(i) == Cardinality({j \in 1..i : ~ss[j].bad})
  IN  [i \in DOMAIN ss |-> [ss[i] EXCEPT !.pos = IF ss[i].bad THEN NoPos ELSE at[validOpIndex(i)]]]

\* populateStoreWithPathfinding, and what follows it.
PropsAnswered(n) ==
  /\ At(n, {"props", "props relaxed"}) /\ End(n)
  /\ LET l == launches[n] IN
     /\ steps' = PopulateSteps(l.steps)
     /\ props' = [ops |-> Ops(Locs(Valid(l.steps))), stock |-> l.stock, tag |-> l.tag]
     /\ status' = IF l.pc = "props" THEN "done" ELSE "error"
  /\ Callbacks(TRUE, stock, tag, ready) /\ stale' = (stale \/ Outdated(n))
  /\ UNCHANGED <<Settings, restr, failures>>

\* Fault: core counts from zero.
MarkInvalid_Off(ss) ==
  [i \in DOMAIN ss |-> [ss[i] EXCEPT !.bad = i > 1 /\ Valid(ss)[i - 1].loc = Unknown]]

\* handleInvalidPathItems: core's indices are those of the valid steps.
MarkInvalid(ss) ==
  LET items == {k \in DOMAIN Valid(ss) : Valid(ss)[k].loc = Unknown}
  IN  [i \in DOMAIN ss |-> [ss[i] EXCEPT !.bad = i \in items]]

\* fetchPathStepsOperationalPointData, which stores the steps of the launch or
\* fails in silence, and what follows it. Invalid items start a launch again,
\* with the rolling stock and the tag that the first one closed over.
Matched(n) ==
  \E ok \in BOOLEAN :
    LET l == launches[n] IN
    /\ At(n, {"match missing", "match error", "match relaxed", "match invalid"})
    /\ ok \/ failures < MaxFailures
    /\ failures' = IF ok THEN failures ELSE failures + 1
    /\ Callbacks(ok \/ l.pc = "match invalid", stock, tag, ready)
    /\ UNCHANGED Settings
    /\ IF l.pc = "match invalid"
       THEN /\ Begin(n, MarkInvalid(l.steps), l.from.stock, l.from.tag, l.from, FALSE)
            /\ stale' = (stale \/ Outdated(n) \/ l.from # Rendered(stock, tag, ready))
       ELSE /\ steps' = IF ok THEN l.steps ELSE steps
            /\ IF l.pc = "match relaxed" THEN Continue(n, "props relaxed") ELSE End(n)
            /\ status' = IF l.pc = "match error" THEN "error" ELSE status
            /\ stale' = (stale \/ (Outdated(n) /\ (ok \/ l.pc = "match error")))
            /\ UNCHANGED <<restr, props>>

Respond(n) ==
  StockAnswered(n) \/ PathAnswered(n) \/ PropsAnswered(n) \/ Matched(n) \/ RequestFailed(n)

-----------------------------------------------------------------------------
(* What launches a pathfinding.                                            *)

Current == Rendered(stock, tag, ready)

\* A launch with a new array of steps, from the present render.
LaunchPathfinding(ss) ==
  /\ turn < MaxLaunches /\ turn' = turn + 1
  /\ Begin(turn', ss, stock, tag, Current, FALSE)
  /\ Callbacks(TRUE, stock, tag, ready)
  /\ stale' = FALSE
  /\ UNCHANGED <<stock, tag, ready, failures>>

\* The effect on the worker status, on mounting and later.
WorkerReady ==
  /\ (turn = 0 /\ ready) \/ ~ready
  /\ turn < MaxLaunches /\ turn' = turn + 1
  /\ ready' = TRUE
  /\ Begin(turn', steps, stock, tag, Rendered(stock, tag, TRUE), TRUE)
  /\ UNCHANGED <<stock, tag, byStock, byTag, modal, failures, stale>>

Mounted == turn > 0 \/ ~ready
Closed == modal = <<>> /\ Mounted

\* Fault: the path is computed for the rolling stock that is being replaced.
onSelectRollingStock_Old(st) ==
  /\ Closed /\ turn < MaxLaunches /\ turn' = turn + 1
  /\ stock' = st
  /\ Begin(turn', steps, byStock.stock, byStock.tag, byStock, FALSE)
  /\ Callbacks(FALSE, st, tag, ready)
  /\ stale' = (byStock.tag # tag \/ byStock.ready # ready)
  /\ UNCHANGED <<tag, ready, modal, failures>>

onSelectRollingStock(st) ==
  /\ Closed /\ turn < MaxLaunches /\ turn' = turn + 1
  /\ stock' = st
  /\ Begin(turn', steps, st, byStock.tag, byStock, FALSE)
  /\ Callbacks(FALSE, st, tag, ready)
  /\ stale' = (byStock.tag # tag \/ byStock.ready # ready)
  /\ UNCHANGED <<tag, ready, modal, failures>>

onSelectSpeedLimitTag(tg) ==
  /\ Closed /\ turn < MaxLaunches /\ turn' = turn + 1
  /\ tag' = tg
  /\ Begin(turn', steps, stock, tg, byTag, FALSE)
  /\ UNCHANGED <<byStock, byTag>>
  /\ stale' = (byTag.ready # ready)
  /\ UNCHANGED <<stock, ready, modal, failures>>

\* uuidV4: ids no step has, and no restriction refers to.
InUse ==
  Ids(steps) \cup restr
    \cup UNION {IF At(n, {"none", "lost"}) THEN {} ELSE Ids(launches[n].steps) : n \in DOMAIN launches}
NewIds(count) == SetToSeq(1..Cardinality(InUse) + count \ InUse)
NewId == NewIds(1)[1]
NewStep(loc) == [id |-> NewId, loc |-> loc, pos |-> NoPos, bad |-> FALSE]

\* Where the path comes nearest to a point.
Project(loc) ==
  CHOOSE p \in 0..Len(props.ops) - 1 :
    \A q \in 0..Len(props.ops) - 1 : Distance(props.ops[p + 1], loc) <= Distance(props.ops[q + 1], loc)

\* The via comes before the first step that is at least as far. (0 is no position
\* to findIndex, nor is undefined.)
insertViaFromMap(ss, new) ==
  LET i == IF Len(ss) > 2 THEN SelectInSeq(ss, LAMBDA s : s.pos > 0 /\ s.pos >= Project(new.loc)) ELSE 0
  IN  AddElementAtIndex(ss, i - 1, new)

\* A click on the map. A via is offered once both ends are there.
setPointIti(pointType, loc) ==
  LET new == NewStep(loc)
      one == Len(steps) = 1
  IN  /\ Closed /\ UNCHANGED modal
      /\ LaunchPathfinding(
           CASE pointType = "origin" -> ReplaceElementAtIndex(steps, 1, new)
             [] pointType = "destination" /\ ~one -> ReplaceElementAtIndex(steps, Len(steps), new)
             [] one -> Append(steps, new)
             [] props # NoProps -> insertViaFromMap(steps, new)
             [] OTHER -> AddElementAtIndex(steps, Len(steps) - 1, new))

HasOrigin == steps # <<>> /\ steps[1] # Missing
HasDestination == steps # <<>> /\ Last(steps) # Missing
BothEnds == HasOrigin /\ HasDestination
ClickOrigin == \E loc \in Clicked : setPointIti("origin", loc)
ClickDestination == \E loc \in Clicked : setPointIti("destination", loc)
ClickVia == BothEnds /\ \E loc \in Clicked : setPointIti("via", loc)

\* The buttons of the list of steps.
RemoveOrigin ==
  Closed /\ HasOrigin /\ LaunchPathfinding([steps EXCEPT ![1] = Missing]) /\ UNCHANGED modal
RemoveDestination ==
  /\ Closed /\ HasDestination /\ LaunchPathfinding([steps EXCEPT ![Len(steps)] = Missing])
  /\ UNCHANGED modal
RemoveVia(i) ==
  Closed /\ i \in 2..Len(steps) - 1 /\ LaunchPathfinding(RemoveAt(steps, i)) /\ UNCHANGED modal
inverseOD ==
  Closed /\ BothEnds /\ LaunchPathfinding(Reverse(steps)) /\ UNCHANGED modal
resetPathfinding ==
  Closed /\ BothEnds /\ LaunchPathfinding(<<Missing, Missing>>) /\ UNCHANGED modal

\* TypeAndPath: the points typed in replace the itinerary.
handleSubmit(locs) ==
  Closed /\ stock # NoStock /\ LaunchPathfinding(FromLocs(locs, NewIds(Len(locs)))) /\ UNCHANGED modal

-----------------------------------------------------------------------------
(* The window of suggested vias, which keeps the list it was opened with.  *)

OpenModal ==
  /\ Closed /\ BothEnds /\ props # NoProps
  /\ modal' = props.ops
  /\ UNCHANGED <<steps, restr, stock, tag, ready, status, props, launches, turn, byStock, byTag,
                 failures, stale>>

CloseModal ==
  /\ modal # <<>> /\ modal' = <<>>
  /\ UNCHANGED <<steps, restr, stock, tag, ready, status, props, launches, turn, byStock, byTag,
                 failures, stale>>

\* The operational point is at position pos of the list.
Offered(pos) ==
  pos + 1 \in DOMAIN modal /\ pos # 0 /\ (steps # <<>> => pos # Last(steps).pos)
IsVia(loc) == \E i \in 2..Len(steps) - 1 : steps[i].loc = loc

\* A step at this point is replaced; else the via comes before the first step
\* that is at least as far, never before the origin.
upsertPathStep(ss, loc, pos) ==
  LET same == SelectInSeq(ss, LAMBDA s : s.loc = loc)
      index == SelectInSeq(ss, LAMBDA s : s.pos # NoPos /\ s.pos >= pos)
      new(id) == [id |-> id, loc |-> loc, pos |-> pos, bad |-> FALSE]
  IN  IF same # 0 THEN [ss EXCEPT ![same] = new(ss[same].id)]
      ELSE AddElementAtIndex(ss, IF index = 1 THEN 1 ELSE index - 1, new(NewId))

\* upsertViaFromSuggestedOP: no launch, the path is thought to be the same.
AddSuggestedVia(pos) ==
  /\ Offered(pos) /\ ~IsVia(modal[pos + 1])
  /\ steps' = upsertPathStep(steps, modal[pos + 1], pos)
  /\ Callbacks(TRUE, stock, tag, ready)
  /\ stale' = (stale \/ props.ops # modal)
  /\ UNCHANGED <<restr, stock, tag, ready, status, props, launches, turn, modal, failures>>

RemoveSuggestedVia(pos) ==
  /\ Offered(pos) /\ IsVia(modal[pos + 1])
  /\ LaunchPathfinding(Kept(steps, {i \in DOMAIN steps : steps[i].loc # modal[pos + 1]}))
  /\ UNCHANGED modal

\* (An itinerary without a step, whose ends are undefined, is left out.)
DeleteVias ==
  /\ modal # <<>> /\ steps # <<>>
  /\ LaunchPathfinding(<<steps[1], Last(steps)>>) /\ UNCHANGED modal

-----------------------------------------------------------------------------
(* Restrictions are set between two steps of the path (PowerRestrictions). *)
SetRestriction ==
  /\ Closed /\ props # NoProps /\ restr = {}
  /\ \E i \in 1..Len(Valid(steps)) - 1 : restr' = {Valid(steps)[i].id, Valid(steps)[i + 1].id}
  /\ UNCHANGED <<steps, stock, tag, ready, status, props, launches, turn, byStock, byTag, modal,
                 failures, stale>>

Edit ==
  \/ ClickOrigin \/ ClickDestination \/ ClickVia
  \/ RemoveOrigin \/ RemoveDestination \/ \E i \in DOMAIN steps : RemoveVia(i)
  \/ inverseOD \/ resetPathfinding
  \/ \E locs \in Typed : handleSubmit(locs)
  \/ \E st \in Stock : onSelectRollingStock(st)
  \/ \E tg \in Tag : onSelectSpeedLimitTag(tg)
  \/ OpenModal \/ CloseModal \/ DeleteVias
  \/ \E pos \in 1..LineLength : AddSuggestedVia(pos) \/ RemoveSuggestedVia(pos)
  \/ SetRestriction

Next == Edit \/ WorkerReady \/ \E n \in DOMAIN launches : Respond(n) \/ StockFailed(n)

Spec == Init /\ [][Next]_vars

\* Every request is answered or fails.
FairSpec == Spec /\ \A n \in 1..MaxLaunches : WF_vars(Respond(n))

-----------------------------------------------------------------------------
(* Properties.                                                             *)

\* While there is a path, every valid step is one of its operational points, at
\* the position the step has, or upsertPathStepsInOPs throws and the page with
\* it ("Could not find path step").
StepsFoundInOPs ==
  ~stale /\ props # NoProps =>
    \A i \in DOMAIN steps : \/ steps[i] = Missing \/ steps[i].bad
                            \/ /\ steps[i].pos + 1 \in DOMAIN props.ops
                               /\ props.ops[steps[i].pos + 1] = steps[i].loc

\* The path shown is the one of the present steps, rolling stock and tag, and
\* "done" is never shown without one.
PathIsCurrent ==
  ~stale =>
    /\ props # NoProps => /\ props.stock = stock /\ props.tag = tag
                          /\ props.ops = Ops(Locs(Valid(steps)))
    /\ status = "done" => props # NoProps

\* Power restrictions refer to steps of the path, or formatPowerRestrictions throws.
RestrictionsStayOnPath == ~stale => restr \subseteq Ids(steps)

\* The search for a path ends, however launches overlap and whatever invalid
\* steps start it again, unless the rolling stock could not be read.
RunningEnds == (status = "running") ~> (status # "running" \/ \E n \in DOMAIN launches : At(n, {"lost"}))
=============================================================================
