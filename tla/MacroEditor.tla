----------------------------- MODULE MacroEditor ----------------------------
(***************************************************************************)
(* The macro editor of a scenario. The user draws nodes and trainruns in   *)
(* NGE, an external editor in a frame; every operation comes as an event,  *)
(* and handleNGEOperation runs its handler after the one before has ended. *)
(* A handler talks to editoast and keeps MacroEditorState up to date. When *)
(* trains are changed outside NGE, refreshNge loads everything anew and    *)
(* replaces both the state and what NGE shows.                             *)
(*                                                                         *)
(* A task is a handler, or a promise nobody waits for. A request takes     *)
(* effect and is answered in one step; anything may happen between two     *)
(* requests. Times, categories, frequencies, notes and secondary codes are *)
(* left out: a train is its path.                                          *)
(***************************************************************************)
EXTENDS MacroNodes, FiniteSetsExt

CONSTANTS
  Name,        \* trigrams
  FirstTrains, \* the trains at first: a sequence of paths
  MaxOps,      \* bound: operations in NGE
  MaxChanges,  \* bound: trains changed outside NGE
  LabelEdits   \* whether labels are renamed

PathKey == [type : {"trigram", "op_id"}, name : Name]

ASSUME MacroEditorAssumption ==
  /\ IsFiniteSet(Name) /\ FirstTrains \in Seq(Seq(PathKey))
  /\ MaxOps \in Nat /\ MaxChanges \in Nat /\ LabelEdits \in BOOLEAN

Key(t, n) == [type |-> t, name |-> n]
NoId == 0

VARIABLES
  trains,   \* editoast: id -> path, a sequence of keys
  pairs,    \* editoast: rows <<left, right>>, right is NoId for a one-way
  dbNodes,  \* editoast: id -> [key, trigram]
  nextId,   \* editoast: the next id
  states,   \* the MacroEditorState objects
  cur,      \* macroEditorState.current, an index of states
  nge,      \* what NGE shows: [nodes, runs]
  queue,    \* events whose handlers have not started: [type, id, ids, dto]
  tasks,    \* [main, st, dto, pc, todo, ids, path, new]
  refreshes, \* refreshes under way: [pc, trains, pairs, s]
  failed,   \* a task or a refresh ended with an error
  raced,    \* a task ran next to a handler, or a refresh next to an operation
  ops, changes

db == <<trains, pairs, dbNodes, nextId>>
macroVars == <<trains, pairs, dbNodes, nextId, states, cur, nge, queue, tasks, refreshes, failed, raced,
          ops, changes>>

NoDto == [nodes |-> <<>>, runs |-> <<>>]
Loading(pc, trs, rows, s) == [pc |-> pc, trains |-> trs, pairs |-> rows, s |-> s]
Reading == Loading("trains", <<>>, {}, NewState)

\* The board has just been opened: the first refresh is under way.
MacroInit ==
  /\ trains = FirstTrains /\ pairs = {} /\ dbNodes = <<>> /\ nextId = Len(FirstTrains) + 1
  /\ states = <<>> /\ cur = 0 /\ nge = NoDto /\ queue = <<>> /\ tasks = <<>>
  /\ refreshes = <<Reading>> /\ failed = FALSE /\ raced = FALSE /\ ops = 0 /\ changes = 0

Busy == queue # <<>> \/ tasks # <<>>

-----------------------------------------------------------------------------
(* Refreshing: loadNgeDto.                                                 *)

SortedIds(S) ==
  [k \in 1..Cardinality(S) |-> CHOOSE id \in S : Cardinality({other \in S : other <= id}) = k]

\* A node for every key of the paths or of the saved nodes, with the data of the
\* saved one. The op of a path item gives its node the trigram. (The code numbers
\* nodes as it meets them; the numbers are only names.)
LoadAndIndexNge(trs, saved) ==
  LET inPaths == {k \in PathKey : \E t \in DOMAIN trs : k \in Range(trs[t])}
      keys == SetToSeq(inPaths \cup {saved[id].key : id \in DOMAIN saved})
      idsOf(key) == {id \in DOMAIN saved : saved[id].key = key}
      node(i) == LET id == CHOOSE x \in idsOf(keys[i]) : TRUE IN
                 IF idsOf(keys[i]) = {} THEN Node(i - 1, NoDb, keys[i], keys[i].name)
                 ELSE Node(i - 1, id, keys[i], saved[id].trigram)
  IN  Object([i \in DOMAIN keys |-> node(i)],
             [k \in Range(keys) |-> CHOOSE i \in DOMAIN keys : keys[i] = k],
             [n \in {i - 1 : i \in DOMAIN keys} |-> n + 1], <<>>)

\* The same path in the other direction. (Other conditions compare what is left out.)
CheckRoundTripCompatible(a, b) ==
  Len(a) = Len(b) /\ \A i \in DOMAIN a : a[i].name = b[Len(a) + 1 - i].name

GroupRoundTrips(trs, rows) ==
  LET listed == {p[1] : p \in rows} \cup {p[2] : p \in rows} IN
  [oneWays |-> {p[1] : p \in {q \in rows : q[2] = NoId}},
   roundTrips |-> {p \in rows : p[2] # NoId}, others |-> DOMAIN trs \ listed]

\* <<train, return train>>: one-ways, others, incompatible ones, then round trips.
GroupCompatibleRoundTrips(trs, rows) ==
  LET g == GroupRoundTrips(trs, rows)
      compatible == {p \in g.roundTrips : CheckRoundTripCompatible(trs[p[1]], trs[p[2]])}
      alone == SortedIds(g.oneWays) \o SortedIds(g.others)
               \o SortedIds(UNION {{p[1], p[2]} : p \in g.roundTrips \ compatible})
  IN  [i \in DOMAIN alone |-> <<alone[i], NoId>>] \o [i \in 1..Cardinality(compatible) |->
           CHOOSE p \in compatible : p[1] = SortedIds({q[1] : q \in compatible})[i]]

\* getNgeDto: trainruns are numbered anew.
GetNgeDto(s, trs, groups) ==
  [nodes |-> [id \in DOMAIN s.byNge |-> GetNodeByNgeId(s, id).trigram],
   runs |-> [i \in DOMAIN groups |->
     [path |-> [j \in DOMAIN trs[groups[i][1]] |-> GetNodeByKey(s, trs[groups[i][1]][j]).nge],
      dir |-> IF groups[i][2] = NoId THEN "one_way" ELSE "round_trip"]]]

RefreshNge == refreshes' = Append(refreshes, Reading)

ReadTrains(i) ==
  /\ refreshes[i].pc = "trains"
  /\ refreshes' = [refreshes EXCEPT ![i] = Loading("pairs", trains, {}, NewState)]
  /\ UNCHANGED <<db, states, cur, nge, queue, tasks, failed, raced, ops, changes>>

\* A row about a train that was not read yet makes groupRoundTrips' callers throw.
ReadPairs(i) ==
  LET known == \A p \in pairs : {p[1], p[2]} \ {NoId} \subseteq DOMAIN refreshes[i].trains IN
  /\ refreshes[i].pc = "pairs"
  /\ refreshes' = IF known
                  THEN [refreshes EXCEPT ![i] = Loading("nodes", refreshes[i].trains, pairs, NewState)]
                  ELSE RemoveAt(refreshes, i)
  /\ failed' = (failed \/ ~known)
  /\ UNCHANGED <<db, states, cur, nge, queue, tasks, raced, ops, changes>>

ReadNodes(i) ==
  /\ refreshes[i].pc = "nodes"
  /\ LET s == LoadAndIndexNge(refreshes[i].trains, dbNodes) IN
     \E main \in MainKeys(s) :
       refreshes' = [refreshes EXCEPT ![i] =
                       Loading("post", refreshes[i].trains, refreshes[i].pairs, DedupNodes(s, main))]
  /\ UNCHANGED <<db, states, cur, nge, queue, tasks, failed, raced, ops, changes>>

DbKeys == {dbNodes[id].key : id \in DOMAIN dbNodes}

\* The nodes that are not saved yet, the ids editoast gives them and their rows.
Unsaved(s) == {j \in LiveNodes(s) : s.nodes[j].db = NoDb}
IdsGiven(s) == [j \in Unsaved(s) |-> nextId + Cardinality(Unsaved(s) \cap 1..j) - 1]
RowsAdded(s, ids) ==
  [id \in DOMAIN dbNodes \cup Range(ids) |->
     IF id \in DOMAIN dbNodes THEN dbNodes[id]
     ELSE LET n == s.nodes[CHOOSE j \in Unsaved(s) : ids[j] = id] IN [key |-> n.key, trigram |-> n.trigram]]

\* storeTrainPathNodes, and the new state and dto are in place.
StoreTrainPathNodes(i) ==
  LET s == refreshes[i].s
      saved == UpdateNodeData(s, IdsGiven(s))
      groups == GroupCompatibleRoundTrips(refreshes[i].trains, refreshes[i].pairs)
      taken == \E j \in Unsaved(s) : s.nodes[j].key \in DbKeys
  IN
  /\ refreshes[i].pc = "post" /\ refreshes' = RemoveAt(refreshes, i)
  /\ IF taken
     THEN failed' = TRUE /\ UNCHANGED <<dbNodes, nextId, states, cur, nge, raced>>
     ELSE /\ dbNodes' = RowsAdded(s, IdsGiven(s)) /\ nextId' = nextId + Cardinality(Unsaved(s))
          /\ states' = Append(states, WithTrains(saved, groups)) /\ cur' = Len(states) + 1
          /\ nge' = GetNgeDto(saved, refreshes[i].trains, groups)
          /\ raced' = (raced \/ Busy \/ refreshes[i].trains # trains \/ refreshes[i].pairs # pairs)
          /\ UNCHANGED failed
  /\ UNCHANGED <<trains, pairs, queue, tasks, ops, changes>>

-----------------------------------------------------------------------------
(* Trains changed outside NGE: created, deleted, paired.                   *)

Outside ==
  /\ cur # 0 /\ changes < MaxChanges /\ changes' = changes + 1 /\ RefreshNge
  /\ \/ /\ DOMAIN trains # {} /\ UNCHANGED pairs
        /\ trains' = With(trains, nextId, trains[Min(DOMAIN trains)]) /\ nextId' = nextId + 1
     \/ \E t \in DOMAIN trains :
          /\ trains' = Without(trains, {t}) /\ pairs' = {p \in pairs : t \notin {p[1], p[2]}}
          /\ UNCHANGED nextId
     \/ \E t, u \in DOMAIN trains :
          /\ t < u /\ pairs' = {p \in pairs : {t, u} \cap {p[1], p[2]} = {}} \cup {<<t, u>>}
          /\ UNCHANGED <<trains, nextId>>
  /\ UNCHANGED <<dbNodes, states, cur, nge, queue, tasks, failed, raced, ops>>

-----------------------------------------------------------------------------
(* Operations in NGE (external).                                           *)

NextOf(f) == IF DOMAIN f = {} THEN 1 ELSE Max(DOMAIN f) + 1
Event(type, id, ids, dto) == [type |-> type, id |-> id, ids |-> ids, dto |-> dto]

\* onOperation: the event and the dto of the moment.
Emit(type, id, ids) ==
  /\ cur # 0 /\ ops < MaxOps /\ ops' = ops + 1
  /\ queue' = Append(queue, Event(type, id, ids, nge'))
  /\ UNCHANGED <<db, states, cur, tasks, refreshes, failed, raced, changes>>

Used == UNION {Range(nge.runs[r].path) : r \in DOMAIN nge.runs}

NgeCreateNode ==
  \E n \in Name : nge' = [nge EXCEPT !.nodes = With(@, NextOf(@), n)] /\ Emit("node", NextOf(nge.nodes), {})
NgeRenameNode ==
  \E id \in DOMAIN nge.nodes, n \in Name :
    n # nge.nodes[id] /\ nge' = [nge EXCEPT !.nodes[id] = n] /\ Emit("node", id, {})
NgeDeleteNode ==
  \E id \in DOMAIN nge.nodes \ Used : nge' = [nge EXCEPT !.nodes = Without(@, {id})] /\ Emit("nodeDelete", id, {})
NgeCreateRun ==
  \E a, b \in DOMAIN nge.nodes :
    /\ a # b /\ nge' = [nge EXCEPT !.runs = With(@, NextOf(@), [path |-> <<a, b>>, dir |-> "round_trip"])]
    /\ Emit("create", NextOf(nge.runs), {})
NgeChangeDirection ==
  \E r \in DOMAIN nge.runs :
    /\ nge' = [nge EXCEPT !.runs[r].dir = IF @ = "one_way" THEN "round_trip" ELSE "one_way"]
    /\ Emit("update", r, {})
NgeDeleteRun ==
  \E r \in DOMAIN nge.runs : nge' = [nge EXCEPT !.runs = Without(@, {r})] /\ Emit("delete", r, {})
\* The label of some trainruns is renamed.
NgeUpdateLabel ==
  \E R \in {DOMAIN nge.runs} \cup {{r} : r \in DOMAIN nge.runs} : LabelEdits /\ R # {} /\ nge' = nge /\ Emit("label", NoId, R)

Operation ==
  \/ NgeCreateNode \/ NgeRenameNode \/ NgeDeleteNode
  \/ NgeCreateRun \/ NgeChangeDirection \/ NgeDeleteRun \/ NgeUpdateLabel

-----------------------------------------------------------------------------
(* Handlers.                                                               *)

State(k) == states[k.st]
Run(k) == k.dto.runs[Head(k.todo)]

\* handleUpdateTimetableItem begins: the ids of the trainrun are read at once.
HandleUpdateTimetableItem(k) ==
  IF Head(k.todo) \in DOMAIN State(k).trains
  THEN [k EXCEPT !.pc = "get", !.ids = State(k).trains[Head(k.todo)]]
  ELSE [k EXCEPT !.pc = "error"]

Task(main, dto, pc, todo) ==
  [main |-> main, st |-> cur, dto |-> dto, pc |-> pc, todo |-> todo, ids |-> <<NoId, NoId>>,
   path |-> <<>>, node |-> NoId]

\* handleOperation: the state is the one of this moment, the dto the event's. The
\* updates for a label are started one after the other and not waited for.
HandleOperation ==
  LET e == Head(queue)
      start(pc) == Append(tasks, [Task(TRUE, e.dto, pc, <<e.id>>) EXCEPT
                      !.node = e.id,
                      !.ids = IF pc = "delete" /\ e.id \in DOMAIN states[cur].trains
                              THEN states[cur].trains[e.id] ELSE @])
      runs == SortedIds(e.ids)
  IN
  /\ queue # <<>> /\ (\A i \in DOMAIN tasks : ~tasks[i].main) /\ queue' = Tail(queue)
  /\ tasks' = CASE e.type = "update" ->
                     Append(tasks, HandleUpdateTimetableItem(Task(TRUE, e.dto, "get", <<e.id>>)))
                [] e.type = "label" ->
                     tasks \o [j \in DOMAIN runs |->
                                 HandleUpdateTimetableItem(Task(FALSE, e.dto, "get", <<runs[j]>>))]
                [] OTHER -> start(e.type)
  /\ raced' = (raced \/ \E i \in DOMAIN tasks : tasks[i].pc # "store")
  /\ UNCHANGED <<db, states, cur, nge, refreshes, failed, ops, changes>>

rest == <<cur, nge, queue, refreshes, ops, changes>>

\* A path has no place for a node the state does not know.
GeneratePath(k, direction) ==
  LET nodes == IF direction = "FORWARD" THEN Run(k).path ELSE Reverse(Run(k).path)
  IN  [j \in DOMAIN nodes |-> GetNodeByNgeId(State(k), nodes[j]).key]
KnownNodes(k) == \A n \in Range(Run(k).path) : GetNodeByNgeId(State(k), n) # Null

End(i) == tasks' = RemoveAt(tasks, i)
ContinueAt(i, k, pc) == tasks' = [tasks EXCEPT ![i] = [k EXCEPT !.pc = pc]]

\* The catch of handleNGEOperation; of a task nobody waits for, an unhandled
\* rejection.
TaskFails(i) == End(i) /\ failed' = TRUE /\ UNCHANGED <<db, states>>

Exists(id) == id \in DOMAIN trains

SetTrains(k, trs) == states' = [states EXCEPT ![k.st] = WithTrains(State(k), trs)]
SetIds(k, ids) == SetTrains(k, With(State(k).trains, Head(k.todo), ids))

\* On to the next trainrun of updateTrainrunsByNode; ids are those of the new state.
NextRun(i, k) ==
  tasks' = IF Len(k.todo) = 1 THEN RemoveAt(tasks, i)
           ELSE [tasks EXCEPT ![i] = LET t == Tail(k.todo) IN
                  IF Head(t) \in DOMAIN State(k).trains
                  THEN [k EXCEPT !.todo = t, !.pc = "get", !.ids = State(k).trains[Head(t)]]
                  ELSE [k EXCEPT !.todo = t, !.pc = "error"]]

\* POST of a round trip, or of a one-way: it replaces the rows about its trains.
StoreRoundTrip(forward, return) ==
  pairs' = {p \in pairs : {p[1], p[2]} \cap {forward, return} \subseteq {NoId}} \cup
           {IF return = NoId THEN <<forward, NoId>> ELSE <<Min({forward, return}), Max({forward, return})>>}

DeleteTrain(id) ==
  trains' = Without(trains, {id}) /\ pairs' = {p \in pairs : id \notin {p[1], p[2]}}

\* The round trip of a train that was created is stored by nobody's leave: the
\* next handler does not wait for it.
HandleCreateTimetableItem(i, k) ==
  LET both == Run(k).dir = "round_trip"
      new == <<nextId, IF both THEN nextId + 1 ELSE NoId>>
      forward == With(trains, nextId, GeneratePath(k, "FORWARD"))
  IN
  /\ KnownNodes(k)
  /\ trains' = IF both THEN With(forward, nextId + 1, GeneratePath(k, "BACKWARD")) ELSE forward
  /\ nextId' = new[1] + IF both THEN 2 ELSE 1
  /\ SetIds(k, new)
  /\ tasks' = [tasks EXCEPT ![i] = [k EXCEPT !.pc = "store", !.main = FALSE, !.ids = new]]
  /\ UNCHANGED <<pairs, dbNodes, failed>>

StoreCreated(i, k) ==
  /\ \A id \in Range(k.ids) \ {NoId} : Exists(id)
  /\ StoreRoundTrip(k.ids[1], k.ids[2]) /\ End(i)
  /\ UNCHANGED <<trains, dbNodes, nextId, states, failed>>

\* fetchTimetableItem of the forward train, and its new path.
FetchForward(i, k) ==
  /\ Exists(k.ids[1]) /\ KnownNodes(k)
  /\ tasks' = [tasks EXCEPT ![i] = [k EXCEPT !.pc = "put", !.path = GeneratePath(k, "FORWARD")]]
  /\ UNCHANGED <<db, states, failed>>

StoreForward(i, k) ==
  /\ Exists(k.ids[1]) /\ trains' = [trains EXCEPT ![k.ids[1]] = k.path]
  /\ IF Run(k).dir = "one_way" /\ k.ids[2] = NoId
     THEN SetIds(k, <<k.ids[1], NoId>>) /\ NextRun(i, k)
     ELSE /\ tasks' = [tasks EXCEPT ![i] = [k EXCEPT
               !.path = GeneratePath(k, "BACKWARD"),
               !.pc = IF Run(k).dir = "one_way" THEN "one_way"
                      ELSE IF ~KnownNodes(k) THEN "error"
                      ELSE IF k.ids[2] # NoId THEN "getReturn" ELSE "postReturn"]]
          /\ UNCHANGED states
  /\ UNCHANGED <<pairs, dbNodes, nextId, failed>>

StoreOneWay(i, k) ==
  /\ Exists(k.ids[1]) /\ StoreRoundTrip(k.ids[1], NoId) /\ ContinueAt(i, k, "deleteReturn")
  /\ UNCHANGED <<trains, dbNodes, nextId, states, failed>>

\* Fault: the state still says that the trainrun has a return train.
DeleteReturn_KeepsId(i, k) ==
  /\ Exists(k.ids[2]) /\ DeleteTrain(k.ids[2])
  /\ SetIds(k, k.ids) /\ NextRun(i, k) /\ UNCHANGED <<dbNodes, nextId, failed>>

DeleteReturn(i, k) ==
  /\ Exists(k.ids[2]) /\ DeleteTrain(k.ids[2])
  /\ SetIds(k, <<k.ids[1], NoId>>) /\ NextRun(i, k) /\ UNCHANGED <<dbNodes, nextId, failed>>

FetchReturn(i, k) ==
  /\ Exists(k.ids[2]) /\ ContinueAt(i, k, "putReturn") /\ UNCHANGED <<db, states, failed>>

StoreReturn(i, k) ==
  /\ Exists(k.ids[2]) /\ trains' = [trains EXCEPT ![k.ids[2]] = k.path] /\ ContinueAt(i, k, "pair")
  /\ UNCHANGED <<pairs, dbNodes, nextId, states, failed>>

CreateReturn(i, k) ==
  /\ trains' = With(trains, nextId, k.path) /\ nextId' = nextId + 1
  /\ tasks' = [tasks EXCEPT ![i] = [k EXCEPT !.pc = "pair", !.ids = <<k.ids[1], nextId>>]]
  /\ UNCHANGED <<pairs, dbNodes, states, failed>>

StorePair(i, k) ==
  /\ Exists(k.ids[1]) /\ Exists(k.ids[2]) /\ StoreRoundTrip(k.ids[1], k.ids[2])
  /\ SetIds(k, k.ids) /\ NextRun(i, k) /\ UNCHANGED <<trains, dbNodes, nextId, failed>>

\* handleDeleteTimetableItem: one train after the other.
HandleDeleteTimetableItem(i, k) ==
  LET left == SelectSeq(k.ids, LAMBDA id : id # NoId) IN
  IF left = <<>>
  THEN /\ SetTrains(k, Without(State(k).trains, {Head(k.todo)}))
       /\ End(i) /\ UNCHANGED <<db, failed>>
  ELSE /\ Exists(left[1]) /\ DeleteTrain(left[1])
       /\ tasks' = [tasks EXCEPT ![i] = [k EXCEPT !.ids = IF Len(left) = 2 THEN <<NoId, left[2]>>
                                                          ELSE <<NoId, NoId>>]]
       /\ UNCHANGED <<dbNodes, nextId, states, failed>>

-----------------------------------------------------------------------------
(* Nodes.                                                                  *)

Free(key, id) == \A d \in DOMAIN dbNodes \ {id} : dbNodes[d].key # key

\* createMacroNode: a node NGE drew, or one the state has lost.
CreateMacroNode(i, k) ==
  LET name == k.dto.nodes[k.node]  key == Key("trigram", name) IN
  /\ GetNodeByNgeId(State(k), k.node) = Null /\ Free(key, NoDb)
  /\ dbNodes' = With(dbNodes, nextId, [key |-> key, trigram |-> name]) /\ nextId' = nextId + 1
  /\ states' = [states EXCEPT ![k.st] = IndexNodeByKey(State(k), key, Node(k.node, nextId, key, name))]
  /\ End(i) /\ UNCHANGED <<trains, pairs, failed>>

\* updateMacroNode, and the trainruns when the key has changed.
UpdateMacroNode(i, k) ==
  LET n == GetNodeByNgeId(State(k), k.node)
      name == k.dto.nodes[k.node]
      key == IF n.key.type = "trigram" /\ n.trigram # name THEN Key("trigram", name) ELSE n.key
      through == {r \in DOMAIN k.dto.runs : k.node \in Range(k.dto.runs[r].path)}
      todo == SortedIds(through)
      s == IndexNodeByKey(State(k), n.key, Node(k.node, n.db, key, name))
      first == [k EXCEPT !.todo = todo]
  IN
  /\ n # Null /\ n.db \in DOMAIN dbNodes /\ Free(key, n.db)
  /\ dbNodes' = [dbNodes EXCEPT ![n.db] = [key |-> key, trigram |-> name]]
  /\ states' = [states EXCEPT ![k.st] = s]
  /\ tasks' = IF key = n.key \/ todo = <<>> THEN RemoveAt(tasks, i)
              ELSE [tasks EXCEPT ![i] = HandleUpdateTimetableItem(first)]
  /\ UNCHANGED <<trains, pairs, nextId, failed>>

DeleteMacroNode(i, k) ==
  LET n == GetNodeByNgeId(State(k), k.node) IN
  /\ n # Null => n.db \in DOMAIN dbNodes
  /\ dbNodes' = IF n = Null THEN dbNodes ELSE Without(dbNodes, {n.db})
  /\ states' = [states EXCEPT ![k.st] = DeleteNodeByNgeId(State(k), k.node)]
  /\ End(i) /\ UNCHANGED <<trains, pairs, nextId, failed>>

-----------------------------------------------------------------------------

\* The next request of a task is answered.
Answered(i) ==
  LET k == tasks[i] IN
  \/ k.pc = "create" /\ HandleCreateTimetableItem(i, k)
  \/ k.pc = "store" /\ StoreCreated(i, k)
  \/ k.pc = "get" /\ FetchForward(i, k)
  \/ k.pc = "put" /\ StoreForward(i, k)
  \/ k.pc = "one_way" /\ StoreOneWay(i, k)
  \/ k.pc = "deleteReturn" /\ DeleteReturn(i, k)
  \/ k.pc = "getReturn" /\ FetchReturn(i, k)
  \/ k.pc = "putReturn" /\ StoreReturn(i, k)
  \/ k.pc = "postReturn" /\ CreateReturn(i, k)
  \/ k.pc = "pair" /\ StorePair(i, k)
  \/ k.pc = "delete" /\ HandleDeleteTimetableItem(i, k)
  \/ k.pc = "node" /\ CreateMacroNode(i, k)
  \/ k.pc = "node" /\ UpdateMacroNode(i, k)
  \/ k.pc = "nodeDelete" /\ DeleteMacroNode(i, k)

\* A request is refused or lost, or the handler throws.
Step(i) ==
  (Answered(i) \/ TaskFails(i)) /\ raced' = (raced \/ refreshes # <<>>) /\ UNCHANGED rest

Refresh(i) == ReadTrains(i) \/ ReadPairs(i) \/ ReadNodes(i) \/ StoreTrainPathNodes(i)

MacroNext ==
  \/ Operation \/ Outside \/ HandleOperation
  \/ \E i \in DOMAIN tasks : Step(i)
  \/ \E i \in DOMAIN refreshes : Refresh(i)

MacroSpec == MacroInit /\ [][MacroNext]_macroVars

-----------------------------------------------------------------------------
(* Properties.                                                             *)

\* The indices of every MacroEditorState agree with its nodes after renames,
\* deletions, merges and failures, as long as no refresh came in between.
NodesIndexed == ~raced => \A j \in DOMAIN states : IndexSound(states[j])

Quiet == ~Busy /\ refreshes = <<>> /\ cur # 0

\* The trains of a trainrun: where they go and how they are paired.
Shown(r) ==
  LET s == states[cur]  run == nge.runs[r]
      leads(path, nodes) ==
        /\ Len(path) = Len(nodes)
        /\ \A j \in DOMAIN path : LET n == GetNodeByKey(s, path[j]) IN n # Null /\ n.nge = nodes[j]
  IN
  /\ r \in DOMAIN s.trains
  /\ LET ids == s.trains[r] IN
     /\ Exists(ids[1]) /\ leads(trains[ids[1]], run.path)
     /\ IF run.dir = "one_way" THEN ids[2] = NoId
        ELSE /\ Exists(ids[2]) /\ CheckRoundTripCompatible(trains[ids[1]], trains[ids[2]])
             /\ <<Min({ids[1], ids[2]}), Max({ids[1], ids[2]})>> \in pairs

\* When everything is answered, nothing has failed, and no refresh or label came in
\* between, editoast has what NGE shows: every trainrun with its trains, and no train
\* besides. (Not where paths name one station in two ways: a node drawn with its
\* trigram replaces the node that dedupNodes had merged under both keys.)
QuietMeansSaved ==
  Quiet /\ ~failed /\ ~raced =>
    /\ \A r \in DOMAIN nge.runs : Shown(r)
    /\ DOMAIN trains = UNION {Range(states[cur].trains[r]) : r \in DOMAIN nge.runs} \ {NoId}
=============================================================================
