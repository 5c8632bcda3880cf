----------------------------- MODULE MacroNodes -----------------------------
(***************************************************************************)
(* MacroEditorState: the nodes of the macro editor, stored in an array and *)
(* indexed by path key and by the id the editor (NGE) gave them.           *)
(*                                                                         *)
(* A path key names an operational point by its trigram or by its id:      *)
(* [type |-> "trigram", name |-> n]. Positions, labels and full names are  *)
(* left out. In an Object, trains is timetableItemIdByNgeId.               *)
(***************************************************************************)
EXTENDS Naturals, Sequences, FiniteSets, SequencesExt, Functions

Null == [key |-> "null"]
NoDb == 0

Node(ngeId, dbId, key, trigram) == [nge |-> ngeId, db |-> dbId, key |-> key, trigram |-> trigram]

Object(nodes, byKey, byNge, trs) == [nodes |-> nodes, byKey |-> byKey, byNge |-> byNge, trains |-> trs]

NewState == Object(<<>>, <<>>, <<>>, <<>>)
WithTrains(s, trs) == Object(s.nodes, s.byKey, s.byNge, trs)

With(f, k, v) == [x \in DOMAIN f \cup {k} |-> IF x = k THEN v ELSE f[x]]
Without(f, S) == Restrict(f, DOMAIN f \ S)

GetNodeByKey(s, key) == IF key \in DOMAIN s.byKey THEN s.nodes[s.byKey[key]] ELSE Null
GetNodeByNgeId(s, id) == IF id \in DOMAIN s.byNge THEN s.nodes[s.byNge[id]] ELSE Null

\* Fault: the indices of the node that is replaced are left as they are.
IndexNodeByKey_KeepsOld(s, key, node) ==
  LET i == IF key \in DOMAIN s.byKey THEN s.byKey[key] ELSE Len(s.nodes) + 1 IN
  Object(IF i <= Len(s.nodes) THEN [s.nodes EXCEPT ![i] = node] ELSE Append(s.nodes, node),
         With(s.byKey, node.key, i), With(s.byNge, node.nge, i), s.trains)

\* A node known under the key is replaced, whatever its new key is.
IndexNodeByKey(s, key, node) ==
  IF key \in DOMAIN s.byKey
  THEN LET i == s.byKey[key] IN
       Object([s.nodes EXCEPT ![i] = node], With(Without(s.byKey, {key}), node.key, i),
              With(Without(s.byNge, {s.nodes[i].nge}), node.nge, i), s.trains)
  ELSE LET i == Len(s.nodes) + 1 IN
       Object(Append(s.nodes, node), With(s.byKey, node.key, i), With(s.byNge, node.nge, i), s.trains)

\* updateNodeDataByKey, of the nodes that get the ids they were saved under.
UpdateNodeData(s, ids) ==
  Object([i \in DOMAIN s.nodes |->
            LET n == s.nodes[i] IN IF i \in DOMAIN ids THEN Node(n.nge, ids[i], n.key, n.trigram) ELSE n],
         s.byKey, s.byNge, s.trains)

\* Every reference to the slot goes; the slot stays, so that no other moves.
DeleteByIndexStorage(s, i) ==
  Object([s.nodes EXCEPT ![i] = Null], Restrict(s.byKey, {k \in DOMAIN s.byKey : s.byKey[k] # i}),
         Restrict(s.byNge, {n \in DOMAIN s.byNge : s.byNge[n] # i}), s.trains)

DeleteNodeByNgeId(s, id) ==
  IF GetNodeByNgeId(s, id) = Null THEN s ELSE DeleteByIndexStorage(s, s.byNge[id])

KeysOf(s, trigram) == {k \in DOMAIN s.byKey : GetNodeByKey(s, k).trigram = trigram}
Trigrams(s) == {GetNodeByKey(s, k).trigram : k \in DOMAIN s.byKey}

Priority(s, key) ==
  IF GetNodeByKey(s, key).db # NoDb THEN 0 ELSE IF key.type = "op_id" THEN 1 ELSE 2

\* What dedupNodes may keep for each trigram. (Among keys of one priority the
\* code keeps the one that was indexed first, which is not modelled.)
MainKeys(s) ==
  {main \in [Trigrams(s) -> DOMAIN s.byKey] : \A t \in Trigrams(s) :
     main[t] \in KeysOf(s, t) /\ \A k \in KeysOf(s, t) : Priority(s, main[t]) <= Priority(s, k)}

\* One node for each trigram; the keys of the others lead to it.
DedupNodes(s, main) ==
  LET lost == {k \in DOMAIN s.byKey : main[GetNodeByKey(s, k).trigram] # k}
      at == {s.byKey[k] : k \in lost}
  IN  Object([i \in DOMAIN s.nodes |-> IF i \in at THEN Null ELSE s.nodes[i]],
             [k \in DOMAIN s.byKey |-> s.byKey[IF k \in lost THEN main[GetNodeByKey(s, k).trigram] ELSE k]],
             Restrict(s.byNge, {n \in DOMAIN s.byNge : s.byNge[n] \notin at}), s.trains)

LiveNodes(s) == {i \in DOMAIN s.nodes : s.nodes[i] # Null}

\* The indices agree with the storage: a node is found by its id and by its key,
\* and nothing leads to a node that is gone or to another one.
IndexSound(s) ==
  /\ \A i \in LiveNodes(s) : LET n == s.nodes[i] IN
       /\ n.nge \in DOMAIN s.byNge /\ s.byNge[n.nge] = i
       /\ n.key \in DOMAIN s.byKey /\ s.byKey[n.key] = i
  /\ \A id \in DOMAIN s.byNge : GetNodeByNgeId(s, id) # Null /\ GetNodeByNgeId(s, id).nge = id
  /\ \A k \in DOMAIN s.byKey : GetNodeByKey(s, k) # Null
=============================================================================
