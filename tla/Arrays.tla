------------------------------- MODULE Arrays -------------------------------
(***************************************************************************)
(* What the front does with the arrays of its store, which it never        *)
(* changes in place: filter, lodash's sortBy and flatMap (or a reduce that *)
(* pushes), and the helpers of utils/array.ts.                             *)
(***************************************************************************)
EXTENDS Integers, Sequences, FiniteSets, SequencesExt

\* filter: the elements at the indices in I, in their order.
Kept(ss, I) == [k \in 1..Cardinality(I) |-> ss[CHOOSE i \in I : Cardinality(I \cap 1..i) = k]]

\* The array of a function on 1..n, which TLC then evaluates once.
Array(f) == f \o <<>>

\* A set of pairs of integers in ascending order, the first component first.
Before(q, p) == q[1] < p[1] \/ (q[1] = p[1] /\ q[2] <= p[2])
InOrder(P) ==
  Array([k \in 1..Cardinality(P) |-> CHOOSE p \in P : Cardinality({q \in P : Before(q, p)}) = k])

\* sortBy: the elements by their keys, in their order where keys are equal.
SortBy(ss, key) ==
  LET at == InOrder({<<key[i], i>> : i \in DOMAIN ss}) IN Array([k \in DOMAIN at |-> ss[at[k][2]]])

Ascending(S) ==
  LET at == InOrder({<<0, n>> : n \in S}) IN Array([k \in DOMAIN at |-> at[k][2]])

\* flatMap: the arrays of an array one after the other.
Flat(aa) ==
  LET at == InOrder(UNION {{<<i, j>> : j \in DOMAIN aa[i]} : i \in DOMAIN aa})
  IN  Array([k \in DOMAIN at |-> aa[at[k][1]][at[k][2]]])

\* addElementAtIndex, the index from zero: -1 is before the last element.
AddElementAtIndex(ss, i, new) ==
  InsertAt(ss, IF i >= 0 THEN i + 1 ELSE IF ss = <<>> THEN 1 ELSE Len(ss), new)

\* replaceElementAtIndex, the index from one: splice adds to an empty array.
ReplaceElementAtIndex(ss, i, new) == IF ss = <<>> THEN <<new>> ELSE [ss EXCEPT ![i] = new]
=============================================================================
