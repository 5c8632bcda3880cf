----------------------------- MODULE LazyLoader -----------------------------
(***************************************************************************)
(* The lazy loaders of the front end (TrainSimulationLazyLoader and the    *)
(* projection loaders, which share their queue): train ids wait in         *)
(* pending, and one batch of at most BatchSize of them is in flight.       *)
(*                                                                         *)
(* Every request adds one call of processPending to the end of a promise   *)
(* chain. A call loops until pending is empty; a batch that is rejected    *)
(* ends its call, and what it left in pending waits for the next link of   *)
(* the chain, which .finally starts. Between two awaits the code runs      *)
(* without interruption, so a loader is either idle (no batch) or awaits   *)
(* one batch, with the number of links behind the running one.             *)
(***************************************************************************)
EXTENDS Naturals, Sequences, SequencesExt

CONSTANT BatchSize   \* BATCH_SIZE, 20 in the code

ASSUME BatchSizeAssumption == BatchSize \in Nat \ {0}

\* A new loader; also what cancel() leaves, since the answer to a batch of a
\* cancelled loader is thrown away.
NewLoader == [pending |-> <<>>, batch |-> <<>>, links |-> 0]

\* Fault: the ids of the batch stay where they are.
ProcessPending_NotRemoved(l) ==
  LET n == IF Len(l.pending) < BatchSize THEN Len(l.pending) ELSE BatchSize
  IN  [pending |-> l.pending, batch |-> SubSeq(l.pending, 1, n),
       links   |-> IF n = 0 THEN 0 ELSE l.links]

\* The head of the loop of processPending.
ProcessPending(l) ==
  LET n == IF Len(l.pending) < BatchSize THEN Len(l.pending) ELSE BatchSize
  IN  [pending |-> SubSeq(l.pending, n + 1, Len(l.pending)),
       batch   |-> SubSeq(l.pending, 1, n),
       links   |-> IF n = 0 THEN 0 ELSE l.links]

\* simulateTimetableItems and projectTimetableItems.
Enqueue(l, ids) ==
  LET q == [l EXCEPT !.pending = @ \o ids]
  IN  IF l.batch = <<>> THEN ProcessPending(q) ELSE [q EXCEPT !.links = @ + 1]

\* The batch in flight is done: the loop goes on.
BatchDone(l) == ProcessPending([l EXCEPT !.batch = <<>>])

\* The batch in flight is rejected: its link ends, the next one goes on.
BatchFailed(l) ==
  IF l.links = 0 THEN [l EXCEPT !.batch = <<>>]
                 ELSE ProcessPending([l EXCEPT !.batch = <<>>, !.links = @ - 1])
=============================================================================
