---------------------------- MODULE CoreRpcProofs ----------------------------
(***************************************************************************)
(* Proofs, for any calls and any number of workers, threads and crashes,   *)
(* that a request of editoast is never in two places and that none that    *)
(* can be served is lost while its caller waits.                           *)
(***************************************************************************)
EXTENDS CoreRpc, FiniteSetTheorems, TLAPS

Callers == {"idle", "registered", "waiting", "answered", "timeout", "failed"}

TypeInv ==
  /\ caller \in [Call -> Callers]
  /\ response_tracker \subseteq Call
  /\ queue \in Seq(Call)
  /\ held \in [Worker -> SUBSET Call]
  /\ replied \in [Worker -> SUBSET Call]
  /\ replies \subseteq Call

\* The deliveries of a worker are finitely many: its prefetch count bounds them.
FinitelyHeld == \A w \in Worker : IsFiniteSet(held[w] \cup replied[w])

\* What the broker, a worker or the way back holds has been published.
OnlyPublished ==
  \A c \in Call :
    caller[c] \in {"idle", "registered"} =>
      /\ ~Queued(c) /\ c \notin replies
      /\ \A w \in Worker : c \notin held[w] \cup replied[w]

\* The dispatching loops know the call as long as it waits for its response.
WaitingIsKnown ==
  \A c \in Call : caller[c] \in {"registered", "waiting"} => c \in response_tracker

\* A delivery is only acknowledged once its reply is on its way, or has arrived.
RepliedIsOnItsWay ==
  \A w \in Worker : \A c \in replied[w] : caller[c] = "waiting" => c \in replies

IInv ==
  /\ TypeInv /\ FinitelyHeld
  /\ OnlyPublished /\ WaitingIsKnown /\ RepliedIsOnItsWay
  /\ OneCopy /\ RequestNotLost

USE RpcAssumption

\* What a worker gives back to the queue: everything it held, each once.
LEMMA GivenBack ==
  ASSUME NEW S \in SUBSET Call, IsFiniteSet(S), NEW given \in SetToSeqs(S)
  PROVE  /\ given \in Seq(Call) /\ Len(given) \in Nat /\ DOMAIN given = 1..Len(given)
         /\ \A i \in 1..Len(given) : given[i] \in S
         /\ \A i, j \in 1..Len(given) : given[i] = given[j] => i = j
         /\ \A c \in S : \E i \in 1..Len(given) : given[i] = c
<1> DEFINE D == 1..Cardinality(S)
<1>1. Cardinality(S) \in Nat /\ IsFiniteSet(D) /\ Cardinality(D) = Cardinality(S)
  BY FS_CardinalityType, FS_Interval
<1>2. given \in [D -> S] /\ \A i, j \in D : i # j => given[i] # given[j]
  BY DEF SetToSeqs
<1>3. given \in Injection(D, S)
  BY <1>2 DEF Injection, IsInjective
<1>4. given \in Surjection(D, S)
  BY <1>1, <1>3, FS_Injection
<1>5. given \in Seq(Call) /\ Len(given) = Cardinality(S)
  BY <1>1, <1>2
<1> QED
  BY <1>1, <1>2, <1>4, <1>5 DEF Surjection

LEMMA InitEstablishes == Init => IInv
<1> SUFFICES ASSUME Init PROVE IInv
  OBVIOUS
<1> USE DEF Init
<1>1. TypeInv
  BY DEF TypeInv, Callers
<1>2. FinitelyHeld
  BY FS_EmptySet DEF FinitelyHeld
<1>3. OnlyPublished /\ WaitingIsKnown /\ RepliedIsOnItsWay
  BY DEF OnlyPublished, WaitingIsKnown, RepliedIsOnItsWay, Queued
<1>4. OneCopy /\ RequestNotLost
  BY DEF OneCopy, RequestNotLost, Queued, HeldBy, Good
<1> QED
  BY <1>1, <1>2, <1>3, <1>4 DEF IInv

-----------------------------------------------------------------------------
(* Every action preserves the invariant.                                   *)

\* The client's steps that leave the broker and the workers alone.
LEMMA CallerPreserves ==
  ASSUME NEW c \in Call, IInv, Register(c) \/ PublishFails(c) \/ Timeout(c)
  PROVE  IInv'
<1> USE DEF IInv, Register, PublishFails, Timeout, core
<1>1. TypeInv' /\ FinitelyHeld'
  BY DEF TypeInv, FinitelyHeld, Callers
<1>2. OnlyPublished' /\ WaitingIsKnown' /\ RepliedIsOnItsWay'
  BY DEF TypeInv, OnlyPublished, WaitingIsKnown, RepliedIsOnItsWay, Queued
<1>3. OneCopy'
  BY DEF OneCopy, Queued, HeldBy
<1>4. RequestNotLost'
  BY DEF TypeInv, RequestNotLost, Queued, HeldBy, Good
<1> QED
  BY <1>1, <1>2, <1>3, <1>4

\* A call that is being published is nowhere else yet.
LEMMA PublishPreserves ==
  ASSUME NEW c \in Call, IInv, Publish(c)
  PROVE  IInv'
<1> USE DEF IInv, Publish, core
<1>1. TypeInv' /\ FinitelyHeld'
  BY DEF TypeInv, FinitelyHeld, Callers
<1>2. /\ Len(queue) \in Nat /\ DOMAIN queue = 1..Len(queue)
      /\ DOMAIN queue' = 1..(Len(queue) + 1) /\ queue'[Len(queue) + 1] = c
      /\ \A i \in 1..Len(queue) : queue'[i] = queue[i]
  BY DEF TypeInv
<1>3. \A d \in Call : Queued(d)' <=> Queued(d) \/ d = c
  BY <1>2 DEF Queued
<1>4. OnlyPublished' /\ WaitingIsKnown'
  BY <1>3 DEF TypeInv, OnlyPublished, WaitingIsKnown
<1>5. RepliedIsOnItsWay'
  BY DEF TypeInv, OnlyPublished, RepliedIsOnItsWay
<1>6. OneCopy'
  BY <1>2, <1>3 DEF TypeInv, OneCopy, OnlyPublished, HeldBy, Queued
<1>7. RequestNotLost'
  BY <1>3 DEF TypeInv, RequestNotLost, HeldBy, Good
<1> QED
  BY <1>1, <1>4, <1>5, <1>6, <1>7

\* A response is dropped only for a call that does not wait any more.
LEMMA DispatchPreserves ==
  ASSUME NEW c \in Call, IInv, Dispatch(c)
  PROVE  IInv'
<1> USE DEF IInv, Dispatch, core
<1>1. TypeInv' /\ FinitelyHeld'
  BY DEF TypeInv, FinitelyHeld, Callers
<1>2. caller'[c] # "waiting" /\ caller[c] \notin {"idle", "registered"}
  BY DEF TypeInv, WaitingIsKnown, OnlyPublished
<1>3. /\ \A d \in Call \ {c} : caller'[d] = caller[d]
      /\ caller[c] # "waiting" => caller'[c] = caller[c]
      /\ caller[c] = "waiting" => caller'[c] = "answered"
  BY DEF TypeInv, WaitingIsKnown
<1>4. OnlyPublished' /\ WaitingIsKnown' /\ RepliedIsOnItsWay'
  BY <1>2, <1>3 DEF TypeInv, OnlyPublished, WaitingIsKnown, RepliedIsOnItsWay, Queued
<1>5. OneCopy'
  BY DEF OneCopy, Queued, HeldBy
<1>6. RequestNotLost'
  BY <1>2, <1>3 DEF TypeInv, RequestNotLost, Queued, HeldBy, Good
<1> QED
  BY <1>1, <1>4, <1>5, <1>6

\* What the queue holds without its head.
LEMMA TailOfQueue ==
  ASSUME TypeInv, OneCopy, queue # <<>>, queue' = Tail(queue)
  PROVE  /\ Head(queue) \in Call /\ Queued(Head(queue)) /\ queue' \in Seq(Call)
         /\ \A c \in Call : Queued(c)' <=> Queued(c) /\ c # Head(queue)
         /\ \A i, j \in DOMAIN queue' : queue'[i] = queue'[j] => i = j
<1>1. /\ Len(queue) \in Nat \ {0} /\ DOMAIN queue = 1..Len(queue)
      /\ DOMAIN queue' = 1..(Len(queue) - 1) /\ queue[1] = Head(queue)
      /\ \A i \in 1..(Len(queue) - 1) : queue'[i] = queue[i + 1]
      /\ Head(queue) \in Call /\ queue' \in Seq(Call)
  BY DEF TypeInv
<1>2. \A c \in Call : Queued(c) /\ c # Head(queue) => Queued(c)'
  <2> SUFFICES ASSUME NEW c \in Call, NEW i \in 1..Len(queue), queue[i] = c, c # Head(queue)
               PROVE  \E j \in DOMAIN queue' : queue'[j] = c
    BY <1>1 DEF Queued
  <2>1. i - 1 \in 1..(Len(queue) - 1) /\ queue'[i - 1] = c
    BY <1>1
  <2> QED
    BY <1>1, <2>1
<1>3. \A c \in Call : Queued(c)' => Queued(c) /\ c # Head(queue)
  BY <1>1 DEF Queued, OneCopy
<1>4. \A i, j \in DOMAIN queue' : queue'[i] = queue'[j] => i = j
  <2> SUFFICES ASSUME NEW i \in DOMAIN queue', NEW j \in DOMAIN queue', queue'[i] = queue'[j]
               PROVE  i = j
    OBVIOUS
  <2>1. i + 1 \in DOMAIN queue /\ j + 1 \in DOMAIN queue /\ queue[i + 1] = queue[j + 1]
    BY <1>1
  <2> QED
    BY <1>1, <2>1 DEF OneCopy
<1> QED
  BY <1>1, <1>2, <1>3, <1>4 DEF Queued

LEMMA ExpirePreserves == IInv /\ Expire => IInv'
<1> SUFFICES ASSUME IInv, Expire PROVE IInv'
  OBVIOUS
<1> USE DEF IInv, Expire, client, core
<1>1. /\ Head(queue) \in Call /\ queue' \in Seq(Call)
      /\ \A c \in Call : Queued(c)' <=> Queued(c) /\ c # Head(queue)
      /\ \A i, j \in DOMAIN queue' : queue'[i] = queue'[j] => i = j
  BY TailOfQueue
<1>2. TypeInv' /\ FinitelyHeld'
  BY <1>1 DEF TypeInv, FinitelyHeld
<1>3. OnlyPublished' /\ WaitingIsKnown' /\ RepliedIsOnItsWay'
  BY <1>1 DEF OnlyPublished, WaitingIsKnown, RepliedIsOnItsWay
<1>4. OneCopy'
  BY <1>1 DEF OneCopy, HeldBy
<1>5. RequestNotLost'
  BY <1>1 DEF RequestNotLost, HeldBy, Good
<1> QED
  BY <1>2, <1>3, <1>4, <1>5

LEMMA DeliverPreserves ==
  ASSUME NEW w \in Worker, IInv, Deliver(w)
  PROVE  IInv'
<1> USE DEF IInv
<1> DEFINE h == Head(queue)
<1>1. /\ h \in Call /\ Queued(h) /\ queue' \in Seq(Call)
      /\ \A c \in Call : Queued(c)' <=> Queued(c) /\ c # h
      /\ \A i, j \in DOMAIN queue' : queue'[i] = queue'[j] => i = j
  BY TailOfQueue DEF Deliver
<1>2. /\ \A v \in Worker : held'[v] = IF v = w THEN held[v] \cup {h} ELSE held[v]
      /\ held' \in [Worker -> SUBSET Call]
      /\ caller' = caller /\ response_tracker' = response_tracker
      /\ replied' = replied /\ replies' = replies /\ expired' = expired
  BY <1>1 DEF TypeInv, Deliver, client
<1> HIDE DEF h
<1>3. TypeInv'
  BY <1>1, <1>2 DEF TypeInv
<1>4. FinitelyHeld'
  <2>1. IsFiniteSet((held[w] \cup replied[w]) \cup {h})
    BY FS_AddElement DEF FinitelyHeld
  <2>2. held'[w] \cup replied'[w] = (held[w] \cup replied[w]) \cup {h}
    BY <1>2
  <2> QED
    BY <1>2, <2>1, <2>2 DEF FinitelyHeld
<1>5. OnlyPublished' /\ WaitingIsKnown' /\ RepliedIsOnItsWay'
  BY <1>1, <1>2 DEF OnlyPublished, WaitingIsKnown, RepliedIsOnItsWay
<1>6. \A c \in Call : HeldBy(c)' = IF c = h THEN {w} ELSE HeldBy(c)
  BY <1>1, <1>2 DEF HeldBy, OneCopy
<1>7. OneCopy'
  <2>1. \A c \in Call : Queued(c)' => HeldBy(c)' = {}
    BY <1>1, <1>6 DEF OneCopy
  <2>2. \A c \in Call : \A u, v \in HeldBy(c)' : u = v
    BY <1>6 DEF OneCopy
  <2>3. \A v \in Worker : held'[v] \cap replied'[v] = {}
    BY <1>1, <1>2 DEF OneCopy, HeldBy
  <2> QED
    BY <1>1, <2>1, <2>2, <2>3 DEF OneCopy
<1>8. RequestNotLost'
  BY <1>1, <1>2, <1>6 DEF RequestNotLost, Good
<1> QED
  BY <1>3, <1>4, <1>5, <1>7, <1>8

LEMMA WorkerComesAndGoes ==
  ASSUME NEW w \in Worker, IInv, WorkerReady(w) \/ Respawn(w)
  PROVE  IInv'
  BY DEF IInv, WorkerReady, Respawn, client, TypeInv, FinitelyHeld, OnlyPublished,
         WaitingIsKnown, RepliedIsOnItsWay, OneCopy, RequestNotLost, Queued, HeldBy, Good

LEMMA RejectPreserves ==
  ASSUME NEW w \in Worker, NEW c \in Call, IInv, RejectUnknown(w, c)
  PROVE  IInv'
<1> USE DEF IInv, RejectUnknown, client
<1>1. /\ \A v \in Worker : held'[v] = IF v = w THEN held[v] \ {c} ELSE held[v]
      /\ replied' = replied /\ c \notin Good
  BY DEF TypeInv, Good
<1>2. TypeInv'
  BY DEF TypeInv
<1>3. FinitelyHeld'
  <2>1. \A v \in Worker : held'[v] \cup replied'[v] \in SUBSET (held[v] \cup replied[v])
    BY <1>1
  <2> QED
    BY <2>1, FS_Subset DEF FinitelyHeld
<1>4. OnlyPublished' /\ WaitingIsKnown' /\ RepliedIsOnItsWay'
  BY <1>1 DEF OnlyPublished, WaitingIsKnown, RepliedIsOnItsWay, Queued
<1>5. OneCopy'
  BY <1>1 DEF OneCopy, Queued, HeldBy
<1>6. RequestNotLost'
  BY <1>1 DEF RequestNotLost, Queued, HeldBy, Good
<1> QED
  BY <1>2, <1>3, <1>4, <1>5, <1>6

LEMMA ReplyPreserves ==
  ASSUME NEW w \in Worker, NEW c \in Call, IInv, Reply(w, c)
  PROVE  IInv'
<1> USE DEF IInv, Reply, client
<1>1. /\ c \in held[w]
      /\ \A v \in Worker : held'[v] = IF v = w THEN held[v] \ {c} ELSE held[v]
      /\ \A v \in Worker : replied'[v] = IF v = w THEN replied[v] \cup {c} ELSE replied[v]
  BY DEF TypeInv
<1>2. TypeInv'
  BY DEF TypeInv
<1>3. \A v \in Worker : held'[v] \cup replied'[v] = held[v] \cup replied[v]
  BY <1>1
<1>4. FinitelyHeld'
  BY <1>3 DEF FinitelyHeld
<1>5. OnlyPublished' /\ WaitingIsKnown' /\ RepliedIsOnItsWay'
  BY <1>1, <1>3 DEF OnlyPublished, WaitingIsKnown, RepliedIsOnItsWay, Queued
<1>6. \A d \in Call : HeldBy(d)' = HeldBy(d)
  BY <1>3 DEF HeldBy
<1>7. OneCopy'
  BY <1>1, <1>6 DEF OneCopy, Queued
<1>8. RequestNotLost'
  BY <1>6 DEF RequestNotLost, Queued, Good
<1> QED
  BY <1>2, <1>4, <1>5, <1>7, <1>8

LEMMA AcknowledgePreserves ==
  ASSUME NEW w \in Worker, NEW c \in Call, IInv, Acknowledge(w, c)
  PROVE  IInv'
<1> USE DEF IInv, Acknowledge, client
<1>1. /\ c \in replied[w] /\ held' = held
      /\ \A v \in Worker : replied'[v] = IF v = w THEN replied[v] \ {c} ELSE replied[v]
  BY DEF TypeInv
<1>2. TypeInv'
  BY DEF TypeInv
<1>3. FinitelyHeld'
  <2>1. \A v \in Worker : held'[v] \cup replied'[v] \in SUBSET (held[v] \cup replied[v])
    BY <1>1
  <2> QED
    BY <2>1, FS_Subset DEF FinitelyHeld
<1>4. OnlyPublished' /\ WaitingIsKnown' /\ RepliedIsOnItsWay'
  BY <1>1 DEF OnlyPublished, WaitingIsKnown, RepliedIsOnItsWay, Queued
<1>5. OneCopy'
  BY <1>1 DEF OneCopy, Queued, HeldBy
<1>6. RequestNotLost'
  BY <1>1 DEF RequestNotLost, RepliedIsOnItsWay, Queued, HeldBy, Good
<1> QED
  BY <1>2, <1>3, <1>4, <1>5, <1>6

\* The broker requeues what the worker had not acknowledged.
LEMMA ExitPreserves ==
  ASSUME NEW w \in Worker, IInv, Exit(w)
  PROVE  IInv'
<1> USE DEF IInv, Exit, client
<1> DEFINE S == held[w] \cup replied[w]
<1>1. PICK given \in SetToSeqs(S) : queue' = given \o queue
  OBVIOUS
<1>2. S \in SUBSET Call /\ IsFiniteSet(S)
  BY DEF TypeInv, FinitelyHeld
<1>3. /\ \A v \in Worker : held'[v] = IF v = w THEN {} ELSE held[v]
      /\ \A v \in Worker : replied'[v] = IF v = w THEN {} ELSE replied[v]
  BY DEF TypeInv
<1>4. \A c \in Call : /\ c \in S => ~Queued(c)
                      /\ HeldBy(c)' = HeldBy(c) \ {w}
                      /\ c \in S => HeldBy(c) = {w}
                      /\ c \notin S => HeldBy(c)' = HeldBy(c)
  BY <1>3 DEF OneCopy, HeldBy
<1> HIDE DEF S
<1>5. /\ given \in Seq(Call) /\ Len(given) \in Nat
      /\ \A i \in 1..Len(given) : given[i] \in S
      /\ \A i, j \in 1..Len(given) : given[i] = given[j] => i = j
      /\ \A c \in S : \E i \in 1..Len(given) : given[i] = c
  BY <1>1, <1>2, GivenBack
<1>6. /\ Len(queue) \in Nat /\ DOMAIN queue = 1..Len(queue) /\ queue' \in Seq(Call)
      /\ DOMAIN queue' = 1..(Len(given) + Len(queue))
      /\ \A i \in 1..Len(given) : queue'[i] = given[i]
      /\ \A i \in 1..Len(queue) : queue'[Len(given) + i] = queue[i]
      /\ \A i \in DOMAIN queue' : i \in 1..Len(given) \/ i - Len(given) \in 1..Len(queue)
  BY <1>1, <1>5 DEF TypeInv
<1>7. \A c \in Call : Queued(c)' <=> Queued(c) \/ c \in S
  <2> SUFFICES ASSUME NEW c \in Call PROVE Queued(c)' <=> Queued(c) \/ c \in S
    OBVIOUS
  <2>1. Queued(c)' => Queued(c) \/ c \in S
    BY <1>5, <1>6 DEF Queued
  <2>2. Queued(c) => Queued(c)'
    <3> SUFFICES ASSUME NEW i \in 1..Len(queue), queue[i] = c
                 PROVE  \E j \in DOMAIN queue' : queue'[j] = c
      BY <1>6 DEF Queued
    <3>1. Len(given) + i \in DOMAIN queue' /\ queue'[Len(given) + i] = c
      BY <1>5, <1>6
    <3> QED
      BY <3>1
  <2>3. c \in S => Queued(c)'
    BY <1>5, <1>6 DEF Queued
  <2> QED
    BY <2>1, <2>2, <2>3
<1>8. \A i, j \in DOMAIN queue' : queue'[i] = queue'[j] => i = j
  <2> SUFFICES ASSUME NEW i \in DOMAIN queue', NEW j \in DOMAIN queue', queue'[i] = queue'[j]
               PROVE  i = j
    OBVIOUS
  <2> DEFINE inGiven(n) == n \in 1..Len(given)
  <2>1. CASE inGiven(i) /\ inGiven(j)
    BY <1>5, <1>6, <2>1
  <2>2. CASE ~inGiven(i) /\ ~inGiven(j)
    <3>1. queue[i - Len(given)] = queue[j - Len(given)]
      BY <1>5, <1>6, <2>2, SMTT(30)
    <3> QED
      BY <1>5, <1>6, <2>2, <3>1 DEF OneCopy
  <2>3. ASSUME NEW m \in DOMAIN queue', NEW n \in DOMAIN queue', inGiven(m), ~inGiven(n)
        PROVE  queue'[m] # queue'[n]
    <3>1. queue'[m] \in S /\ n - Len(given) \in DOMAIN queue
      BY <1>5, <1>6, <2>3
    <3>2. queue'[n] = queue[n - Len(given)]
      <4>1. n - Len(given) \in 1..Len(queue)
        BY <1>6, <3>1
      <4>2. queue'[Len(given) + (n - Len(given))] = queue[n - Len(given)]
        BY <1>6, <4>1
      <4>3. Len(given) + (n - Len(given)) = n
        BY <1>5, <1>6
      <4> QED
        BY <4>2, <4>3
    <3>3. queue'[n] \in Call /\ Queued(queue'[n])
      BY <3>1, <3>2 DEF TypeInv, Queued
    <3> QED
      BY <1>2, <1>4, <3>1, <3>3
  <2> QED
    BY <2>1, <2>2, <2>3
<1>9. TypeInv'
  BY <1>6 DEF TypeInv
<1>10. FinitelyHeld'
  BY <1>3, FS_EmptySet, ZenonT(30) DEF FinitelyHeld
<1>11. \A c \in Call : caller[c] \in {"idle", "registered"} => c \notin S
  BY DEF OnlyPublished, S
<1>12. OnlyPublished' /\ WaitingIsKnown' /\ RepliedIsOnItsWay'
  BY <1>3, <1>7, <1>11 DEF OnlyPublished, WaitingIsKnown, RepliedIsOnItsWay
<1>13. OneCopy'
  <2>1. \A c \in Call : Queued(c)' => HeldBy(c)' = {}
    BY <1>4, <1>7 DEF OneCopy
  <2>2. \A c \in Call : \A u, v \in HeldBy(c)' : u = v
    BY <1>4 DEF OneCopy
  <2>3. \A v \in Worker : held'[v] \cap replied'[v] = {}
    BY <1>3 DEF OneCopy
  <2> QED
    BY <1>8, <2>1, <2>2, <2>3 DEF OneCopy
<1>14. RequestNotLost'
  BY <1>4, <1>7 DEF RequestNotLost, Good
<1> QED
  BY <1>9, <1>10, <1>12, <1>13, <1>14

LEMMA NextPreserves == IInv /\ [Next]_vars => IInv'
<1> SUFFICES ASSUME IInv, [Next]_vars PROVE IInv'
  OBVIOUS
<1>1. CASE \E c \in Call : Register(c) \/ Publish(c) \/ PublishFails(c) \/ Timeout(c) \/ Dispatch(c)
  BY <1>1, CallerPreserves, PublishPreserves, DispatchPreserves
<1>2. CASE Expire
  BY <1>2, ExpirePreserves
<1>3. ASSUME NEW w \in Worker, WorkerStep(w) PROVE IInv'
  BY <1>3, WorkerComesAndGoes, DeliverPreserves, RejectPreserves, ReplyPreserves,
     AcknowledgePreserves, ExitPreserves DEF WorkerStep, ExitOnPoison
<1>4. ASSUME NEW w \in Worker, ExitAnyway(w) PROVE IInv'
  BY <1>4, ExitPreserves DEF ExitAnyway
<1>5. CASE UNCHANGED vars
  BY <1>5 DEF vars, client, core, IInv, TypeInv, FinitelyHeld, OnlyPublished, WaitingIsKnown,
     RepliedIsOnItsWay, OneCopy, RequestNotLost, Queued, HeldBy, Good
<1> QED
  BY <1>1, <1>2, <1>3, <1>4, <1>5 DEF Next

LEMMA Invariance == Spec => []IInv
  BY InitEstablishes, NextPreserves, PTL DEF Spec

-----------------------------------------------------------------------------
(* The theorems.                                                           *)

\* A request is in one place at a time, whichever workers die and however often
\* it is redelivered.
THEOREM RequestInOnePlace == Spec => []OneCopy
  BY Invariance, PTL DEF IInv

\* No request that can be served is lost while its caller waits.
THEOREM NoRequestLost == Spec => []RequestNotLost
  BY Invariance, PTL DEF IInv
=============================================================================
