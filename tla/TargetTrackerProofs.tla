------------------------- MODULE TargetTrackerProofs -------------------------
(***************************************************************************)
(* Proofs, for any set of keys and clients and any delays, that the target *)
(* tracker keeps its tables consistent, that evolve_until terminates, that *)
(* no queue is spooled down early, that the generation given to a client   *)
(* is one where its queue is active, and that the tracker implements       *)
(* Spooldown.                                                              *)
(***************************************************************************)
EXTENDS TargetTracker, TLAPS

\* No queue's schedule starts before the queue was last required.
StartsAfterRequire ==
  \A k \in Key :
    queues[k] # NoTime =>
      /\ last_require[k].at # NoTime
      /\ queues[k] >= last_require[k].at

\* A queue that left Active did so at an instant the actor has already read.
LeftActiveInThePast ==
  \A k \in Key :
    state[k] = Unbound => iteration_time >= event_time(queues[k], Unbound)

\* The instant of the iteration was read from the clock.
IterationInThePast == iteration_time <= clock

\* A client's answer is about a generation the tracker reached, in which the
\* queue is active whether one looks at the tracker or at the watch channel.
AnswersHold ==
  \A c \in Client :
    client[c].at = "answered" =>
      /\ client[c].generation <= generation
      /\ client[c].generation = generation => state[client[c].key] = Active
      /\ client[c].generation = published.generation
           => published.queues[client[c].key] = Active

\* The inductive invariant.
IInv ==
  /\ TypeOK
  /\ TablesConsistent
  /\ PublishedIsTarget
  /\ AnswersHold
  /\ StartsAfterRequire
  /\ LeftActiveInThePast
  /\ IterationInThePast
  /\ NotSpooledDownEarly

USE TrackerAssumption

\* What event_time gives for each status.
LEMMA EventTimeValue ==
  ASSUME NEW t \in Nat
  PROVE  /\ event_time(t, Active) = t
         /\ event_time(t, Unbound) = t + UnbindDelay
         /\ event_time(t, None) = t + UnbindDelay + DeleteDelay
  BY DEF event_time, Active, Unbound, None

\* A status whose successor is due is not the expected one, and the expected
\* one is further down the schedule.
LEMMA DueMovesDown ==
  ASSUME NEW start \in Nat, NEW now \in Nat, NEW s \in Status,
         event_time(start, NextStatus(s)) <= now
  PROVE  /\ expected_status(start, now) \in {Unbound, None}
         /\ s # expected_status(start, now)
         /\ Rank(expected_status(start, now)) > Rank(s)
         /\ expected_status(start, now) = Unbound => now >= event_time(start, Unbound)
         /\ expected_status(start, now) = None => now >= event_time(start, None)
  BY EventTimeValue
  DEF expected_status, NextStatus, Rank, Status, Active, Unbound, None

LEMMA InitEstablishes == Init => IInv
<1> SUFFICES ASSUME Init PROVE IInv
  OBVIOUS
<1> USE DEF Init
<1>0. event_time(0, Unbound) \in Nat
  BY DEF event_time, Active, Unbound, None
<1>1. TypeOK
  BY <1>0 DEF TypeOK, Time, NoTime, InitialState, OptionStatus, NoMsg, Idle
<1>2. TablesConsistent
  BY <1>0 DEF TablesConsistent, InitialState, NextStatus, NoTime, Active, Unbound, None
<1>3. PublishedIsTarget
  BY DEF PublishedIsTarget
<1>4. AnswersHold
  BY DEF AnswersHold, Idle
<1>5. StartsAfterRequire /\ LeftActiveInThePast /\ IterationInThePast
  BY DEF StartsAfterRequire, LeftActiveInThePast, IterationInThePast, InitialState,
         NoTime, Active, Unbound, None
<1>6. NotSpooledDownEarly
  BY DEF NotSpooledDownEarly, InitialState, NoTime, Active, Unbound, None
<1> QED
  BY <1>1, <1>2, <1>3, <1>4, <1>5, <1>6 DEF IInv

-----------------------------------------------------------------------------
(* Every action preserves the invariant.                                   *)

\* The steps that leave the tables alone preserve what is said about them.
LEMMA TickPreserves == IInv /\ Tick => IInv'
<1> SUFFICES ASSUME IInv, Tick PROVE IInv'
  OBVIOUS
<1> USE DEF IInv, Tick, tables, actor
<1>1. TypeOK'
  BY DEF TypeOK
<1>2. TablesConsistent' /\ PublishedIsTarget' /\ NotSpooledDownEarly'
  BY DEF TablesConsistent, PublishedIsTarget, NotSpooledDownEarly, event_time
<1>3. AnswersHold' /\ StartsAfterRequire' /\ LeftActiveInThePast' /\ IterationInThePast'
  BY DEF AnswersHold, StartsAfterRequire, LeftActiveInThePast, IterationInThePast,
         TypeOK, event_time
<1> QED
  BY <1>1, <1>2, <1>3

LEMMA SendRequirePreserves ==
  ASSUME NEW c \in Client, NEW k \in Key, IInv, SendRequire(c, k)
  PROVE  IInv'
<1> USE DEF IInv, SendRequire, tables, actor
<1>1. TypeOK'
  BY DEF TypeOK, Waiting, Messages, RequireMsgs
<1>2. TablesConsistent' /\ PublishedIsTarget' /\ NotSpooledDownEarly'
  BY DEF TablesConsistent, PublishedIsTarget, NotSpooledDownEarly, event_time
<1>3. AnswersHold'
  BY DEF AnswersHold, Waiting, TypeOK
<1>4. StartsAfterRequire' /\ LeftActiveInThePast' /\ IterationInThePast'
  BY DEF StartsAfterRequire, LeftActiveInThePast, IterationInThePast, event_time
<1> QED
  BY <1>1, <1>2, <1>3, <1>4

LEMMA TakeAnswerPreserves ==
  ASSUME NEW c \in Client, IInv, TakeAnswer(c)
  PROVE  IInv'
<1> USE DEF IInv, TakeAnswer, tables, actor
<1>1. TypeOK'
  BY DEF TypeOK
<1>2. TablesConsistent' /\ PublishedIsTarget' /\ NotSpooledDownEarly'
  BY DEF TablesConsistent, PublishedIsTarget, NotSpooledDownEarly, event_time
<1>3. AnswersHold'
  BY DEF AnswersHold, Idle, TypeOK
<1>4. StartsAfterRequire' /\ LeftActiveInThePast' /\ IterationInThePast'
  BY DEF StartsAfterRequire, LeftActiveInThePast, IterationInThePast, event_time
<1> QED
  BY <1>1, <1>2, <1>3, <1>4

LEMMA SendFromMainPreserves ==
  ASSUME NEW m \in MainMsgs, IInv, SendFromMain(m)
  PROVE  IInv'
<1> USE DEF IInv, SendFromMain, tables, actor
<1>1. TypeOK'
  BY DEF TypeOK, Messages
<1>2. TablesConsistent' /\ PublishedIsTarget' /\ NotSpooledDownEarly'
  BY DEF TablesConsistent, PublishedIsTarget, NotSpooledDownEarly, event_time
<1>3. AnswersHold' /\ StartsAfterRequire' /\ LeftActiveInThePast' /\ IterationInThePast'
  BY DEF AnswersHold, StartsAfterRequire, LeftActiveInThePast, IterationInThePast,
         event_time
<1> QED
  BY <1>1, <1>2, <1>3

\* Both ends of next_event: the iteration's instant moves to the clock.
LEMMA StartIterationPreserves ==
  ASSUME IInv, ReceiveMessage \/ ReachDeadline
  PROVE  IInv'
<1> USE DEF IInv, tables
<1>0. /\ UNCHANGED <<clock, tables, published, client, last_require>>
      /\ iteration_time' = clock /\ pc' = "evolve"
      /\ inbox' \in Seq(Messages) /\ msg' \in Messages \cup {NoMsg}
  <2>1. CASE ReceiveMessage
    BY <2>1 DEF ReceiveMessage, TypeOK
  <2>2. CASE ReachDeadline
    BY <2>2 DEF ReachDeadline, TypeOK
  <2> QED
    BY <2>1, <2>2
<1>1. TypeOK'
  BY <1>0 DEF TypeOK
<1>2. TablesConsistent' /\ PublishedIsTarget' /\ AnswersHold' /\ StartsAfterRequire'
  BY <1>0 DEF TablesConsistent, PublishedIsTarget, AnswersHold, StartsAfterRequire,
              event_time
<1>3. iteration_time' \in Nat /\ iteration_time \in Nat /\ iteration_time <= iteration_time'
  BY <1>0 DEF IterationInThePast, TypeOK
<1>4. IterationInThePast'
  BY <1>0 DEF IterationInThePast, TypeOK
<1>5. LeftActiveInThePast'
  <2> SUFFICES ASSUME NEW k \in Key, state[k] = Unbound
               PROVE  iteration_time' >= event_time(queues[k], Unbound)
    BY <1>0 DEF LeftActiveInThePast, event_time
  <2>1. queues[k] \in Nat
    BY DEF TypeOK, TablesConsistent, Time, NoTime, Unbound, None
  <2> QED
    BY <1>3, <2>1, EventTimeValue DEF LeftActiveInThePast
<1>6. NotSpooledDownEarly'
  <2> SUFFICES ASSUME NEW k \in Key, last_require[k].at # NoTime
               PROVE  /\ state[k] = Unbound =>
                           iteration_time' >= event_time(last_require[k].at, Unbound)
                      /\ state[k] = None =>
                           iteration_time' >= event_time(last_require[k].at, None)
    BY <1>0 DEF NotSpooledDownEarly, event_time
  <2>1. last_require[k].at \in Nat
    BY DEF TypeOK, Time, NoTime
  <2> QED
    BY <1>3, <2>1, EventTimeValue DEF NotSpooledDownEarly
<1> QED
  BY <1>1, <1>2, <1>4, <1>5, <1>6

\* What one turn of evolve_until does to a queue that is due.
LEMMA EvolveStepEffect ==
  ASSUME IInv, EvolveStep
  PROVE  \E k \in Key :
           /\ queues[k] \in Nat /\ state[k] \in Status
           /\ LET e == expected_status(queues[k], iteration_time)
              IN  /\ e \in {Unbound, None} /\ Rank(e) > Rank(state[k])
                  /\ e = Unbound => iteration_time >= event_time(queues[k], Unbound)
                  /\ e = None => iteration_time >= event_time(queues[k], None)
                  /\ state' = [state EXCEPT ![k] = e]
                  /\ generation' = generation + 1
                  /\ e = Unbound =>
                       /\ planned_transitions' = [planned_transitions EXCEPT
                            ![k] = event_time(queues[k], None)]
                       /\ queues' = queues
                  /\ e = None =>
                       /\ planned_transitions' = [planned_transitions EXCEPT ![k] = NoTime]
                       /\ queues' = [queues EXCEPT ![k] = NoTime]
<1> USE DEF IInv
<1>1. PICK k \in Due : queue_apply_transition(k)
  BY DEF EvolveStep
<1>2. /\ k \in Key /\ planned_transitions[k] # NoTime
      /\ planned_transitions[k] <= iteration_time
  BY <1>1 DEF Due, Planned
<1>3. queues[k] \in Nat /\ state[k] \in Status /\ iteration_time \in Nat
  BY <1>2 DEF TypeOK, TablesConsistent, Time, NoTime, Status, OptionStatus
<1>4. event_time(queues[k], NextStatus(state[k])) <= iteration_time
  BY <1>2, <1>3 DEF TablesConsistent, Status, Active, Unbound, None
<1> DEFINE e == expected_status(queues[k], iteration_time)
<1> HIDE DEF e
<1>5. /\ e \in {Unbound, None} /\ state[k] # e /\ Rank(e) > Rank(state[k])
      /\ e = Unbound => iteration_time >= event_time(queues[k], Unbound)
      /\ e = None => iteration_time >= event_time(queues[k], None)
  BY <1>3, <1>4, DueMovesDown DEF e
<1>6. /\ state' = [state EXCEPT ![k] = e]
      /\ generation' = generation + 1
      /\ IF e # None
         THEN /\ planned_transitions' =
                   [planned_transitions EXCEPT ![k] = event_time(queues[k], NextStatus(e))]
              /\ UNCHANGED queues
         ELSE /\ planned_transitions' = [planned_transitions EXCEPT ![k] = NoTime]
              /\ queues' = [queues EXCEPT ![k] = NoTime]
  BY <1>1, <1>5 DEF queue_apply_transition, e
<1>7. e = Unbound => e # None /\ NextStatus(e) = None
  BY DEF NextStatus, Active, Unbound, None
<1> QED
  BY <1>2, <1>3, <1>5, <1>6, <1>7 DEF e

LEMMA EvolveStepPreserves == IInv /\ EvolveStep => IInv'
<1> SUFFICES ASSUME IInv, EvolveStep PROVE IInv'
  OBVIOUS
<1> USE DEF IInv
<1>1. UNCHANGED <<clock, published, inbox, client, pc, iteration_time, msg, last_require>>
  BY DEF EvolveStep, actor
<1>2. PICK k \in Key :
           /\ queues[k] \in Nat /\ state[k] \in Status
           /\ LET e == expected_status(queues[k], iteration_time)
              IN  /\ e \in {Unbound, None} /\ Rank(e) > Rank(state[k])
                  /\ e = Unbound => iteration_time >= event_time(queues[k], Unbound)
                  /\ e = None => iteration_time >= event_time(queues[k], None)
                  /\ state' = [state EXCEPT ![k] = e]
                  /\ generation' = generation + 1
                  /\ e = Unbound =>
                       /\ planned_transitions' = [planned_transitions EXCEPT
                            ![k] = event_time(queues[k], None)]
                       /\ queues' = queues
                  /\ e = None =>
                       /\ planned_transitions' = [planned_transitions EXCEPT ![k] = NoTime]
                       /\ queues' = [queues EXCEPT ![k] = NoTime]
  BY EvolveStepEffect
<1> DEFINE e == expected_status(queues[k], iteration_time)
<1>3. /\ e \in {Unbound, None}
      /\ e = Unbound => iteration_time >= event_time(queues[k], Unbound)
      /\ e = None => iteration_time >= event_time(queues[k], None)
      /\ state' = [state EXCEPT ![k] = e]
      /\ generation' = generation + 1
      /\ e = Unbound =>
           /\ planned_transitions' = [planned_transitions EXCEPT
                ![k] = event_time(queues[k], None)]
           /\ queues' = queues
      /\ e = None =>
           /\ planned_transitions' = [planned_transitions EXCEPT ![k] = NoTime]
           /\ queues' = [queues EXCEPT ![k] = NoTime]
  BY <1>2
<1> HIDE DEF e
<1>4. event_time(queues[k], None) \in Nat
  BY <1>2, EventTimeValue
<1>5. TypeOK'
  <2>1. state' \in [Key -> OptionStatus] /\ generation' \in Nat
    BY <1>3 DEF TypeOK, OptionStatus
  <2>2. queues' \in [Key -> Time] /\ planned_transitions' \in [Key -> Time]
    <3>0. event_time(queues[k], None) \in Time /\ NoTime \in Time
      BY <1>4 DEF Time
    <3>1. queues \in [Key -> Time] /\ planned_transitions \in [Key -> Time]
      BY DEF TypeOK
    <3>2. CASE e = Unbound
      <4>1. /\ queues' = queues
            /\ planned_transitions' =
                 [planned_transitions EXCEPT ![k] = event_time(queues[k], None)]
        BY <3>2, <1>3
      <4> QED
        BY <3>0, <3>1, <4>1
    <3>3. CASE e = None
      <4>1. /\ queues' = [queues EXCEPT ![k] = NoTime]
            /\ planned_transitions' = [planned_transitions EXCEPT ![k] = NoTime]
        BY <3>3, <1>3
      <4> QED
        BY <3>0, <3>1, <4>1
    <3> QED
      BY <3>2, <3>3, <1>3
  <2> QED
    BY <2>1, <2>2, <1>1 DEF TypeOK
<1>6. TablesConsistent'
  <2> SUFFICES ASSUME NEW j \in Key
               PROVE  /\ queues'[j] = NoTime <=> state'[j] = None
                      /\ planned_transitions'[j] = NoTime <=> state'[j] = None
                      /\ state'[j] # None => planned_transitions'[j] =
                                       event_time(queues'[j], NextStatus(state'[j]))
    BY DEF TablesConsistent, event_time
  <2>1. CASE j = k /\ e = Unbound
    BY <2>1, <1>2, <1>3, <1>4 DEF TypeOK, NoTime, NextStatus, Active, Unbound, None
  <2>2. CASE j = k /\ e = None
    BY <2>2, <1>3 DEF TypeOK
  <2>3. CASE j # k
    <3>1. /\ queues'[j] = queues[j] /\ state'[j] = state[j]
          /\ planned_transitions'[j] = planned_transitions[j]
      BY <2>3, <1>3 DEF TypeOK
    <3> QED
      BY <3>1 DEF TablesConsistent
  <2> QED
    BY <1>3, <2>1, <2>2, <2>3
<1>7. PublishedIsTarget' /\ AnswersHold'
  <2>1. PublishedIsTarget'
    BY <1>1, <1>3 DEF TypeOK, PublishedIsTarget
  <2>2. ASSUME NEW c \in Client, client[c].at = "answered"
        PROVE  client[c].generation \in Nat
    BY <2>2, SMTT(30) DEF TypeOK, Idle
  <2> QED
    BY <2>1, <2>2, <1>1, <1>3 DEF TypeOK, AnswersHold
<1>8. StartsAfterRequire' /\ IterationInThePast'
  BY <1>1, <1>3 DEF TypeOK, StartsAfterRequire, IterationInThePast
<1>9. LeftActiveInThePast'
  <2> SUFFICES ASSUME NEW j \in Key, state'[j] = Unbound
               PROVE  iteration_time >= event_time(queues'[j], Unbound)
    BY <1>1 DEF LeftActiveInThePast, event_time
  <2>1. CASE j = k
    BY <2>1, <1>3 DEF TypeOK, Unbound, None
  <2>2. CASE j # k
    <3>1. queues'[j] = queues[j] /\ state'[j] = state[j]
      BY <2>2, <1>3 DEF TypeOK
    <3> QED
      BY <3>1 DEF LeftActiveInThePast
  <2> QED
    BY <2>1, <2>2
<1>10. NotSpooledDownEarly'
  <2> SUFFICES ASSUME NEW j \in Key, last_require[j].at # NoTime
               PROVE  /\ state'[j] = Unbound =>
                           iteration_time >= event_time(last_require[j].at, Unbound)
                      /\ state'[j] = None =>
                           iteration_time >= event_time(last_require[j].at, None)
    BY <1>1 DEF NotSpooledDownEarly, event_time
  <2>1. last_require[j].at \in Nat /\ iteration_time \in Nat
    BY DEF TypeOK, Time, NoTime
  <2>2. CASE j = k
    <3>1. queues[k] >= last_require[k].at
      BY <1>2 DEF StartsAfterRequire, NoTime
    <3>2. state'[k] = e
      BY <1>3 DEF TypeOK
    <3> QED
      BY <2>1, <2>2, <3>1, <3>2, <1>2, <1>3, EventTimeValue
  <2>3. CASE j # k
    <3>1. state'[j] = state[j]
      BY <2>3, <1>3 DEF TypeOK
    <3> QED
      BY <3>1 DEF NotSpooledDownEarly
  <2> QED
    BY <2>2, <2>3
<1> QED
  BY <1>5, <1>6, <1>7, <1>8, <1>9, <1>10

LEMMA EvolveDonePreserves == IInv /\ (EvolveDone \/ HandleOther) => IInv'
<1> SUFFICES ASSUME IInv, EvolveDone \/ HandleOther PROVE IInv'
  OBVIOUS
<1> USE DEF IInv
<1>1. /\ UNCHANGED <<clock, queues, planned_transitions, state, generation, published,
                    inbox, client, iteration_time, msg, last_require>>
      /\ pc' \in {"handle", "publish"}
  BY DEF EvolveDone, HandleOther, tables
<1>2. TypeOK'
  BY <1>1 DEF TypeOK
<1>3. TablesConsistent' /\ PublishedIsTarget' /\ NotSpooledDownEarly'
  BY <1>1 DEF TablesConsistent, PublishedIsTarget, NotSpooledDownEarly, event_time
<1>4. AnswersHold' /\ StartsAfterRequire' /\ LeftActiveInThePast' /\ IterationInThePast'
  BY <1>1 DEF AnswersHold, StartsAfterRequire, LeftActiveInThePast, IterationInThePast,
              event_time
<1> QED
  BY <1>2, <1>3, <1>4

\* require_queue restarts the schedule of the key it is given.
LEMMA HandleRequirePreserves == IInv /\ HandleRequire => IInv'
<1> SUFFICES ASSUME IInv, HandleRequire PROVE IInv'
  OBVIOUS
<1> USE DEF IInv
<1> DEFINE k == msg.key
           c == msg.from
           start == IF queues[k] # NoTime THEN iteration_time
                    ELSE iteration_time + ExtraLifetime
<1>1. k \in Key /\ c \in Client /\ iteration_time \in Nat
  BY DEF HandleRequire, TypeOK, Messages, RequireMsgs, MainMsgs, NoMsg
<1>2. start \in Nat /\ start >= iteration_time
  BY <1>1
<1>3. /\ queues' = [queues EXCEPT ![k] = start]
      /\ state' = [state EXCEPT ![k] = Active]
      /\ generation' = IF state[k] = Active THEN generation ELSE generation + 1
      /\ planned_transitions' =
           [planned_transitions EXCEPT ![k] = event_time(start, NextStatus(Active))]
      /\ client' = [client EXCEPT ![c] = Answered(k, generation')]
      /\ last_require' = [last_require EXCEPT
                            ![k] = [at |-> iteration_time, extra |-> ExtraLifetime]]
      /\ pc' = "publish"
      /\ UNCHANGED <<clock, published, inbox, iteration_time, msg>>
  BY DEF HandleRequire, require_queue
<1> HIDE DEF k, c, start
<1>4. NextStatus(Active) = Unbound /\ event_time(start, Unbound) \in Nat
  BY <1>2, EventTimeValue DEF NextStatus
<1>5. TypeOK'
  <2>1. state' \in [Key -> OptionStatus] /\ generation' \in Nat
    BY <1>1, <1>3 DEF TypeOK, OptionStatus
  <2>2. queues' \in [Key -> Time] /\ planned_transitions' \in [Key -> Time]
    BY <1>1, <1>2, <1>3, <1>4 DEF TypeOK, Time
  <2>3. last_require' \in [Key -> [at : Time, extra : Nat]]
    BY <1>1, <1>3 DEF TypeOK, Time
  <2>4. client' \in [Client -> {Idle} \cup [at : {"waiting"}, key : Key]
                               \cup [at : {"answered"}, key : Key, generation : Nat]]
    BY <2>1, <1>1, <1>3 DEF TypeOK, Answered
  <2> QED
    BY <2>1, <2>2, <2>3, <2>4, <1>3 DEF TypeOK
<1>6. TablesConsistent'
  <2> SUFFICES ASSUME NEW j \in Key
               PROVE  /\ queues'[j] = NoTime <=> state'[j] = None
                      /\ planned_transitions'[j] = NoTime <=> state'[j] = None
                      /\ state'[j] # None => planned_transitions'[j] =
                                       event_time(queues'[j], NextStatus(state'[j]))
    BY DEF TablesConsistent, event_time
  <2>1. CASE j = k
    BY <2>1, <1>2, <1>3, <1>4 DEF TypeOK, NoTime, Active, None
  <2>2. CASE j # k
    <3>1. /\ queues'[j] = queues[j] /\ state'[j] = state[j]
          /\ planned_transitions'[j] = planned_transitions[j]
      BY <2>2, <1>3 DEF TypeOK
    <3> QED
      BY <3>1 DEF TablesConsistent
  <2> QED
    BY <2>1, <2>2
<1>7. PublishedIsTarget'
  <2>1. CASE state[k] = Active
    <3>1. state' = state /\ generation' = generation
      BY <2>1, <1>1, <1>3 DEF TypeOK
    <3> QED
      BY <3>1, <1>3 DEF PublishedIsTarget
  <2>2. CASE state[k] # Active
    BY <2>2, <1>3 DEF TypeOK, PublishedIsTarget
  <2> QED
    BY <2>1, <2>2
<1>8. AnswersHold'
  <2> SUFFICES ASSUME NEW d \in Client, client'[d].at = "answered"
               PROVE  /\ client'[d].generation <= generation'
                      /\ client'[d].generation = generation'
                           => state'[client'[d].key] = Active
                      /\ client'[d].generation = published.generation
                           => published.queues[client'[d].key] = Active
    BY <1>3 DEF AnswersHold
  <2>1. CASE d = c
    <3>1. client'[d].generation = generation' /\ client'[d].key = k
      BY <2>1, <1>1, <1>3 DEF TypeOK, Answered
    <3>2. state'[k] = Active
      BY <1>1, <1>3 DEF TypeOK
    <3>3. generation' = published.generation => published.queues = state'
      BY <1>3, <1>7 DEF PublishedIsTarget
    <3> QED
      BY <3>1, <3>2, <3>3, <1>5 DEF TypeOK
  <2>2. CASE d # c
    <3>1. client'[d] = client[d]
      BY <2>2, <1>3 DEF TypeOK
    <3>2. client[d].generation \in Nat /\ client[d].key \in Key
      BY <3>1 DEF TypeOK, Idle
    <3>3. \A j \in Key : state[j] = Active => state'[j] = Active
      BY <1>1, <1>3 DEF TypeOK
    <3>4. generation \in Nat /\ generation' \in {generation, generation + 1}
      BY <1>3 DEF TypeOK
    <3> QED
      BY <3>1, <3>2, <3>3, <3>4 DEF AnswersHold
  <2> QED
    BY <2>1, <2>2
<1>9. StartsAfterRequire' /\ IterationInThePast'
  BY <1>1, <1>2, <1>3 DEF TypeOK, StartsAfterRequire, IterationInThePast, NoTime
<1>10. LeftActiveInThePast'
  <2> SUFFICES ASSUME NEW j \in Key, state'[j] = Unbound
               PROVE  iteration_time >= event_time(queues'[j], Unbound)
    BY <1>3 DEF LeftActiveInThePast, event_time
  <2>1. j # k
    BY <1>3 DEF TypeOK, Active, Unbound
  <2>2. queues'[j] = queues[j] /\ state'[j] = state[j]
    BY <2>1, <1>3 DEF TypeOK
  <2> QED
    BY <2>2 DEF LeftActiveInThePast
<1>11. NotSpooledDownEarly'
  <2> SUFFICES ASSUME NEW j \in Key, last_require'[j].at # NoTime
               PROVE  /\ state'[j] = Unbound =>
                           iteration_time >= event_time(last_require'[j].at, Unbound)
                      /\ state'[j] = None =>
                           iteration_time >= event_time(last_require'[j].at, None)
    BY <1>3 DEF NotSpooledDownEarly, event_time
  <2>1. CASE j = k
    BY <2>1, <1>3 DEF TypeOK, Active, Unbound, None
  <2>2. CASE j # k
    <3>1. state'[j] = state[j] /\ last_require'[j] = last_require[j]
      BY <2>2, <1>3 DEF TypeOK
    <3> QED
      BY <3>1 DEF NotSpooledDownEarly
  <2> QED
    BY <2>1, <2>2
<1> QED
  BY <1>5, <1>6, <1>7, <1>8, <1>9, <1>10, <1>11

LEMMA PublishTargetPreserves == IInv /\ PublishTarget => IInv'
<1> SUFFICES ASSUME IInv, PublishTarget PROVE IInv'
  OBVIOUS
<1> USE DEF IInv, PublishTarget, tables
<1>1. TypeOK'
  BY DEF TypeOK
<1>2. TablesConsistent' /\ NotSpooledDownEarly'
  BY DEF TablesConsistent, NotSpooledDownEarly, event_time
<1>3. PublishedIsTarget'
  BY DEF PublishedIsTarget, TypeOK
<1>4. AnswersHold'
  BY DEF AnswersHold, TypeOK
<1>5. StartsAfterRequire' /\ LeftActiveInThePast' /\ IterationInThePast'
  BY DEF StartsAfterRequire, LeftActiveInThePast, IterationInThePast, event_time
<1> QED
  BY <1>1, <1>2, <1>3, <1>4, <1>5

LEMMA NextPreserves == IInv /\ [Next]_vars => IInv'
<1> SUFFICES ASSUME IInv, [Next]_vars PROVE IInv'
  OBVIOUS
<1>1. CASE Tick
  BY <1>1, TickPreserves
<1>2. CASE \E c \in Client : TakeAnswer(c) \/ \E k \in Key : SendRequire(c, k)
  BY <1>2, TakeAnswerPreserves, SendRequirePreserves
<1>3. CASE \E m \in MainMsgs : SendFromMain(m)
  BY <1>3, SendFromMainPreserves
<1>4. CASE Actor
  BY <1>4, StartIterationPreserves, EvolveStepPreserves, EvolveDonePreserves,
     HandleRequirePreserves, PublishTargetPreserves DEF Actor
<1>5. CASE UNCHANGED vars
  <2>1. /\ UNCHANGED <<clock, queues, planned_transitions, state, generation, published,
                       inbox, client, pc, iteration_time, msg, last_require>>
    BY <1>5 DEF vars, tables, actor
  <2>2. TypeOK'
    BY <2>1 DEF IInv, TypeOK
  <2>3. TablesConsistent' /\ PublishedIsTarget' /\ NotSpooledDownEarly'
    BY <2>1 DEF IInv, TablesConsistent, PublishedIsTarget, NotSpooledDownEarly, event_time
  <2>4. AnswersHold' /\ StartsAfterRequire' /\ LeftActiveInThePast' /\ IterationInThePast'
    BY <2>1 DEF IInv, AnswersHold, StartsAfterRequire, LeftActiveInThePast,
                IterationInThePast, event_time
  <2> QED
    BY <2>2, <2>3, <2>4 DEF IInv
<1> QED
  BY <1>1, <1>2, <1>3, <1>4, <1>5 DEF Next

\* The inductive invariant holds in every reachable state.
THEOREM Invariance == Spec => []IInv
  BY InitEstablishes, NextPreserves, PTL DEF Spec

-----------------------------------------------------------------------------
(* The theorems.                                                           *)

\* Types are preserved by every step of the actor, its clients and the clock.
THEOREM TypeCorrect == Spec => []TypeOK
  BY Invariance, PTL DEF IInv

\* The arena, the priority queue and the status map describe the same queues.
THEOREM TablesStayConsistent == Spec => []TablesConsistent
  BY Invariance, PTL DEF IInv

\* evolve_until never meets the queue it logs as "inconsistent state", on which
\* it would loop for ever.
THEOREM EvolveTerminates == Spec => []EvolveAdvances
<1>1. IInv => EvolveAdvances
  <2> SUFFICES ASSUME IInv, NEW k \in Due
               PROVE  state[k] # expected_status(queues[k], iteration_time)
    BY DEF EvolveAdvances
  <2> USE DEF IInv
  <2>1. /\ k \in Key /\ planned_transitions[k] # NoTime
        /\ planned_transitions[k] <= iteration_time
    BY DEF Due, Planned
  <2>2. queues[k] \in Nat /\ state[k] \in Status /\ iteration_time \in Nat
    BY <2>1 DEF TypeOK, TablesConsistent, Time, NoTime, Status, OptionStatus
  <2>3. event_time(queues[k], NextStatus(state[k])) <= iteration_time
    BY <2>1, <2>2 DEF TablesConsistent, Status, Active, Unbound, None
  <2> QED
    BY <2>2, <2>3, DueMovesDown
<1> QED
  BY <1>1, Invariance, PTL

\* No queue is unbound or deleted before its delays are over.
THEOREM NeverEarly == Spec => []NotSpooledDownEarly
  BY Invariance, PTL DEF IInv

\* A client's generation is one where its worker group is active.
THEOREM AnswerIsActive == Spec => []AnsweredGenerationIsActive
<1>1. IInv => AnsweredGenerationIsActive
  BY DEF IInv, AnswersHold, AnsweredGenerationIsActive
<1> QED
  BY <1>1, Invariance, PTL

\* The watch channel never runs ahead of the tracker.
THEOREM PublishedFollowsTarget == Spec => []PublishedIsTarget
  BY Invariance, PTL DEF IInv

-----------------------------------------------------------------------------
(* The tracker implements Spooldown.                                       *)

LEMMA InitRefines == Init => Abstract!Init
  BY DEF Init, InitialState, Abstract!Init, Abstract!InitialTarget, Abstract!Snapshot,
         Abstract!Active, Abstract!None, Active, None

\* Every step is a step of Spooldown or leaves its variables alone.
LEMMA StepRefines ==
  IInv /\ [Next]_vars => [Abstract!Next]_(Abstract!trackerVars)
<1> SUFFICES ASSUME IInv, [Next]_vars
             PROVE  Abstract!Next \/ UNCHANGED <<state, generation, published>>
  BY DEF Abstract!trackerVars
<1>1. CASE Tick
  BY <1>1 DEF Tick, tables
<1>2. CASE \E c \in Client : TakeAnswer(c) \/ \E k \in Key : SendRequire(c, k)
  BY <1>2 DEF TakeAnswer, SendRequire, tables
<1>3. CASE \E m \in MainMsgs : SendFromMain(m)
  BY <1>3 DEF SendFromMain, tables
<1>4. CASE ReceiveMessage \/ ReachDeadline \/ EvolveDone \/ HandleOther
  BY <1>4 DEF ReceiveMessage, ReachDeadline, EvolveDone, HandleOther, tables
<1>5. CASE EvolveStep
  <2>1. PICK k \in Key :
           LET e == expected_status(queues[k], iteration_time)
           IN  /\ e \in {Unbound, None} /\ Rank(e) > Rank(state[k])
               /\ state' = [state EXCEPT ![k] = e]
               /\ generation' = generation + 1
    BY <1>5, EvolveStepEffect
  <2>2. published' = published
    BY <1>5 DEF EvolveStep
  <2>3. Abstract!SpoolDown(k)
    BY <2>1, <2>2 DEF Abstract!SpoolDown, Abstract!Rank, Abstract!OptionStatus,
       Abstract!Active, Abstract!Unbound, Abstract!None, Rank, Active, Unbound, None
  <2> QED
    BY <2>3 DEF Abstract!Next
<1>6. CASE HandleRequire
  <2>1. msg.key \in Key
    BY <1>6 DEF IInv, HandleRequire, TypeOK, Messages, RequireMsgs, MainMsgs, NoMsg
  <2>2. Abstract!Require(msg.key)
    BY <1>6 DEF HandleRequire, require_queue, Abstract!Require, Abstract!Active, Active
  <2> QED
    BY <2>1, <2>2 DEF Abstract!Next
<1>7. CASE PublishTarget
  BY <1>7 DEF PublishTarget, tables, Abstract!Next, Abstract!Publish, Abstract!Snapshot
<1>8. CASE UNCHANGED vars
  BY <1>8 DEF vars, tables
<1> QED
  BY <1>1, <1>2, <1>3, <1>4, <1>5, <1>6, <1>7, <1>8 DEF Next, Actor

\* The timed tracker, with its tables, its clock and its inbox, does nothing
\* that Spooldown does not allow.
THEOREM ImplementsSpooldown == Spec => RefinesSpooldown
  BY InitRefines, StepRefines, Invariance, PTL
  DEF Spec, RefinesSpooldown, Abstract!Spec

\* Subscribers never see two targets under one generation, nor a generation
\* that goes back.
THEOREM GenerationsNameTargets == Spec => GenerationNamesTarget
<1>1. IInv /\ [Next]_vars =>
        [ /\ published'.generation >= published.generation
          /\ published'.generation = published.generation
               => published'.queues = published.queues ]_published
  <2> SUFFICES ASSUME IInv, [Next]_vars, published' # published
               PROVE  /\ published'.generation >= published.generation
                      /\ published'.generation = published.generation
                           => published'.queues = published.queues
    OBVIOUS
  <2>1. PublishTarget
    BY DEF Next, Actor, vars, Tick, TakeAnswer, SendRequire, SendFromMain,
           ReceiveMessage, ReachDeadline, EvolveStep, EvolveDone, HandleRequire,
           HandleOther
  <2>2. published'.generation = generation /\ published'.queues = state
    BY <2>1 DEF PublishTarget
  <2> QED
    BY <2>2 DEF IInv, TypeOK, PublishedIsTarget
<1> QED
  BY <1>1, Invariance, PTL DEF Spec, GenerationNamesTarget, Abstract!GenerationNamesTarget

=============================================================================
