------------------------ MODULE QueueControllerProofs ------------------------
(***************************************************************************)
(* Proofs, for any number of worker groups, requests, jobs, disconnections *)
(* and changes of the target, that the queue controller loses no request   *)
(* and that, for every queue that is not spooled down while its jobs are   *)
(* at work, jobs do not work against each other and the queue is as the    *)
(* target says once the controller has nothing to do; and that, inside the *)
(* pool, the controller keeps this promise and every request is accounted  *)
(* for.                                                                    *)
(***************************************************************************)
EXTENDS QueueController, Pool, FiniteSetTheorems, WellFoundedInduction, TLAPS

Ops    == {"declare", "bind", "unbind", "delete_if_empty"}
Over   == {"done", "failed", "cancelled"}
Queues == [Key -> OptionStatus]
RequestQueues == [exists : BOOLEAN, bound : BOOLEAN, msgs : Nat]
CommandRecords == [op : Ops, key : Key, slot : Slot]
JobRecords ==
  [state : {"running"} \cup Over, status : OptionStatus, sent : 0..2,
   reply : {"none", "ok", "error"}, aborted : BOOLEAN]

TypeInv ==
  /\ published \in [generation : Nat, queues : Queues]
  /\ target \in [generation : Nat, queues : Queues]
  /\ reported \in [target_generation : Nat, queues : Queues]
  /\ jobs \in [Key -> [Slot -> {NoJob} \cup JobRecords]]
  /\ jobs_by_key \in [Key -> Slot \cup {NoSlot}]
  /\ finished \in Seq(Key \X Slot)
  /\ wire \in Seq(CommandRecords)
  /\ broker \in [Key -> RequestQueues]

\* A job that is done has the answers of both its commands; one that has sent
\* nothing has no answer.
AnswersFit ==
  \A k \in Key, s \in Slot : LET job == jobs[k][s] IN
    /\ job.state = "done" => job.sent = 2 /\ job.reply = "ok"
    /\ job.state = "running" /\ job.sent = 0 => job.reply = "none"

\* Only a queue that exists is bound or has requests.
QueuesExist ==
  \A k \in Key : broker[k].bound \/ broker[k].msgs > 0 => broker[k].exists

\* A command on the channel is the one its job awaits the answer of, unless the
\* job was cancelled or failed meanwhile; and a job has at most one there.
WireOwned ==
  \A i \in DOMAIN wire : LET job == jobs[wire[i].key][wire[i].slot] IN
    \/ job.state \in {"failed", "cancelled"}
    \/ /\ job.state = "running" /\ job.sent > 0 /\ job.reply = "none"
       /\ wire[i].op = Commands(job.status)[job.sent]

WireOnce ==
  \A i, j \in DOMAIN wire :
    wire[i].key = wire[j].key /\ wire[i].slot = wire[j].slot => i = j

\* The jobs that are over and not joined are those in `finished`, each once.
FinishedListed ==
  \A k \in Key, s \in Slot :
    jobs[k][s].state \in Over <=> \E i \in DOMAIN finished : finished[i] = <<k, s>>

FinishedOnce == \A i, j \in DOMAIN finished : finished[i] = finished[j] => i = j

Structure ==
  /\ TypeInv /\ AnswersFit /\ QueuesExist
  /\ WireOwned /\ WireOnce /\ FinishedListed /\ FinishedOnce

\* The tracker spools a queue down; that is only in time when the controller is
\* ready, and the pool asks for more.
SpoolsDown(k) == \E inTime \in BOOLEAN : (inTime => Ready(k)) /\ SpoolDown(k, inTime)

\* The steps of the controller and its environment, alone and in the pool.
Steps ==
  \/ \E k \in Key : Require(k) \/ SpoolsDown(k) \/ PublishRequest(k) \/ Consume(k)
  \/ Loop
  \/ JobStep
  \/ Broker
  \/ Disconnect
  \/ Reconnect

USE ControllerAssumption

LEMMA NextIsSteps == [Next]_vars => [Steps]_vars
  BY DEF Next, Steps, SpoolsDown, Ready

\* A step that leaves jobs, channel and JoinSet alone keeps what ties them.
LEMMA NoJobMoves ==
  ASSUME AnswersFit, WireOwned, WireOnce, FinishedListed, FinishedOnce,
         jobs' = jobs, wire' = wire, finished' = finished
  PROVE  AnswersFit' /\ WireOwned' /\ WireOnce' /\ FinishedListed' /\ FinishedOnce'
<1>1. AnswersFit'
  BY DEF AnswersFit
<1>2. WireOwned'
  BY DEF WireOwned
<1>3. WireOnce'
  BY DEF WireOnce
<1>4. FinishedListed' /\ FinishedOnce'
  BY DEF FinishedListed, FinishedOnce
<1> QED
  BY <1>1, <1>2, <1>3, <1>4

LEMMA JobTypes ==
  ASSUME TypeInv
  PROVE  \A k \in Key, s \in Slot :
           /\ jobs[k][s] \in {NoJob} \cup JobRecords
           /\ jobs[k][s] = NoJob <=> jobs[k][s].state = "none"
           /\ jobs[k][s] # NoJob =>
                /\ jobs[k][s].state \in {"running"} \cup Over
                /\ jobs[k][s].status \in OptionStatus
                /\ jobs[k][s].sent \in 0..2
                /\ jobs[k][s].reply \in {"none", "ok", "error"}
<1>1. \A k \in Key, s \in Slot : jobs[k][s] \in {NoJob} \cup JobRecords
  BY DEF TypeInv
<1>2. \A r \in JobRecords : /\ r.state \in {"running"} \cup Over /\ r.state # "none"
                            /\ r.status \in OptionStatus /\ r.sent \in 0..2
                            /\ r.reply \in {"none", "ok", "error"}
  BY DEF JobRecords, Over
<1>3. NoJob.state = "none"
  BY DEF NoJob
<1> QED
  BY <1>1, <1>2, <1>3

LEMMA WireTypes ==
  ASSUME TypeInv
  PROVE  \A i \in DOMAIN wire : wire[i].op \in Ops /\ wire[i].key \in Key /\ wire[i].slot \in Slot
<1>1. \A i \in DOMAIN wire : wire[i] \in CommandRecords
  BY DEF TypeInv
<1>2. \A r \in CommandRecords : r.op \in Ops /\ r.key \in Key /\ r.slot \in Slot
  BY DEF CommandRecords
<1> QED
  BY <1>1, <1>2

LEMMA NewJob ==
  ASSUME NEW status \in OptionStatus
  PROVE  /\ Job(status) \in JobRecords /\ Job(status) # NoJob
         /\ Job(status).state = "running" /\ Job(status).status = status
         /\ Job(status).sent = 0 /\ Job(status).reply = "none" /\ ~Job(status).aborted
  BY DEF Job, JobRecords, NoJob

\* The first free slot.
LEMMA NewSlotIsFree ==
  ASSUME NEW k \in Key, Free(k) # {}
  PROVE  NewSlot(k) \in Slot /\ jobs[k][NewSlot(k)] = NoJob
<1>1. Free(k) \subseteq Nat
  BY DEF Free, Slot
<1>2. PICK s \in Free(k) : \A t \in Free(k) : ~(<<t, s>> \in OpToRel(<, Nat))
  BY <1>1, NatLessThanWellFounded, WFMin
<1>3. \A t \in Free(k) : s <= t
  <2>1. \A m, n \in Nat : m < n => <<m, n>> \in OpToRel(<, Nat)
    BY Zenon DEF OpToRel
  <2>2. \A t \in Free(k) : ~(t < s)
    BY <1>1, <1>2, <2>1, Zenon
  <2> QED
    BY <1>1, <2>2
<1>4. NewSlot(k) \in Free(k)
  BY <1>3 DEF NewSlot
<1> QED
  BY <1>4 DEF Free

LEMMA InitStructure == Init => Structure
<1> SUFFICES ASSUME Init PROVE Structure
  OBVIOUS
<1>1. PICK b \in [Key -> [exists : BOOLEAN, bound : BOOLEAN, msgs : {0}]] :
        /\ \A k \in Key : b[k].bound => b[k].exists
        /\ broker = b
        /\ published = [generation |-> 0,
                        queues |-> [k \in Key |-> IF b[k].exists THEN Active ELSE None]]
        /\ target = published
        /\ reported = [target_generation |-> 0, queues |-> [k \in Key |-> None]]
        /\ jobs = [k \in Key |-> [s \in Slot |-> NoJob]]
        /\ jobs_by_key = [k \in Key |-> NoSlot]
        /\ finished = <<>> /\ wire = <<>>
  BY DEF Init
<1>2. TypeInv
  BY <1>1 DEF TypeInv, Queues, OptionStatus, RequestQueues
<1>3. AnswersFit /\ FinishedListed
  BY <1>1 DEF AnswersFit, FinishedListed, NoJob, Over
<1>4. QueuesExist
  BY <1>1 DEF QueuesExist
<1>5. WireOwned /\ WireOnce /\ FinishedOnce
  BY <1>1 DEF WireOwned, WireOnce, FinishedOnce
<1> QED
  BY <1>2, <1>3, <1>4, <1>5 DEF Structure

-----------------------------------------------------------------------------
(* Every action preserves the structure.                                   *)

\* What those outside the loop do: a request enters or leaves a queue, and a
\* queue is retargeted.
Traffic(k) ==
  /\ UNCHANGED <<target, reported, jobs, jobs_by_key, finished, wire>>
  /\ \/ broker' = broker
     \/ broker[k].bound /\ broker' = [broker EXCEPT ![k].msgs = @ + 1]
     \/ broker[k].msgs > 0 /\ broker' = [broker EXCEPT ![k].msgs = @ - 1]
  /\ published' = published \/ \E status \in OptionStatus :
       published' = [generation |-> published.generation + 1,
                     queues |-> [published.queues EXCEPT ![k] = status]]

LEMMA TrafficStructure ==
  ASSUME Structure, NEW k \in Key, Traffic(k)
  PROVE  Structure'
<1> USE DEF Structure
<1>1. /\ UNCHANGED <<target, reported, jobs, jobs_by_key, finished, wire>>
      /\ \/ broker' = broker
         \/ broker[k].bound /\ broker' = [broker EXCEPT ![k].msgs = @ + 1]
         \/ broker[k].msgs > 0 /\ broker' = [broker EXCEPT ![k].msgs = @ - 1]
      /\ published' = published \/ \E status \in OptionStatus :
           published' = [generation |-> published.generation + 1,
                         queues |-> [published.queues EXCEPT ![k] = status]]
  BY DEF Traffic
<1>2. published' \in [generation : Nat, queues : Queues]
  <2>1. published.generation \in Nat /\ published.queues \in Queues
    BY DEF TypeInv
  <2>2. ASSUME NEW status \in OptionStatus
        PROVE  [published.queues EXCEPT ![k] = status] \in Queues
    BY <2>1 DEF Queues
  <2> QED
    BY <1>1, <2>1, <2>2 DEF TypeInv
<1>3. broker' \in [Key -> RequestQueues] /\ QueuesExist'
  <2>1. \A q \in RequestQueues : /\ [q EXCEPT !.msgs = @ + 1] \in RequestQueues
                                 /\ q.msgs > 0 => [q EXCEPT !.msgs = @ - 1] \in RequestQueues
    BY DEF RequestQueues
  <2>2. broker' \in [Key -> RequestQueues]
    <3>1. CASE broker[k].bound /\ broker' = [broker EXCEPT ![k].msgs = @ + 1]
      BY <2>1, <3>1 DEF TypeInv
    <3>2. CASE broker[k].msgs > 0 /\ broker' = [broker EXCEPT ![k].msgs = @ - 1]
      BY <2>1, <3>2 DEF TypeInv
    <3> QED
      BY <1>1, <3>1, <3>2 DEF TypeInv
  <2>3. broker[k] \in RequestQueues
    BY DEF TypeInv
  <2>4. /\ \A j \in Key \ {k} : broker'[j] = broker[j]
        /\ broker'[k].exists = broker[k].exists /\ broker'[k].bound = broker[k].bound
        /\ broker'[k].msgs = broker[k].msgs \/ broker[k].bound \/ broker[k].msgs > 0
    BY <1>1, <2>3 DEF TypeInv, RequestQueues
  <2> QED
    BY <2>2, <2>4 DEF QueuesExist
<1>4. UNCHANGED <<target, reported, jobs, jobs_by_key, finished, wire>>
  BY <1>1
<1>5. broker' \in [Key -> RequestQueues]
  BY <1>3
<1>6. TypeInv'
  BY <1>2, <1>4, <1>5 DEF TypeInv
<1>7. AnswersFit' /\ WireOwned' /\ WireOnce' /\ FinishedListed' /\ FinishedOnce'
  BY <1>4, NoJobMoves
<1> QED
  BY <1>3, <1>6, <1>7

LEMMA EnvironmentStructure ==
  ASSUME Structure, NEW k \in Key,
         Require(k) \/ SpoolsDown(k) \/ PublishRequest(k) \/ Consume(k)
  PROVE  Structure'
<1>1. Traffic(k)
  BY DEF Traffic, Require, SpoolsDown, SpoolDown, PublishRequest, Consume, Retarget, NextStatus,
         OptionStatus, controller, channel
<1> QED
  BY <1>1, TrafficStructure

\* A job ends.
LEMMA FinishStructure ==
  ASSUME Structure, NEW k \in Key, NEW s \in Slot, NEW how \in Over,
         jobs[k][s].state = "running", Finish(k, s, how),
         how = "done" => jobs[k][s].sent = 2 /\ jobs[k][s].reply = "ok"
  PROVE  /\ jobs' \in [Key -> [Slot -> {NoJob} \cup JobRecords]]
         /\ \A j \in Key, t \in Slot : ~(j = k /\ t = s) => jobs'[j][t] = jobs[j][t]
         /\ jobs'[k][s].state = how /\ jobs'[k][s].status = jobs[k][s].status
         /\ jobs'[k][s].sent = jobs[k][s].sent /\ jobs'[k][s].reply = jobs[k][s].reply
         /\ jobs'[k][s].aborted = jobs[k][s].aborted /\ jobs'[k][s] # NoJob
         /\ finished' \in Seq(Key \X Slot) /\ AnswersFit' /\ FinishedListed' /\ FinishedOnce'
<1> DEFINE new == [jobs[k][s] EXCEPT !.state = how]
<1>1. jobs[k][s] \in JobRecords /\ jobs[k][s] # NoJob
  BY JobTypes DEF Structure, Over, NoJob
<1>2. /\ new \in JobRecords /\ new.state = how /\ new.status = jobs[k][s].status
      /\ new.sent = jobs[k][s].sent /\ new.reply = jobs[k][s].reply
      /\ new.aborted = jobs[k][s].aborted
  BY <1>1 DEF JobRecords
<1>3. new # NoJob
  BY <1>2 DEF NoJob, Over
<1>4. jobs' = [jobs EXCEPT ![k] = [jobs[k] EXCEPT ![s] = new]]
  BY DEF Finish
<1> HIDE DEF new
<1>5. /\ jobs' \in [Key -> [Slot -> {NoJob} \cup JobRecords]] /\ jobs'[k][s] = new
      /\ \A j \in Key, t \in Slot : ~(j = k /\ t = s) => jobs'[j][t] = jobs[j][t]
  BY <1>2, <1>4 DEF Structure, TypeInv
<1>6. AnswersFit'
  BY <1>2, <1>5 DEF Structure, AnswersFit, Over
<1>7. /\ finished' = Append(finished, <<k, s>>) /\ finished' \in Seq(Key \X Slot)
      /\ Len(finished) \in Nat /\ DOMAIN finished = 1..Len(finished)
      /\ DOMAIN finished' = 1..(Len(finished) + 1)
      /\ \A i \in 1..Len(finished) : finished'[i] = finished[i]
      /\ finished'[Len(finished) + 1] = <<k, s>>
  BY DEF Structure, TypeInv, Finish
<1>8. \A i \in DOMAIN finished : finished[i] # <<k, s>>
  BY DEF Structure, FinishedListed, Over
<1>9. FinishedOnce'
  BY <1>7, <1>8 DEF Structure, FinishedOnce
<1>10. FinishedListed'
  <2> SUFFICES ASSUME NEW j \in Key, NEW t \in Slot
               PROVE  jobs'[j][t].state \in Over
                        <=> \E i \in DOMAIN finished' : finished'[i] = <<j, t>>
    BY DEF FinishedListed
  <2>1. CASE j = k /\ t = s
    <3>1. Len(finished) + 1 \in DOMAIN finished'
      BY <1>7
    <3> QED
      BY <1>2, <1>5, <1>7, <2>1, <3>1
  <2>2. CASE ~(j = k /\ t = s)
    <3>1. <<j, t>> # <<k, s>>
      BY <2>2
    <3>2. (\E i \in DOMAIN finished' : finished'[i] = <<j, t>>)
            <=> \E i \in DOMAIN finished : finished[i] = <<j, t>>
      <4>1. \A i \in DOMAIN finished' : i \in DOMAIN finished \/ i = Len(finished) + 1
        BY <1>7
      <4>2. \A i \in DOMAIN finished : i \in DOMAIN finished' /\ finished'[i] = finished[i]
        BY <1>7
      <4>3. finished'[Len(finished) + 1] # <<j, t>>
        BY <1>7, <3>1
      <4> QED
        BY <4>1, <4>2, <4>3
    <3> QED
      BY <1>5, <2>2, <3>2 DEF Structure, FinishedListed
  <2> QED
    BY <2>1, <2>2
<1> QED
  BY <1>2, <1>3, <1>5, <1>6, <1>7, <1>9, <1>10 DEF new

\* A job that ends without sending anything more.
LEMMA EndStructure ==
  ASSUME Structure, NEW k \in Key, NEW s \in Slot,
         JobReturns(k, s) \/ JobFails(k, s) \/ JobCancelled(k, s)
  PROVE  Structure'
<1>1. PICK how \in Over : /\ Finish(k, s, how)
                          /\ how = "done" => jobs[k][s].sent = 2 /\ jobs[k][s].reply = "ok"
  BY DEF JobReturns, JobFails, JobCancelled, Answered, Over
<1>2. /\ jobs[k][s].state = "running"
      /\ UNCHANGED <<published, target, reported, jobs_by_key, wire, broker>>
  BY DEF JobReturns, JobFails, JobCancelled, Runs, channel
<1>3. /\ jobs' \in [Key -> [Slot -> {NoJob} \cup JobRecords]] /\ jobs'[k][s].state = how
      /\ \A j \in Key, t \in Slot : ~(j = k /\ t = s) => jobs'[j][t] = jobs[j][t]
      /\ finished' \in Seq(Key \X Slot) /\ AnswersFit' /\ FinishedListed' /\ FinishedOnce'
  <2>1. /\ how \in Over /\ jobs[k][s].state = "running" /\ Finish(k, s, how)
        /\ how = "done" => jobs[k][s].sent = 2 /\ jobs[k][s].reply = "ok"
    BY <1>1, <1>2
  <2> QED
    BY <2>1, FinishStructure
<1>4. TypeInv' /\ QueuesExist' /\ WireOnce'
  BY <1>2, <1>3 DEF Structure, TypeInv, QueuesExist, WireOnce
<1>5. WireOwned'
  <2> SUFFICES ASSUME NEW i \in DOMAIN wire
               PROVE  LET job == jobs'[wire[i].key][wire[i].slot] IN
                        \/ job.state \in {"failed", "cancelled"}
                        \/ /\ job.state = "running" /\ job.sent > 0 /\ job.reply = "none"
                           /\ wire[i].op = Commands(job.status)[job.sent]
    BY <1>2 DEF WireOwned
  <2>1. wire[i].key \in Key /\ wire[i].slot \in Slot
    BY WireTypes DEF Structure
  <2>2. CASE wire[i].key = k /\ wire[i].slot = s
    BY <1>1, <1>2, <1>3, <2>2 DEF Structure, WireOwned, Over
  <2>3. CASE ~(wire[i].key = k /\ wire[i].slot = s)
    BY <1>3, <2>1, <2>3 DEF Structure, WireOwned
  <2> QED
    BY <2>2, <2>3
<1> QED
  BY <1>3, <1>4, <1>5 DEF Structure

\* What sending a command does to a job that goes on.
LEMMA SendFacts ==
  ASSUME Structure, NEW k \in Key, NEW s \in Slot, JobSends(k, s), ~jobs[k][s].aborted
  PROVE  /\ jobs' \in [Key -> [Slot -> {NoJob} \cup JobRecords]] /\ finished' = finished
         /\ \A j \in Key, t \in Slot : ~(j = k /\ t = s) => jobs'[j][t] = jobs[j][t]
         /\ jobs[k][s].sent \in {0, 1} /\ jobs'[k][s].sent = jobs[k][s].sent + 1
         /\ jobs'[k][s] # NoJob /\ jobs'[k][s].state = "running"
         /\ jobs'[k][s].status = jobs[k][s].status /\ jobs'[k][s].reply = "none"
         /\ jobs'[k][s].aborted = jobs[k][s].aborted
<1> DEFINE job == jobs[k][s]
           new == [job EXCEPT !.sent = @ + 1, !.reply = "none"]
           n   == job.sent + 1
<1>1. /\ job.state = "running" /\ job.sent < 2 /\ finished' = finished
      /\ jobs' = [jobs EXCEPT ![k][s].sent = @ + 1, ![k][s].reply = "none"]
  BY DEF JobSends, Runs
<1>2. job \in JobRecords /\ job.sent \in {0, 1}
  <2>1. job # NoJob
    BY <1>1 DEF NoJob
  <2> QED
    BY <1>1, <2>1, JobTypes DEF Structure
<1>3. jobs' = [jobs EXCEPT ![k] = [jobs[k] EXCEPT ![s] = new]]
  BY <1>1 DEF Structure, TypeInv
<1>4. n \in 0..2 /\ new = [job EXCEPT !.sent = n, !.reply = "none"]
  BY <1>2
<1> HIDE DEF new, job, n
<1>5. new \in JobRecords /\ new.sent = n
  BY <1>2, <1>4 DEF JobRecords
<1>6. /\ new.state = job.state /\ new.status = job.status /\ new.reply = "none"
      /\ new.aborted = job.aborted
  BY <1>2, <1>4 DEF JobRecords
<1>7. /\ jobs' \in [Key -> [Slot -> {NoJob} \cup JobRecords]] /\ jobs'[k][s] = new
      /\ \A j \in Key, t \in Slot : ~(j = k /\ t = s) => jobs'[j][t] = jobs[j][t]
  BY <1>3, <1>5 DEF Structure, TypeInv
<1>8. new # NoJob
  BY <1>1, <1>6 DEF NoJob
<1> QED
  BY <1>1, <1>2, <1>5, <1>6, <1>7, <1>8 DEF job, n

\* A job sends a command while it awaits no other answer.
LEMMA SendStructure ==
  ASSUME Structure, NEW k \in Key, NEW s \in Slot, JobSends(k, s)
  PROVE  Structure'
<1> DEFINE job == jobs[k][s]
           op  == Commands(job.status)[job.sent + 1]
           cmd == [op |-> op, key |-> k, slot |-> s]
<1>1. /\ job.state = "running" /\ (job.sent = 0 \/ job.reply = "ok") /\ job.sent < 2
      /\ wire' = Append(wire, cmd)
      /\ UNCHANGED <<published, target, reported, jobs_by_key, broker>>
  BY DEF JobSends, Runs, Answered
<1>2. job \in JobRecords /\ job.status \in OptionStatus /\ job.sent \in {0, 1}
  <2>1. job # NoJob
    BY <1>1 DEF NoJob
  <2> QED
    BY <1>1, <2>1, JobTypes DEF Structure
<1>3. cmd \in CommandRecords /\ cmd.key = k /\ cmd.slot = s /\ cmd.op = op
  <2>1. op \in Ops
    BY <1>2 DEF Commands, OptionStatus, Ops, Active, Unbound, None
  <2> HIDE DEF op
  <2> QED
    BY <2>1 DEF CommandRecords
<1>4. \A i \in DOMAIN wire : ~(wire[i].key = k /\ wire[i].slot = s)
  <2> SUFFICES ASSUME NEW i \in DOMAIN wire, wire[i].key = k, wire[i].slot = s
               PROVE  FALSE
    OBVIOUS
  <2>1. \/ job.state \in {"failed", "cancelled"}
        \/ job.state = "running" /\ job.sent > 0 /\ job.reply = "none"
    BY DEF Structure, WireOwned
  <2> HIDE DEF job
  <2> QED
    BY <1>1, <1>2, <2>1
<1> HIDE DEF cmd
<1>5. /\ wire' \in Seq(CommandRecords) /\ Len(wire) \in Nat /\ DOMAIN wire = 1..Len(wire)
      /\ DOMAIN wire' = 1..(Len(wire) + 1) /\ wire'[Len(wire) + 1] = cmd
      /\ \A i \in DOMAIN wire : wire'[i] = wire[i]
  BY <1>1, <1>3 DEF Structure, TypeInv
<1>6. \A i \in DOMAIN wire' : i \in DOMAIN wire \/ i = Len(wire) + 1
  BY <1>5
<1>7. WireOnce'
  BY <1>3, <1>4, <1>5, <1>6 DEF Structure, WireOnce
<1>8. ASSUME \A j \in Key, t \in Slot : ~(j = k /\ t = s) => jobs'[j][t] = jobs[j][t],
             \/ jobs'[k][s].state = "cancelled"
             \/ /\ jobs'[k][s].state = "running" /\ jobs'[k][s].sent > 0
                /\ jobs'[k][s].reply = "none"
                /\ cmd.op = Commands(jobs'[k][s].status)[jobs'[k][s].sent]
      PROVE  WireOwned'
  <2> SUFFICES ASSUME NEW i \in DOMAIN wire'
               PROVE  LET j == jobs'[wire'[i].key][wire'[i].slot] IN
                        \/ j.state \in {"failed", "cancelled"}
                        \/ /\ j.state = "running" /\ j.sent > 0 /\ j.reply = "none"
                           /\ wire'[i].op = Commands(j.status)[j.sent]
    BY DEF WireOwned
  <2>1. CASE i \in DOMAIN wire
    <3>1. /\ wire'[i] = wire[i] /\ wire[i].key \in Key /\ wire[i].slot \in Slot
          /\ ~(wire[i].key = k /\ wire[i].slot = s)
      BY <1>4, <1>5, <2>1, WireTypes DEF Structure
    <3>2. jobs'[wire[i].key][wire[i].slot] = jobs[wire[i].key][wire[i].slot]
      BY <1>8, <3>1
    <3> QED
      BY <2>1, <3>1, <3>2 DEF Structure, WireOwned
  <2>2. CASE i = Len(wire) + 1
    BY <1>3, <1>5, <1>8, <2>2
  <2> QED
    BY <1>6, <2>1, <2>2
<1>9. CASE job.aborted
  <2>1. Finish(k, s, "cancelled") /\ "cancelled" \in Over
    BY <1>9 DEF JobSends, Over
  <2>2. /\ jobs' \in [Key -> [Slot -> {NoJob} \cup JobRecords]] /\ jobs'[k][s].state = "cancelled"
        /\ \A j \in Key, t \in Slot : ~(j = k /\ t = s) => jobs'[j][t] = jobs[j][t]
        /\ finished' \in Seq(Key \X Slot) /\ AnswersFit' /\ FinishedListed' /\ FinishedOnce'
    BY <1>1, <2>1, FinishStructure
  <2>3. TypeInv' /\ QueuesExist'
    BY <1>1, <1>5, <2>2 DEF Structure, TypeInv, QueuesExist
  <2> QED
    BY <1>7, <1>8, <2>2, <2>3 DEF Structure
<1>10. CASE ~job.aborted
  <2>1. /\ jobs' \in [Key -> [Slot -> {NoJob} \cup JobRecords]] /\ finished' = finished
        /\ \A j \in Key, t \in Slot : ~(j = k /\ t = s) => jobs'[j][t] = jobs[j][t]
        /\ jobs'[k][s].sent = job.sent + 1 /\ jobs'[k][s].state = "running"
        /\ jobs'[k][s].status = job.status /\ jobs'[k][s].reply = "none"
    BY <1>10, SendFacts
  <2>2. AnswersFit'
    BY <1>2, <2>1 DEF Structure, AnswersFit
  <2>3. FinishedListed' /\ FinishedOnce'
    BY <1>1, <2>1 DEF Structure, FinishedListed, FinishedOnce, Over
  <2>4. TypeInv' /\ QueuesExist'
    BY <1>1, <1>5, <2>1 DEF Structure, TypeInv, QueuesExist
  <2>5. WireOwned'
    BY <1>2, <1>3, <1>8, <2>1
  <2> QED
    BY <1>7, <2>2, <2>3, <2>4, <2>5 DEF Structure
<1> QED
  BY <1>9, <1>10

\* What a change of the target does to a key whose status differs: a new job in
\* a free slot, and the job at hand is aborted if it runs.
LEMMA RespawnFacts ==
  ASSUME Structure, TargetChanged, NEW k \in Key, published.queues[k] # target.queues[k]
  PROVE  \E n \in Slot :
           /\ jobs[k][n] = NoJob /\ jobs_by_key'[k] = n
           /\ jobs'[k][n] \in JobRecords /\ jobs'[k][n] # NoJob
           /\ jobs'[k][n].state = "running" /\ jobs'[k][n].status = published.queues[k]
           /\ jobs'[k][n].sent = 0 /\ jobs'[k][n].reply = "none" /\ ~jobs'[k][n].aborted
           /\ \A s \in Slot \ {n} :
                \/ /\ jobs'[k][s] = jobs[k][s]
                   /\ s # jobs_by_key[k] \/ jobs[k][s].state # "running"
                \/ /\ jobs[k][s].state = "running" /\ jobs'[k][s].state = "running"
                   /\ jobs'[k][s] \in JobRecords /\ jobs'[k][s] # NoJob
                   /\ jobs'[k][s].status = jobs[k][s].status
                   /\ jobs'[k][s].sent = jobs[k][s].sent /\ jobs'[k][s].reply = jobs[k][s].reply
                   /\ jobs'[k][s].aborted
<1>1. Free(k) # {} /\ jobs'[k] = Respawned(k) /\ jobs_by_key'[k] = NewSlot(k)
  BY DEF TargetChanged
<1>2. NewSlot(k) \in Slot /\ jobs[k][NewSlot(k)] = NoJob
  BY <1>1, NewSlotIsFree
<1> DEFINE new == Job(published.queues[k])
           n == NewSlot(k)
<1>3. /\ new \in JobRecords /\ new.state = "running" /\ new.sent = 0 /\ new.reply = "none"
      /\ new.status = published.queues[k] /\ ~new.aborted /\ new # NoJob
  BY NewJob DEF Structure, TypeInv, Queues
<1>4. \A s \in Slot : jobs'[k][s] = IF s = n THEN new
                                    ELSE IF s = jobs_by_key[k] THEN Abort(jobs[k][s])
                                    ELSE jobs[k][s]
  BY <1>1 DEF Respawned
<1> HIDE DEF new, n
<1>5. ASSUME NEW s \in Slot \ {n}
      PROVE  \/ /\ jobs'[k][s] = jobs[k][s]
                /\ s # jobs_by_key[k] \/ jobs[k][s].state # "running"
             \/ /\ jobs[k][s].state = "running" /\ jobs'[k][s].state = "running"
                /\ jobs'[k][s] \in JobRecords /\ jobs'[k][s] # NoJob
                /\ jobs'[k][s].status = jobs[k][s].status
                /\ jobs'[k][s].sent = jobs[k][s].sent /\ jobs'[k][s].reply = jobs[k][s].reply
                /\ jobs'[k][s].aborted
  <2>1. CASE s = jobs_by_key[k] /\ jobs[k][s].state = "running"
    <3>1. jobs[k][s] \in JobRecords
      BY <2>1, JobTypes DEF Structure, NoJob
    <3>2. jobs'[k][s] = [jobs[k][s] EXCEPT !.aborted = TRUE]
      BY <1>4, <2>1 DEF Abort
    <3>3. /\ jobs'[k][s] \in JobRecords /\ jobs'[k][s].state = jobs[k][s].state
          /\ jobs'[k][s].status = jobs[k][s].status
          /\ jobs'[k][s].sent = jobs[k][s].sent /\ jobs'[k][s].reply = jobs[k][s].reply
          /\ jobs'[k][s].aborted
      BY <3>1, <3>2 DEF JobRecords
    <3> QED
      BY <2>1, <3>3 DEF NoJob
  <2>2. CASE ~(s = jobs_by_key[k] /\ jobs[k][s].state = "running")
    BY <1>4, <2>2 DEF Abort
  <2> QED
    BY <2>1, <2>2
<1>6. n \in Slot /\ jobs[k][n] = NoJob /\ jobs_by_key'[k] = n /\ jobs'[k][n] = new
  BY <1>1, <1>2, <1>4 DEF n
<1> QED
  BY <1>3, <1>5, <1>6

\* A new job comes into a free slot, where no command and no end is left.
LEMMA RetargetStructure ==
  ASSUME Structure, TargetChanged
  PROVE  Structure'
<1>1. /\ UNCHANGED <<published, finished, wire, broker>> /\ target' = published
      /\ reported' = [reported EXCEPT !.target_generation = published.generation]
  BY DEF TargetChanged, channel
<1>2. \A k \in Key : \/ jobs'[k] = jobs[k] /\ jobs_by_key'[k] = jobs_by_key[k]
                     \/ /\ Free(k) # {} /\ jobs'[k] = Respawned(k)
                        /\ jobs_by_key'[k] = NewSlot(k)
  BY DEF TargetChanged
<1>3. /\ DOMAIN jobs' = Key /\ jobs' = [k \in Key |-> jobs'[k]]
      /\ jobs_by_key' = [k \in Key |-> jobs_by_key'[k]]
  BY DEF TargetChanged
<1>4. ASSUME NEW k \in Key, NEW s \in Slot
      PROVE  /\ jobs'[k][s] \in {NoJob} \cup JobRecords
             /\ \/ jobs'[k][s] = jobs[k][s]
                \/ /\ jobs[k][s].state = "running"
                   /\ jobs'[k][s] \in JobRecords /\ jobs'[k][s].state = "running"
                   /\ jobs'[k][s].status = jobs[k][s].status
                   /\ jobs'[k][s].sent = jobs[k][s].sent /\ jobs'[k][s].reply = jobs[k][s].reply
                \/ /\ jobs[k][s] = NoJob
                   /\ jobs'[k][s] \in JobRecords /\ jobs'[k][s].state = "running"
                   /\ jobs'[k][s].sent = 0 /\ jobs'[k][s].reply = "none"
  <2>1. jobs[k][s] \in {NoJob} \cup JobRecords
    BY JobTypes DEF Structure
  <2>2. CASE published.queues[k] = target.queues[k]
    BY <2>1, <2>2 DEF TargetChanged
  <2>3. CASE published.queues[k] # target.queues[k]
    BY <2>1, <2>3, RespawnFacts
  <2> QED
    BY <2>2, <2>3
<1>5. jobs' \in [Key -> [Slot -> {NoJob} \cup JobRecords]]
  <2>1. \A k \in Key : jobs'[k] \in [Slot -> {NoJob} \cup JobRecords]
    <3> SUFFICES ASSUME NEW k \in Key PROVE jobs'[k] \in [Slot -> {NoJob} \cup JobRecords]
      OBVIOUS
    <3>1. jobs'[k] = [s \in Slot |-> jobs'[k][s]]
      BY <1>2 DEF Structure, TypeInv, Respawned
    <3> QED
      BY <1>4, <3>1
  <2> QED
    BY <1>3, <2>1
<1>6. jobs_by_key' \in [Key -> Slot \cup {NoSlot}]
  BY <1>2, <1>3, NewSlotIsFree DEF Structure, TypeInv
<1>7. reported' \in [target_generation : Nat, queues : Queues]
  BY <1>1 DEF Structure, TypeInv
<1>8. TypeInv' /\ QueuesExist' /\ WireOnce' /\ FinishedOnce'
  BY <1>1, <1>5, <1>6, <1>7 DEF Structure, TypeInv, QueuesExist, WireOnce, FinishedOnce
<1>9. AnswersFit'
  BY <1>4 DEF Structure, AnswersFit
<1>10. FinishedListed'
  <2>1. \A k \in Key, s \in Slot : jobs'[k][s].state \in Over <=> jobs[k][s].state \in Over
    BY <1>4 DEF NoJob, Over
  <2> QED
    BY <1>1, <2>1 DEF Structure, FinishedListed
<1>11. WireOwned'
  <2>1. \A i \in DOMAIN wire : /\ wire[i].key \in Key /\ wire[i].slot \in Slot
                               /\ jobs[wire[i].key][wire[i].slot] # NoJob
    BY WireTypes DEF Structure, WireOwned, NoJob
  <2> QED
    BY <1>1, <1>4, <2>1 DEF Structure, WireOwned
<1> QED
  BY <1>8, <1>9, <1>10, <1>11 DEF Structure

\* What joining a job does, slot by slot.
LEMMA JoinFacts ==
  ASSUME Structure, JoinJob
  PROVE  \E k \in Key, s \in Slot :
           /\ finished # <<>> /\ finished[1] = <<k, s>> /\ finished' = Tail(finished)
           /\ jobs[k][s].state = "done" /\ jobs'[k][s] = NoJob
           /\ \A j \in Key, t \in Slot : ~(j = k /\ t = s) => jobs'[j][t] = jobs[j][t]
           /\ jobs' \in [Key -> [Slot -> {NoJob} \cup JobRecords]]
           /\ jobs_by_key' \in [Key -> Slot \cup {NoSlot}]
           /\ \A j \in Key \ {k} : jobs_by_key'[j] = jobs_by_key[j]
           /\ reported' \in [target_generation : Nat, queues : Queues]
           /\ reported'.target_generation = reported.target_generation
           /\ reported'.queues[k] = jobs[k][s].status
           /\ \A j \in Key \ {k} : reported'.queues[j] = reported.queues[j]
           /\ UNCHANGED <<published, loop, target, wire, broker>>
<1> DEFINE k == Head(finished)[1]
           s == Head(finished)[2]
<1>1. /\ finished # <<>> /\ finished' = Tail(finished) /\ jobs[k][s].state = "done"
      /\ jobs_by_key' = [jobs_by_key EXCEPT ![k] = NoSlot]
      /\ reported' = [reported EXCEPT !.queues[k] = jobs[k][s].status]
      /\ jobs' = [jobs EXCEPT ![k][s] = NoJob]
      /\ UNCHANGED <<published, loop, target, wire, broker>>
  BY DEF JoinJob, channel
<1>2. finished[1] = <<k, s>> /\ k \in Key /\ s \in Slot
  BY <1>1 DEF Structure, TypeInv
<1> HIDE DEF k, s
<1>3. jobs[k][s].status \in OptionStatus
  BY <1>1, <1>2, JobTypes DEF Structure, NoJob
<1> DEFINE status == jobs[k][s].status
<1> HIDE DEF status
<1>4. /\ reported' \in [target_generation : Nat, queues : Queues]
      /\ reported'.target_generation = reported.target_generation
      /\ reported'.queues[k] = status
      /\ \A j \in Key \ {k} : reported'.queues[j] = reported.queues[j]
  <2>1. reported.queues \in [Key -> OptionStatus] /\ reported.target_generation \in Nat
    BY DEF Structure, TypeInv, Queues
  <2>2. reported' = [reported EXCEPT !.queues = [reported.queues EXCEPT ![k] = status]]
    BY <1>1 DEF status
  <2>3. status \in OptionStatus
    BY <1>3 DEF status
  <2>4. [reported.queues EXCEPT ![k] = status] \in Queues
    BY <2>1, <2>3 DEF Queues
  <2>5. /\ reported' \in [target_generation : Nat, queues : Queues]
        /\ reported'.target_generation = reported.target_generation
        /\ reported'.queues = [reported.queues EXCEPT ![k] = status]
    BY <2>2, <2>4 DEF Structure, TypeInv
  <2> QED
    BY <1>2, <2>1, <2>5
<1>5. /\ jobs' \in [Key -> [Slot -> {NoJob} \cup JobRecords]] /\ jobs'[k][s] = NoJob
      /\ \A j \in Key, t \in Slot : ~(j = k /\ t = s) => jobs'[j][t] = jobs[j][t]
  BY <1>1, <1>2 DEF Structure, TypeInv
<1>6. /\ jobs_by_key' \in [Key -> Slot \cup {NoSlot}]
      /\ \A j \in Key \ {k} : jobs_by_key'[j] = jobs_by_key[j]
  BY <1>1, <1>2 DEF Structure, TypeInv
<1> QED
  BY <1>1, <1>2, <1>4, <1>5, <1>6 DEF status

LEMMA JoinStructure ==
  ASSUME Structure, JoinJob
  PROVE  Structure'
<1>1. PICK k \in Key, s \in Slot :
        /\ finished # <<>> /\ finished[1] = <<k, s>> /\ finished' = Tail(finished)
        /\ jobs[k][s].state = "done" /\ jobs'[k][s] = NoJob
        /\ \A j \in Key, t \in Slot : ~(j = k /\ t = s) => jobs'[j][t] = jobs[j][t]
        /\ jobs' \in [Key -> [Slot -> {NoJob} \cup JobRecords]]
        /\ jobs_by_key' \in [Key -> Slot \cup {NoSlot}]
        /\ reported' \in [target_generation : Nat, queues : Queues]
        /\ UNCHANGED <<published, loop, target, wire, broker>>
  BY JoinFacts
<1>2. /\ Len(finished) \in Nat /\ DOMAIN finished = 1..Len(finished)
      /\ finished' \in Seq(Key \X Slot) /\ DOMAIN finished' = 1..(Len(finished) - 1)
      /\ \A i \in 1..(Len(finished) - 1) : finished'[i] = finished[i + 1]
  BY <1>1 DEF Structure, TypeInv
<1>3. TypeInv' /\ QueuesExist' /\ WireOnce'
  BY <1>1, <1>2 DEF Structure, TypeInv, QueuesExist, WireOnce
<1>4. AnswersFit'
  BY <1>1, SMTT(30) DEF Structure, AnswersFit, NoJob
<1>5. WireOwned'
  <2>1. \A i \in DOMAIN wire : /\ wire[i].key \in Key /\ wire[i].slot \in Slot
                               /\ ~(wire[i].key = k /\ wire[i].slot = s)
    BY <1>1, WireTypes DEF Structure, WireOwned
  <2>2. \A i \in DOMAIN wire : jobs'[wire[i].key][wire[i].slot] = jobs[wire[i].key][wire[i].slot]
    BY <1>1, <2>1
  <2>3. wire' = wire
    BY <1>1
  <2> QED
    BY <2>2, <2>3 DEF Structure, WireOwned
<1>6. FinishedOnce'
  <2> SUFFICES ASSUME NEW i \in DOMAIN finished', NEW j \in DOMAIN finished',
                      finished'[i] = finished'[j]
               PROVE  i = j
    BY DEF FinishedOnce
  <2>1. i + 1 \in DOMAIN finished /\ j + 1 \in DOMAIN finished /\ finished[i + 1] = finished[j + 1]
    BY <1>2
  <2> QED
    BY <1>2, <2>1 DEF Structure, FinishedOnce
<1>7. \A i \in DOMAIN finished' : /\ i + 1 \in DOMAIN finished /\ finished'[i] = finished[i + 1]
                                  /\ finished'[i] # <<k, s>>
  <2> SUFFICES ASSUME NEW i \in DOMAIN finished'
               PROVE  /\ i + 1 \in DOMAIN finished /\ finished'[i] = finished[i + 1]
                      /\ finished'[i] # <<k, s>>
    OBVIOUS
  <2>1. /\ i + 1 \in DOMAIN finished /\ finished'[i] = finished[i + 1]
        /\ 1 \in DOMAIN finished /\ i + 1 # 1
    BY <1>2
  <2> QED
    BY <1>1, <2>1 DEF Structure, FinishedOnce
<1>8. FinishedListed'
  <2> SUFFICES ASSUME NEW j \in Key, NEW t \in Slot
               PROVE  jobs'[j][t].state \in Over
                        <=> \E i \in DOMAIN finished' : finished'[i] = <<j, t>>
    BY DEF FinishedListed
  <2>1. CASE j = k /\ t = s
    BY <1>1, <1>7, <2>1 DEF NoJob, Over
  <2>2. CASE ~(j = k /\ t = s)
    <3>1. jobs'[j][t] = jobs[j][t] /\ <<j, t>> # <<k, s>>
      BY <1>1, <2>2
    <3>2. (\E i \in DOMAIN finished' : finished'[i] = <<j, t>>)
            => \E i \in DOMAIN finished : finished[i] = <<j, t>>
      BY <1>7
    <3>3. ASSUME NEW i \in DOMAIN finished, finished[i] = <<j, t>>
          PROVE  \E n \in DOMAIN finished' : finished'[n] = <<j, t>>
      <4>1. i # 1
        BY <1>1, <3>1, <3>3
      <4>2. i - 1 \in DOMAIN finished' /\ finished'[i - 1] = <<j, t>>
        BY <1>2, <3>3, <4>1
      <4> QED
        BY <4>2
    <3> QED
      BY <3>1, <3>2, <3>3 DEF Structure, FinishedListed
  <2> QED
    BY <2>1, <2>2
<1> QED
  BY <1>3, <1>4, <1>5, <1>6, <1>8 DEF Structure

\* What the broker makes of a queue.
LEMMA ExecutedQueue ==
  ASSUME NEW cmd \in CommandRecords, NEW q \in RequestQueues,
         q.bound \/ q.msgs > 0 => q.exists,
         ~(cmd.op = "bind" /\ ~q.exists),
         ~(cmd.op = "delete_if_empty" /\ q.exists /\ q.msgs > 0)
  PROVE  /\ Executed(cmd, q) \in RequestQueues
         /\ Executed(cmd, q).bound \/ Executed(cmd, q).msgs > 0 => Executed(cmd, q).exists
         /\ Executed(cmd, q).msgs = q.msgs
         /\ cmd.op = "declare" => Executed(cmd, q).exists
         /\ cmd.op = "bind" => Executed(cmd, q).exists = q.exists /\ Executed(cmd, q).bound
         /\ cmd.op = "unbind" => Executed(cmd, q).exists = q.exists /\ ~Executed(cmd, q).bound
         /\ cmd.op = "delete_if_empty" => ~Executed(cmd, q).exists
<1>0. cmd.op \in Ops
  BY DEF CommandRecords
<1>1. CASE cmd.op = "declare"
  BY <1>1 DEF Executed, RequestQueues
<1>2. CASE cmd.op = "bind"
  BY <1>2 DEF Executed, RequestQueues
<1>3. CASE cmd.op = "unbind"
  BY <1>3 DEF Executed, RequestQueues
<1>4. CASE cmd.op = "delete_if_empty"
  <2>1. Executed(cmd, q) = [exists |-> FALSE, bound |-> FALSE, msgs |-> 0]
    BY <1>4 DEF Executed
  <2>2. q.msgs = 0
    BY <1>4 DEF RequestQueues
  <2> QED
    BY <1>4, <2>1, <2>2 DEF RequestQueues
<1> QED
  BY <1>0, <1>1, <1>2, <1>3, <1>4 DEF Ops

\* What the execution of a command does, queue by queue and slot by slot.
LEMMA ExecuteFacts ==
  ASSUME Structure, BrokerExecutes
  PROVE  \E k \in Key, s \in Slot :
           /\ wire # <<>> /\ wire[1].key = k /\ wire[1].slot = s /\ wire' = Tail(wire)
           /\ wire[1] \in CommandRecords /\ jobs[k][s] # NoJob /\ PollsOver
           /\ broker' \in [Key -> RequestQueues]
           /\ \A j \in Key \ {k} : broker'[j] = broker[j]
           /\ broker'[k] = Executed(wire[1], broker[k])
           /\ broker[k] \in RequestQueues /\ (broker[k].bound \/ broker[k].msgs > 0 => broker[k].exists)
           /\ ~(wire[1].op = "bind" /\ ~broker[k].exists)
           /\ ~(wire[1].op = "delete_if_empty" /\ broker[k].exists /\ broker[k].msgs > 0)
           /\ jobs' \in [Key -> [Slot -> {NoJob} \cup JobRecords]]
           /\ \A j \in Key, t \in Slot : ~(j = k /\ t = s) => jobs'[j][t] = jobs[j][t]
           /\ jobs'[k][s] # NoJob /\ jobs'[k][s].state = jobs[k][s].state
           /\ jobs'[k][s].status = jobs[k][s].status /\ jobs'[k][s].sent = jobs[k][s].sent
           /\ jobs'[k][s].aborted = jobs[k][s].aborted
           /\ jobs[k][s].state = "running" => jobs'[k][s].reply = "ok"
           /\ jobs[k][s].state # "running" => jobs'[k][s].reply = jobs[k][s].reply
           /\ UNCHANGED <<published, loop, target, reported, jobs_by_key, finished>>
<1> DEFINE cmd == Head(wire)
           k == cmd.key
           s == cmd.slot
<1>1. /\ wire # <<>> /\ wire' = Tail(wire) /\ ~Refused(cmd) /\ PollsOver
      /\ broker' = [broker EXCEPT ![k] = Executed(cmd, broker[k])] /\ jobs' = Reply(cmd, "ok")
      /\ UNCHANGED <<published, loop, target, reported, jobs_by_key, finished>>
  BY DEF BrokerExecutes
<1>2. 1 \in DOMAIN wire /\ cmd = wire[1] /\ wire[1] \in CommandRecords
  BY <1>1 DEF Structure, TypeInv
<1>3. k \in Key /\ s \in Slot
  BY <1>2, WireTypes DEF Structure
<1>4. jobs[k][s] # NoJob /\ jobs[k][s] \in JobRecords
  BY <1>2, <1>3, JobTypes DEF Structure, WireOwned, NoJob
<1>5. /\ broker[k] \in RequestQueues /\ (broker[k].bound \/ broker[k].msgs > 0 => broker[k].exists)
      /\ ~(cmd.op = "bind" /\ ~broker[k].exists)
      /\ ~(cmd.op = "delete_if_empty" /\ broker[k].exists /\ broker[k].msgs > 0)
  BY <1>1, <1>3 DEF Structure, TypeInv, QueuesExist, Refused
<1>6. Executed(cmd, broker[k]) \in RequestQueues
  BY <1>2, <1>5, ExecutedQueue
<1>7. /\ broker' \in [Key -> RequestQueues] /\ broker'[k] = Executed(cmd, broker[k])
      /\ \A j \in Key \ {k} : broker'[j] = broker[j]
  BY <1>1, <1>3, <1>6 DEF Structure, TypeInv
<1>8. /\ jobs' \in [Key -> [Slot -> {NoJob} \cup JobRecords]]
      /\ \A j \in Key, t \in Slot : ~(j = k /\ t = s) => jobs'[j][t] = jobs[j][t]
      /\ jobs'[k][s] \in JobRecords /\ jobs'[k][s].state = jobs[k][s].state
      /\ jobs'[k][s].status = jobs[k][s].status /\ jobs'[k][s].sent = jobs[k][s].sent
      /\ jobs'[k][s].aborted = jobs[k][s].aborted
      /\ jobs[k][s].state = "running" => jobs'[k][s].reply = "ok"
      /\ jobs[k][s].state # "running" => jobs'[k][s].reply = jobs[k][s].reply
  <2>1. CASE jobs[k][s].state # "running"
    BY <1>1, <1>4, <2>1 DEF Reply, Structure, TypeInv
  <2>2. CASE jobs[k][s].state = "running"
    <3> DEFINE new == [jobs[k][s] EXCEPT !.reply = "ok"]
    <3>1. /\ new \in JobRecords /\ new.state = jobs[k][s].state /\ new.reply = "ok"
          /\ new.status = jobs[k][s].status /\ new.sent = jobs[k][s].sent
          /\ new.aborted = jobs[k][s].aborted
      BY <1>4 DEF JobRecords
    <3>2. jobs' = [jobs EXCEPT ![k] = [jobs[k] EXCEPT ![s] = new]]
      BY <1>1, <2>2 DEF Reply
    <3> HIDE DEF new, k, s
    <3>3. /\ jobs' \in [Key -> [Slot -> {NoJob} \cup JobRecords]] /\ jobs'[k][s] = new
          /\ \A j \in Key, t \in Slot : ~(j = k /\ t = s) => jobs'[j][t] = jobs[j][t]
      BY <1>3, <3>1, <3>2 DEF Structure, TypeInv
    <3> QED
      BY <2>2, <3>1, <3>3
  <2> QED
    BY <2>1, <2>2
<1>9. jobs'[k][s] # NoJob
  BY <1>8 DEF JobRecords, NoJob, Over
<1>10. cmd = wire[1]
  BY <1>2
<1>11. /\ wire # <<>> /\ wire' = Tail(wire) /\ PollsOver
       /\ UNCHANGED <<published, loop, target, reported, jobs_by_key, finished>>
  BY <1>1
<1>12. wire[1].key = k /\ wire[1].slot = s /\ wire[1] \in CommandRecords
  BY <1>2
<1>13. /\ broker'[k] = Executed(wire[1], broker[k])
       /\ ~(wire[1].op = "bind" /\ ~broker[k].exists)
       /\ ~(wire[1].op = "delete_if_empty" /\ broker[k].exists /\ broker[k].msgs > 0)
  BY <1>5, <1>7, <1>10
<1> HIDE DEF cmd, k, s
<1> QED
  BY <1>3, <1>4, <1>5, <1>7, <1>8, <1>9, <1>11, <1>12, <1>13

LEMMA ExecuteStructure ==
  ASSUME Structure, BrokerExecutes
  PROVE  Structure'
<1>1. PICK k \in Key, s \in Slot :
        /\ wire # <<>> /\ wire[1].key = k /\ wire[1].slot = s /\ wire' = Tail(wire)
        /\ wire[1] \in CommandRecords
        /\ broker' \in [Key -> RequestQueues]
        /\ \A j \in Key \ {k} : broker'[j] = broker[j]
        /\ broker'[k] = Executed(wire[1], broker[k])
        /\ broker[k] \in RequestQueues /\ (broker[k].bound \/ broker[k].msgs > 0 => broker[k].exists)
        /\ ~(wire[1].op = "bind" /\ ~broker[k].exists)
        /\ ~(wire[1].op = "delete_if_empty" /\ broker[k].exists /\ broker[k].msgs > 0)
        /\ jobs' \in [Key -> [Slot -> {NoJob} \cup JobRecords]]
        /\ \A j \in Key, t \in Slot : ~(j = k /\ t = s) => jobs'[j][t] = jobs[j][t]
        /\ jobs'[k][s].state = jobs[k][s].state
        /\ jobs'[k][s].status = jobs[k][s].status /\ jobs'[k][s].sent = jobs[k][s].sent
        /\ jobs[k][s].state # "running" => jobs'[k][s].reply = jobs[k][s].reply
        /\ UNCHANGED <<published, target, reported, jobs_by_key, finished>>
  BY ExecuteFacts
<1>2. /\ Len(wire) \in Nat /\ DOMAIN wire = 1..Len(wire) /\ 1 \in DOMAIN wire
      /\ wire' \in Seq(CommandRecords) /\ DOMAIN wire' = 1..(Len(wire) - 1)
      /\ \A i \in DOMAIN wire' : i + 1 \in DOMAIN wire /\ i + 1 # 1 /\ wire'[i] = wire[i + 1]
  BY <1>1 DEF Structure, TypeInv
<1>3. TypeInv'
  BY <1>1, <1>2 DEF Structure, TypeInv
<1>4. QueuesExist'
  <2>1. broker'[k].bound \/ broker'[k].msgs > 0 => broker'[k].exists
    BY <1>1, ExecutedQueue
  <2> QED
    BY <1>1, <2>1 DEF Structure, QueuesExist
<1>5. jobs[k][s].state \in {"failed", "cancelled"} \/ jobs[k][s].sent > 0
  BY <1>1, <1>2 DEF Structure, WireOwned
<1>6. AnswersFit'
  BY <1>1, <1>5 DEF Structure, AnswersFit
<1>7. FinishedListed' /\ FinishedOnce'
  BY <1>1 DEF Structure, FinishedListed, FinishedOnce
<1>8. WireOnce'
  <2> SUFFICES ASSUME NEW i \in DOMAIN wire', NEW j \in DOMAIN wire',
                      wire'[i].key = wire'[j].key, wire'[i].slot = wire'[j].slot
               PROVE  i = j
    BY DEF WireOnce
  <2>1. i + 1 = j + 1
    BY <1>2 DEF Structure, WireOnce
  <2> QED
    BY <1>2, <2>1
<1>9. WireOwned'
  <2>1. \A i \in DOMAIN wire' : /\ wire'[i].key \in Key /\ wire'[i].slot \in Slot
                                /\ ~(wire'[i].key = k /\ wire'[i].slot = s)
    BY <1>1, <1>2, WireTypes, SMTT(30) DEF Structure, WireOnce
  <2>2. \A i \in DOMAIN wire' : jobs'[wire'[i].key][wire'[i].slot] = jobs[wire'[i].key][wire'[i].slot]
    BY <1>1, <2>1
  <2>3. \A i \in DOMAIN wire' : i + 1 \in DOMAIN wire /\ wire'[i] = wire[i + 1]
    BY <1>2
  <2>4. WireOwned
    BY DEF Structure
  <2> SUFFICES ASSUME NEW i \in DOMAIN wire'
               PROVE  LET job == jobs[wire'[i].key][wire'[i].slot] IN
                        \/ job.state \in {"failed", "cancelled"}
                        \/ /\ job.state = "running" /\ job.sent > 0 /\ job.reply = "none"
                           /\ wire'[i].op = Commands(job.status)[job.sent]
    BY <2>2, Zenon DEF WireOwned
  <2>5. i + 1 \in DOMAIN wire /\ wire'[i] = wire[i + 1]
    BY <2>3
  <2> QED
    BY <2>4, <2>5, Zenon DEF WireOwned
<1> QED
  BY <1>3, <1>4, <1>6, <1>7, <1>8, <1>9 DEF Structure

\* What a channel exception does, slot by slot.
LEMMA RefuseFacts ==
  ASSUME Structure, BrokerRefuses
  PROVE  /\ jobs' \in [Key -> [Slot -> {NoJob} \cup JobRecords]]
         /\ \A k \in Key, s \in Slot :
              \/ jobs'[k][s] = jobs[k][s]
              \/ /\ jobs[k][s].state = "running" /\ jobs[k][s].sent > 0
                 /\ jobs[k][s].reply = "none"
                 /\ jobs'[k][s] # NoJob /\ jobs'[k][s].state = jobs[k][s].state
                 /\ jobs'[k][s].status = jobs[k][s].status /\ jobs'[k][s].sent = jobs[k][s].sent
                 /\ jobs'[k][s].aborted = jobs[k][s].aborted /\ jobs'[k][s].reply = "error"
         /\ wire' = <<>> /\ PollsOver
         /\ UNCHANGED <<published, loop, target, reported, jobs_by_key, finished, broker>>
<1>1. /\ wire' = <<>> /\ PollsOver
      /\ UNCHANGED <<published, loop, target, reported, jobs_by_key, finished, broker>>
      /\ jobs' = [k \in Key |-> [s \in Slot |->
                     IF Runs(k, s) /\ jobs[k][s].sent > 0 /\ jobs[k][s].reply = "none"
                     THEN [jobs[k][s] EXCEPT !.reply = "error"]
                     ELSE jobs[k][s]]]
  BY DEF BrokerRefuses
<1>2. ASSUME NEW k \in Key, NEW s \in Slot
      PROVE  /\ jobs'[k][s] \in {NoJob} \cup JobRecords
             /\ \/ jobs'[k][s] = jobs[k][s]
                \/ /\ jobs[k][s].state = "running" /\ jobs[k][s].sent > 0
                   /\ jobs[k][s].reply = "none"
                   /\ jobs'[k][s] # NoJob /\ jobs'[k][s].state = jobs[k][s].state
                   /\ jobs'[k][s].status = jobs[k][s].status /\ jobs'[k][s].sent = jobs[k][s].sent
                   /\ jobs'[k][s].aborted = jobs[k][s].aborted /\ jobs'[k][s].reply = "error"
  <2>1. jobs'[k][s] = IF Runs(k, s) /\ jobs[k][s].sent > 0 /\ jobs[k][s].reply = "none"
                      THEN [jobs[k][s] EXCEPT !.reply = "error"]
                      ELSE jobs[k][s]
    BY <1>1
  <2>2. CASE Runs(k, s) /\ jobs[k][s].sent > 0 /\ jobs[k][s].reply = "none"
    <3>1. jobs[k][s] \in JobRecords /\ jobs[k][s].state = "running"
      BY <2>2, JobTypes DEF Runs, Structure, NoJob
    <3>2. jobs'[k][s] = [jobs[k][s] EXCEPT !.reply = "error"]
      BY <2>1, <2>2
    <3>3. /\ jobs'[k][s] \in JobRecords /\ jobs'[k][s].state = "running"
          /\ jobs'[k][s].status = jobs[k][s].status /\ jobs'[k][s].sent = jobs[k][s].sent
          /\ jobs'[k][s].aborted = jobs[k][s].aborted /\ jobs'[k][s].reply = "error"
      BY <3>1, <3>2 DEF JobRecords
    <3> QED
      BY <2>2, <3>1, <3>3 DEF NoJob
  <2>3. CASE ~(Runs(k, s) /\ jobs[k][s].sent > 0 /\ jobs[k][s].reply = "none")
    BY <2>1, <2>3, JobTypes DEF Structure
  <2> QED
    BY <2>2, <2>3
<1>3. jobs' \in [Key -> [Slot -> {NoJob} \cup JobRecords]]
  <2>1. DOMAIN jobs' = Key /\ \A k \in Key : jobs'[k] = [s \in Slot |-> jobs'[k][s]]
    BY <1>1
  <2>2. \A k \in Key : jobs'[k] \in [Slot -> {NoJob} \cup JobRecords]
    BY <1>2, <2>1
  <2>3. jobs' = [k \in Key |-> jobs'[k]]
    BY <1>1
  <2> QED
    BY <2>2, <2>3
<1> QED
  BY <1>1, <1>2, <1>3

LEMMA RefuseStructure ==
  ASSUME Structure, BrokerRefuses
  PROVE  Structure'
<1>1. /\ jobs' \in [Key -> [Slot -> {NoJob} \cup JobRecords]]
      /\ \A k \in Key, s \in Slot :
           \/ jobs'[k][s] = jobs[k][s]
           \/ /\ jobs[k][s].state = "running" /\ jobs[k][s].sent > 0
              /\ jobs'[k][s].state = jobs[k][s].state /\ jobs'[k][s].sent = jobs[k][s].sent
      /\ wire' = <<>>
      /\ UNCHANGED <<published, target, reported, jobs_by_key, finished, broker>>
  BY RefuseFacts
<1>2. wire' \in Seq(CommandRecords)
  BY <1>1
<1>3. TypeInv' /\ QueuesExist' /\ FinishedOnce'
  BY <1>1, <1>2 DEF Structure, TypeInv, QueuesExist, FinishedOnce
<1>4. AnswersFit' /\ FinishedListed'
  BY <1>1 DEF Structure, AnswersFit, FinishedListed
<1>5. WireOwned' /\ WireOnce'
  BY <1>1 DEF WireOwned, WireOnce
<1> QED
  BY <1>3, <1>4, <1>5 DEF Structure

\* What a reconnection does, slot by slot.
LEMMA ReconnectFacts ==
  ASSUME Structure, Reconnect
  PROVE  /\ target' = published /\ finished' = <<>> /\ wire' = <<>>
         /\ UNCHANGED <<published, broker>>
         /\ reported' \in [target_generation : Nat, queues : Queues]
         /\ reported'.target_generation = published.generation
         /\ \A k \in Key : ~broker[k].exists => reported'.queues[k] = None
         /\ jobs_by_key' \in [Key -> Slot \cup {NoSlot}]
         /\ jobs' \in [Key -> [Slot -> {NoJob} \cup JobRecords]]
         /\ \A k \in Key, s \in Slot :
              \/ /\ jobs'[k][s] = NoJob
                 /\ s # 1 \/ (published.queues[k] = None /\ ~broker[k].exists)
              \/ /\ s = 1 /\ jobs_by_key'[k] = s
                 /\ jobs'[k][s] # NoJob /\ jobs'[k][s].state = "running"
                 /\ jobs'[k][s].status = published.queues[k]
                 /\ jobs'[k][s].sent = 0 /\ jobs'[k][s].reply = "none" /\ ~jobs'[k][s].aborted
<1> DEFINE starts(k) == k \in Started(published, broker)
<1>1. /\ target' = published /\ finished' = <<>> /\ wire' = <<>> /\ UNCHANGED <<published, broker>>
      /\ reported' = [target_generation |-> published.generation,
                      queues |-> [k \in Key |-> IF k \in Listed(broker) THEN Unbound ELSE None]]
      /\ jobs' = [k \in Key |-> [s \in Slot |->
                     IF s = 1 /\ starts(k) THEN Job(published.queues[k]) ELSE NoJob]]
      /\ jobs_by_key' = [k \in Key |-> IF starts(k) THEN 1 ELSE NoSlot]
  BY DEF Reconnect, StartLoop
<1>2. \A k \in Key : starts(k) <=> published.queues[k] # None \/ broker[k].exists
  BY DEF Started, Listed
<1> HIDE DEF starts
<1>3. 1 \in Slot
  BY DEF Slot
<1>4. /\ reported' \in [target_generation : Nat, queues : Queues]
      /\ reported'.target_generation = published.generation
      /\ \A k \in Key : ~broker[k].exists => reported'.queues[k] = None
  BY <1>1 DEF Structure, TypeInv, Queues, OptionStatus, Listed
<1>5. jobs_by_key' \in [Key -> Slot \cup {NoSlot}]
  BY <1>1, <1>3
<1>6. \A k \in Key : published.queues[k] \in OptionStatus
  BY DEF Structure, TypeInv, Queues
<1>7. ASSUME NEW k \in Key, NEW s \in Slot
      PROVE  /\ jobs'[k][s] \in {NoJob} \cup JobRecords
             /\ \/ /\ jobs'[k][s] = NoJob
                   /\ s # 1 \/ (published.queues[k] = None /\ ~broker[k].exists)
                \/ /\ s = 1 /\ jobs_by_key'[k] = s
                   /\ jobs'[k][s] # NoJob /\ jobs'[k][s].state = "running"
                   /\ jobs'[k][s].status = published.queues[k]
                   /\ jobs'[k][s].sent = 0 /\ jobs'[k][s].reply = "none" /\ ~jobs'[k][s].aborted
  <2>1. CASE s = 1 /\ starts(k)
    <3> DEFINE new == Job(published.queues[k])
    <3>1. /\ new \in JobRecords /\ new.state = "running" /\ new.sent = 0 /\ new.reply = "none"
          /\ new.status = published.queues[k] /\ ~new.aborted /\ new # NoJob
      BY <1>6, NewJob
    <3>2. jobs'[k][s] = new /\ jobs_by_key'[k] = s
      BY <1>1, <2>1
    <3> HIDE DEF new
    <3> QED
      BY <2>1, <3>1, <3>2
  <2>2. CASE ~(s = 1 /\ starts(k))
    BY <1>1, <1>2, <2>2
  <2> QED
    BY <2>1, <2>2
<1>8. jobs' \in [Key -> [Slot -> {NoJob} \cup JobRecords]]
  <2>1. \A k \in Key : jobs'[k] \in [Slot -> {NoJob} \cup JobRecords]
    <3> SUFFICES ASSUME NEW k \in Key PROVE jobs'[k] \in [Slot -> {NoJob} \cup JobRecords]
      OBVIOUS
    <3>1. jobs'[k] = [s \in Slot |-> jobs'[k][s]]
      BY <1>1
    <3> QED
      BY <1>7, <3>1
  <2>2. jobs' = [k \in Key |-> jobs'[k]]
    BY <1>1
  <2> QED
    BY <2>1, <2>2
<1> QED
  BY <1>1, <1>4, <1>5, <1>7, <1>8

LEMMA ReconnectStructure ==
  ASSUME Structure, Reconnect
  PROVE  Structure'
<1>1. /\ target' = published /\ finished' = <<>> /\ wire' = <<>> /\ UNCHANGED <<published, broker>>
      /\ reported' \in [target_generation : Nat, queues : Queues]
      /\ jobs_by_key' \in [Key -> Slot \cup {NoSlot}]
      /\ jobs' \in [Key -> [Slot -> {NoJob} \cup JobRecords]]
      /\ \A k \in Key, s \in Slot : \/ jobs'[k][s] = NoJob
                                    \/ jobs'[k][s].state = "running" /\ jobs'[k][s].reply = "none"
  BY ReconnectFacts
<1>2. wire' \in Seq(CommandRecords) /\ finished' \in Seq(Key \X Slot)
  BY <1>1
<1>3. TypeInv' /\ QueuesExist'
  BY <1>1, <1>2 DEF Structure, TypeInv, QueuesExist
<1>4. AnswersFit' /\ FinishedListed'
  BY <1>1 DEF AnswersFit, FinishedListed, NoJob, Over
<1>5. WireOwned' /\ WireOnce' /\ FinishedOnce'
  BY <1>1 DEF WireOwned, WireOnce, FinishedOnce
<1> QED
  BY <1>3, <1>4, <1>5 DEF Structure

LEMMA NextStructure == Structure /\ [Steps]_vars => Structure'
<1> SUFFICES ASSUME Structure, [Steps]_vars PROVE Structure'
  OBVIOUS
<1>1. CASE \E k \in Key : Require(k) \/ SpoolsDown(k) \/ PublishRequest(k) \/ Consume(k)
  BY <1>1, EnvironmentStructure
<1>2. CASE TargetChanged \/ JoinJob
  BY <1>2, RetargetStructure, JoinStructure
<1>3. CASE JoinPanics \/ Disconnect \/ UNCHANGED vars
  <2>1. UNCHANGED <<published, target, reported, jobs, jobs_by_key, finished, wire, broker>>
    BY <1>3 DEF JoinPanics, Disconnect, vars, controller, channel
  <2>2. TypeInv' /\ QueuesExist'
    BY <2>1 DEF Structure, TypeInv, QueuesExist
  <2>3. AnswersFit' /\ WireOwned' /\ WireOnce' /\ FinishedListed' /\ FinishedOnce'
    BY <2>1, NoJobMoves DEF Structure
  <2> QED
    BY <2>2, <2>3 DEF Structure
<1>4. CASE JobStep
  BY <1>4, SendStructure, EndStructure DEF JobStep
<1>5. CASE Broker
  BY <1>5, ExecuteStructure, RefuseStructure DEF Broker
<1>6. CASE Reconnect
  BY <1>6, ReconnectStructure
<1> QED
  BY <1>1, <1>2, <1>3, <1>4, <1>5, <1>6 DEF Steps, Loop

\* No step but a worker's takes a request out of a request queue: the queue is
\* never deleted with a request in it.
THEOREM RequestsAreKept == Spec => OnlyWorkersTakeRequests
<1>1. ASSUME Structure, Next, NEW k \in Key, broker'[k].msgs < broker[k].msgs
      PROVE  broker[k].exists /\ broker'[k] = [broker[k] EXCEPT !.msgs = @ - 1]
  <2>1. broker[k] \in RequestQueues /\ broker[k].msgs \in Nat
    BY <1>1 DEF Structure, TypeInv, RequestQueues
  <2>2. broker'[k] # broker[k]
    BY <1>1, <2>1
  <2>3. CASE \E j \in Key : Consume(j)
    <3>1. PICK j \in Key : broker[j].msgs > 0 /\ broker' = [broker EXCEPT ![j].msgs = @ - 1]
      BY <2>3 DEF Consume
    <3>2. j = k
      BY <1>1, <2>2, <3>1 DEF Structure, TypeInv
    <3> QED
      BY <1>1, <3>1, <3>2 DEF Structure, TypeInv, QueuesExist
  <2>4. CASE \E j \in Key : PublishRequest(j)
    <3>1. PICK j \in Key : broker' = broker \/ broker' = [broker EXCEPT ![j].msgs = @ + 1]
      BY <2>4 DEF PublishRequest
    <3>2. broker' = [broker EXCEPT ![j].msgs = @ + 1]
      BY <2>2, <3>1
    <3>3. \A q \in RequestQueues : q.msgs \in Nat /\ [q EXCEPT !.msgs = @ + 1].msgs = q.msgs + 1
      BY DEF RequestQueues
    <3>4. j = k /\ broker'[k] = [broker[k] EXCEPT !.msgs = @ + 1]
      BY <1>1, <2>2, <3>2 DEF Structure, TypeInv
    <3>5. broker'[k].msgs = broker[k].msgs + 1
      BY <2>1, <3>3, <3>4
    <3> QED
      BY <1>1, <2>1, <3>5
  <2>5. CASE BrokerExecutes
    <3>1. PICK j \in Key : /\ wire[1] \in CommandRecords
                           /\ \A i \in Key \ {j} : broker'[i] = broker[i]
                           /\ broker'[j] = Executed(wire[1], broker[j])
                           /\ broker[j] \in RequestQueues
                           /\ (broker[j].bound \/ broker[j].msgs > 0 => broker[j].exists)
                           /\ ~(wire[1].op = "bind" /\ ~broker[j].exists)
                           /\ ~(wire[1].op = "delete_if_empty" /\ broker[j].exists
                                 /\ broker[j].msgs > 0)
      BY <1>1, <2>5, ExecuteFacts
    <3>2. broker'[j].msgs = broker[j].msgs
      BY <3>1, ExecutedQueue
    <3> QED
      BY <1>1, <2>1, <2>2, <3>1, <3>2
  <2>6. CASE broker' = broker
    BY <2>2, <2>6
  <2>7. CASE \E j \in Key : Require(j) \/ SpoolDown(j, Ready(j))
    BY <2>6, <2>7 DEF Require, SpoolDown, Retarget
  <2>8. CASE Loop
    BY <2>6, <2>8 DEF Loop, TargetChanged, JoinJob, JoinPanics
  <2>9. CASE JobStep
    BY <2>6, <2>9 DEF JobStep, JobSends, JobReturns, JobFails, JobCancelled
  <2>10. CASE BrokerRefuses
    BY <2>6, <2>10 DEF BrokerRefuses
  <2>11. CASE Disconnect \/ Reconnect
    BY <2>6, <2>11 DEF Disconnect, Reconnect
  <2> QED
    BY <1>1, <2>3, <2>4, <2>5, <2>7, <2>8, <2>9, <2>10, <2>11 DEF Next, Broker
<1>2. Structure /\ [Next]_vars =>
        [\A k \in Key :
           broker'[k].msgs < broker[k].msgs =>
             broker[k].exists /\ broker'[k] = [broker[k] EXCEPT !.msgs = @ - 1]]_broker
  BY <1>1 DEF vars
<1> QED
  BY <1>2, InitStructure, NextStructure, NextIsSteps, PTL DEF Spec, OnlyWorkersTakeRequests

-----------------------------------------------------------------------------
(* The jobs of one key while the loop runs. A job is current when it works *)
(* towards the target's status and former when it was started for an       *)
(* earlier one. A key is doomed once one of its jobs failed or was         *)
(* cancelled: the loop panics when it joins that job, and until then the   *)
(* key only has to do no harm.                                             *)

Doomed(k)     == \E s \in Slot : jobs[k][s].state \in {"failed", "cancelled"}
Current(k, s) == jobs[k][s] # NoJob /\ jobs[k][s].status = target.queues[k]
Former(k, s)  == jobs[k][s] # NoJob /\ jobs[k][s].status # target.queues[k]

\* Among the jobs to join, that of slot s comes before that of slot t.
Before(k, s, t) ==
  \A i, j \in DOMAIN finished : finished[i] = <<k, s>> /\ finished[j] = <<k, t>> => i < j

\* While a key has jobs, its target only goes up to Active: one that is spooled
\* down meanwhile is overtaken.
OnlyRaised(k) ==
  published.queues[k] # target.queues[k] /\ Live(k) # {} => published.queues[k] = Active

\* The jobs of a key on its way down are current, and at hand for an abort.
LoweredIsAbortable(k) ==
  target.queues[k] # Active => \A s \in Slot : jobs[k][s] # NoJob =>
    /\ Current(k, s)
    /\ jobs[k][s].state = "running" /\ ~jobs[k][s].aborted => jobs_by_key[k] = s

OneCurrent(k) == \A s, t \in Slot : Current(k, s) /\ Current(k, t) => s = t

\* Who works and was not told to stop works towards the target.
WorksForTarget(k) ==
  \A s \in Slot : jobs[k][s].state = "running" /\ ~jobs[k][s].aborted => Current(k, s)

\* With no job left, the queue is as the target says and is reported so.
Settled(k) ==
  Live(k) = {} => /\ reported.queues[k] = target.queues[k]
                  /\ InState(broker[k], target.queues[k])

\* The current job outlives the former ones: until they are over it gets no
\* answer, and they are joined before it.
SomeCurrent(k) == Live(k) # {} => \E s \in Slot : Current(k, s)
WaitsForFormer(k) ==
  \A s, t \in Slot : Former(k, s) /\ jobs[k][s].state = "running" /\ Current(k, t) =>
    jobs[k][t].state = "running" /\ jobs[k][t].sent <= 1 /\ jobs[k][t].reply = "none"
FormerFirst(k) == \A s, t \in Slot : Former(k, s) /\ Current(k, t) => Before(k, s, t)

\* What the current job has been answered shows in its queue.
QueueFollows(k) ==
  \A s \in Slot : Current(k, s) =>
    /\ (jobs[k][s].sent = 2 \/ jobs[k][s].reply = "ok") /\ jobs[k][s].status # None
         => broker[k].exists
    /\ jobs[k][s].sent = 2 /\ jobs[k][s].reply = "ok" => InState(broker[k], jobs[k][s].status)

Harmless(k) == OnlyRaised(k) /\ LoweredIsAbortable(k) /\ OneCurrent(k) /\ WorksForTarget(k)
Converges(k) == SomeCurrent(k) /\ WaitsForFormer(k) /\ FormerFirst(k) /\ QueueFollows(k)

KeyInv(k) == Harmless(k) /\ Settled(k) /\ (~Doomed(k) => Converges(k))

\* The inductive invariant. Nothing is said of a key that was overtaken, until
\* the next reconnection: its jobs may have worked against each other.
Steered ==
  loop = "running" =>
    /\ reported.target_generation = target.generation
    /\ \A k \in Key \ overtaken : KeyInv(k)

\* A step that does not touch a key.
LEMMA KeyUntouched ==
  ASSUME NEW k \in Key, KeyInv(k),
         \A s \in Slot : jobs'[k][s] = jobs[k][s],
         target'.queues[k] = target.queues[k], jobs_by_key'[k] = jobs_by_key[k],
         \/ published'.queues[k] = published.queues[k]
         \/ published'.queues[k] = Active
         \/ Live(k) = {},
         reported'.queues[k] = reported.queues[k],
         broker'[k].exists = broker[k].exists, broker'[k].bound = broker[k].bound,
         \A s, t \in Slot : Before(k, s, t) => Before(k, s, t)'
  PROVE  KeyInv(k)'
<1>1. /\ \A s \in Slot : Current(k, s)' <=> Current(k, s)
      /\ \A s \in Slot : Former(k, s)' <=> Former(k, s)
      /\ Live(k)' = Live(k) /\ (Doomed(k)' <=> Doomed(k))
  BY DEF Current, Former, Live, Doomed
<1>2. Harmless(k)'
  BY <1>1 DEF KeyInv, Harmless, OnlyRaised, LoweredIsAbortable, OneCurrent, WorksForTarget
<1>3. Settled(k)'
  BY <1>1 DEF KeyInv, Settled, InState
<1>4. ASSUME Converges(k) PROVE Converges(k)'
  <2>1. SomeCurrent(k)' /\ FormerFirst(k)'
    BY <1>1, <1>4 DEF Converges, SomeCurrent, FormerFirst
  <2>2. WaitsForFormer(k)'
    BY <1>1, <1>4 DEF Converges, WaitsForFormer
  <2>3. QueueFollows(k)'
    BY <1>1, <1>4 DEF Converges, QueueFollows, InState
  <2> QED
    BY <2>1, <2>2, <2>3 DEF Converges
<1> QED
  BY <1>1, <1>2, <1>3, <1>4 DEF KeyInv

\* A step in which jobs of a key get on or end, and none comes or goes.
LEMMA JobsMove ==
  ASSUME NEW k \in Key, KeyInv(k),
         \A s \in Slot :
           \/ jobs'[k][s] = jobs[k][s]
           \/ /\ jobs[k][s] # NoJob /\ jobs'[k][s] # NoJob
              /\ jobs'[k][s].status = jobs[k][s].status
              /\ jobs'[k][s].aborted = jobs[k][s].aborted
              /\ jobs'[k][s].state = "running" => jobs[k][s].state = "running",
         target'.queues[k] = target.queues[k], jobs_by_key'[k] = jobs_by_key[k],
         published'.queues[k] = published.queues[k],
         reported'.queues[k] = reported.queues[k],
         Live(k) = {} => broker'[k] = broker[k]
  PROVE  /\ \A s \in Slot : Current(k, s)' <=> Current(k, s)
         /\ \A s \in Slot : Former(k, s)' <=> Former(k, s)
         /\ Live(k)' = Live(k)
         /\ Harmless(k)' /\ Settled(k)'
<1>1. \A s \in Slot : (Current(k, s)' <=> Current(k, s)) /\ (Former(k, s)' <=> Former(k, s))
  BY DEF Current, Former
<1>2. Live(k)' = Live(k)
  BY DEF Live
<1>3. OnlyRaised(k)' /\ OneCurrent(k)'
  BY <1>1, <1>2 DEF KeyInv, Harmless, OnlyRaised, OneCurrent
<1>4. LoweredIsAbortable(k)' /\ WorksForTarget(k)'
  <2>1. \A s \in Slot : jobs'[k][s] # NoJob => jobs[k][s] # NoJob
    OBVIOUS
  <2>2. \A s \in Slot : jobs'[k][s].state = "running" /\ ~jobs'[k][s].aborted =>
                          jobs[k][s].state = "running" /\ ~jobs[k][s].aborted
    OBVIOUS
  <2> QED
    BY <1>1, <2>1, <2>2 DEF KeyInv, Harmless, LoweredIsAbortable, WorksForTarget
<1>5. Settled(k)'
  BY <1>2 DEF KeyInv, Settled
<1> QED
  BY <1>1, <1>2, <1>3, <1>4, <1>5 DEF Harmless

\* A job that ends comes after the jobs that ended before it.
LEMMA FinishKeepsOrder ==
  ASSUME TypeInv, NEW k \in Key, NEW s \in Slot, finished' = Append(finished, <<k, s>>),
         \A i \in DOMAIN finished : finished[i] # <<k, s>>
  PROVE  /\ \A j \in Key, t, u \in Slot :
              Before(j, t, u) /\ ~(j = k /\ t = s) => Before(j, t, u)'
         /\ \A t \in Slot : (\A i \in DOMAIN finished : finished[i] # <<k, t>>) /\ t # s
                              => Before(k, s, t)'
         /\ \A t \in Slot : t # s => Before(k, t, s)'
<1>1. /\ Len(finished) \in Nat /\ DOMAIN finished = 1..Len(finished)
      /\ DOMAIN finished' = 1..(Len(finished) + 1)
      /\ \A i \in 1..Len(finished) : finished'[i] = finished[i]
      /\ finished'[Len(finished) + 1] = <<k, s>>
  BY DEF TypeInv
<1>2. \A i \in DOMAIN finished' : i \in DOMAIN finished \/ i = Len(finished) + 1
  BY <1>1
<1>3. ASSUME NEW j \in Key, NEW t \in Slot, NEW u \in Slot,
             Before(j, t, u), ~(j = k /\ t = s),
             NEW a \in DOMAIN finished', NEW b \in DOMAIN finished',
             finished'[a] = <<j, t>>, finished'[b] = <<j, u>>
      PROVE  a < b
  <2>1. a \in DOMAIN finished /\ finished[a] = <<j, t>>
    BY <1>1, <1>2, <1>3
  <2>2. CASE b \in DOMAIN finished
    BY <1>1, <1>3, <2>1, <2>2 DEF Before
  <2>3. CASE b = Len(finished) + 1
    BY <1>1, <2>1, <2>3
  <2> QED
    BY <1>2, <2>2, <2>3
<1>4. ASSUME NEW t \in Slot, t # s, \A i \in DOMAIN finished : finished[i] # <<k, t>>
      PROVE  Before(k, s, t)'
  <2>1. \A i \in DOMAIN finished' : finished'[i] # <<k, t>>
    BY <1>1, <1>2, <1>4
  <2> QED
    BY <2>1 DEF Before
<1>5. ASSUME NEW t \in Slot, t # s,
             NEW a \in DOMAIN finished', NEW b \in DOMAIN finished',
             finished'[a] = <<k, t>>, finished'[b] = <<k, s>>
      PROVE  a < b
  <2>1. a \in DOMAIN finished
    BY <1>1, <1>2, <1>5
  <2>2. b = Len(finished) + 1
    BY <1>1, <1>2, <1>5
  <2> QED
    BY <1>1, <2>1, <2>2
<1>6. \A j \in Key, t, u \in Slot : Before(j, t, u) /\ ~(j = k /\ t = s) => Before(j, t, u)'
  <2> SUFFICES ASSUME NEW j \in Key, NEW t \in Slot, NEW u \in Slot,
                      Before(j, t, u), ~(j = k /\ t = s)
               PROVE  Before(j, t, u)'
    OBVIOUS
  <2>1. \A a, b \in DOMAIN finished' : finished'[a] = <<j, t>> /\ finished'[b] = <<j, u>> => a < b
    BY <1>3
  <2> QED
    BY <2>1 DEF Before
<1>7. \A t \in Slot : t # s => Before(k, t, s)'
  BY <1>5 DEF Before
<1> QED
  BY <1>4, <1>6, <1>7

\* The tracker raises any key; one that it spools down has no job or is overtaken.
LEMMA EnvironmentSteered ==
  ASSUME Structure, Steered, NEW k \in Key,
         Require(k) \/ SpoolsDown(k) \/ PublishRequest(k) \/ Consume(k)
  PROVE  Steered'
<1>1. /\ UNCHANGED <<loop, target, reported, jobs, jobs_by_key, finished>>
      /\ overtaken \subseteq overtaken'
  BY DEF Require, SpoolsDown, SpoolDown, PublishRequest, Consume, Retarget, controller
<1> SUFFICES ASSUME loop = "running", NEW j \in Key \ overtaken' PROVE KeyInv(j)'
  BY <1>1 DEF Steered
<1>2. \/ published'.queues[j] = published.queues[j]
      \/ published'.queues[j] = Active
      \/ Live(j) = {}
  <2>1. CASE j # k \/ PublishRequest(k) \/ Consume(k)
    BY <2>1 DEF Require, SpoolsDown, SpoolDown, PublishRequest, Consume, Retarget, Structure,
                TypeInv, Queues
  <2>2. CASE j = k /\ Require(k)
    BY <2>2 DEF Require, Retarget, Structure, TypeInv, Queues
  <2>3. CASE j = k /\ SpoolsDown(k)
    BY <2>3 DEF SpoolsDown, SpoolDown, Ready
  <2> QED
    BY <2>1, <2>2, <2>3
<1>3. broker'[j].exists = broker[j].exists /\ broker'[j].bound = broker[j].bound
  <2>1. broker[j] \in RequestQueues /\ broker \in [Key -> RequestQueues]
    BY DEF Structure, TypeInv
  <2>2. CASE broker' = broker
    BY <2>2
  <2>3. CASE PublishRequest(k) /\ broker' # broker
    BY <2>1, <2>3 DEF PublishRequest, RequestQueues
  <2>4. CASE Consume(k)
    BY <2>1, <2>4 DEF Consume, RequestQueues
  <2> QED
    BY <2>2, <2>3, <2>4 DEF Require, SpoolsDown, SpoolDown, Retarget
<1>4. \A s, t \in Slot : Before(j, s, t) => Before(j, s, t)'
  BY <1>1 DEF Before
<1> QED
  BY <1>1, <1>2, <1>3, <1>4, KeyUntouched DEF Steered

\* A job that ends well is not current while a former one runs; one that fails
\* or is cancelled dooms its key.
LEMMA EndSteered ==
  ASSUME Structure, Steered, NEW k \in Key, NEW s \in Slot,
         JobReturns(k, s) \/ JobFails(k, s) \/ JobCancelled(k, s)
  PROVE  Steered'
<1>1. PICK how \in Over : /\ Finish(k, s, how)
                          /\ how = "done" => jobs[k][s].sent = 2 /\ jobs[k][s].reply = "ok"
  BY DEF JobReturns, JobFails, JobCancelled, Answered, Over
<1>2. /\ jobs[k][s].state = "running" /\ loop = "running"
      /\ UNCHANGED <<published, loop, target, reported, jobs_by_key, wire, broker, overtaken>>
  BY DEF JobReturns, JobFails, JobCancelled, Runs, channel
<1>3. /\ \A j \in Key, t \in Slot : ~(j = k /\ t = s) => jobs'[j][t] = jobs[j][t]
      /\ jobs'[k][s].state = how /\ jobs'[k][s].status = jobs[k][s].status
      /\ jobs'[k][s].sent = jobs[k][s].sent /\ jobs'[k][s].reply = jobs[k][s].reply
      /\ jobs'[k][s].aborted = jobs[k][s].aborted /\ jobs'[k][s] # NoJob
  <2>1. /\ how \in Over /\ jobs[k][s].state = "running" /\ Finish(k, s, how)
        /\ how = "done" => jobs[k][s].sent = 2 /\ jobs[k][s].reply = "ok"
    BY <1>1, <1>2
  <2> QED
    BY <2>1, FinishStructure
<1>4. jobs[k][s] # NoJob /\ \A i \in DOMAIN finished : finished[i] # <<k, s>>
  BY <1>2 DEF Structure, FinishedListed, Over, NoJob
<1>5. /\ \A j \in Key, t, u \in Slot :
           Before(j, t, u) /\ ~(j = k /\ t = s) => Before(j, t, u)'
      /\ \A t \in Slot : (\A i \in DOMAIN finished : finished[i] # <<k, t>>) /\ t # s
                           => Before(k, s, t)'
      /\ \A t \in Slot : t # s => Before(k, t, s)'
  <2>1. finished' = Append(finished, <<k, s>>)
    BY <1>1 DEF Finish
  <2> QED
    BY <1>4, <2>1, FinishKeepsOrder DEF Structure
<1>6. \A j \in Key \ (overtaken \cup {k}) : KeyInv(j)'
  <2> SUFFICES ASSUME NEW j \in Key \ (overtaken \cup {k}) PROVE KeyInv(j)'
    OBVIOUS
  <2>1. \A t \in Slot : jobs'[j][t] = jobs[j][t]
    BY <1>3
  <2>2. \A t, u \in Slot : Before(j, t, u) => Before(j, t, u)'
    BY <1>5
  <2>3. KeyInv(j)
    BY <1>2 DEF Steered
  <2> QED
    BY <1>2, <2>1, <2>2, <2>3, KeyUntouched
<1> SUFFICES ASSUME k \notin overtaken PROVE KeyInv(k)'
  BY <1>2, <1>6 DEF Steered
<1>7. /\ \A t \in Slot : Current(k, t)' <=> Current(k, t)
      /\ \A t \in Slot : Former(k, t)' <=> Former(k, t)
      /\ Live(k)' = Live(k) /\ Harmless(k)' /\ Settled(k)'
  <2>1. KeyInv(k)
    BY <1>2 DEF Steered
  <2>2. \A t \in Slot :
          \/ jobs'[k][t] = jobs[k][t]
          \/ /\ jobs[k][t] # NoJob /\ jobs'[k][t] # NoJob
             /\ jobs'[k][t].status = jobs[k][t].status
             /\ jobs'[k][t].aborted = jobs[k][t].aborted
             /\ jobs'[k][t].state = "running" => jobs[k][t].state = "running"
    BY <1>2, <1>3, <1>4
  <2> QED
    BY <1>2, <2>1, <2>2, JobsMove
<1>8. ASSUME ~Doomed(k)' PROVE Converges(k)'
  <2>1. how = "done" /\ jobs[k][s].sent = 2 /\ jobs[k][s].reply = "ok"
    BY <1>1, <1>3, <1>8 DEF Doomed, Over
  <2>2. Converges(k) /\ OneCurrent(k)
    <3>1. \A t \in Slot : jobs[k][t].state \in {"failed", "cancelled"} =>
                            jobs'[k][t].state \in {"failed", "cancelled"}
      BY <1>2, <1>3
    <3> QED
      BY <1>2, <1>8, <3>1 DEF Steered, KeyInv, Harmless, Doomed
  <2>3. SomeCurrent(k)'
    BY <1>7, <2>2 DEF Converges, SomeCurrent
  <2>4. ASSUME NEW t \in Slot, Former(k, t), jobs[k][t].state = "running" PROVE ~Current(k, s)
    BY <2>1, <2>2, <2>4 DEF Converges, WaitsForFormer
  <2>5. WaitsForFormer(k)'
    <3> SUFFICES ASSUME NEW t \in Slot, NEW u \in Slot,
                        Former(k, t), jobs'[k][t].state = "running", Current(k, u)
                 PROVE  /\ jobs'[k][u].state = "running" /\ jobs'[k][u].sent <= 1
                        /\ jobs'[k][u].reply = "none"
      BY <1>7 DEF WaitsForFormer
    <3>1. t # s /\ jobs'[k][t] = jobs[k][t]
      BY <1>3, <2>1
    <3>2. u # s /\ jobs'[k][u] = jobs[k][u]
      BY <1>3, <2>4, <3>1
    <3> QED
      BY <2>2, <3>1, <3>2 DEF Converges, WaitsForFormer
  <2>6. FormerFirst(k)'
    <3> SUFFICES ASSUME NEW t \in Slot, NEW u \in Slot, Former(k, t), Current(k, u)
                 PROVE  Before(k, t, u)'
      BY <1>7 DEF FormerFirst
    <3>0. t # u /\ Before(k, t, u)
      BY <2>2 DEF Converges, FormerFirst, Former, Current
    <3>1. CASE t = s
      <4>1. jobs[k][u].state = "running"
        BY <1>2, <2>2, <3>1 DEF Converges, WaitsForFormer
      <4>2. \A i \in DOMAIN finished : finished[i] # <<k, u>>
        BY <4>1 DEF Structure, FinishedListed, Over
      <4> QED
        BY <1>5, <3>0, <3>1, <4>2
    <3>2. CASE t # s
      BY <1>5, <3>0, <3>2
    <3> QED
      BY <3>1, <3>2
  <2>7. QueueFollows(k)'
    <3> SUFFICES ASSUME NEW t \in Slot, Current(k, t)
                 PROVE  /\ (jobs'[k][t].sent = 2 \/ jobs'[k][t].reply = "ok")
                           /\ jobs'[k][t].status # None => broker[k].exists
                        /\ jobs'[k][t].sent = 2 /\ jobs'[k][t].reply = "ok"
                             => InState(broker[k], jobs'[k][t].status)
      BY <1>2, <1>7 DEF QueueFollows, InState
    <3>1. /\ jobs'[k][t].sent = jobs[k][t].sent /\ jobs'[k][t].reply = jobs[k][t].reply
          /\ jobs'[k][t].status = jobs[k][t].status
      BY <1>3
    <3> QED
      BY <2>2, <3>1 DEF Converges, QueueFollows
  <2> QED
    BY <2>3, <2>5, <2>6, <2>7 DEF Converges
<1> QED
  BY <1>7, <1>8 DEF KeyInv

\* A job that goes on is current; an aborted one dooms its key.
LEMMA SendSteered ==
  ASSUME Structure, Steered, NEW k \in Key, NEW s \in Slot, JobSends(k, s)
  PROVE  Steered'
<1>1. /\ jobs[k][s].state = "running" /\ loop = "running" /\ jobs[k][s] # NoJob
      /\ (jobs[k][s].sent = 0 \/ jobs[k][s].reply = "ok")
      /\ UNCHANGED <<published, loop, target, reported, jobs_by_key, broker, overtaken>>
  BY DEF JobSends, Runs, Answered, NoJob
<1>2. CASE jobs[k][s].aborted
  <2>1. Finish(k, s, "cancelled") /\ "cancelled" \in Over
    BY <1>2 DEF JobSends, Over
  <2>2. /\ \A j \in Key, t \in Slot : ~(j = k /\ t = s) => jobs'[j][t] = jobs[j][t]
        /\ jobs'[k][s].state = "cancelled" /\ jobs'[k][s].status = jobs[k][s].status
        /\ jobs'[k][s].aborted = jobs[k][s].aborted /\ jobs'[k][s] # NoJob
    BY <1>1, <2>1, FinishStructure
  <2>3. \A j \in Key, t, u \in Slot : Before(j, t, u) /\ j # k => Before(j, t, u)'
    <3>1. finished' = Append(finished, <<k, s>>) /\ \A i \in DOMAIN finished : finished[i] # <<k, s>>
      BY <1>1, <2>1 DEF Finish, Structure, FinishedListed, Over
    <3> QED
      BY <3>1, FinishKeepsOrder DEF Structure
  <2>4. ASSUME NEW j \in Key \ (overtaken \cup {k}) PROVE KeyInv(j)'
    <3>1. KeyInv(j) /\ \A t \in Slot : jobs'[j][t] = jobs[j][t]
      BY <1>1, <2>2 DEF Steered
    <3>2. \A t, u \in Slot : Before(j, t, u) => Before(j, t, u)'
      BY <2>3
    <3> QED
      BY <1>1, <3>1, <3>2, KeyUntouched
  <2> SUFFICES ASSUME k \notin overtaken PROVE KeyInv(k)'
    BY <1>1, <2>4 DEF Steered
  <2>5. Harmless(k)' /\ Settled(k)'
    <3>1. KeyInv(k)
      BY <1>1 DEF Steered
    <3>2. \A t \in Slot :
            \/ jobs'[k][t] = jobs[k][t]
            \/ /\ jobs[k][t] # NoJob /\ jobs'[k][t] # NoJob
               /\ jobs'[k][t].status = jobs[k][t].status
               /\ jobs'[k][t].aborted = jobs[k][t].aborted
               /\ jobs'[k][t].state = "running" => jobs[k][t].state = "running"
      BY <1>1, <2>2
    <3> QED
      BY <1>1, <3>1, <3>2, JobsMove
  <2> QED
    BY <2>2, <2>5 DEF KeyInv, Doomed
<1>3. CASE ~jobs[k][s].aborted
  <2>1. /\ finished' = finished
        /\ \A j \in Key, t \in Slot : ~(j = k /\ t = s) => jobs'[j][t] = jobs[j][t]
        /\ jobs[k][s].sent \in {0, 1} /\ jobs'[k][s].sent = jobs[k][s].sent + 1
        /\ jobs'[k][s] # NoJob /\ jobs'[k][s].state = "running"
        /\ jobs'[k][s].status = jobs[k][s].status /\ jobs'[k][s].reply = "none"
        /\ jobs'[k][s].aborted = jobs[k][s].aborted
    BY <1>3, SendFacts
  <2>2. \A j \in Key, t, u \in Slot : Before(j, t, u) => Before(j, t, u)'
    BY <2>1 DEF Before
  <2>3. ASSUME NEW j \in Key \ (overtaken \cup {k}) PROVE KeyInv(j)'
    <3>1. KeyInv(j) /\ \A t \in Slot : jobs'[j][t] = jobs[j][t]
      BY <1>1, <2>1 DEF Steered
    <3> QED
      BY <1>1, <2>2, <3>1, KeyUntouched
  <2> SUFFICES ASSUME k \notin overtaken PROVE KeyInv(k)'
    BY <1>1, <2>3 DEF Steered
  <2>4. /\ \A t \in Slot : Current(k, t)' <=> Current(k, t)
        /\ \A t \in Slot : Former(k, t)' <=> Former(k, t)
        /\ Live(k)' = Live(k) /\ Harmless(k)' /\ Settled(k)'
    <3>1. KeyInv(k)
      BY <1>1 DEF Steered
    <3>2. \A t \in Slot :
            \/ jobs'[k][t] = jobs[k][t]
            \/ /\ jobs[k][t] # NoJob /\ jobs'[k][t] # NoJob
               /\ jobs'[k][t].status = jobs[k][t].status
               /\ jobs'[k][t].aborted = jobs[k][t].aborted
               /\ jobs'[k][t].state = "running" => jobs[k][t].state = "running"
      BY <1>1, <2>1
    <3> QED
      BY <1>1, <3>1, <3>2, JobsMove
  <2>5. Current(k, s) /\ OneCurrent(k)
    BY <1>1, <1>3 DEF Steered, KeyInv, Harmless, WorksForTarget
  <2>6. ASSUME ~Doomed(k)' PROVE Converges(k)'
    <3>1. Converges(k)
      <4>1. \A t \in Slot : jobs[k][t].state \in {"failed", "cancelled"} =>
                              jobs'[k][t].state \in {"failed", "cancelled"}
        BY <1>1, <2>1
      <4> QED
        BY <1>1, <2>6, <4>1 DEF Steered, KeyInv, Doomed
    <3>2. SomeCurrent(k)' /\ FormerFirst(k)'
      BY <2>2, <2>4, <3>1 DEF Converges, SomeCurrent, FormerFirst
    <3>3. WaitsForFormer(k)'
      <4> SUFFICES ASSUME NEW t \in Slot, NEW u \in Slot,
                          Former(k, t), jobs'[k][t].state = "running", Current(k, u)
                   PROVE  /\ jobs'[k][u].state = "running" /\ jobs'[k][u].sent <= 1
                          /\ jobs'[k][u].reply = "none"
        BY <2>4 DEF WaitsForFormer
      <4>1. u = s /\ t # s
        BY <2>5 DEF OneCurrent, Former, Current
      <4>2. jobs[k][s].sent <= 1 /\ jobs[k][s].reply = "none"
        BY <2>1, <3>1, <4>1 DEF Converges, WaitsForFormer
      <4> QED
        BY <1>1, <2>1, <4>1, <4>2
    <3>4. QueueFollows(k)'
      <4> SUFFICES ASSUME NEW t \in Slot, Current(k, t)
                   PROVE  /\ (jobs'[k][t].sent = 2 \/ jobs'[k][t].reply = "ok")
                             /\ jobs'[k][t].status # None => broker[k].exists
                          /\ ~(jobs'[k][t].sent = 2 /\ jobs'[k][t].reply = "ok")
        BY <1>1, <2>4 DEF QueueFollows
      <4>1. t = s
        BY <2>5 DEF OneCurrent
      <4>2. jobs'[k][s].sent = 2 => jobs[k][s].reply = "ok"
        BY <1>1, <2>1
      <4> QED
        BY <2>1, <2>5, <3>1, <4>1, <4>2 DEF Converges, QueueFollows
    <3> QED
      BY <3>2, <3>3, <3>4 DEF Converges
  <2> QED
    BY <2>4, <2>6 DEF KeyInv
<1> QED
  BY <1>2, <1>3

\* When the broker answers, no aborted job runs: whoever runs is current.
LEMMA PollsOverMeansCurrent ==
  ASSUME Steered, loop = "running", PollsOver, NEW k \in Key \ overtaken
  PROVE  \A s \in Slot : jobs[k][s].state = "running" => Current(k, s) /\ ~Former(k, s)
<1>1. \A s \in Slot : jobs[k][s].state = "running" => ~jobs[k][s].aborted
  BY DEF PollsOver, Runs
<1> QED
  BY <1>1 DEF Steered, KeyInv, Harmless, WorksForTarget, Current, Former

LEMMA RefuseSteered ==
  ASSUME Structure, Steered, BrokerRefuses
  PROVE  Steered'
<1>1. /\ \A k \in Key, s \in Slot :
           \/ jobs'[k][s] = jobs[k][s]
           \/ /\ jobs[k][s].state = "running" /\ jobs[k][s].sent > 0
              /\ jobs[k][s].reply = "none"
              /\ jobs'[k][s] # NoJob /\ jobs'[k][s].state = jobs[k][s].state
              /\ jobs'[k][s].status = jobs[k][s].status /\ jobs'[k][s].sent = jobs[k][s].sent
              /\ jobs'[k][s].aborted = jobs[k][s].aborted /\ jobs'[k][s].reply = "error"
      /\ PollsOver
      /\ UNCHANGED <<published, loop, target, reported, jobs_by_key, finished, broker>>
  BY RefuseFacts
<1> SUFFICES ASSUME loop = "running", NEW k \in Key \ overtaken PROVE KeyInv(k)'
  BY <1>1 DEF Steered, BrokerRefuses
<1>2. \A s \in Slot : jobs[k][s].state = "running" => Current(k, s) /\ ~Former(k, s)
  BY <1>1, PollsOverMeansCurrent
<1>3. /\ \A s \in Slot : Current(k, s)' <=> Current(k, s)
      /\ \A s \in Slot : Former(k, s)' <=> Former(k, s)
      /\ Live(k)' = Live(k) /\ Harmless(k)' /\ Settled(k)'
  <2>1. KeyInv(k)
    BY DEF Steered
  <2>2. \A s \in Slot : jobs[k][s].state = "running" => jobs[k][s] # NoJob
    BY DEF NoJob
  <2>3. \A s \in Slot :
          \/ jobs'[k][s] = jobs[k][s]
          \/ /\ jobs[k][s] # NoJob /\ jobs'[k][s] # NoJob
             /\ jobs'[k][s].status = jobs[k][s].status
             /\ jobs'[k][s].aborted = jobs[k][s].aborted
             /\ jobs'[k][s].state = "running" => jobs[k][s].state = "running"
    BY <1>1, <2>2
  <2> QED
    BY <1>1, <2>1, <2>3, JobsMove
<1>4. \A s \in Slot : jobs'[k][s].state = jobs[k][s].state
  BY <1>1
<1>5. ASSUME ~Doomed(k)' PROVE Converges(k)'
  <2>1. Converges(k)
    BY <1>4, <1>5 DEF Steered, KeyInv, Doomed
  <2>2. \A s, t \in Slot : Before(k, s, t) => Before(k, s, t)'
    BY <1>1 DEF Before
  <2>3. SomeCurrent(k)' /\ FormerFirst(k)'
    BY <1>3, <2>1, <2>2 DEF Converges, SomeCurrent, FormerFirst
  <2>4. WaitsForFormer(k)'
    BY <1>2, <1>3, <1>4 DEF WaitsForFormer
  <2>5. QueueFollows(k)'
    <3>1. \A s \in Slot :
            /\ jobs'[k][s].sent = jobs[k][s].sent /\ jobs'[k][s].status = jobs[k][s].status
            /\ jobs'[k][s].reply = "error" \/ jobs'[k][s].reply = jobs[k][s].reply
      BY <1>1
    <3>2. broker' = broker
      BY <1>1
    <3>3. QueueFollows(k)
      BY <2>1 DEF Converges
    <3>4. \A s \in Slot : Current(k, s)' => Current(k, s)
      BY <1>3
    <3> QED
      BY <3>1, <3>2, <3>3, <3>4 DEF QueueFollows, InState
  <2> QED
    BY <2>3, <2>4, <2>5 DEF Converges
<1> QED
  BY <1>3, <1>5 DEF KeyInv

\* The executed command is the current job's, unless its key is doomed.
LEMMA ExecuteSteered ==
  ASSUME Structure, Steered, BrokerExecutes
  PROVE  Steered'
<1>1. PICK k \in Key, s \in Slot :
        /\ wire # <<>> /\ wire[1].key = k /\ wire[1].slot = s
        /\ wire[1] \in CommandRecords /\ jobs[k][s] # NoJob /\ PollsOver
        /\ \A j \in Key \ {k} : broker'[j] = broker[j]
        /\ broker'[k] = Executed(wire[1], broker[k])
        /\ broker[k] \in RequestQueues /\ (broker[k].bound \/ broker[k].msgs > 0 => broker[k].exists)
        /\ ~(wire[1].op = "bind" /\ ~broker[k].exists)
        /\ ~(wire[1].op = "delete_if_empty" /\ broker[k].exists /\ broker[k].msgs > 0)
        /\ \A j \in Key, t \in Slot : ~(j = k /\ t = s) => jobs'[j][t] = jobs[j][t]
        /\ jobs'[k][s] # NoJob /\ jobs'[k][s].state = jobs[k][s].state
        /\ jobs'[k][s].status = jobs[k][s].status /\ jobs'[k][s].sent = jobs[k][s].sent
        /\ jobs'[k][s].aborted = jobs[k][s].aborted
        /\ jobs[k][s].state = "running" => jobs'[k][s].reply = "ok"
        /\ UNCHANGED <<published, loop, target, reported, jobs_by_key, finished>>
  BY ExecuteFacts
<1> SUFFICES ASSUME loop = "running" PROVE \A j \in Key \ overtaken : KeyInv(j)'
  BY <1>1 DEF Steered, BrokerExecutes
<1>2. \A j \in Key, t, u \in Slot : Before(j, t, u) => Before(j, t, u)'
  BY <1>1 DEF Before
<1>3. ASSUME NEW j \in Key \ (overtaken \cup {k}) PROVE KeyInv(j)'
  <2>1. /\ KeyInv(j) /\ \A t \in Slot : jobs'[j][t] = jobs[j][t]
        /\ broker'[j] = broker[j]
    BY <1>1 DEF Steered
  <2> QED
    BY <1>1, <1>2, <2>1, KeyUntouched
<1> SUFFICES ASSUME k \notin overtaken PROVE KeyInv(k)'
  BY <1>3
<1>4. /\ \A t \in Slot : Current(k, t)' <=> Current(k, t)
      /\ \A t \in Slot : Former(k, t)' <=> Former(k, t)
      /\ Live(k)' = Live(k) /\ Harmless(k)' /\ Settled(k)'
  <2>1. KeyInv(k) /\ Live(k) # {}
    BY <1>1 DEF Steered, Live
  <2>2. \A t \in Slot :
          \/ jobs'[k][t] = jobs[k][t]
          \/ /\ jobs[k][t] # NoJob /\ jobs'[k][t] # NoJob
             /\ jobs'[k][t].status = jobs[k][t].status
             /\ jobs'[k][t].aborted = jobs[k][t].aborted
             /\ jobs'[k][t].state = "running" => jobs[k][t].state = "running"
    BY <1>1
  <2> QED
    BY <1>1, <2>1, <2>2, JobsMove
<1>5. ASSUME ~Doomed(k)' PROVE Converges(k)'
  <2>1. Converges(k) /\ OneCurrent(k) /\ jobs[k][s].state \notin {"failed", "cancelled"}
    <3>1. \A t \in Slot : jobs'[k][t].state = jobs[k][t].state
      BY <1>1
    <3> QED
      BY <1>5, <3>1 DEF Steered, KeyInv, Harmless, Doomed
  <2>2. /\ jobs[k][s].state = "running" /\ jobs[k][s].sent > 0 /\ jobs[k][s].reply = "none"
        /\ wire[1].op = Commands(jobs[k][s].status)[jobs[k][s].sent]
    <3>1. 1 \in DOMAIN wire
      BY <1>1 DEF Structure, TypeInv
    <3> QED
      BY <1>1, <2>1, <3>1 DEF Structure, WireOwned
  <2>3. \A t \in Slot : jobs[k][t].state = "running" => Current(k, t) /\ ~Former(k, t)
    BY <1>1, PollsOverMeansCurrent
  <2>4. SomeCurrent(k)' /\ FormerFirst(k)'
    BY <1>2, <1>4, <2>1 DEF Converges, SomeCurrent, FormerFirst
  <2>5. WaitsForFormer(k)'
    <3>1. \A t \in Slot : jobs'[k][t].state = jobs[k][t].state
      BY <1>1
    <3> QED
      BY <1>4, <2>3, <3>1 DEF WaitsForFormer
  <2>6. /\ wire[1].op = "declare" => broker'[k].exists
        /\ wire[1].op = "bind" => broker'[k].exists /\ broker'[k].bound
        /\ wire[1].op = "unbind" => broker'[k].exists = broker[k].exists /\ ~broker'[k].bound
        /\ wire[1].op = "delete_if_empty" => ~broker'[k].exists
    BY <1>1, ExecutedQueue
  <2>7. /\ jobs[k][s].status \in OptionStatus /\ jobs[k][s].sent \in {1, 2}
        /\ jobs[k][s].sent = 2 /\ jobs[k][s].status # None => broker[k].exists
    <3>1. jobs[k][s].status \in OptionStatus /\ jobs[k][s].sent \in 0..2
      BY <1>1, JobTypes DEF Structure
    <3> QED
      BY <2>1, <2>2, <2>3, <3>1 DEF Converges, QueueFollows
  <2>8. QueueFollows(k)'
    <3> SUFFICES ASSUME NEW t \in Slot, Current(k, t)
                 PROVE  /\ (jobs'[k][t].sent = 2 \/ jobs'[k][t].reply = "ok")
                           /\ jobs'[k][t].status # None => broker'[k].exists
                        /\ jobs'[k][t].sent = 2 /\ jobs'[k][t].reply = "ok"
                             => InState(broker'[k], jobs'[k][t].status)
      BY <1>4 DEF QueueFollows, InState
    <3>1. t = s
      BY <2>1, <2>2, <2>3 DEF OneCurrent
    <3>2. jobs'[k][s].status = jobs[k][s].status /\ jobs'[k][s].sent = jobs[k][s].sent
      BY <1>1
    <3>3. CASE jobs[k][s].status = Active
      <4>1. IF jobs[k][s].sent = 1 THEN wire[1].op = "declare" ELSE wire[1].op = "bind"
        BY <2>2, <2>7, <3>3 DEF Commands, Active, Unbound, None
      <4>2. broker'[k].exists /\ (jobs[k][s].sent = 2 => broker'[k].bound)
        BY <2>6, <2>7, <4>1
      <4> QED
        BY <3>1, <3>2, <3>3, <4>2 DEF InState, Active, Unbound, None
    <3>4. CASE jobs[k][s].status = Unbound
      <4>1. IF jobs[k][s].sent = 1 THEN wire[1].op = "declare" ELSE wire[1].op = "unbind"
        BY <2>2, <2>7, <3>4 DEF Commands, Active, Unbound, None
      <4>2. broker'[k].exists /\ (jobs[k][s].sent = 2 => ~broker'[k].bound)
        BY <2>6, <2>7, <3>4, <4>1 DEF Unbound, None
      <4> QED
        BY <3>1, <3>2, <3>4, <4>2 DEF InState, Active, Unbound, None
    <3>5. CASE jobs[k][s].status = None
      <4>1. jobs[k][s].sent = 2 => wire[1].op = "delete_if_empty"
        BY <2>2, <2>7, <3>5 DEF Commands, Active, Unbound, None
      <4> QED
        BY <2>6, <3>1, <3>2, <3>5, <4>1 DEF InState, Active, Unbound, None
    <3> QED
      BY <2>7, <3>3, <3>4, <3>5 DEF OptionStatus
  <2> QED
    BY <2>4, <2>5, <2>8 DEF Converges
<1> QED
  BY <1>4, <1>5 DEF KeyInv

\* The job that is joined leaves its key settled when it was the last one.
LEMMA JoinSteered ==
  ASSUME Structure, Steered, JoinJob
  PROVE  Steered'
<1>1. PICK k \in Key, s \in Slot :
        /\ finished # <<>> /\ finished[1] = <<k, s>> /\ finished' = Tail(finished)
        /\ jobs[k][s].state = "done" /\ jobs'[k][s] = NoJob
        /\ \A j \in Key, t \in Slot : ~(j = k /\ t = s) => jobs'[j][t] = jobs[j][t]
        /\ \A j \in Key \ {k} : jobs_by_key'[j] = jobs_by_key[j]
        /\ reported'.target_generation = reported.target_generation
        /\ reported'.queues[k] = jobs[k][s].status
        /\ \A j \in Key \ {k} : reported'.queues[j] = reported.queues[j]
        /\ UNCHANGED <<published, loop, target, wire, broker>>
  BY JoinFacts
<1> SUFFICES ASSUME loop = "running" PROVE \A j \in Key \ overtaken : KeyInv(j)'
  BY <1>1 DEF Steered, JoinJob
<1>2. /\ Len(finished) \in Nat /\ DOMAIN finished = 1..Len(finished) /\ 1 \in DOMAIN finished
      /\ DOMAIN finished' = 1..(Len(finished) - 1)
      /\ \A i \in DOMAIN finished' : i + 1 \in DOMAIN finished /\ finished'[i] = finished[i + 1]
  BY <1>1 DEF Structure, TypeInv
<1>3. ASSUME NEW j \in Key, NEW t \in Slot, NEW u \in Slot, Before(j, t, u)
      PROVE  Before(j, t, u)'
  <2> SUFFICES ASSUME NEW a \in DOMAIN finished', NEW b \in DOMAIN finished',
                      finished'[a] = <<j, t>>, finished'[b] = <<j, u>>
               PROVE  a < b
    BY DEF Before
  <2>1. a + 1 < b + 1
    BY <1>2, <1>3 DEF Before
  <2> QED
    BY <1>2, <2>1
<1>4. ASSUME NEW j \in Key \ (overtaken \cup {k}) PROVE KeyInv(j)'
  <2>1. /\ KeyInv(j) /\ \A t \in Slot : jobs'[j][t] = jobs[j][t]
        /\ \A t, u \in Slot : Before(j, t, u) => Before(j, t, u)'
    BY <1>1, <1>3 DEF Steered
  <2> QED
    BY <1>1, <2>1, KeyUntouched
<1> SUFFICES ASSUME k \notin overtaken PROVE KeyInv(k)'
  BY <1>4
<1>5. KeyInv(k) /\ Harmless(k)
  BY DEF Steered, KeyInv
<1>6. /\ \A t \in Slot : t # s => jobs'[k][t] = jobs[k][t]
      /\ \A t \in Slot : Current(k, t)' <=> Current(k, t) /\ t # s
      /\ \A t \in Slot : Former(k, t)' <=> Former(k, t) /\ t # s
      /\ Live(k)' = Live(k) \ {s} /\ Live(k) # {}
      /\ (Doomed(k)' <=> Doomed(k))
  <2>1. jobs[k][s] # NoJob /\ NoJob.state = "none"
    BY <1>1 DEF NoJob
  <2>2. \A t \in Slot : t # s => jobs'[k][t] = jobs[k][t]
    BY <1>1
  <2>3. /\ \A t \in Slot : Current(k, t)' <=> Current(k, t) /\ t # s
        /\ \A t \in Slot : Former(k, t)' <=> Former(k, t) /\ t # s
    BY <1>1, <2>2 DEF Current, Former
  <2>4. Live(k)' = Live(k) \ {s} /\ Live(k) # {}
    BY <1>1, <2>1, <2>2 DEF Live
  <2>5. Doomed(k)' <=> Doomed(k)
    BY <1>1, <2>1, <2>2 DEF Doomed
  <2> QED
    BY <2>2, <2>3, <2>4, <2>5
<1>7. ASSUME ~Doomed(k), Current(k, s) PROVE Live(k)' = {}
  <2> SUFFICES ASSUME NEW t \in Slot, t # s, jobs[k][t] # NoJob PROVE FALSE
    BY <1>6 DEF Live
  <2>1. Former(k, t)
    BY <1>5, <1>7 DEF Harmless, OneCurrent, Former, Current
  <2>2. jobs[k][t].state # "running"
    BY <1>1, <1>5, <1>7, <2>1 DEF KeyInv, Converges, WaitsForFormer
  <2>3. jobs[k][t].state \in Over
    BY <2>2, JobTypes DEF Structure
  <2>4. PICK i \in DOMAIN finished : finished[i] = <<k, t>>
    BY <2>3 DEF Structure, FinishedListed
  <2>5. i < 1
    BY <1>1, <1>2, <1>5, <1>7, <2>1, <2>4 DEF KeyInv, Converges, FormerFirst, Before
  <2> QED
    BY <1>2, <2>5
<1>8. ~Doomed(k) => Converges(k)
  BY <1>5 DEF KeyInv
<1>9. Harmless(k)'
  <2>1. OnlyRaised(k)' /\ OneCurrent(k)'
    BY <1>1, <1>5, <1>6 DEF Harmless, OnlyRaised, OneCurrent
  <2>2. WorksForTarget(k)'
    <3>1. jobs'[k][s].state # "running"
      BY <1>1 DEF NoJob
    <3> QED
      BY <1>5, <1>6, <3>1 DEF Harmless, WorksForTarget
  <2>3. LoweredIsAbortable(k)'
    <3> SUFFICES ASSUME target.queues[k] # Active, NEW t \in Slot, jobs'[k][t] # NoJob PROVE FALSE
      BY <1>1 DEF LoweredIsAbortable
    <3>1. t # s /\ jobs[k][t] # NoJob /\ jobs[k][s] # NoJob
      BY <1>1, <1>6 DEF NoJob
    <3>2. Current(k, t) /\ Current(k, s)
      BY <1>5, <3>1 DEF Harmless, LoweredIsAbortable
    <3> QED
      BY <1>5, <3>1, <3>2 DEF Harmless, OneCurrent
  <2> QED
    BY <2>1, <2>2, <2>3 DEF Harmless
<1>10. Settled(k)'
  <2> SUFFICES ASSUME Live(k)' = {}
               PROVE  /\ reported'.queues[k] = target.queues[k]
                      /\ InState(broker[k], target.queues[k])
    BY <1>1 DEF Settled, InState
  <2>1. \A t \in Slot : t # s => jobs[k][t] = NoJob
    BY <1>6 DEF Live
  <2>2. ~Doomed(k)
    BY <1>1, <2>1 DEF Doomed, NoJob
  <2>3. Current(k, s)
    BY <1>6, <1>8, <2>1, <2>2 DEF Converges, SomeCurrent, Current
  <2>4. jobs[k][s].sent = 2 /\ jobs[k][s].reply = "ok"
    BY <1>1 DEF Structure, AnswersFit
  <2> QED
    BY <1>1, <1>8, <2>2, <2>3, <2>4 DEF Converges, QueueFollows, Current
<1>11. ASSUME ~Doomed(k)' PROVE Converges(k)'
  <2>1. Converges(k) /\ ~Doomed(k)
    BY <1>6, <1>8, <1>11
  <2>2. SomeCurrent(k)'
    <3> SUFFICES ASSUME Live(k)' # {} PROVE \E t \in Slot : Current(k, t)'
      BY DEF SomeCurrent
    <3>1. PICK t \in Slot : Current(k, t)
      BY <1>6, <2>1 DEF Converges, SomeCurrent
    <3>2. t # s
      BY <1>7, <2>1, <3>1
    <3> QED
      BY <1>6, <3>1, <3>2
  <2>3. WaitsForFormer(k)'
    BY <1>6, <2>1 DEF Converges, WaitsForFormer
  <2>4. FormerFirst(k)'
    BY <1>3, <1>6, <2>1 DEF Converges, FormerFirst
  <2>5. QueueFollows(k)'
    BY <1>1, <1>6, <2>1, ZenonT(30) DEF Converges, QueueFollows, InState
  <2> QED
    BY <2>2, <2>3, <2>4, <2>5 DEF Converges
<1> QED
  BY <1>9, <1>10, <1>11 DEF KeyInv

\* The new job is the current one. Unless the key has no other job it is raised
\* to Active, and its only running job is at hand and gets aborted.
LEMMA RetargetSteered ==
  ASSUME Structure, Steered, TargetChanged
  PROVE  Steered'
<1>1. /\ loop = "running" /\ target' = published
      /\ UNCHANGED <<published, loop, finished, broker, overtaken>>
      /\ reported' = [reported EXCEPT !.target_generation = published.generation]
  BY DEF TargetChanged
<1>2. reported'.target_generation = target'.generation /\ reported'.queues = reported.queues
  BY <1>1 DEF Structure, TypeInv
<1>3. \A k \in Key, s, t \in Slot : Before(k, s, t) => Before(k, s, t)'
  BY <1>1 DEF Before
<1>4. ASSUME NEW k \in Key \ overtaken, published.queues[k] = target.queues[k] PROVE KeyInv(k)'
  <2>1. jobs'[k] = jobs[k] /\ jobs_by_key'[k] = jobs_by_key[k]
    BY <1>4 DEF TargetChanged
  <2>2. KeyInv(k)
    BY <1>1 DEF Steered
  <2>3. target'.queues[k] = target.queues[k] /\ published'.queues[k] = published.queues[k]
    BY <1>1, <1>4
  <2> QED
    BY <1>1, <1>2, <1>3, <2>1, <2>2, <2>3, KeyUntouched
<1>5. ASSUME NEW k \in Key \ overtaken, published.queues[k] # target.queues[k] PROVE KeyInv(k)'
  <2>1. PICK n \in Slot :
          /\ jobs[k][n] = NoJob /\ jobs_by_key'[k] = n /\ jobs'[k][n] # NoJob
          /\ jobs'[k][n].state = "running" /\ jobs'[k][n].status = published.queues[k]
          /\ jobs'[k][n].sent = 0 /\ jobs'[k][n].reply = "none" /\ ~jobs'[k][n].aborted
          /\ \A s \in Slot \ {n} :
               \/ /\ jobs'[k][s] = jobs[k][s]
                  /\ s # jobs_by_key[k] \/ jobs[k][s].state # "running"
               \/ /\ jobs[k][s].state = "running" /\ jobs'[k][s].state = "running"
                  /\ jobs'[k][s] # NoJob /\ jobs'[k][s].status = jobs[k][s].status
                  /\ jobs'[k][s].aborted
    BY <1>5, RespawnFacts
  <2>2. Harmless(k)
    BY <1>1 DEF Steered, KeyInv
  <2>3. ASSUME NEW s \in Slot \ {n}, jobs'[k][s] # NoJob
        PROVE  /\ published.queues[k] = Active /\ jobs'[k][s].status # published.queues[k]
               /\ jobs'[k][s].state = "running" => jobs'[k][s].aborted
    <3>1. jobs[k][s] # NoJob
      BY <2>1, <2>3 DEF NoJob
    <3>2. published.queues[k] = Active
      BY <1>5, <2>2, <3>1 DEF Harmless, OnlyRaised, Live
    <3>3. /\ jobs[k][s].status = target.queues[k]
          /\ jobs[k][s].state = "running" /\ ~jobs[k][s].aborted => jobs_by_key[k] = s
      BY <1>5, <2>2, <3>1, <3>2 DEF Harmless, LoweredIsAbortable, Current
    <3> QED
      BY <1>5, <2>1, <3>2, <3>3
  <2>4. /\ \A s \in Slot : Current(k, s)' <=> s = n
        /\ \A s \in Slot : Former(k, s)' <=> s # n /\ jobs'[k][s] # NoJob
    BY <1>1, <2>1, <2>3 DEF Current, Former
  <2>5. OnlyRaised(k)' /\ OneCurrent(k)'
    BY <1>1, <2>4 DEF OnlyRaised, OneCurrent
  <2>6. LoweredIsAbortable(k)'
    BY <1>1, <2>1, <2>3, <2>4 DEF LoweredIsAbortable
  <2>7. WorksForTarget(k)'
    <3>1. \A s \in Slot : jobs'[k][s].state = "running" => jobs'[k][s] # NoJob
      BY DEF NoJob
    <3> QED
      BY <2>3, <2>4, <3>1 DEF WorksForTarget
  <2>8. Live(k)' # {}
    BY <2>1 DEF Live
  <2>9. Settled(k)' /\ SomeCurrent(k)'
    BY <2>4, <2>8 DEF Settled, SomeCurrent
  <2>10. WaitsForFormer(k)' /\ QueueFollows(k)'
    BY <2>1, <2>4 DEF WaitsForFormer, QueueFollows
  <2>11. FormerFirst(k)'
    <3>1. \A i \in DOMAIN finished : finished[i] # <<k, n>>
      BY <2>1 DEF Structure, FinishedListed, NoJob, Over
    <3> QED
      BY <1>1, <2>4, <3>1 DEF FormerFirst, Before
  <2> QED
    BY <2>5, <2>6, <2>7, <2>9, <2>10, <2>11 DEF KeyInv, Harmless, Converges
<1> QED
  BY <1>1, <1>2, <1>4, <1>5 DEF Steered

\* A reconnection starts one job for each key that is not settled already.
LEMMA ReconnectSteered ==
  ASSUME Structure, Reconnect
  PROVE  Steered'
<1>1. /\ target' = published /\ finished' = <<>> /\ UNCHANGED <<published, broker>>
      /\ reported'.target_generation = published.generation
      /\ \A k \in Key : ~broker[k].exists => reported'.queues[k] = None
      /\ \A k \in Key, s \in Slot :
           \/ /\ jobs'[k][s] = NoJob
              /\ s # 1 \/ (published.queues[k] = None /\ ~broker[k].exists)
           \/ /\ s = 1 /\ jobs_by_key'[k] = s
              /\ jobs'[k][s] # NoJob /\ jobs'[k][s].state = "running"
              /\ jobs'[k][s].status = published.queues[k]
              /\ jobs'[k][s].sent = 0 /\ jobs'[k][s].reply = "none" /\ ~jobs'[k][s].aborted
  BY ReconnectFacts
<1> SUFFICES ASSUME NEW k \in Key PROVE KeyInv(k)'
  BY <1>1 DEF Steered
<1>2. 1 \in Slot
  BY DEF Slot
<1>3. /\ \A s \in Slot : jobs'[k][s] # NoJob => Current(k, s)' /\ s = 1
      /\ \A s \in Slot : Current(k, s)' => jobs'[k][s] # NoJob
      /\ \A s \in Slot : ~Former(k, s)'
      /\ \A s \in Slot : jobs'[k][s].state = "running" => jobs'[k][s] # NoJob
  BY <1>1 DEF Current, Former, NoJob
<1>4. Harmless(k)'
  <2>1. OnlyRaised(k)' /\ OneCurrent(k)'
    BY <1>1, <1>3 DEF OnlyRaised, OneCurrent
  <2>2. LoweredIsAbortable(k)' /\ WorksForTarget(k)'
    BY <1>1, <1>3 DEF LoweredIsAbortable, WorksForTarget
  <2> QED
    BY <2>1, <2>2 DEF Harmless
<1>5. Settled(k)'
  <2> SUFFICES ASSUME Live(k)' = {}
               PROVE  /\ reported'.queues[k] = published.queues[k]
                      /\ InState(broker[k], published.queues[k])
    BY <1>1 DEF Settled, InState
  <2>1. published.queues[k] = None /\ ~broker[k].exists
    BY <1>1, <1>2 DEF Live
  <2> QED
    BY <1>1, <2>1 DEF InState, Active, Unbound, None
<1>6. Converges(k)'
  <2>1. SomeCurrent(k)' /\ WaitsForFormer(k)' /\ FormerFirst(k)'
    BY <1>3 DEF SomeCurrent, WaitsForFormer, FormerFirst, Live
  <2>2. QueueFollows(k)'
    BY <1>1, <1>3 DEF QueueFollows
  <2> QED
    BY <2>1, <2>2 DEF Converges
<1> QED
  BY <1>4, <1>5, <1>6 DEF KeyInv

LEMMA NextSteered == Structure /\ Steered /\ [Steps]_vars => Steered'
<1> SUFFICES ASSUME Structure, Steered, [Steps]_vars PROVE Steered'
  OBVIOUS
<1>1. CASE \E k \in Key : Require(k) \/ SpoolsDown(k) \/ PublishRequest(k) \/ Consume(k)
  BY <1>1, EnvironmentSteered
<1>2. CASE TargetChanged \/ JoinJob
  BY <1>2, RetargetSteered, JoinSteered
<1>3. CASE JoinPanics \/ Disconnect
  BY <1>3 DEF JoinPanics, Disconnect, Steered
<1>4. CASE JobStep
  BY <1>4, SendSteered, EndSteered DEF JobStep
<1>5. CASE Broker
  BY <1>5, ExecuteSteered, RefuseSteered DEF Broker
<1>6. CASE Reconnect
  BY <1>6, ReconnectSteered
<1>7. CASE UNCHANGED vars
  <2>1. UNCHANGED <<published, loop, target, reported, jobs, jobs_by_key, finished, broker,
                    overtaken>>
    BY <1>7 DEF vars, controller
  <2>2. \A k \in Key, s, t \in Slot : Before(k, s, t) => Before(k, s, t)'
    BY <2>1 DEF Before
  <2>3. ASSUME NEW k \in Key, KeyInv(k) PROVE KeyInv(k)'
    BY <2>1, <2>2, <2>3, KeyUntouched
  <2> QED
    BY <2>1, <2>3 DEF Steered
<1> QED
  BY <1>1, <1>2, <1>3, <1>4, <1>5, <1>6, <1>7 DEF Steps, Loop

LEMMA AlwaysSteered == Spec => [](Structure /\ Steered)
<1>1. Init => Structure /\ Steered
  <2>1. Init => loop = "down"
    BY DEF Init
  <2> QED
    BY <2>1, InitStructure DEF Steered
<1> QED
  BY <1>1, NextStructure, NextSteered, NextIsSteps, PTL DEF Spec

\* No two jobs of a key that are not aborted run at the same time, however many
\* targets follow each other and connections are lost and whatever becomes of
\* other keys, unless the key itself was spooled down with a job at work.
THEOREM JobsDoNotConflict == Spec => []NoConflictingJobs
<1>1. Structure /\ Steered => NoConflictingJobs
  <2> SUFFICES ASSUME Structure, Steered, NEW k \in Key \ overtaken
               PROVE  Cardinality({s \in Slot : Runs(k, s) /\ ~jobs[k][s].aborted}) <= 1
    BY DEF NoConflictingJobs, AtMostOneJob
  <2> DEFINE working == {s \in Slot : Runs(k, s) /\ ~jobs[k][s].aborted}
  <2>1. \A s, t \in working : s = t
    BY DEF Steered, KeyInv, Harmless, OneCurrent, WorksForTarget, Runs
  <2> HIDE DEF working
  <2>2. ASSUME working = {} PROVE Cardinality(working) = 0
    BY <2>2, FS_EmptySet
  <2>3. ASSUME working # {} PROVE Cardinality(working) = 1
    <3>1. PICK s \in working : working = {s}
      BY <2>1, <2>3
    <3> QED
      BY <3>1, FS_Singleton
  <2>4. Cardinality(working) <= 1
    BY <2>2, <2>3
  <2> QED
    BY <2>4 DEF working
<1> QED
  BY <1>1, AlwaysSteered, PTL

\* A loop with no job left and no news of the tracker has brought every queue that
\* was not spooled down with a job at work to its target, and reports it.
THEOREM QuietControllerConverged == Spec => []QuietMeansConverged
<1>1. Steered => QuietMeansConverged
  BY DEF Steered, QuietMeansConverged, KeyInv, Settled
<1> QED
  BY <1>1, AlwaysSteered, PTL


-----------------------------------------------------------------------------
(* The pool, for any worker groups, driver failures, reconnections and     *)
(* interleavings of its tasks.                                             *)

\* The delivery the orphan processor holds.
OrphanShape ==
  \/ orphan = IdleOrphan
  \/ orphan \in [at : {"generation", "status", "publish", "ack"}, key : Key, generation : Nat]

LedgerTypes ==
  /\ sent \in [Key -> Nat] /\ done \in [Key -> Nat] /\ lost \in [Key -> Nat]
  /\ orphans \in [Key -> Nat]

\* The inductive invariant of the ledger. The controller's structure is needed
\* for what the broker does: a queue is deleted only when it is empty.
PoolInv == Structure /\ OrphanShape /\ LedgerTypes /\ RequestsAccountedFor

-----------------------------------------------------------------------------
(* The controller inside the pool.                                         *)

\* Each step of the pool is a step of the controller's specification, moves
\* requests, or is none of the controller's business.
LEMMA PoolStep ==
  ASSUME OrphanShape, [PoolNext]_allVars
  PROVE  \/ [Steps]_vars
         \/ /\ UNCHANGED <<published, controller, channel, overtaken>>
            /\ \/ broker' = broker
               \/ \E k \in Key : \/ broker[k].bound /\ broker' = [broker EXCEPT ![k].msgs = @ + 1]
                                 \/ broker[k].msgs > 0 /\ broker' = [broker EXCEPT ![k].msgs = @ - 1]
<1>1. CASE \E k \in Key : ClientPublishes(k) \/ WorkerReports(k)
  BY <1>1 DEF ClientPublishes, WorkerReports, Steps
<1>2. CASE \E k \in Key : WorkerConsumes(k)
  BY <1>2 DEF WorkerConsumes
<1>3. CASE Orphan
  <2>1. CASE \E k \in Key : OrphanRequires(k)
    BY <2>1 DEF OrphanRequires, Steps
  <2>2. CASE OrphanRepublishes
    <3>1. orphan.key \in Key
      BY <2>2 DEF OrphanRepublishes, OrphanShape, IdleOrphan
    <3> QED
      BY <2>2, <3>1 DEF OrphanRepublishes
  <2>3. CASE OrphanAcks
    BY <2>3 DEF OrphanAcks
  <2> QED
    BY <1>3, <2>1, <2>2, <2>3 DEF Orphan, OrphanSeesGeneration, OrphanSeesActive
<1>4. CASE WorkerControl
  BY <1>4 DEF WorkerControl, IterationStarts, Destroys, Creates
<1>5. CASE PoolReconnects
  BY <1>5 DEF PoolReconnects, Steps
<1>6. CASE (\E k \in Key : PoolSpoolsDown(k)) \/ Loop \/ JobStep \/ Broker \/ Disconnect
  BY <1>6 DEF PoolSpoolsDown, SpoolsDown, Steps, Ready, Awaited
<1>7. CASE UNCHANGED allVars
  BY <1>7 DEF allVars
<1> QED
  BY <1>1, <1>2, <1>3, <1>4, <1>5, <1>6, <1>7 DEF PoolNext

LEMMA PoolStructure ==
  ASSUME Structure, OrphanShape, [PoolNext]_allVars
  PROVE  Structure'
<1>1. CASE [Steps]_vars
  BY <1>1, NextStructure
<1>2. CASE /\ UNCHANGED <<published, controller, channel>>
           /\ \E k \in Key : \/ broker[k].bound /\ broker' = [broker EXCEPT ![k].msgs = @ + 1]
                             \/ broker[k].msgs > 0 /\ broker' = [broker EXCEPT ![k].msgs = @ - 1]
  BY <1>2, TrafficStructure DEF Traffic, controller, channel
<1>3. CASE UNCHANGED <<published, controller, channel, broker>>
  <2>1. UNCHANGED <<published, target, reported, jobs, jobs_by_key, finished, wire, broker>>
    BY <1>3 DEF controller, channel
  <2>2. TypeInv' /\ QueuesExist'
    BY <2>1 DEF Structure, TypeInv, QueuesExist
  <2>3. AnswersFit' /\ WireOwned' /\ WireOnce' /\ FinishedListed' /\ FinishedOnce'
    BY <2>1, NoJobMoves DEF Structure
  <2> QED
    BY <2>2, <2>3 DEF Structure
<1> QED
  BY <1>1, <1>2, <1>3, PoolStep

\* Requests that come and go leave the jobs what they are.
LEMMA PoolSteered ==
  ASSUME Structure, Steered, OrphanShape, [PoolNext]_allVars
  PROVE  Steered'
<1>1. CASE [Steps]_vars
  BY <1>1, NextSteered
<1>2. CASE /\ UNCHANGED <<published, controller, channel, overtaken>>
           /\ \/ broker' = broker
              \/ \E k \in Key : \/ broker' = [broker EXCEPT ![k].msgs = @ + 1]
                                \/ broker' = [broker EXCEPT ![k].msgs = @ - 1]
  <2>1. UNCHANGED <<published, loop, target, reported, jobs, jobs_by_key, finished>>
    BY <1>2 DEF controller
  <2> SUFFICES ASSUME loop = "running", NEW j \in Key \ overtaken PROVE KeyInv(j)'
    BY <1>2, <2>1 DEF Steered
  <2>2. broker'[j].exists = broker[j].exists /\ broker'[j].bound = broker[j].bound
    <3>1. broker \in [Key -> RequestQueues] /\ broker[j] \in RequestQueues
      BY DEF Structure, TypeInv
    <3>2. CASE broker' = broker
      BY <3>2
    <3>3. ASSUME NEW k \in Key, \/ broker' = [broker EXCEPT ![k].msgs = @ + 1]
                                \/ broker' = [broker EXCEPT ![k].msgs = @ - 1]
          PROVE  broker'[j].exists = broker[j].exists /\ broker'[j].bound = broker[j].bound
      <4>1. CASE broker' = [broker EXCEPT ![k].msgs = @ + 1]
        BY <3>1, <4>1 DEF RequestQueues
      <4>2. CASE broker' = [broker EXCEPT ![k].msgs = @ - 1]
        BY <3>1, <4>2 DEF RequestQueues
      <4> QED
        BY <3>3, <4>1, <4>2
    <3> QED
      BY <1>2, <3>2, <3>3
  <2>3. \A s, t \in Slot : Before(j, s, t) => Before(j, s, t)'
    BY <2>1 DEF Before
  <2> QED
    BY <2>1, <2>2, <2>3, KeyUntouched DEF Steered
<1> QED
  BY <1>1, <1>2, PoolStep

-----------------------------------------------------------------------------
(* The ledger.                                                             *)

LEMMA PoolInitEstablishes == PoolInit => PoolInv /\ loop = "down"
<1> SUFFICES ASSUME PoolInit PROVE PoolInv /\ loop = "down"
  OBVIOUS
<1>1. Structure
  BY InitStructure DEF PoolInit
<1>2. OrphanShape
  BY DEF PoolInit, OrphanShape
<1>3. /\ sent = [k \in Key |-> 0] /\ done = sent /\ lost = sent
      /\ orphans = [k \in Key |-> 0] /\ loop = "down" /\ orphan = IdleOrphan
      /\ \A k \in Key : broker[k].msgs = 0
  BY DEF PoolInit, Init
<1>4. LedgerTypes
  BY <1>3 DEF LedgerTypes
<1>5. RequestsAccountedFor
  BY <1>3 DEF RequestsAccountedFor, Held, IdleOrphan
<1> QED
  BY <1>1, <1>2, <1>3, <1>4, <1>5 DEF PoolInv

\* No step of the controller, of its jobs or of the broker touches a request.
LEMMA ControllerKeepsRequests ==
  ASSUME Structure, (\E k \in Key : PoolSpoolsDown(k) \/ Require(k)) \/ Loop \/ JobStep \/ Broker \/ Disconnect
  PROVE  orphans' = orphans /\ \A k \in Key : broker'[k].msgs = broker[k].msgs
<1>1. CASE BrokerExecutes
  <2>1. PICK j \in Key : /\ wire[1] \in CommandRecords
                         /\ \A i \in Key \ {j} : broker'[i] = broker[i]
                         /\ broker'[j] = Executed(wire[1], broker[j])
                         /\ broker[j] \in RequestQueues
                         /\ (broker[j].bound \/ broker[j].msgs > 0 => broker[j].exists)
                         /\ ~(wire[1].op = "bind" /\ ~broker[j].exists)
                         /\ ~(wire[1].op = "delete_if_empty" /\ broker[j].exists
                               /\ broker[j].msgs > 0)
    BY <1>1, ExecuteFacts
  <2>2. broker'[j].msgs = broker[j].msgs
    BY <2>1, ExecutedQueue
  <2> QED
    BY <1>1, <2>1, <2>2 DEF BrokerExecutes
<1>3. CASE \E k \in Key : PoolSpoolsDown(k) \/ Require(k)
  <2>1. UNCHANGED broker /\ UNCHANGED orphans
    BY <1>3, Zenon DEF Require, PoolSpoolsDown, SpoolDown, Retarget
  <2> QED
    BY <2>1
<1>4. CASE Loop
  <2>1. UNCHANGED broker /\ UNCHANGED orphans
    BY <1>4, Zenon DEF Loop, TargetChanged, JoinJob, JoinPanics
  <2> QED
    BY <2>1
<1>5. CASE JobStep
  <2>1. PICK j \in Key, s \in Slot :
          JobSends(j, s) \/ JobReturns(j, s) \/ JobFails(j, s) \/ JobCancelled(j, s)
    BY <1>5 DEF JobStep
  <2>2. CASE JobSends(j, s)
    BY <2>2 DEF JobSends
  <2>3. CASE JobReturns(j, s) \/ JobFails(j, s) \/ JobCancelled(j, s)
    BY <2>3 DEF JobReturns, JobFails, JobCancelled
  <2> QED
    BY <2>1, <2>2, <2>3
<1>6. CASE BrokerRefuses \/ Disconnect
  <2>1. UNCHANGED broker /\ UNCHANGED orphans
    BY <1>6, Zenon DEF BrokerRefuses, Disconnect
  <2> QED
    BY <2>1
<1> QED
  BY <1>1, <1>3, <1>4, <1>5, <1>6 DEF Broker

\* A request of k enters the pool by a client or a republication.
LEMMA Routed ==
  ASSUME Structure, LedgerTypes, NEW k \in Key,
         \/ broker' = [broker EXCEPT ![k].msgs = @ + 1] /\ UNCHANGED orphans
         \/ orphans' = [orphans EXCEPT ![k] = @ + 1] /\ UNCHANGED broker
  PROVE  /\ orphans' \in [Key -> Nat] /\ orphans'[k] >= orphans[k]
         /\ orphans'[k] + broker'[k].msgs = orphans[k] + broker[k].msgs + 1
         /\ \A j \in Key \ {k} : orphans'[j] = orphans[j] /\ broker'[j].msgs = broker[j].msgs
<1>1. broker[k] \in RequestQueues /\ broker \in [Key -> RequestQueues] /\ orphans \in [Key -> Nat]
  BY DEF Structure, TypeInv, LedgerTypes
<1>2. broker[k].msgs \in Nat /\ orphans[k] \in Nat
  BY <1>1 DEF RequestQueues
<1> QED
  BY <1>1, <1>2, SMTT(30) DEF RequestQueues

\* The steps that leave requests where they are.
LEMMA Untouched ==
  ASSUME PoolInv, UNCHANGED <<ledger, orphans>>, \A k \in Key : broker'[k].msgs = broker[k].msgs,
         OrphanShape', Structure', \A k \in Key : Held(k)' = Held(k),
         \A k \in Key : orphan' # IdleOrphan /\ orphan'.key = k => orphans[k] > 0
  PROVE  PoolInv'
<1>1. LedgerTypes'
  BY DEF PoolInv, LedgerTypes, ledger
<1>2. RequestsAccountedFor'
  BY DEF PoolInv, RequestsAccountedFor, ledger, IdleOrphan
<1> QED
  BY <1>1, <1>2 DEF PoolInv

LEMMA Counted ==
  ASSUME PoolInv
  PROVE  \A k \in Key : /\ sent[k] \in Nat /\ done[k] \in Nat /\ lost[k] \in Nat
                        /\ orphans[k] \in Nat /\ broker[k].msgs \in Nat
                        /\ Held(k) \in {0, 1} /\ Held(k) <= orphans[k]
                        /\ sent[k] + Held(k) = done[k] + lost[k] + orphans[k] + broker[k].msgs
                        /\ orphan # IdleOrphan /\ orphan.key = k => orphans[k] > 0
<1> SUFFICES ASSUME NEW k \in Key
             PROVE  /\ sent[k] \in Nat /\ done[k] \in Nat /\ lost[k] \in Nat
                    /\ orphans[k] \in Nat /\ broker[k].msgs \in Nat
                    /\ Held(k) \in {0, 1} /\ Held(k) <= orphans[k]
                    /\ sent[k] + Held(k) = done[k] + lost[k] + orphans[k] + broker[k].msgs
                    /\ orphan # IdleOrphan /\ orphan.key = k => orphans[k] > 0
  OBVIOUS
<1>1. sent[k] \in Nat /\ done[k] \in Nat /\ lost[k] \in Nat /\ orphans[k] \in Nat
  BY DEF PoolInv, LedgerTypes
<1>2. broker[k] \in RequestQueues
  BY DEF PoolInv, Structure, TypeInv
<1>3. broker[k].msgs \in Nat
  BY <1>2 DEF RequestQueues
<1>4. /\ sent[k] + Held(k) = done[k] + lost[k] + orphans[k] + broker[k].msgs
      /\ orphan # IdleOrphan /\ orphan.key = k => orphans[k] > 0
  BY DEF PoolInv, RequestsAccountedFor
<1>5. Held(k) \in {0, 1} /\ Held(k) <= orphans[k]
  <2>1. orphan.at = "ack" => orphan # IdleOrphan
    BY DEF IdleOrphan
  <2> QED
    BY <1>1, <1>4, <2>1 DEF Held
<1> QED
  BY <1>1, <1>3, <1>4, <1>5

\* A client publishes: the request is in the queue of its key or an orphan.
LEMMA ClientPublishesPreserves ==
  ASSUME PoolInv, Structure', NEW k \in Key, ClientPublishes(k)
  PROVE  PoolInv'
<1>1. /\ sent' = [sent EXCEPT ![k] = @ + 1] /\ UNCHANGED <<orphan, done, lost>>
      /\ \/ broker' = [broker EXCEPT ![k].msgs = @ + 1] /\ UNCHANGED orphans
         \/ orphans' = [orphans EXCEPT ![k] = @ + 1] /\ UNCHANGED broker
  BY DEF ClientPublishes, PublishRequest
<1>2. /\ orphans' \in [Key -> Nat] /\ orphans'[k] >= orphans[k]
      /\ orphans'[k] + broker'[k].msgs = orphans[k] + broker[k].msgs + 1
      /\ \A j \in Key \ {k} : orphans'[j] = orphans[j] /\ broker'[j].msgs = broker[j].msgs
  BY <1>1, Routed DEF PoolInv
<1>3. LedgerTypes' /\ sent'[k] = sent[k] + 1 /\ \A j \in Key \ {k} : sent'[j] = sent[j]
  <2>1. sent \in [Key -> Nat] /\ sent' = [sent EXCEPT ![k] = @ + 1]
    BY <1>1 DEF PoolInv, LedgerTypes
  <2>2. /\ sent' \in [Key -> Nat] /\ sent'[k] = sent[k] + 1
        /\ \A j \in Key \ {k} : sent'[j] = sent[j]
    BY <2>1
  <2>3. done' \in [Key -> Nat] /\ lost' \in [Key -> Nat] /\ orphans' \in [Key -> Nat]
    BY <1>1, <1>2 DEF PoolInv, LedgerTypes
  <2> QED
    BY <2>2, <2>3 DEF LedgerTypes
<1>4. OrphanShape' /\ \A j \in Key : Held(j)' = Held(j)
  BY <1>1 DEF PoolInv, OrphanShape, Held
<1>5. \A j \in Key : broker'[j].msgs \in Nat /\ orphans'[j] \in Nat
  <2>1. \A j \in Key : broker'[j] \in RequestQueues
    BY DEF Structure, TypeInv
  <2>2. \A q \in RequestQueues : q.msgs \in Nat
    BY DEF RequestQueues
  <2> QED
    BY <1>2, <2>1, <2>2
<1>6. ASSUME NEW j \in Key
      PROVE  /\ sent'[j] + Held(j)' = done'[j] + lost'[j] + orphans'[j] + broker'[j].msgs
             /\ orphan' # IdleOrphan /\ orphan'.key = j => orphans'[j] > 0
  <2>1. CASE j = k
    <3>1. /\ sent[k] \in Nat /\ done[k] \in Nat /\ lost[k] \in Nat
          /\ orphans[k] \in Nat /\ broker[k].msgs \in Nat /\ Held(k) \in Nat
          /\ sent[k] + Held(k) = done[k] + lost[k] + orphans[k] + broker[k].msgs
          /\ orphan # IdleOrphan /\ orphan.key = k => orphans[k] > 0
      BY Counted
    <3> QED
      BY <1>1, <1>2, <1>3, <1>4, <1>5, <2>1, <3>1
  <2>2. CASE j # k
    BY <1>1, <1>2, <1>3, <1>4, <2>2, Counted
  <2> QED
    BY <2>1, <2>2
<1>7. RequestsAccountedFor'
  BY <1>6 DEF RequestsAccountedFor, IdleOrphan
<1> QED
  BY <1>3, <1>4, <1>7 DEF PoolInv

\* A worker takes a request of its queue.
LEMMA WorkerConsumesPreserves ==
  ASSUME PoolInv, Structure', NEW k \in Key, WorkerConsumes(k)
  PROVE  PoolInv'
<1>1. /\ broker[k].msgs > 0 /\ broker' = [broker EXCEPT ![k].msgs = @ - 1]
      /\ done' = [done EXCEPT ![k] = @ + 1] /\ UNCHANGED <<orphan, orphans, sent, lost>>
  BY DEF WorkerConsumes
<1>2. LedgerTypes' /\ done'[k] = done[k] + 1 /\ \A j \in Key \ {k} : done'[j] = done[j]
  BY <1>1 DEF PoolInv, LedgerTypes
<1>3. broker'[k].msgs = broker[k].msgs - 1 /\ \A j \in Key \ {k} : broker'[j].msgs = broker[j].msgs
  <2>1. broker \in [Key -> RequestQueues] /\ broker[k] \in RequestQueues
    BY DEF PoolInv, Structure, TypeInv
  <2> QED
    BY <1>1, <2>1 DEF RequestQueues
<1>4. OrphanShape' /\ \A j \in Key : Held(j)' = Held(j)
  BY <1>1 DEF PoolInv, OrphanShape, Held
<1>5. ASSUME NEW j \in Key
      PROVE  /\ sent'[j] + Held(j)' = done'[j] + lost'[j] + orphans'[j] + broker'[j].msgs
             /\ orphan' # IdleOrphan /\ orphan'.key = j => orphans'[j] > 0
  <2>1. CASE j = k
    BY <1>1, <1>2, <1>3, <1>4, <2>1, Counted
  <2>2. CASE j # k
    BY <1>1, <1>2, <1>3, <1>4, <2>2, Counted
  <2> QED
    BY <2>1, <2>2
<1>6. RequestsAccountedFor'
  BY <1>5 DEF RequestsAccountedFor, IdleOrphan
<1> QED
  BY <1>2, <1>4, <1>6 DEF PoolInv

\* Republished, a request is counted once more until the delivery is acknowledged.
LEMMA OrphanRepublishesPreserves ==
  ASSUME PoolInv, Structure', OrphanRepublishes
  PROVE  PoolInv'
<1>0. orphan \in [at : {"generation", "status", "publish", "ack"}, key : Key, generation : Nat]
  BY DEF OrphanRepublishes, PoolInv, OrphanShape, IdleOrphan
<1>10. PICK k \in Key : orphan.key = k
  BY <1>0
<1>1. /\ orphan.at = "publish" /\ orphan' = [orphan EXCEPT !.at = "ack"]
      /\ UNCHANGED <<sent, done, lost>>
      /\ \/ broker' = [broker EXCEPT ![k].msgs = @ + 1] /\ UNCHANGED orphans
         \/ orphans' = [orphans EXCEPT ![k] = @ + 1] /\ UNCHANGED broker
  BY <1>10 DEF OrphanRepublishes, ledger
<1>2. orphan # IdleOrphan
  BY <1>1 DEF IdleOrphan
<1>3. /\ orphan' \in [at : {"generation", "status", "publish", "ack"}, key : Key, generation : Nat]
      /\ orphan'.at = "ack" /\ orphan'.key = k
  BY <1>0, <1>1, <1>10
<1>4. /\ orphans' \in [Key -> Nat] /\ orphans'[k] >= orphans[k]
      /\ orphans'[k] + broker'[k].msgs = orphans[k] + broker[k].msgs + 1
      /\ \A j \in Key \ {k} : orphans'[j] = orphans[j] /\ broker'[j].msgs = broker[j].msgs
  BY <1>1, <1>2, Routed DEF PoolInv
<1>5. LedgerTypes' /\ OrphanShape'
  <2>1. UNCHANGED <<sent, done, lost>>
    BY <1>1
  <2> QED
    BY <2>1, <1>3, <1>4 DEF PoolInv, LedgerTypes, OrphanShape
<1>6. /\ Held(k) = 0 /\ Held(k)' = 1
      /\ \A j \in Key \ {k} : Held(j) = 0 /\ Held(j)' = 0
  BY <1>1, <1>3 DEF Held
<1>7. \A j \in Key : broker'[j].msgs \in Nat /\ orphans'[j] \in Nat
  <2>1. \A j \in Key : broker'[j] \in RequestQueues
    BY DEF Structure, TypeInv
  <2>2. \A q \in RequestQueues : q.msgs \in Nat
    BY DEF RequestQueues
  <2> QED
    BY <1>4, <2>1, <2>2
<1>8. ASSUME NEW j \in Key
      PROVE  /\ sent'[j] + Held(j)' = done'[j] + lost'[j] + orphans'[j] + broker'[j].msgs
             /\ orphan'.key = j => orphans'[j] > 0
  <2>1. /\ sent[j] \in Nat /\ done[j] \in Nat /\ lost[j] \in Nat
        /\ orphans[j] \in Nat /\ broker[j].msgs \in Nat
        /\ sent[j] + Held(j) = done[j] + lost[j] + orphans[j] + broker[j].msgs
        /\ j = k => orphans[j] > 0
    BY <1>2, <1>10, Counted
  <2>2. UNCHANGED <<sent, done, lost>>
    BY <1>1
  <2>3. CASE j = k
    BY <1>3, <1>4, <1>6, <1>7, <2>1, <2>2, <2>3
  <2>4. CASE j # k
    BY <1>3, <1>4, <1>6, <2>1, <2>2, <2>4
  <2> QED
    BY <2>3, <2>4
<1>9. RequestsAccountedFor'
  BY <1>8 DEF RequestsAccountedFor
<1> QED
  BY <1>5, <1>9 DEF PoolInv

LEMMA OrphanAcksPreserves ==
  ASSUME PoolInv, Structure', OrphanAcks
  PROVE  PoolInv'
<1> DEFINE k == orphan.key
<1>1. /\ orphan.at = "ack" /\ orphan' = IdleOrphan /\ orphans' = [orphans EXCEPT ![k] = @ - 1]
      /\ UNCHANGED <<sent, done, lost, broker>>
  BY DEF OrphanAcks, ledger
<1>2. k \in Key /\ orphan # IdleOrphan
  BY <1>1 DEF PoolInv, OrphanShape, IdleOrphan
<1>3. /\ Held(k) = 1 /\ \A j \in Key \ {k} : Held(j) = 0
      /\ \A j \in Key : Held(j)' = 0
  BY <1>1 DEF Held, IdleOrphan
<1>4. orphans \in [Key -> Nat] /\ orphans[k] > 0
  BY <1>2, Counted DEF PoolInv, LedgerTypes
<1> HIDE DEF k
<1>5. /\ orphans' \in [Key -> Nat] /\ orphans'[k] = orphans[k] - 1
      /\ \A j \in Key \ {k} : orphans'[j] = orphans[j]
  BY <1>1, <1>2, <1>4
<1>6. LedgerTypes' /\ OrphanShape'
  BY <1>1, <1>5 DEF PoolInv, LedgerTypes, OrphanShape, IdleOrphan
<1>7. ASSUME NEW j \in Key
      PROVE  sent'[j] + Held(j)' = done'[j] + lost'[j] + orphans'[j] + broker'[j].msgs
  <2>1. /\ sent[j] \in Nat /\ done[j] \in Nat /\ lost[j] \in Nat
        /\ orphans[j] \in Nat /\ broker[j].msgs \in Nat
        /\ sent[j] + Held(j) = done[j] + lost[j] + orphans[j] + broker[j].msgs
    BY Counted
  <2>0. /\ sent'[j] = sent[j] /\ done'[j] = done[j] /\ lost'[j] = lost[j]
        /\ broker'[j].msgs = broker[j].msgs
    BY <1>1
  <2>2. CASE j = k
    <3>1. Held(j) = 1 /\ Held(j)' = 0 /\ orphans'[j] = orphans[j] - 1
      BY <1>3, <1>5, <2>2
    <3>2. sent[j] + 1 = done[j] + lost[j] + orphans[j] + broker[j].msgs
      BY <2>1, <3>1
    <3>3. sent[j] + 0 = done[j] + lost[j] + (orphans[j] - 1) + broker[j].msgs
      BY <2>1, <3>2
    <3> QED
      BY <2>0, <3>1, <3>3
  <2>3. CASE j # k
    <3>1. Held(j) = 0 /\ Held(j)' = 0 /\ orphans'[j] = orphans[j]
      BY <1>3, <1>5, <2>3
    <3> QED
      BY <2>0, <2>1, <3>1
  <2> QED
    BY <2>2, <2>3
<1>8. RequestsAccountedFor'
  BY <1>1, <1>7 DEF RequestsAccountedFor, IdleOrphan
<1> QED
  BY <1>6, <1>8 DEF PoolInv

\* A reconnection takes the orphans with it; what was republished stays counted
\* once.
LEMMA PoolReconnectsPreserves ==
  ASSUME PoolInv, Structure', PoolReconnects
  PROVE  PoolInv'
<1>1. /\ orphans' = [k \in Key |-> 0] /\ orphan' = IdleOrphan
      /\ lost' = [k \in Key |-> lost[k] + orphans[k] - Held(k)]
      /\ UNCHANGED <<sent, done, broker>>
  BY DEF PoolReconnects, Reconnect
<1>2. \A j \in Key : /\ sent[j] \in Nat /\ done[j] \in Nat /\ lost[j] \in Nat
                     /\ orphans[j] \in Nat /\ broker[j].msgs \in Nat
                     /\ Held(j) \in {0, 1} /\ Held(j) <= orphans[j]
                     /\ sent[j] + Held(j) = done[j] + lost[j] + orphans[j] + broker[j].msgs
  BY Counted
<1>3. \A j \in Key : Held(j)' = 0
  BY <1>1 DEF Held, IdleOrphan
<1>4. LedgerTypes' /\ OrphanShape'
  BY <1>1, <1>2 DEF PoolInv, LedgerTypes, OrphanShape, IdleOrphan
<1>5. ASSUME NEW j \in Key
      PROVE  sent'[j] + Held(j)' = done'[j] + lost'[j] + orphans'[j] + broker'[j].msgs
  <2>1. lost'[j] = lost[j] + orphans[j] - Held(j) /\ orphans'[j] = 0
    BY <1>1
  <2>2. sent'[j] = sent[j] /\ done'[j] = done[j] /\ broker'[j].msgs = broker[j].msgs
    BY <1>1
  <2>3. /\ sent[j] \in Nat /\ done[j] \in Nat /\ lost[j] \in Nat
        /\ orphans[j] \in Nat /\ broker[j].msgs \in Nat /\ Held(j) \in Nat
        /\ sent[j] + Held(j) = done[j] + lost[j] + orphans[j] + broker[j].msgs
    BY <1>2
  <2>4. Held(j)' = 0
    BY <1>3
  <2>5. \A s, d, l, o, b, h \in Nat : s + h = d + l + o + b => s + 0 = d + (l + o - h) + 0 + b
    OBVIOUS
  <2>6. sent[j] + 0 = done[j] + (lost[j] + orphans[j] - Held(j)) + 0 + broker[j].msgs
    BY <2>3, <2>5
  <2> QED
    BY <2>1, <2>2, <2>4, <2>6
<1>6. RequestsAccountedFor'
  BY <1>1, <1>5 DEF RequestsAccountedFor, IdleOrphan
<1> QED
  BY <1>4, <1>6 DEF PoolInv

LEMMA PoolNextPreserves == PoolInv /\ [PoolNext]_allVars => PoolInv'
<1> SUFFICES ASSUME PoolInv, [PoolNext]_allVars PROVE PoolInv'
  OBVIOUS
<1>0. Structure'
  BY PoolStructure DEF PoolInv
<1>1. CASE \E k \in Key : ClientPublishes(k) \/ WorkerConsumes(k)
  BY <1>0, <1>1, ClientPublishesPreserves, WorkerConsumesPreserves
<1>2. CASE OrphanRepublishes \/ OrphanAcks \/ PoolReconnects
  BY <1>0, <1>2, OrphanRepublishesPreserves, OrphanAcksPreserves, PoolReconnectsPreserves
<1>3. ASSUME UNCHANGED <<orphan, ledger, orphans>>, \A k \in Key : broker'[k].msgs = broker[k].msgs
      PROVE  PoolInv'
  BY <1>0, <1>3, Untouched, Counted DEF PoolInv, OrphanShape, Held
<1>4. CASE \E k \in Key : WorkerReports(k)
  BY <1>3, <1>4, ControllerKeepsRequests DEF WorkerReports, poolVars, PoolInv
<1>5. CASE \/ /\ \/ \E k \in Key : PoolSpoolsDown(k)
                 \/ Loop \/ JobStep \/ Broker \/ Disconnect
              /\ UNCHANGED poolVars
           \/ UNCHANGED allVars
  BY <1>3, <1>5, ControllerKeepsRequests DEF poolVars, PoolInv, allVars, vars
<1>6. CASE WorkerControl
  BY <1>3, <1>6 DEF WorkerControl, IterationStarts, Destroys, Creates, vars
<1>7. CASE \E k \in Key : OrphanRequires(k)
  <2>1. PICK k \in Key : OrphanRequires(k)
    BY <1>7
  <2>2. /\ orphan = IdleOrphan /\ orphans[k] > 0 /\ UNCHANGED ledger
        /\ orphan' = [at |-> "generation", key |-> k, generation |-> published'.generation]
        /\ UNCHANGED vars \/ Require(k)
    BY <2>1 DEF OrphanRequires, PoolInv, OrphanShape
  <2>3. orphans' = orphans /\ \A j \in Key : broker'[j].msgs = broker[j].msgs
    BY <2>2, ControllerKeepsRequests DEF vars, PoolInv
  <2>4. published'.generation \in Nat
    BY <1>0 DEF Structure, TypeInv
  <2>5. OrphanShape' /\ \A j \in Key : Held(j)' = Held(j)
    BY <2>2, <2>4 DEF OrphanShape, Held, IdleOrphan
  <2> QED
    BY <1>0, <2>2, <2>3, <2>5, Untouched
<1>8. CASE OrphanSeesGeneration \/ OrphanSeesActive
  <2>1. /\ UNCHANGED <<broker, orphans, ledger>> /\ orphan.at \in {"generation", "status"}
        /\ \/ orphan' = [orphan EXCEPT !.at = "status"]
           \/ orphan' = [orphan EXCEPT !.at = "publish"]
    BY <1>8 DEF OrphanSeesGeneration, OrphanSeesActive, vars
  <2>2. orphan \in [at : {"generation", "status", "publish", "ack"}, key : Key, generation : Nat]
        /\ orphan # IdleOrphan
    BY <2>1 DEF PoolInv, OrphanShape, IdleOrphan
  <2>3. /\ OrphanShape' /\ orphan'.key = orphan.key /\ orphan'.at # "ack"
    BY <2>1, <2>2 DEF OrphanShape
  <2>4. \A j \in Key : Held(j)' = Held(j)
    BY <2>1, <2>3 DEF Held
  <2>5. \A j \in Key : orphan'.key = j => orphans[j] > 0
    BY <2>2, <2>3, Counted
  <2> QED
    BY <1>0, <2>1, <2>3, <2>4, <2>5, Untouched
<1> QED
  BY <1>1, <1>2, <1>4, <1>5, <1>6, <1>7, <1>8 DEF PoolNext, Orphan

\* Through republications, crashes and reconnections, every request of every key
\* is in exactly one place: a queue, a worker, or the orphan queue that was lost.
THEOREM NoRequestUnaccounted == PoolSpec => []RequestsAccountedFor
<1>1. PoolInit => PoolInv
  BY PoolInitEstablishes
<1>2. PoolInv => RequestsAccountedFor
  BY DEF PoolInv
<1> QED
  BY <1>1, <1>2, PoolNextPreserves, PTL DEF PoolSpec

\* With orphans, workers and reconnections around it as alone, the controller is
\* only quiet once every queue that was not overtaken is as the target says.
THEOREM QuietPoolConverged == PoolSpec => []QuietMeansConverged
<1>1. PoolInit => PoolInv /\ Steered
  BY PoolInitEstablishes DEF Steered
<1>2. PoolInv /\ Steered /\ [PoolNext]_allVars => Steered'
  BY PoolSteered DEF PoolInv
<1>3. Steered => QuietMeansConverged
  BY DEF Steered, QuietMeansConverged, KeyInv, Settled
<1> QED
  BY <1>1, <1>2, <1>3, PoolNextPreserves, PTL DEF PoolSpec

=============================================================================
