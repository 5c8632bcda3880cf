----------------------------- MODULE PageProofs ------------------------------
(***************************************************************************)
(* Proofs about three parts of the page that share nothing.                *)
(*                                                                         *)
(* The STDCM page, for any inputs and any number of launches and loads:    *)
(* there is always a selected simulation to show, and a request which was  *)
(* stopped before its first answer leaves none.                            *)
(*                                                                         *)
(* The power restrictions of a train, for any path, any points where the   *)
(* electrification changes and any number of edits: every restriction is   *)
(* between steps of the path, and the path stays in order.                 *)
(*                                                                         *)
(* The macro editor, for any stations, trains, operations and refreshes    *)
(* that do not race: the indices of the nodes agree with the storage.      *)
(***************************************************************************)
EXTENDS Stdcm, PowerRestrictions, MacroEditor, ArrayProofs

-----------------------------------------------------------------------------
(* The STDCM page.                                                         *)

Inputs == [in : Input, adj : Seq(Directions)]
Flags  == BOOLEAN
Alts   == Answers \cup {"none"}
Launches == [pc : {"post", "posts", "fetch", "altfetch", "done"}, mount : Nat, inputs : Inputs,
             alt : Seq(Alts), stopped : BOOLEAN]
Simulations == [launch : Nat, alt : Directions \cup {"requested"}, inputs : Inputs,
                found : BOOLEAN]

TypeInv ==
  /\ form \in Inputs
  /\ cancelled \in Seq(Flags)
  /\ launch \in Seq(Launches)
  /\ sims \in Seq(Simulations)
  /\ promise \in Nat /\ selected \in Nat /\ retained \in Nat

\* requestPromise holds the requests of a launch that exists.
PromiseExists == promise # None => promise \in DOMAIN launch

\* A launch that waits for its additional requests has a place for their answers.
AlternativesHavePlaces ==
  \A l \in DOMAIN launch : launch[l].pc \in {"posts", "altfetch"} => launch[l].alt # <<>>

\* A launch adds its simulations with its last step, all at once.
SimulationsAreFinal ==
  \A i \in DOMAIN sims : /\ sims[i].launch \in DOMAIN launch
                         /\ launch[sims[i].launch].pc = "done"

\* A launch that was stopped takes no further step.
StoppedIsOver == \A l \in DOMAIN launch : launch[l].stopped => launch[l].pc = "done"

IInv ==
  /\ TypeInv /\ PromiseExists /\ AlternativesHavePlaces /\ SimulationsAreFinal /\ StoppedIsOver
  /\ SelectedExists /\ StoppedAddsNothing

USE StdcmAssumption

\* What the lists of the model stay lists under.
LEMMA SeqUpdates ==
  ASSUME NEW S, NEW s \in Seq(S), NEW x \in S, NEW i
  PROVE  <<x>> \in Seq(S) /\ Append(s, x) \in Seq(S) /\ [s EXCEPT ![i] = x] \in Seq(S)
<1>1. <<x>> \in Seq(S) /\ Append(s, x) \in Seq(S)
  OBVIOUS
<1>2. s \in [1..Len(s) -> S] /\ Len(s) \in Nat
  OBVIOUS
<1>3. ASSUME NEW D, NEW f \in [D -> S] PROVE [f EXCEPT ![i] = x] \in [D -> S]
  OBVIOUS
<1>4. [s EXCEPT ![i] = x] \in [1..Len(s) -> S]
  BY <1>2, <1>3, Zenon
<1>5. \A n \in Nat : \A f \in [1..n -> S] : f \in Seq(S)
  OBVIOUS
<1> QED
  BY <1>1, <1>2, <1>4, <1>5, Zenon

LEMMA ThreeMembers ==
  ASSUME NEW S, NEW x \in S, NEW y \in S, NEW z \in S, NEW new, new = <<x>> \o <<y, z>>
  PROVE  new \in Seq(S) /\ new # <<>> /\ \A j \in DOMAIN new : new[j] \in {x, y, z}
<1>1. <<x>> \in Seq(S) /\ Len(<<x>>) = 1 /\ <<x>>[1] = x
  OBVIOUS
<1>2. <<y, z>> \in Seq(S) /\ Len(<<y, z>>) = 2 /\ <<y, z>>[1] = y /\ <<y, z>>[2] = z
  OBVIOUS
<1>3. /\ new \in Seq(S) /\ Len(new) = 3
      /\ \A j \in 1..3 : new[j] = IF j <= 1 THEN <<x>>[j] ELSE <<y, z>>[j - 1]
  BY <1>1, <1>2, ConcatProperties
<1>4. new[1] = x /\ new[2] = y /\ new[3] = z
  BY <1>1, <1>2, <1>3
<1>5. \A j \in 1..3 : j = 1 \/ j = 2 \/ j = 3
  OBVIOUS
<1>6. DOMAIN new = 1..3 /\ new # <<>>
  BY <1>3
<1> QED
  BY <1>3, <1>4, <1>5, <1>6

LEMMA FlagsExist == TRUE \in Flags /\ FALSE \in Flags
  BY DEF Flags

LEMMA InitEstablishes == Init => IInv
<1> SUFFICES ASSUME Init PROVE IInv
  OBVIOUS
<1>1. form \in Inputs
  <2>1. <<>> \in Seq(Directions)
    OBVIOUS
  <2> QED
    BY <2>1 DEF Init, Inputs
<1>2. TypeInv
  <2>0. <<>> \in Seq(Launches) /\ <<>> \in Seq(Simulations)
    OBVIOUS
  <2>1. cancelled \in Seq(Flags)
    <3>1. <<>> \in Seq(Flags)
      OBVIOUS
    <3> QED
      BY <3>1, FlagsExist, SeqUpdates, Zenon DEF Init
  <2> QED
    BY <1>1, <2>0, <2>1 DEF Init, TypeInv, None
<1>3. PromiseExists /\ AlternativesHavePlaces /\ StoppedIsOver /\ SimulationsAreFinal
  BY DEF Init, PromiseExists, AlternativesHavePlaces, StoppedIsOver, SimulationsAreFinal
<1>4. SelectedExists /\ StoppedAddsNothing
  BY DEF Init, SelectedExists, StoppedAddsNothing
<1> QED
  BY <1>2, <1>3, <1>4 DEF IInv

-----------------------------------------------------------------------------
(* The store.                                                              *)

\* The members of the lists have the types of the lists.
LEMMA Members ==
  ASSUME TypeInv
  PROVE  /\ \A l \in DOMAIN launch :
              /\ l \in Nat \ {0} /\ launch[l] \in Launches
              /\ launch[l].inputs \in Inputs /\ launch[l].alt \in Seq(Alts)
         /\ \A i \in DOMAIN sims : i \in Nat \ {0} /\ sims[i].inputs \in Inputs
<1>1. /\ \A l \in DOMAIN launch : l \in Nat \ {0} /\ launch[l] \in Launches
      /\ \A i \in DOMAIN sims : i \in Nat \ {0} /\ sims[i] \in Simulations
  BY DEF TypeInv
<1>2. \A r \in Launches : r.inputs \in Inputs /\ r.alt \in Seq(Alts)
  BY DEF Launches
<1>3. \A r \in Simulations : r.inputs \in Inputs
  BY DEF Simulations
<1> QED
  BY <1>1, <1>2, <1>3

\* The first of the simulations that are added is selected.
LEMMA SimulationAdded ==
  ASSUME TypeInv, SelectedExists, NEW new \in Seq(Simulations), new # <<>>,
         AddStdcmSimulations(new), retained' = retained
  PROVE  /\ sims' \in Seq(Simulations) /\ selected' \in Nat /\ SelectedExists'
         /\ \A i \in DOMAIN sims' :
              \/ i \in DOMAIN sims /\ sims'[i] = sims[i]
              \/ \E j \in DOMAIN new : sims'[i] = new[j]
<1> USE DEF TypeInv, AddStdcmSimulations
<1>1. /\ Len(sims) \in Nat /\ Len(new) \in Nat \ {0}
      /\ DOMAIN sims = 1..Len(sims) /\ DOMAIN new = 1..Len(new)
      /\ sims' \in Seq(Simulations) /\ Len(sims') = Len(sims) + Len(new)
      /\ DOMAIN sims' = 1..(Len(sims) + Len(new))
      /\ selected' = Len(sims) + 1
  OBVIOUS
<1>2. \A i \in 1..(Len(sims) + Len(new)) :
        sims'[i] = IF i <= Len(sims) THEN sims[i] ELSE new[i - Len(sims)]
  BY <1>1
<1>3. \A i \in 1..(Len(sims) + Len(new)) : i \in 1..Len(sims) \/ i - Len(sims) \in 1..Len(new)
  BY <1>1
<1>4. SelectedExists'
  BY <1>1 DEF SelectedExists, None
<1>5. ASSUME NEW i \in DOMAIN sims'
      PROVE  \/ i \in DOMAIN sims /\ sims'[i] = sims[i]
             \/ \E j \in DOMAIN new : sims'[i] = new[j]
  BY <1>1, <1>2, <1>3, SMTT(30)
<1> QED
  BY <1>1, <1>4, <1>5

\* What a launch records of an answer is a simulation of that launch.
LEMMA Created ==
  ASSUME TypeInv, NEW l \in DOMAIN launch, NEW answer,
         NEW alt \in Directions \cup {"requested"}
  PROVE  /\ CreateSimulation(l, alt, answer) \in Simulations
         /\ CreateSimulation(l, alt, answer).launch = l
<1>1. l \in Nat /\ launch[l].inputs \in Inputs
  BY Members
<1>2. ASSUME alt # "requested" PROVE AdjustInputByDirection(launch[l].inputs, alt) \in Inputs
  <2>1. ASSUME NEW inputs \in Inputs, NEW d \in Directions
        PROVE  AdjustInputByDirection(inputs, d) \in Inputs
    <3>1. Append(inputs.adj, d) \in Seq(Directions)
      BY DEF Inputs
    <3> QED
      BY <3>1 DEF AdjustInputByDirection, Inputs
  <2> QED
    BY <1>1, <1>2, <2>1
<1>3. ASSUME NEW inputs \in Inputs, NEW found \in BOOLEAN
      PROVE  [launch |-> l, alt |-> alt, found |-> found, inputs |-> inputs] \in Simulations
  BY <1>1 DEF Simulations
<1>4. (answer = "success") \in BOOLEAN
  OBVIOUS
<1>5. (IF alt = "requested" THEN launch[l].inputs
       ELSE AdjustInputByDirection(launch[l].inputs, alt)) \in Inputs
  BY <1>1, <1>2
<1>6. CreateSimulation(l, alt, answer) \in Simulations
  BY <1>3, <1>4, <1>5 DEF CreateSimulation
<1> QED
  BY <1>6 DEF CreateSimulation

\* A step that ends a launch and adds its simulations. The launch is stopped
\* only if its additional requests have a place already.
LEMMA EndsWithSimulations ==
  ASSUME IInv, NEW l \in DOMAIN launch, NEW new \in Seq(Simulations), new # <<>>,
         \A j \in DOMAIN new : new[j].launch = l,
         launch[l].pc # "done", AddStdcmSimulations(new), retained' = retained,
         form' = form, cancelled' \in Seq(Flags), promise' \in {promise, None},
         NEW rec \in Launches, launch' = [launch EXCEPT ![l] = rec],
         rec.pc = "done", rec.stopped => rec.alt # <<>>
  PROVE  IInv'
<1>1. /\ sims' \in Seq(Simulations) /\ selected' \in Nat /\ SelectedExists'
      /\ \A i \in DOMAIN sims' :
           \/ i \in DOMAIN sims /\ sims'[i] = sims[i]
           \/ \E j \in DOMAIN new : sims'[i] = new[j]
  BY SimulationAdded DEF IInv
<1>2. /\ launch' \in Seq(Launches) /\ DOMAIN launch' = DOMAIN launch
      /\ \A m \in DOMAIN launch : launch'[m] = IF m = l THEN rec ELSE launch[m]
  BY DEF IInv, TypeInv
<1>3. TypeInv' /\ PromiseExists'
  BY <1>1, <1>2 DEF IInv, TypeInv, PromiseExists, None
<1>4. AlternativesHavePlaces' /\ StoppedIsOver'
  BY <1>2 DEF IInv, AlternativesHavePlaces, StoppedIsOver
<1>5. \A i \in DOMAIN sims' : \/ sims'[i].launch = l
                              \/ /\ i \in DOMAIN sims /\ sims'[i] = sims[i]
                                 /\ sims[i].launch # l
  BY <1>1 DEF IInv, SimulationsAreFinal
<1>6. SimulationsAreFinal'
  BY <1>2, <1>5 DEF IInv, SimulationsAreFinal
<1>7. StoppedAddsNothing'
  BY <1>2, <1>5 DEF IInv, StoppedAddsNothing, SimulationsAreFinal
<1> QED
  BY <1>1, <1>3, <1>4, <1>6, <1>7 DEF IInv

\* A step of a launch that is not over, which leaves the simulations alone.
LEMMA StepWithoutSimulations ==
  ASSUME IInv, NEW l \in DOMAIN launch, launch[l].pc # "done",
         UNCHANGED <<sims, selected, retained, form>>, cancelled' \in Seq(Flags),
         promise' \in {promise, None, l},
         NEW rec \in Launches, launch' = [launch EXCEPT ![l] = rec],
         rec.pc \in {"posts", "altfetch"} => rec.alt # <<>>, rec.stopped => rec.pc = "done"
  PROVE  IInv'
<1>1. /\ launch' \in Seq(Launches) /\ DOMAIN launch' = DOMAIN launch /\ l \in Nat
      /\ \A m \in DOMAIN launch : launch'[m] = IF m = l THEN rec ELSE launch[m]
  BY DEF IInv, TypeInv
<1>2. TypeInv' /\ PromiseExists'
  BY <1>1 DEF IInv, TypeInv, PromiseExists, None
<1>3. AlternativesHavePlaces' /\ StoppedIsOver'
  BY <1>1 DEF IInv, AlternativesHavePlaces, StoppedIsOver
<1>4. \A i \in DOMAIN sims : sims[i].launch # l
  BY DEF IInv, SimulationsAreFinal
<1>5. SimulationsAreFinal' /\ StoppedAddsNothing'
  BY <1>1, <1>4 DEF IInv, StoppedAddsNothing, SimulationsAreFinal
<1>6. SelectedExists'
  BY DEF IInv, SelectedExists
<1> QED
  BY <1>2, <1>3, <1>5, <1>6 DEF IInv

-----------------------------------------------------------------------------
(* Every action preserves the invariant.                                   *)

\* The simulations of a launch, in the forms in which they are added.
LEMMA RequestedIsASimulation ==
  ASSUME TypeInv, NEW l \in DOMAIN launch, NEW answer
  PROVE  /\ Requested(l, answer) \in Seq(Simulations) /\ Requested(l, answer) # <<>>
         /\ \A j \in DOMAIN Requested(l, answer) : Requested(l, answer)[j].launch = l
<1> DEFINE r == CreateSimulation(l, "requested", answer)
<1>1. r \in Simulations /\ r.launch = l
  BY Created
<1> HIDE DEF r
<1>2. Requested(l, answer) = <<r>>
  BY DEF Requested, r
<1> QED
  BY <1>1, <1>2

AllThree(l, a, b) ==
  Requested(l, "path_not_found")
  \o <<CreateSimulation(l, "downstream", a), CreateSimulation(l, "upstream", b)>>

LEMMA AllThreeAreSimulations ==
  ASSUME TypeInv, NEW l \in DOMAIN launch, NEW a, NEW b
  PROVE  /\ AllThree(l, a, b) \in Seq(Simulations) /\ AllThree(l, a, b) # <<>>
         /\ \A j \in DOMAIN AllThree(l, a, b) : AllThree(l, a, b)[j].launch = l
<1> DEFINE r == CreateSimulation(l, "requested", "path_not_found")
           d == CreateSimulation(l, "downstream", a)
           u == CreateSimulation(l, "upstream", b)
<1>1. /\ r \in Simulations /\ r.launch = l
      /\ d \in Simulations /\ d.launch = l
      /\ u \in Simulations /\ u.launch = l
  BY Created DEF Directions
<1> HIDE DEF r, d, u
<1> DEFINE new == AllThree(l, a, b)
<1>2. new = <<r>> \o <<d, u>>
  BY DEF AllThree, Requested, r, d, u
<1> HIDE DEF new
<1>3. new \in Seq(Simulations) /\ new # <<>> /\ \A j \in DOMAIN new : new[j] \in {r, d, u}
  BY <1>1, <1>2, ThreeMembers
<1>4. \A j \in DOMAIN new : new[j].launch = l
  BY <1>1, <1>3
<1> QED
  BY <1>3, <1>4 DEF new

LEMMA EditPreserves ==
  ASSUME IInv, \/ EditForm \/ RetainSimulation \/ HandleStartNewQuery \/ ToggleDebugMode
               \/ SelectScenario \/ EnvironmentMissing
               \/ \E i \in DOMAIN sims : HandleSelectSimulation(i)
  PROVE  IInv'
<1> USE DEF IInv, store, hook, page
<1>1. launch' = launch /\ sims' = sims /\ promise' = promise /\ cancelled' = cancelled
  BY DEF EditForm, RetainSimulation, HandleStartNewQuery, ToggleDebugMode, SelectScenario,
         EnvironmentMissing, HandleSelectSimulation
<1>2. form' \in Inputs
  <2>1. <<>> \in Seq(Directions)
    OBVIOUS
  <2>2. CASE EditForm
    BY <2>1, <2>2 DEF EditForm, Inputs
  <2>3. CASE \E i \in DOMAIN sims : HandleSelectSimulation(i)
    BY <2>3, Members DEF HandleSelectSimulation
  <2> QED
    BY <2>2, <2>3 DEF RetainSimulation, HandleStartNewQuery, ToggleDebugMode, SelectScenario,
       EnvironmentMissing, TypeInv
<1>3. \/ selected' = selected /\ retained' = retained
      \/ selected' = selected /\ selected # None /\ retained' = selected
      \/ selected' \in DOMAIN sims /\ retained' = retained
  BY DEF EditForm, RetainSimulation, HandleStartNewQuery, ToggleDebugMode, SelectScenario,
         EnvironmentMissing, HandleSelectSimulation
<1>4. SelectedExists' /\ selected' \in Nat /\ retained' \in Nat
  BY <1>1, <1>3 DEF SelectedExists, TypeInv
<1>5. TypeInv' /\ PromiseExists' /\ AlternativesHavePlaces' /\ StoppedIsOver' /\ SimulationsAreFinal'
  BY <1>1, <1>2, <1>4 DEF TypeInv, PromiseExists, AlternativesHavePlaces, StoppedIsOver, SimulationsAreFinal
<1>6. StoppedAddsNothing'
  BY <1>1 DEF StoppedAddsNothing
<1> QED
  BY <1>4, <1>5, <1>6

LEMMA ResetPreserves == IInv /\ (ScenarioSelected \/ EnvironmentLoaded) => IInv'
<1> SUFFICES ASSUME IInv, ScenarioSelected \/ EnvironmentLoaded PROVE IInv'
  OBVIOUS
<1> USE DEF IInv, hook
<1>1. /\ sims' = <<>> /\ selected' = None /\ retained' = None
      /\ launch' = launch /\ form' = form
      /\ promise' \in {promise, None} /\ cancelled' \in {cancelled, Append(cancelled, FALSE)}
  BY DEF ScenarioSelected, EnvironmentLoaded, ResetStdcmSimulations
<1>2. TypeInv'
  <2>1. cancelled' \in Seq(Flags)
    BY <1>1, FlagsExist, SeqUpdates, Zenon DEF TypeInv
  <2>2. sims' \in Seq(Simulations)
    BY <1>1
  <2> QED
    BY <1>1, <2>1, <2>2 DEF TypeInv, None
<1>3. PromiseExists' /\ AlternativesHavePlaces' /\ StoppedIsOver' /\ SimulationsAreFinal'
  BY <1>1 DEF PromiseExists, AlternativesHavePlaces, StoppedIsOver, SimulationsAreFinal
<1>4. SelectedExists' /\ StoppedAddsNothing'
  BY <1>1 DEF SelectedExists, StoppedAddsNothing
<1> QED
  BY <1>2, <1>3, <1>4

LEMMA LaunchPreserves == IInv /\ (LaunchStdcmRequest \/ LaunchInvalid) => IInv'
<1> SUFFICES ASSUME IInv, LaunchStdcmRequest \/ LaunchInvalid PROVE IInv'
  OBVIOUS
<1> USE DEF IInv, store
<1>1. /\ UNCHANGED <<form, sims, selected, retained>> /\ cancelled' \in Seq(Flags)
      /\ SelectedExists'
  <2>1. /\ UNCHANGED <<form, sims, selected, retained>>
        /\ cancelled' = [cancelled EXCEPT ![Mount] = FALSE]
    BY DEF LaunchStdcmRequest, LaunchInvalid
  <2>2. cancelled' \in Seq(Flags)
    BY <2>1, FlagsExist, SeqUpdates, Zenon DEF TypeInv
  <2> QED
    BY <2>1, <2>2 DEF SelectedExists
<1>2. CASE LaunchInvalid
  BY <1>1, <1>2 DEF LaunchInvalid, TypeInv, PromiseExists, AlternativesHavePlaces, StoppedIsOver,
     SimulationsAreFinal, StoppedAddsNothing
<1>3. CASE LaunchStdcmRequest
  <2> DEFINE rec == [pc |-> "post", mount |-> Mount, inputs |-> form, alt |-> <<>>,
                     stopped |-> FALSE]
  <2>1. Mount \in Nat /\ <<>> \in Seq(Alts)
    BY DEF Mount, TypeInv
  <2>2. rec \in Launches /\ rec.pc = "post" /\ ~rec.stopped
    BY <2>1 DEF TypeInv, Launches
  <2>3. promise' = Len(launch) + 1 /\ launch' = Append(launch, rec)
    BY <1>3 DEF LaunchStdcmRequest
  <2> HIDE DEF rec
  <2>4. /\ Len(launch) \in Nat /\ DOMAIN launch = 1..Len(launch)
        /\ launch' \in Seq(Launches) /\ DOMAIN launch' = 1..(Len(launch) + 1)
        /\ \A l \in DOMAIN launch : launch'[l] = launch[l]
        /\ launch'[Len(launch) + 1] = rec
    BY <2>2, <2>3 DEF TypeInv
  <2>5. TypeInv' /\ PromiseExists'
    BY <1>1, <2>3, <2>4 DEF TypeInv, PromiseExists
  <2>6. AlternativesHavePlaces' /\ StoppedIsOver'
    BY <2>2, <2>4 DEF AlternativesHavePlaces, StoppedIsOver
  <2>7. SimulationsAreFinal' /\ StoppedAddsNothing'
    BY <1>1, <2>4 DEF SimulationsAreFinal, StoppedAddsNothing
  <2> QED
    BY <1>1, <2>5, <2>6, <2>7
<1> QED
  BY <1>2, <1>3

LEMMA CancelPreserves == IInv /\ CancelStdcmRequest => IInv'
<1> SUFFICES ASSUME IInv, CancelStdcmRequest PROVE IInv'
  OBVIOUS
<1>1. /\ UNCHANGED <<form, retained>> /\ promise' = None
      /\ cancelled' = [cancelled EXCEPT ![Mount] = TRUE]
  BY DEF CancelStdcmRequest
<1>2. cancelled' \in Seq(Flags)
  BY <1>1, FlagsExist, SeqUpdates, Zenon DEF IInv, TypeInv
<1>3. CASE ~(promise # None /\ launch[promise].pc \in {"post", "posts"})
  <2>1. UNCHANGED <<launch, sims, selected>>
    BY <1>3 DEF CancelStdcmRequest
  <2> QED
    BY <1>1, <1>2, <2>1 DEF IInv, TypeInv, PromiseExists, AlternativesHavePlaces, StoppedIsOver,
       SimulationsAreFinal, SelectedExists, StoppedAddsNothing, None
<1>4. CASE promise # None /\ launch[promise].pc \in {"post", "posts"}
  <2> DEFINE rec == [launch[promise] EXCEPT !.pc = "done", !.stopped = TRUE]
  <2>1. promise \in DOMAIN launch /\ launch[promise] \in Launches
    BY <1>4, Members DEF IInv, PromiseExists
  <2>2. rec \in Launches
    BY <2>1 DEF Launches
  <2>3. rec.pc = "done" /\ rec.alt = launch[promise].alt /\ launch[promise].pc # "done"
    BY <1>4, <2>1 DEF Launches
  <2>4. launch' = [launch EXCEPT ![promise] = rec]
    BY <1>4 DEF CancelStdcmRequest
  <2> HIDE DEF rec
  <2>5. CASE launch[promise].pc = "post"
    <3>1. UNCHANGED <<sims, selected>>
      BY <1>4, <2>5 DEF CancelStdcmRequest
    <3> QED
      BY <1>1, <1>2, <2>1, <2>2, <2>3, <2>4, <3>1, StepWithoutSimulations
  <2>6. CASE launch[promise].pc = "posts"
    <3> DEFINE new == Requested(promise, "path_not_found")
    <3>1. AddStdcmSimulations(new)
      BY <1>4, <2>6 DEF CancelStdcmRequest
    <3>2. new \in Seq(Simulations) /\ new # <<>> /\ \A j \in DOMAIN new : new[j].launch = promise
      BY <2>1, RequestedIsASimulation DEF IInv
    <3>3. rec.alt # <<>>
      BY <2>1, <2>3, <2>6 DEF IInv, AlternativesHavePlaces, StoppedIsOver
    <3> HIDE DEF new
    <3> QED
      BY <1>1, <1>2, <2>1, <2>2, <2>3, <2>4, <3>1, <3>2, <3>3, EndsWithSimulations
  <2> QED
    BY <1>4, <2>5, <2>6
<1> QED
  BY <1>3, <1>4

\* The answers of the main request, and the path properties of its path.
LEMMA AnswerPreserves ==
  ASSUME NEW l \in DOMAIN launch, IInv,
         HandleSuccess(l) \/ SuccessFetched(l) \/ HandlePathNotFound(l) \/ Rejected(l)
  PROVE  IInv'
<1> USE DEF hook, store, Goto
<1>1. /\ launch[l] \in Launches /\ UNCHANGED <<form, retained, cancelled>>
      /\ cancelled \in Seq(Flags) /\ launch[l].pc # "done" /\ ~launch[l].stopped
  BY Members DEF IInv, TypeInv, StoppedIsOver, HandleSuccess, SuccessFetched,
     HandlePathNotFound, Rejected
<1>2. CASE HandleSuccess(l) \/ Rejected(l) \/ (SuccessFetched(l) /\ IsCancelled(l))
  <2>1. PICK pc \in {"fetch", "done"} : launch' = [launch EXCEPT ![l].pc = pc]
    BY <1>2 DEF HandleSuccess, Rejected, SuccessFetched
  <2> DEFINE rec == [launch[l] EXCEPT !.pc = pc]
  <2>2. rec \in Launches /\ rec.pc \notin {"posts", "altfetch"} /\ ~rec.stopped
    BY <1>1 DEF Launches
  <2>3. launch' = [launch EXCEPT ![l] = rec]
    BY <2>1
  <2>4. UNCHANGED <<sims, selected, promise>>
    BY <1>2 DEF HandleSuccess, Rejected, SuccessFetched
  <2> HIDE DEF rec
  <2> QED
    BY <1>1, <2>2, <2>3, <2>4, StepWithoutSimulations
<1>3. CASE SuccessFetched(l) /\ ~IsCancelled(l)
  <2> DEFINE rec == [launch[l] EXCEPT !.pc = "done"]
             new == Requested(l, "success")
  <2>1. rec \in Launches /\ rec.pc = "done" /\ ~rec.stopped
    BY <1>1 DEF Launches
  <2>2. /\ launch' = [launch EXCEPT ![l] = rec] /\ AddStdcmSimulations(new) /\ promise' = promise
        /\ launch[l].pc = "fetch"
    BY <1>3 DEF SuccessFetched
  <2>3. new \in Seq(Simulations) /\ new # <<>> /\ \A j \in DOMAIN new : new[j].launch = l
    BY RequestedIsASimulation DEF IInv
  <2> HIDE DEF rec, new
  <2> QED
    BY <1>1, <2>1, <2>2, <2>3, EndsWithSimulations
<1>4. CASE HandlePathNotFound(l)
  <2> DEFINE alt == <<"none", "none">>
             rec == [launch[l] EXCEPT !.pc = "posts", !.alt = alt]
  <2>1. alt \in Seq(Alts) /\ alt # <<>>
    BY DEF Alts
  <2>2. rec \in Launches /\ rec.alt # <<>> /\ ~rec.stopped
    <3> HIDE DEF alt
    <3> QED
      BY <1>1, <2>1 DEF Launches
  <2>3. /\ launch' = [launch EXCEPT ![l] = rec] /\ UNCHANGED <<sims, selected>>
        /\ promise' \in {promise, l}
    BY <1>4 DEF HandlePathNotFound
  <2> HIDE DEF rec
  <2> QED
    BY <1>1, <2>2, <2>3, StepWithoutSimulations
<1> QED
  BY <1>2, <1>3, <1>4

\* An additional request is answered. The launch ends, with the simulation that
\* was requested or with the alternatives too, or waits for more.
LEMMA AlternativePreserves ==
  ASSUME NEW l \in DOMAIN launch, IInv, NEW d \in {1, 2}, NEW answer \in Answers,
         AlternativeAnswered(l, d, answer)
  PROVE  IInv'
<1> DEFINE alt == [launch[l].alt EXCEPT ![d] = answer]
<1>1. /\ launch[l] \in Launches /\ UNCHANGED <<form, retained, cancelled, promise>>
      /\ cancelled \in Seq(Flags) /\ launch[l].pc = "posts" /\ ~launch[l].stopped
  BY Members DEF IInv, TypeInv, StoppedIsOver, AlternativeAnswered
<1>2. alt \in Seq(Alts) /\ alt # <<>>
  <2>1. launch[l].alt \in Seq(Alts) /\ launch[l].alt # <<>> /\ answer \in Alts
    BY <1>1, Members DEF IInv, AlternativesHavePlaces, Alts
  <2>2. \A s \in Seq(Alts) : s # <<>> => [s EXCEPT ![d] = answer] # <<>>
    OBVIOUS
  <2> QED
    BY <2>1, <2>2, SeqUpdates, Zenon
<1>3. \/ /\ launch' = [launch EXCEPT ![l].alt = alt] /\ UNCHANGED <<sims, selected>>
      \/ /\ launch' = [launch EXCEPT ![l].pc = "altfetch", ![l].alt = alt]
         /\ UNCHANGED <<sims, selected>>
      \/ /\ launch' = [launch EXCEPT ![l].pc = "done", ![l].alt = alt]
         /\ \/ AddStdcmSimulations(Requested(l, "path_not_found"))
            \/ AddStdcmSimulations(Requested(l, "path_not_found")
                                   \o <<CreateSimulation(l, "downstream", alt[1]),
                                        CreateSimulation(l, "upstream", alt[2])>>)
  BY DEF AlternativeAnswered
<1> HIDE DEF alt
<1>4. CASE UNCHANGED <<sims, selected>>
  <2>1. PICK pc \in {"posts", "altfetch", "done"} :
          launch' = [launch EXCEPT ![l] = [launch[l] EXCEPT !.pc = pc, !.alt = alt]]
    <3>1. launch[l] = [launch[l] EXCEPT !.pc = "posts"]
      BY <1>1 DEF Launches
    <3>2. [launch[l] EXCEPT !.alt = alt] = [launch[l] EXCEPT !.pc = "posts", !.alt = alt]
      BY <1>1 DEF Launches
    <3>3. \/ launch' = [launch EXCEPT ![l] = [launch[l] EXCEPT !.alt = alt]]
          \/ launch' = [launch EXCEPT ![l] = [launch[l] EXCEPT !.pc = "altfetch", !.alt = alt]]
          \/ launch' = [launch EXCEPT ![l] = [launch[l] EXCEPT !.pc = "done", !.alt = alt]]
      BY <1>3
    <3> QED
      BY <3>2, <3>3
  <2> DEFINE rec == [launch[l] EXCEPT !.pc = pc, !.alt = alt]
  <2>2. rec \in Launches /\ rec.alt # <<>> /\ ~rec.stopped
    BY <1>1, <1>2 DEF Launches
  <2>3. launch' = [launch EXCEPT ![l] = rec]
    BY <2>1
  <2> HIDE DEF rec
  <2> QED
    BY <1>1, <1>4, <2>2, <2>3, StepWithoutSimulations
<1>5. ASSUME NEW new, new \in Seq(Simulations), new # <<>>,
             \A j \in DOMAIN new : new[j].launch = l, AddStdcmSimulations(new),
             launch' = [launch EXCEPT ![l].pc = "done", ![l].alt = alt]
      PROVE  IInv'
  <2> DEFINE rec == [launch[l] EXCEPT !.pc = "done", !.alt = alt]
  <2>1. rec \in Launches /\ rec.pc = "done" /\ ~rec.stopped
    BY <1>1, <1>2 DEF Launches
  <2>2. launch' = [launch EXCEPT ![l] = rec] /\ launch[l].pc # "done"
    BY <1>1, <1>5
  <2> HIDE DEF rec
  <2> QED
    BY <1>1, <1>5, <2>1, <2>2, EndsWithSimulations
<1>6. TypeInv
  BY DEF IInv
<1> DEFINE one == Requested(l, "path_not_found")
           all == AllThree(l, alt[1], alt[2])
<1>7. one \in Seq(Simulations) /\ one # <<>> /\ \A j \in DOMAIN one : one[j].launch = l
  BY <1>6, RequestedIsASimulation
<1>8. all \in Seq(Simulations) /\ all # <<>> /\ \A j \in DOMAIN all : all[j].launch = l
  BY <1>6, AllThreeAreSimulations
<1>9. \/ UNCHANGED <<sims, selected>>
      \/ /\ launch' = [launch EXCEPT ![l].pc = "done", ![l].alt = alt]
         /\ AddStdcmSimulations(one) \/ AddStdcmSimulations(all)
  BY <1>3 DEF AllThree
<1> HIDE DEF one, all
<1> QED
  BY <1>4, <1>5, <1>7, <1>8, <1>9

LEMMA FetchedPreserves ==
  ASSUME NEW l \in DOMAIN launch, IInv, AlternativesFetched(l)
  PROVE  IInv'
<1> DEFINE rec == [launch[l] EXCEPT !.pc = "done"]
<1>1. /\ launch[l] \in Launches /\ UNCHANGED <<form, retained, cancelled, promise>> /\ TypeInv
      /\ cancelled \in Seq(Flags) /\ launch[l].pc = "altfetch" /\ ~launch[l].stopped
  BY Members DEF IInv, TypeInv, StoppedIsOver, AlternativesFetched
<1>2. rec \in Launches /\ rec.pc = "done" /\ ~rec.stopped
  BY <1>1 DEF Launches
<1>3. launch' = [launch EXCEPT ![l] = rec]
  BY DEF AlternativesFetched, Goto
<1>4. PICK new : /\ AddStdcmSimulations(new)
                 /\ \/ new = Requested(l, "path_not_found")
                    \/ new = Requested(l, "path_not_found") \o Alternatives(l)
  BY DEF AlternativesFetched
<1>5. new \in Seq(Simulations) /\ new # <<>> /\ \A j \in DOMAIN new : new[j].launch = l
  <2>1. CASE new = Requested(l, "path_not_found")
    BY <1>1, <2>1, RequestedIsASimulation
  <2>2. CASE new = Requested(l, "path_not_found") \o Alternatives(l)
    <3>1. new = AllThree(l, launch[l].alt[1], launch[l].alt[2])
      BY <2>2 DEF Alternatives, AllThree
    <3> QED
      BY <1>1, <3>1, AllThreeAreSimulations
  <2> QED
    BY <1>4, <2>1, <2>2
<1> HIDE DEF rec
<1> QED
  BY <1>1, <1>2, <1>3, <1>4, <1>5, EndsWithSimulations

LEMMA NextPreserves == IInv /\ [Next]_vars => IInv'
<1> SUFFICES ASSUME IInv, [Next]_vars PROVE IInv'
  OBVIOUS
<1>1. CASE User
  BY <1>1, EditPreserves, LaunchPreserves, CancelPreserves DEF User
<1>2. CASE ScenarioSelected \/ EnvironmentLoaded \/ EnvironmentMissing
  BY <1>2, ResetPreserves, EditPreserves
<1>3. ASSUME NEW l \in DOMAIN launch, Answer(l) PROVE IInv'
  BY <1>3, AnswerPreserves, AlternativePreserves, FetchedPreserves DEF Answer
<1>4. CASE UNCHANGED vars
  BY <1>4 DEF vars, IInv, TypeInv, PromiseExists, AlternativesHavePlaces, StoppedIsOver,
     SimulationsAreFinal, SelectedExists, StoppedAddsNothing
<1> QED
  BY <1>1, <1>2, <1>3, <1>4 DEF Next

LEMMA Invariance == Spec => []IInv
  BY InitEstablishes, NextPreserves, PTL DEF Spec

-----------------------------------------------------------------------------
(* The theorems.                                                           *)

\* Whenever there are simulations one of them is selected, and the selected and
\* the retained simulation are there: getSelectedSimulation never throws.
THEOREM SelectionIsSound == Spec => []SelectedExists
  BY Invariance, PTL DEF IInv

\* No simulation comes from a request that was stopped before its first answer,
\* whatever later launches do to the flag they share with it.
THEOREM StoppedLeavesNothing == Spec => []StoppedAddsNothing
  BY Invariance, PTL DEF IInv

-----------------------------------------------------------------------------
(* The power restrictions.                                                 *)

Value == Code \cup {Empty}
PathStep == [id : Nat, pos : Position, pr : BOOLEAN]
Restriction(I) == [from : I, to : I, value : Value]
ShownRange == [begin : Position, end : Position, value : Value]

\* Steps from the origin to the destination, none behind the one before.
IsPath(s) ==
  /\ s \in Seq(PathStep) /\ Len(s) >= 2
  /\ \A i, j \in DOMAIN s : i <= j => s[i].pos <= s[j].pos
  /\ s[1].pos = 0 /\ s[Len(s)].pos = Length

\* Restrictions between steps of s.
Refers(rs, s) == rs \in Seq(Restriction(Ids(s)))

PowerInv == IsPath(steps) /\ Refers(restr, steps) /\ custom \in Seq(ShownRange)

LEMMA PositionsAreNaturals ==
  Length \in Nat /\ Position \subseteq Nat /\ IsFiniteSet(Position) /\ {0, Length} \subseteq Position
<1>1. Length \in Nat
  BY PowerRestrictionsAssumption
<1> QED
  BY <1>1, FS_Interval DEF Position

LEMMA PathSound ==
  ASSUME NEW s, IsPath(s)
  PROVE  /\ Len(s) \in Nat /\ DOMAIN s = 1..Len(s)
         /\ \A i \in DOMAIN s : s[i] \in PathStep /\ s[i].id \in Ids(s) /\ s[i].pos \in Position
         /\ Ids(s) \subseteq Nat
<1>1. s \in Seq(PathStep)
  BY DEF IsPath
<1>2. Len(s) \in Nat /\ DOMAIN s = 1..Len(s) /\ \A i \in DOMAIN s : s[i] \in PathStep
  BY <1>1
<1>3. \A i \in DOMAIN s : s[i].id \in Nat /\ s[i].pos \in Position
  BY <1>2 DEF PathStep
<1> QED
  BY <1>2, <1>3 DEF Ids

-----------------------------------------------------------------------------
(* The path.                                                               *)

LEMMA InitialPath == PowerInit => PowerInv
<1> SUFFICES ASSUME PowerInit PROVE PowerInv
  OBVIOUS
<1> USE PositionsAreNaturals
<1>1. PICK V \in Vias : /\ steps = [i \in DOMAIN Ascending({0, Length} \cup V) |->
                                     [id |-> i, pos |-> Ascending({0, Length} \cup V)[i], pr |-> FALSE]]
                        /\ restr = <<>> /\ custom = <<>>
  BY DEF PowerInit
<1> DEFINE S == {0, Length} \cup V
           at == Ascending(S)
<1>2. S \in SUBSET Position /\ S \subseteq Int
  BY PowerRestrictionsAssumption DEF Position
<1>3. 0 \in S /\ Length \in S /\ Length # 0
  BY PowerRestrictionsAssumption
<1> HIDE DEF S
<1>4. IsFiniteSet(S)
  BY <1>2, FS_Subset
<1>5. /\ at \in Seq(S)
      /\ \A n \in S : \E k \in DOMAIN at : at[k] = n
      /\ \A k, l \in DOMAIN at : k <= l => at[k] <= at[l]
  BY <1>2, <1>4, AscendingLists
<1>6. /\ DOMAIN steps = DOMAIN at
      /\ \A i \in DOMAIN at : steps[i] = [id |-> i, pos |-> at[i], pr |-> FALSE]
  BY <1>1 DEF at, S
<1> DEFINE n == Len(at)
<1>7. n \in Nat /\ DOMAIN at = 1..n /\ \A i \in 1..n : at[i] \in S /\ at[i] \in Position /\ at[i] \in Nat
  <2> HIDE DEF at
  <2>1. n \in Nat /\ DOMAIN at = 1..n /\ \A i \in 1..n : at[i] \in S
    BY <1>5
  <2>2. \A x \in S : x \in Position /\ x \in Nat
    BY <1>2
  <2> QED
    BY <2>1, <2>2
<1>8. steps = [i \in 1..n |-> [id |-> i, pos |-> at[i], pr |-> FALSE]]
  BY <1>1, <1>7 DEF at, S
<1> HIDE DEF at, n
<1>9. \A i \in 1..n : [id |-> i, pos |-> at[i], pr |-> FALSE] \in PathStep
  BY <1>7 DEF PathStep
<1>10. steps \in [1..n -> PathStep]
  BY <1>8, <1>9
<1>11. steps \in Seq(PathStep) /\ Len(steps) = n
  BY <1>7, <1>10
<1>12. \A i \in 1..n : steps[i].pos = at[i]
  BY <1>8
<1>13. PICK a \in 1..n, b \in 1..n : at[a] = 0 /\ at[b] = Length
  BY <1>3, <1>5, <1>7
<1>14. a # b /\ n >= 2 /\ 1 \in 1..n /\ n \in 1..n
  BY <1>3, <1>7, <1>13
<1>15. at[1] <= at[a] /\ at[b] <= at[n]
  <2>1. 1 <= a /\ b <= n
    BY <1>7, <1>13
  <2> QED
    BY <1>5, <1>7, <1>13, <1>14, <2>1
<1>16. at[1] = 0 /\ at[n] = Length
  <2>1. at[1] \in Nat /\ at[n] \in Nat /\ at[n] <= Length
    BY <1>7, <1>14 DEF Position
  <2> QED
    BY <1>13, <1>15, <2>1
<1>17. IsPath(steps)
  <2>1. \A i, j \in DOMAIN steps : i <= j => steps[i].pos <= steps[j].pos
    BY <1>5, <1>6, <1>7, <1>12
  <2> QED
    BY <1>11, <1>12, <1>14, <1>16, <2>1 DEF IsPath
<1> QED
  BY <1>1, <1>17 DEF PowerInv, Refers

\* A step put between its neighbours.
LEMMA PathInserted ==
  ASSUME NEW s, IsPath(s), NEW new \in PathStep, NEW i \in 2..Len(s),
         s[i - 1].pos <= new.pos, new.pos <= s[i].pos
  PROVE  IsPath(InsertAt(s, i, new)) /\ Ids(InsertAt(s, i, new)) = Ids(s) \cup {new.id}
<1> DEFINE t == InsertAt(s, i, new)
           n == Len(s)
<1>1. /\ n \in Nat /\ n >= 2 /\ DOMAIN s = 1..n /\ s \in Seq(PathStep)
      /\ \A j \in 1..n : s[j].pos \in Nat
  BY PathSound, PositionsAreNaturals DEF IsPath
<1>2. \A j, k \in 1..n : j <= k => s[j].pos <= s[k].pos
  BY <1>1 DEF IsPath
<1>3. t \in Seq(PathStep) /\ IsInsertion(t, s, i, new)
  BY <1>1, Inserted
<1> HIDE DEF t
<1>4. /\ Len(t) = n + 1 /\ DOMAIN t = 1..n + 1
      /\ \A j \in 1..n + 1 : t[j] = IF j < i THEN s[j] ELSE IF j = i THEN new ELSE s[j - 1]
  BY <1>1, <1>3 DEF IsInsertion
<1> HIDE DEF n
<1>5. i \in 2..n
  BY DEF n
<1>6. new.pos \in Nat
  BY PositionsAreNaturals DEF PathStep
<1>7. \A j \in 1..n : (j < i => s[j].pos <= new.pos) /\ (j >= i => new.pos <= s[j].pos)
  <2> SUFFICES ASSUME NEW j \in 1..n
               PROVE  (j < i => s[j].pos <= new.pos) /\ (j >= i => new.pos <= s[j].pos)
    OBVIOUS
  <2>1. i - 1 \in 1..n /\ i \in 1..n
    BY <1>1, <1>5
  <2>2. s[j].pos \in Nat /\ s[i].pos \in Nat /\ s[i - 1].pos \in Nat
    BY <1>1, <2>1
  <2>3. (j <= i - 1 => s[j].pos <= s[i - 1].pos) /\ (i <= j => s[i].pos <= s[j].pos)
    BY <1>2, <2>1
  <2> QED
    BY <1>1, <1>5, <1>6, <2>2, <2>3
<1>8. \A j, k \in DOMAIN t : j <= k => t[j].pos <= t[k].pos
  <2> SUFFICES ASSUME NEW j \in 1..n + 1, NEW k \in 1..n + 1, j <= k PROVE t[j].pos <= t[k].pos
    BY <1>4
  <2>1. CASE k < i
    <3>1. t[j] = s[j] /\ t[k] = s[k] /\ j \in 1..n /\ k \in 1..n
      BY <1>1, <1>4, <1>5, <2>1
    <3> QED
      BY <1>2, <3>1
  <2>2. CASE k = i
    <3>1. CASE j = i
      BY <1>4, <1>6, <2>2, <3>1
    <3>2. CASE j < i
      <4>1. t[j] = s[j] /\ t[k] = new /\ j \in 1..n
        BY <1>1, <1>4, <1>5, <2>2, <3>2
      <4> QED
        BY <1>7, <3>2, <4>1
    <3> QED
      BY <1>5, <2>2, <3>1, <3>2
  <2>3. CASE k > i
    <3>1. t[k] = s[k - 1] /\ k - 1 \in 1..n /\ k - 1 >= i
      BY <1>1, <1>4, <1>5, <2>3
    <3>2. CASE j < i
      <4>1. t[j] = s[j] /\ j \in 1..n /\ j <= k - 1
        BY <1>1, <1>4, <1>5, <3>1, <3>2
      <4> QED
        BY <1>2, <3>1, <4>1
    <3>3. CASE j = i
      <4>1. t[j] = new
        BY <1>4, <3>3
      <4> QED
        BY <1>7, <3>1, <4>1
    <3>4. CASE j > i
      <4>1. t[j] = s[j - 1] /\ j - 1 \in 1..n /\ j - 1 <= k - 1
        BY <1>1, <1>4, <1>5, <3>1, <3>4
      <4> QED
        BY <1>2, <3>1, <4>1
    <3> QED
      BY <1>5, <3>2, <3>3, <3>4
  <2> QED
    BY <1>5, <2>1, <2>2, <2>3
<1>9. t[1] = s[1] /\ t[n + 1] = s[n]
  <2>1. 1 \in 1..n + 1 /\ 1 < i
    BY <1>1, <1>5
  <2>2. PICK m \in 1..n + 1 : m = n + 1 /\ ~(m < i) /\ m # i /\ m - 1 = n
    BY <1>1, <1>5
  <2>3. t[m] = s[m - 1]
    BY <1>4, <2>2
  <2> QED
    BY <1>4, <2>1, <2>2, <2>3
<1>10. IsPath(t)
  <2>1. s[1].pos = 0 /\ s[n].pos = Length
    BY DEF IsPath, n
  <2>2. Len(t) >= 2
    BY <1>1, <1>4
  <2> QED
    BY <1>3, <1>4, <1>8, <1>9, <2>1, <2>2 DEF IsPath
<1>11. Ids(t) = Ids(s) \cup {new.id}
  <2>1. \A j \in DOMAIN t : t[j].id \in Ids(s) \cup {new.id}
    <3> SUFFICES ASSUME NEW j \in 1..n + 1 PROVE t[j].id \in Ids(s) \cup {new.id}
      BY <1>4
    <3>1. CASE j = i
      BY <1>4, <3>1
    <3>2. CASE j # i
      <4>1. PICK k \in 1..n : t[j] = s[k]
        BY <1>1, <1>4, <1>5, <3>2
      <4> QED
        BY <1>1, <4>1 DEF Ids
    <3> QED
      BY <3>1, <3>2
  <2>2. \A k \in 1..n : \E j \in DOMAIN t : t[j] = s[k]
    <3> SUFFICES ASSUME NEW k \in 1..n PROVE \E j \in DOMAIN t : t[j] = s[k]
      OBVIOUS
    <3>1. CASE k < i
      <4>1. k \in 1..n + 1
        BY <1>1
      <4>2. t[k] = s[k]
        BY <1>4, <3>1, <4>1
      <4> QED
        BY <1>4, <4>1, <4>2
    <3>2. CASE k >= i
      <4>1. k + 1 \in 1..n + 1 /\ ~(k + 1 < i) /\ k + 1 # i /\ k + 1 - 1 = k
        BY <1>1, <1>5, <3>2
      <4>2. t[k + 1] = s[k]
        BY <1>4, <4>1
      <4> QED
        BY <1>4, <4>1, <4>2
    <3> QED
      BY <1>5, <3>1, <3>2
  <2>3. i \in DOMAIN t /\ t[i] = new
    BY <1>1, <1>4, <1>5
  <2>4. \A k \in DOMAIN s : \E j \in DOMAIN t : t[j].id = s[k].id
    BY <1>1, <2>2
  <2>5. \A x \in Ids(s) : x \in Ids(t)
    BY <2>4 DEF Ids
  <2>6. new.id \in Ids(t)
    BY <2>3 DEF Ids
  <2>7. \A x \in Ids(t) : x \in Ids(s) \cup {new.id}
    BY <2>1 DEF Ids
  <2> QED
    BY <2>5, <2>6, <2>7
<1> QED
  BY <1>10, <1>11 DEF t

\* The first step further than a position is not the origin; only the
\* destination has none.
LEMMA IndexAfterIs ==
  ASSUME NEW s, IsPath(s), NEW pos \in Position
  PROVE  \/ IndexAfter(s, pos) = 0 /\ pos = Length
         \/ IndexAfter(s, pos) \in 2..Len(s) /\ s[IndexAfter(s, pos) - 1].pos <= pos
            /\ pos <= s[IndexAfter(s, pos)].pos
<1> DEFINE n == Len(s)
           I == {i \in 1..n : s[i].pos > pos}
<1>1. /\ n \in Nat /\ n >= 2 /\ \A j \in 1..n : s[j].pos \in Nat
      /\ s[1].pos = 0 /\ s[n].pos = Length /\ pos \in Nat /\ pos <= Length /\ Length \in Nat
  BY PathSound, PositionsAreNaturals DEF IsPath, Position
<1>2. IndexAfter(s, pos) = IF I # {} THEN Min(I) ELSE 0
  BY DEF IndexAfter, SelectInSeq
<1>3. CASE I = {}
  <2>1. ~(s[n].pos > pos)
    BY <1>1, <1>3
  <2> QED
    BY <1>1, <1>2, <1>3, <2>1
<1>4. CASE I # {}
  <2>1. I \subseteq Nat
    BY <1>1
  <2>2. Min(I) \in I /\ \A j \in I : Min(I) <= j
    <3> HIDE DEF I
    <3> QED
      BY <1>4, <2>1, MinOf
  <2>3. PICK m \in 1..n : m = Min(I) /\ s[m].pos > pos
    BY <2>2
  <2>4. m # 1
    BY <1>1, <2>3
  <2>5. m - 1 \in 1..n /\ m - 1 < m
    BY <1>1, <2>4
  <2>6. ~(s[m - 1].pos > pos)
    BY <2>2, <2>3, <2>5
  <2>7. s[m - 1].pos <= pos /\ pos <= s[m].pos /\ m \in 2..n
    BY <1>1, <2>3, <2>4, <2>5, <2>6
  <2> QED
    BY <1>2, <1>4, <2>3, <2>7
<1> QED
  BY <1>3, <1>4

LEMMA PathAdded ==
  ASSUME NEW s, IsPath(s), NEW new \in PathStep
  PROVE  IsPath(AddPathStep(s, new)) /\ Ids(AddPathStep(s, new)) = Ids(s) \cup {new.id}
<1> DEFINE i == IndexAfter(s, new.pos)
<1>1. /\ Len(s) \in Nat /\ Len(s) >= 2 /\ s[Len(s)].pos = Length /\ s # <<>>
      /\ \A j \in 1..Len(s) : s[j].pos \in Nat /\ s[j].pos <= Length
  BY PathSound, PositionsAreNaturals DEF IsPath, Position
<1>2. new.pos \in Position
  BY DEF PathStep
<1>3. CASE new.id \in Ids(s)
  BY <1>3 DEF AddPathStep
<1>4. CASE new.id \notin Ids(s)
  <2>1. AddPathStep(s, new) = AddElementAtIndex(s, i - 1, new)
    BY <1>4 DEF AddPathStep
  <2>2. CASE i = 0 /\ new.pos = Length
    <3>1. AddPathStep(s, new) = InsertAt(s, Len(s), new)
      BY <1>1, <2>1, <2>2 DEF AddElementAtIndex
    <3>2. Len(s) \in 2..Len(s) /\ Len(s) - 1 \in 1..Len(s)
      BY <1>1
    <3>3. s[Len(s) - 1].pos <= new.pos /\ new.pos <= s[Len(s)].pos
      BY <1>1, <2>2, <3>2, PositionsAreNaturals
    <3> QED
      BY <3>1, <3>2, <3>3, PathInserted
  <2>3. CASE i \in 2..Len(s) /\ s[i - 1].pos <= new.pos /\ new.pos <= s[i].pos
    <3> HIDE DEF i
    <3>1. i - 1 >= 0 /\ i - 1 + 1 = i
      BY <1>1, <2>3
    <3>2. AddPathStep(s, new) = InsertAt(s, i, new)
      BY <2>1, <3>1 DEF AddElementAtIndex
    <3> QED
      BY <2>3, <3>2, PathInserted
  <2> QED
    BY <1>2, <2>2, <2>3, IndexAfterIs
<1> QED
  BY <1>3, <1>4

\* What cleanPathSteps leaves is a path, with every step that is referred to.
LEMMA PathCleaned ==
  ASSUME NEW s, IsPath(s), NEW rs, Refers(rs, s)
  PROVE  IsPath(CleanPathSteps(s, rs)) /\ Refers(rs, CleanPathSteps(s, rs))
<1> DEFINE n == Len(s)
           I == {i \in DOMAIN s : i \in {1, Len(s)} \/ ~s[i].pr \/ ~CanRemovePathStep(s[i], rs)}
           t == Kept(s, I)
           N == Cardinality(I)
<1>1. /\ n \in Nat /\ n >= 2 /\ DOMAIN s = 1..n /\ s \in Seq(PathStep)
      /\ \A j \in 1..n : s[j].pos \in Nat
      /\ s[1].pos = 0 /\ s[n].pos = Length
  BY PathSound, PositionsAreNaturals DEF IsPath
<1>2. \A j, k \in 1..n : j <= k => s[j].pos <= s[k].pos
  BY <1>1 DEF IsPath
<1>3. I \subseteq 1..n /\ I \subseteq DOMAIN s /\ 1 \in I /\ n \in I
  BY <1>1
<1>4. t = CleanPathSteps(s, rs)
  BY DEF CleanPathSteps
<1>5. \A r \in Restriction(Ids(s)) : (\E k \in DOMAIN rs : rs[k] = r) =>
        \A x \in {r.from, r.to} : \E i \in I : s[i].id = x
  <2> SUFFICES ASSUME NEW r \in Restriction(Ids(s)), NEW k \in DOMAIN rs, rs[k] = r,
                      NEW x \in {r.from, r.to}
               PROVE  \E i \in I : s[i].id = x
    OBVIOUS
  <2>1. x \in Ids(s)
    BY DEF Restriction
  <2>2. PICK i \in DOMAIN s : s[i].id = x
    BY <2>1 DEF Ids
  <2>3. ~CanRemovePathStep(s[i], rs)
    BY <2>2 DEF CanRemovePathStep
  <2> QED
    BY <2>2, <2>3
<1> HIDE DEF I
<1>6. /\ N \in Nat /\ t \in Seq(PathStep) /\ Len(t) = N
      /\ \A k \in 1..N : \E i \in I : Rank(I, i) = k /\ t[k] = s[i]
      /\ \A i \in I : Rank(I, i) \in 1..N /\ t[Rank(I, i)] = s[i]
  BY <1>1, <1>3, KeptElements
<1>7. \A i, j \in I : i < j => Rank(I, i) < Rank(I, j)
  BY <1>1, <1>3, RankNumbers
<1> HIDE DEF t, N
<1>8. \A k, l \in DOMAIN t : k <= l => t[k].pos <= t[l].pos
  <2> SUFFICES ASSUME NEW k \in 1..N, NEW l \in 1..N, k <= l PROVE t[k].pos <= t[l].pos
    BY <1>6
  <2>1. PICK i \in I, j \in I : Rank(I, i) = k /\ t[k] = s[i] /\ Rank(I, j) = l /\ t[l] = s[j]
    BY <1>6
  <2>2. ~(j < i) /\ i \in 1..n /\ j \in 1..n
    BY <1>3, <1>7, <2>1
  <2>3. i <= j
    BY <2>2
  <2> QED
    BY <1>2, <2>1, <2>2, <2>3
<1>9. Rank(I, 1) < Rank(I, n) /\ Rank(I, 1) \in 1..N /\ Rank(I, n) \in 1..N
  BY <1>1, <1>3, <1>6, <1>7
<1>10. N >= 2 /\ 1 \in 1..N /\ N \in 1..N
  BY <1>6, <1>9
<1>11. t[1].pos = 0 /\ t[N].pos = Length
  <2>1. PICK i \in I, j \in I : t[1] = s[i] /\ t[N] = s[j]
    BY <1>6, <1>10
  <2>2. t[Rank(I, 1)] = s[1] /\ t[Rank(I, n)] = s[n] /\ 1 <= Rank(I, 1) /\ Rank(I, n) <= N
    BY <1>3, <1>6, <1>9
  <2>3. DOMAIN t = 1..N
    BY <1>6
  <2>4. t[1].pos <= t[Rank(I, 1)].pos /\ t[Rank(I, n)].pos <= t[N].pos
    BY <1>8, <1>9, <1>10, <2>2, <2>3
  <2>5. s[i].pos \in Nat /\ s[j].pos \in Nat /\ s[j].pos <= s[n].pos
    <3>1. i \in 1..n /\ j \in 1..n /\ n \in 1..n /\ j <= n
      BY <1>1, <1>3
    <3> QED
      BY <1>1, <1>2, <3>1
  <2> QED
    BY <1>1, <2>1, <2>2, <2>4, <2>5, PositionsAreNaturals
<1>12. IsPath(t)
  BY <1>6, <1>8, <1>10, <1>11 DEF IsPath
<1>13. \A i \in I : s[i].id \in Ids(t)
  BY <1>6 DEF Ids
<1>14. Refers(rs, t)
  <2>1. rs \in Seq(Restriction(Ids(s)))
    BY DEF Refers
  <2>2. \A k \in DOMAIN rs : rs[k] \in Restriction(Ids(t))
    <3> SUFFICES ASSUME NEW k \in DOMAIN rs PROVE rs[k] \in Restriction(Ids(t))
      OBVIOUS
    <3>1. PICK r \in Restriction(Ids(s)) : r = rs[k]
      BY <2>1
    <3>2. r.from \in Ids(t) /\ r.to \in Ids(t)
      BY <1>5, <1>13, <3>1
    <3> QED
      BY <3>1, <3>2 DEF Restriction
  <2>3. rs \in [1..Len(rs) -> Restriction(Ids(t))] /\ Len(rs) \in Nat
    BY <2>1, <2>2
  <2> QED
    BY <2>3 DEF Refers
<1> QED
  BY <1>4, <1>12, <1>14

-----------------------------------------------------------------------------
(* The restrictions and the reducers.                                      *)

LEMMA ArrayOver ==
  ASSUME NEW S, NEW ss \in Seq(S), NEW T, NEW f \in [DOMAIN ss -> T]
  PROVE  f \in Seq(T)
<1>1. Len(ss) \in Nat /\ DOMAIN ss = 1..Len(ss)
  OBVIOUS
<1> QED
  BY <1>1

LEMMA ArrayOfMore ==
  ASSUME NEW S, NEW T, NEW ss \in Seq(S), S \subseteq T
  PROVE  ss \in Seq(T)
<1>1. ss \in [DOMAIN ss -> T]
  <2>1. ss \in [1..Len(ss) -> S] /\ Len(ss) \in Nat
    OBVIOUS
  <2> QED
    BY <2>1
<1> QED
  BY <1>1, ArrayOver

LEMMA RefersMore ==
  ASSUME NEW rs, NEW s, NEW t, Refers(rs, s), Ids(s) \subseteq Ids(t)
  PROVE  Refers(rs, t)
<1>1. Restriction(Ids(s)) \subseteq Restriction(Ids(t))
  BY DEF Restriction
<1> QED
  BY <1>1, ArrayOfMore DEF Refers

LEMMA RefersKept ==
  ASSUME NEW rs, NEW s, Refers(rs, s), NEW I, I \subseteq DOMAIN rs
  PROVE  Refers(Kept(rs, I), s)
  BY KeptElements DEF Refers

LEMMA RefersDisjoint ==
  ASSUME NEW rs, NEW s, Refers(rs, s), NEW from, NEW to
  PROVE  Refers(Disjoint(rs, from, to), s)
  BY RefersKept DEF Disjoint

LEMMA PosOfTyped ==
  ASSUME NEW s, IsPath(s), NEW id \in Ids(s)
  PROVE  PosOf(s, id) \in Position
<1> DEFINE i == CHOOSE k \in DOMAIN s : s[k].id = id
<1>1. i \in DOMAIN s
  BY DEF Ids
<1>2. PosOf(s, id) = s[i].pos
  BY DEF PosOf, StepOf
<1> QED
  BY <1>1, <1>2, PathSound

LEMMA Upserted ==
  ASSUME PowerInv, NEW from \in PathStep, NEW to \in PathStep, NEW code \in Value,
         UpsertPowerRestrictionRanges(from, to, code)
  PROVE  IsPath(steps') /\ Refers(restr', steps')
<1> DEFINE u == AddPathStep(steps, from)
           s == AddPathStep(u, to)
           new == [from |-> from.id, to |-> to.id, value |-> code]
           kept == Disjoint(restr, from.id, to.id)
           rs == Append(kept, new)
           key == [i \in DOMAIN rs |-> PosOf(s, rs[i].from)]
<1>1. IsPath(u) /\ Ids(u) = Ids(steps) \cup {from.id}
  BY PathAdded DEF PowerInv
<1> HIDE DEF u
<1>2. IsPath(s) /\ Ids(s) = Ids(u) \cup {to.id}
  BY <1>1, PathAdded
<1>3. steps' = s /\ restr' = SortBy(rs, key)
  BY DEF UpsertPowerRestrictionRanges, u
<1> HIDE DEF s
<1>4. Refers(kept, s)
  <2>1. Refers(restr, s)
    BY <1>1, <1>2, RefersMore DEF PowerInv
  <2> QED
    BY <2>1, RefersDisjoint
<1>5. new \in Restriction(Ids(s))
  BY <1>1, <1>2 DEF Restriction
<1> HIDE DEF kept, new
<1>6. rs \in Seq(Restriction(Ids(s)))
  BY <1>4, <1>5 DEF Refers
<1> HIDE DEF rs
<1>7. \A i \in DOMAIN rs : PosOf(s, rs[i].from) \in Int
  <2> SUFFICES ASSUME NEW i \in DOMAIN rs PROVE PosOf(s, rs[i].from) \in Int
    OBVIOUS
  <2>1. PICK r \in Restriction(Ids(s)) : r = rs[i]
    BY <1>6
  <2>2. r.from \in Ids(s)
    BY DEF Restriction
  <2>3. PosOf(s, r.from) \in Position
    BY <1>2, <2>2, PosOfTyped
  <2>4. \A p \in Position : p \in Int
    BY PositionsAreNaturals
  <2>5. PosOf(s, r.from) \in Int
    BY <2>3, <2>4, Zenon
  <2> QED
    BY <2>1, <2>5, Zenon
<1>8. key \in [DOMAIN rs -> Int]
  BY <1>7
<1> HIDE DEF key
<1>9. SortBy(rs, key) \in Seq(Restriction(Ids(s)))
  BY <1>6, <1>8, SortByTyped
<1> QED
  BY <1>2, <1>3, <1>9 DEF Refers

LEMMA CutKeeps ==
  ASSUME PowerInv, NEW cutAt \in PathStep, CutPowerRestrictionRanges(cutAt)
  PROVE  IsPath(steps') /\ Refers(restr', steps')
<1> DEFINE i == IndexAfter(steps, cutAt.pos)
           R == Restriction(Ids(steps'))
           split(r) == IF r.from = steps[i - 1].id
                       THEN <<[r EXCEPT !.to = cutAt.id],
                              [from |-> cutAt.id, to |-> steps[i].id, value |-> r.value]>>
                       ELSE <<r>>
           aa == [j \in DOMAIN restr |-> split(restr[j])]
<1>1. IsPath(steps) /\ restr \in Seq(Restriction(Ids(steps))) /\ Refers(restr, steps)
  BY DEF PowerInv, Refers
<1>2. CASE i = 0
  <2>1. steps' = steps /\ restr' = restr
    BY <1>2 DEF CutPowerRestrictionRanges
  <2> QED
    BY <1>1, <2>1
<1>3. CASE i # 0
  <2>1. steps' = InsertAt(steps, i, cutAt) /\ restr' = Flat(aa)
    BY <1>3 DEF CutPowerRestrictionRanges
  <2>2. cutAt.pos \in Position
    BY DEF PathStep
  <2>3. i \in 2..Len(steps) /\ steps[i - 1].pos <= cutAt.pos /\ cutAt.pos <= steps[i].pos
    BY <1>1, <1>3, <2>2, IndexAfterIs
  <2> HIDE DEF i
  <2>4. IsPath(steps') /\ Ids(steps') = Ids(steps) \cup {cutAt.id}
    BY <1>1, <2>1, <2>3, PathInserted
  <2>5. steps[i].id \in Ids(steps)
    <3>1. i \in DOMAIN steps
      BY <1>1, <2>3, PathSound
    <3> QED
      BY <1>1, <3>1, PathSound
  <2>6. \A j \in DOMAIN restr : aa[j] \in Seq(R)
    <3> SUFFICES ASSUME NEW j \in DOMAIN restr PROVE split(restr[j]) \in Seq(R)
      OBVIOUS
    <3>1. PICK r \in Restriction(Ids(steps)) : r = restr[j]
      BY <1>1
    <3>2. PICK a \in Ids(steps), b \in Ids(steps), v \in Value : r = [from |-> a, to |-> b, value |-> v]
      BY DEF Restriction
    <3>3. [r EXCEPT !.to = cutAt.id] = [from |-> a, to |-> cutAt.id, value |-> v] /\ r.value = v
      BY <3>2
    <3>4. /\ [r EXCEPT !.to = cutAt.id] \in R
          /\ [from |-> cutAt.id, to |-> steps[i].id, value |-> r.value] \in R /\ r \in R
      BY <2>4, <2>5, <3>2, <3>3 DEF Restriction
    <3> HIDE DEF R
    <3>5. split(r) \in Seq(R)
      BY <3>4
    <3> QED
      BY <3>1, <3>5
  <2> HIDE DEF split
  <2>7. aa \in [DOMAIN restr -> Seq(R)]
    BY <2>6
  <2> HIDE DEF aa, R
  <2>8. aa \in Seq(Seq(R))
    BY <1>1, <2>7, ArrayOver
  <2>9. Flat(aa) \in Seq(R)
    BY <2>8, FlatTyped
  <2> QED
    BY <2>1, <2>4, <2>9 DEF Refers, R
<1> QED
  BY <1>2, <1>3

LEMMA MergedKeeps ==
  ASSUME PowerInv, NEW from \in PathStep, NEW prevTo \in PathStep, NEW newTo \in PathStep,
         MergePowerRestrictionRanges(from, prevTo, newTo)
  PROVE  IsPath(steps') /\ Refers(restr', steps')
<1> DEFINE first == \E i \in DOMAIN restr : restr[i].from = from.id
           merged(r) == r.from = from.id /\ r.to = prevTo.id
           I == {i \in DOMAIN restr :
                  merged(restr[i]) \/ (restr[i].from # prevTo.id /\ restr[i].to # newTo.id)}
           kept == Kept(restr, I)
           ms == [i \in DOMAIN kept |-> IF merged(kept[i]) THEN [kept[i] EXCEPT !.to = newTo.id]
                                        ELSE kept[i]]
           rs == IF first THEN ms ELSE Disjoint(restr, prevTo.id, newTo.id)
           s == IF first THEN AddPathStep(steps, newTo) ELSE steps
<1>1. IsPath(steps) /\ Refers(restr, steps)
  BY DEF PowerInv
<1>2. restr' = rs /\ steps' = CleanPathSteps(s, rs)
  BY DEF MergePowerRestrictionRanges
<1>3. IsPath(s) /\ Refers(rs, s)
  <2>1. CASE ~first
    BY <1>1, <2>1, RefersDisjoint
  <2>2. CASE first
    <3> DEFINE t == AddPathStep(steps, newTo)
               R == Restriction(Ids(t))
    <3>1. IsPath(t) /\ Ids(t) = Ids(steps) \cup {newTo.id}
      BY <1>1, PathAdded
    <3> HIDE DEF t
    <3>2. Refers(kept, t)
      <4>1. Refers(restr, t)
        BY <1>1, <3>1, RefersMore
      <4>2. I \subseteq DOMAIN restr
        OBVIOUS
      <4> QED
        BY <4>1, <4>2, RefersKept
    <3> HIDE DEF kept
    <3>3. kept \in Seq(R)
      BY <3>2 DEF Refers
    <3>4. \A i \in DOMAIN kept : ms[i] \in R
      <4> SUFFICES ASSUME NEW i \in DOMAIN kept PROVE ms[i] \in R
        OBVIOUS
      <4>1. PICK r \in R : r = kept[i]
        BY <3>3
      <4>2. PICK a \in Ids(t), b \in Ids(t), v \in Value : r = [from |-> a, to |-> b, value |-> v]
        BY DEF Restriction
      <4>3. [r EXCEPT !.to = newTo.id] = [from |-> a, to |-> newTo.id, value |-> v]
        BY <4>2
      <4>4. [r EXCEPT !.to = newTo.id] \in R
        BY <3>1, <4>2, <4>3 DEF Restriction
      <4> HIDE DEF R, merged
      <4>5. ms[i] = IF merged(r) THEN [r EXCEPT !.to = newTo.id] ELSE r
        BY <4>1
      <4> QED
        BY <4>4, <4>5
    <3>5. ms \in [DOMAIN kept -> R]
      BY <3>4
    <3> HIDE DEF ms, R
    <3>6. ms \in Seq(R)
      BY <3>3, <3>5, ArrayOver
    <3> QED
      BY <2>2, <3>1, <3>6 DEF Refers, R, t
  <2> HIDE DEF rs, s
  <2> QED
    BY <2>1, <2>2
<1> HIDE DEF rs, s
<1> QED
  BY <1>2, <1>3, PathCleaned

LEMMA DeletedKeeps ==
  ASSUME PowerInv, NEW from, NEW to, DeletePowerRestrictionRanges(from, to)
  PROVE  IsPath(steps') /\ Refers(restr', steps')
<1> DEFINE rs == Disjoint(restr, from.id, to.id)
<1>1. restr' = rs /\ steps' = CleanPathSteps(steps, rs)
  BY DEF DeletePowerRestrictionRanges
<1>2. Refers(rs, steps) /\ IsPath(steps)
  BY RefersDisjoint DEF PowerInv
<1> HIDE DEF rs
<1> QED
  BY <1>1, <1>2, PathCleaned

\* updateRestrictions: what is left refers to the new step or to what it did.
LEMMA UpdatedRefers ==
  ASSUME NEW rs, NEW s, NEW t, Refers(rs, s), Ids(s) \subseteq Ids(t),
         NEW covered, NEW first, NEW second, NEW new, new # 0 => new \in Ids(t)
  PROVE  Refers(UpdateRestrictions(rs, covered, first, second, new), t)
<1> DEFINE I == {i \in DOMAIN rs : \A c \in covered : rs[i].from # c.from \/ rs[i].to # c.to}
           R == Restriction(Ids(t))
           moved(r) ==
             IF new # 0 /\ r.to = first.to THEN [r EXCEPT !.to = new]
             ELSE IF new # 0 /\ r.from = second.from THEN [r EXCEPT !.from = new] ELSE r
           kept == Kept(rs, I)
           ms == [i \in DOMAIN kept |-> moved(kept[i])]
<1>1. UpdateRestrictions(rs, covered, first, second, new) = ms
  BY DEF UpdateRestrictions
<1>2. Refers(kept, t)
  <2>1. Refers(rs, t)
    BY RefersMore
  <2>2. I \subseteq DOMAIN rs
    OBVIOUS
  <2> QED
    BY <2>1, <2>2, RefersKept
<1> HIDE DEF kept
<1>3. kept \in Seq(R)
  BY <1>2 DEF Refers
<1>4. \A r \in R : moved(r) \in R
  <2> SUFFICES ASSUME NEW r \in R PROVE moved(r) \in R
    OBVIOUS
  <2>1. PICK a \in Ids(t), b \in Ids(t), v \in Value : r = [from |-> a, to |-> b, value |-> v]
    BY DEF Restriction
  <2>2. /\ [r EXCEPT !.to = new] = [from |-> a, to |-> new, value |-> v]
        /\ [r EXCEPT !.from = new] = [from |-> new, to |-> b, value |-> v]
    BY <2>1
  <2>3. new # 0 => [r EXCEPT !.to = new] \in R /\ [r EXCEPT !.from = new] \in R
    BY <2>1, <2>2 DEF Restriction
  <2> HIDE DEF R
  <2> QED
    BY <2>3
<1> HIDE DEF R, moved
<1>5. ms \in [DOMAIN kept -> R]
  BY <1>3, <1>4
<1> HIDE DEF ms
<1>6. ms \in Seq(R)
  BY <1>3, <1>5, ArrayOver
<1> QED
  BY <1>1, <1>6 DEF Refers, R

LEMMA ResizedKeeps ==
  ASSUME PowerInv, NEW first, NEW second, NEW at, NEW new \in PathStep,
         \/ ResizeSegmentBeginInput(first, second, at, new)
         \/ ResizeSegmentEndInput(first, second, at, new)
  PROVE  IsPath(steps') /\ Refers(restr', steps')
<1> DEFINE s == AddPathStep(steps, new)
<1>1. IsPath(s) /\ Ids(s) = Ids(steps) \cup {new.id}
  BY PathAdded DEF PowerInv
<1>2. PICK covered : LET rs == UpdateRestrictions(restr, covered, first, second, new.id)
                     IN  restr' = rs /\ steps' = CleanPathSteps(s, rs)
  BY DEF ResizeSegmentBeginInput, ResizeSegmentEndInput
<1> DEFINE rs == UpdateRestrictions(restr, covered, first, second, new.id)
<1> HIDE DEF s
<1>3. Refers(rs, s)
  BY <1>1, UpdatedRefers DEF PowerInv
<1>4. restr' = rs /\ steps' = CleanPathSteps(s, rs)
  BY <1>2
<1> HIDE DEF rs
<1> QED
  BY <1>1, <1>3, <1>4, PathCleaned

LEMMA CoveredKeeps ==
  ASSUME PowerInv, NEW begin, NEW end, CleanPowerRestrictionsCoveredByANewRange(begin, end)
  PROVE  IsPath(steps') /\ Refers(restr', steps')
<1> DEFINE rs == UpdateRestrictions(restr, Covered(begin, end), NoRestriction, NoRestriction, 0)
<1>1. restr' = rs /\ steps' = CleanPathSteps(steps, rs)
  BY DEF CleanPowerRestrictionsCoveredByANewRange
<1>2. Refers(rs, steps) /\ IsPath(steps)
  BY UpdatedRefers DEF PowerInv
<1> HIDE DEF rs
<1> QED
  BY <1>1, <1>2, PathCleaned

-----------------------------------------------------------------------------
(* The ranges shown.                                                       *)

LEMMA EmptyRangesShown ==
  ASSUME NEW from \in Position, NEW to \in Position, NEW points, points \subseteq Position
  PROVE  AddEmptyRanges(from, to, points) \in Seq(ShownRange)
<1> DEFINE S == {from, to} \cup {c \in points : from < c /\ c < to}
           p == Ascending(S)
           n == Len(p)
           f == [i \in 1..n - 1 |-> Range3(p[i], p[i + 1], Empty)]
<1>1. S \in SUBSET Position /\ from \in S
  OBVIOUS
<1>2. AddEmptyRanges(from, to, points) = f
  BY DEF AddEmptyRanges
<1> HIDE DEF S
<1>3. IsFiniteSet(S) /\ S \subseteq Int
  <2>1. IsFiniteSet(S)
    BY <1>1, PositionsAreNaturals, FS_Subset
  <2>2. \A x \in Position : x \in Int
    BY PositionsAreNaturals
  <2> QED
    BY <1>1, <2>1, <2>2
<1>4. p \in Seq(S) /\ \A x \in S : \E k \in DOMAIN p : p[k] = x
  BY <1>3, AscendingLists
<1> HIDE DEF p
<1>5. n \in Nat /\ DOMAIN p = 1..n /\ \A k \in 1..n : p[k] \in S
  BY <1>4
<1>6. n # 0
  BY <1>1, <1>4, <1>5
<1> HIDE DEF n
<1>7. \A i \in 1..n - 1 : Range3(p[i], p[i + 1], Empty) \in ShownRange
  <2> SUFFICES ASSUME NEW i \in 1..n - 1 PROVE Range3(p[i], p[i + 1], Empty) \in ShownRange
    OBVIOUS
  <2>1. i \in 1..n /\ i + 1 \in 1..n
    BY <1>5
  <2>2. p[i] \in Position /\ p[i + 1] \in Position
    BY <1>1, <1>5, <2>1
  <2> QED
    BY <2>2 DEF ShownRange, Range3, Value
<1>8. f \in [1..n - 1 -> ShownRange] /\ n - 1 \in Nat
  BY <1>5, <1>6, <1>7
<1> HIDE DEF f
<1>9. f \in Seq(ShownRange)
  BY <1>8
<1> QED
  BY <1>2, <1>9

LEMMA FilledShown ==
  ASSUME custom \in Seq(ShownRange), NEW begin \in Position, NEW end \in Position
  PROVE  FillWithNoPowerRestrictions(begin, end) \in Seq(ShownRange)
<1> DEFINE I == {i \in DOMAIN custom : begin <= custom[i].begin /\ custom[i].end <= end}
           mine == Kept(custom, I)
           n == Len(mine)
           points == {c \in ChangePoints : begin < c /\ c < end}
           prevEnd(i) == IF i = 1 THEN begin ELSE mine[i - 1].end
           gap(from, to) == IF from < to THEN AddEmptyRanges(from, to, points) ELSE <<>>
           aa == [i \in 1..n + 1 |-> IF i <= n THEN Append(gap(prevEnd(i), mine[i].begin), mine[i])
                                     ELSE gap(prevEnd(i), end)]
<1>1. FillWithNoPowerRestrictions(begin, end) = Flat(aa)
  BY DEF FillWithNoPowerRestrictions
<1>2. mine \in Seq(ShownRange)
  <2>1. I \subseteq DOMAIN custom
    OBVIOUS
  <2> HIDE DEF I
  <2> QED
    BY <2>1, KeptElements
<1> HIDE DEF mine
<1>3. /\ n \in Nat
      /\ \A i \in 1..n : mine[i] \in ShownRange /\ mine[i].begin \in Position /\ mine[i].end \in Position
  <2>1. n \in Nat /\ \A i \in 1..n : mine[i] \in ShownRange
    BY <1>2
  <2>2. \A r \in ShownRange : r.begin \in Position /\ r.end \in Position
    BY DEF ShownRange
  <2> QED
    BY <2>1, <2>2
<1>4. points \subseteq Position
  <2>1. ChangePoints \subseteq 1..Length - 1 /\ Length \in Nat
    BY PowerRestrictionsAssumption
  <2>2. 1..Length - 1 \subseteq Position
    BY <2>1 DEF Position
  <2> QED
    BY <2>1, <2>2
<1> HIDE DEF points, n
<1>5. \A i \in 1..n + 1 : prevEnd(i) \in Position
  <2> SUFFICES ASSUME NEW i \in 1..n + 1, i # 1 PROVE mine[i - 1].end \in Position
    OBVIOUS
  <2>1. i - 1 \in 1..n
    BY <1>3
  <2> QED
    BY <1>3, <2>1
<1>6. \A from, to \in Position : gap(from, to) \in Seq(ShownRange)
  BY <1>4, EmptyRangesShown
<1> HIDE DEF prevEnd, gap
<1>7. \A i \in 1..n + 1 : aa[i] \in Seq(ShownRange)
  <2> SUFFICES ASSUME NEW i \in 1..n + 1 PROVE aa[i] \in Seq(ShownRange)
    OBVIOUS
  <2>1. CASE i <= n
    <3>1. i \in 1..n
      BY <1>3, <2>1
    <3>2. gap(prevEnd(i), mine[i].begin) \in Seq(ShownRange) /\ mine[i] \in ShownRange
      BY <1>3, <1>5, <1>6, <3>1
    <3> QED
      BY <2>1, <3>2
  <2>2. CASE ~(i <= n)
    BY <1>5, <1>6, <2>2
  <2> QED
    BY <2>1, <2>2
<1>8. aa \in [1..n + 1 -> Seq(ShownRange)] /\ n + 1 \in Nat
  BY <1>3, <1>7
<1> HIDE DEF aa
<1>9. aa \in Seq(Seq(ShownRange))
  BY <1>8
<1> QED
  BY <1>1, <1>9, FlatTyped

LEMMA RangesShown ==
  ASSUME PowerInv
  PROVE  FormatPowerRestrictions \in Seq(ShownRange)
<1> DEFINE n == Len(restr)
           prevEnd(i) == IF i = 1 THEN 0 ELSE PosOf(steps, restr[i - 1].to)
           fill(from, to) == IF from < to THEN FillWithNoPowerRestrictions(from, to) ELSE <<>>
           shown(r) == Range3(PosOf(steps, r.from), PosOf(steps, r.to), r.value)
           aa == [i \in 1..n + 1 |->
                   IF i <= n THEN Append(fill(prevEnd(i), PosOf(steps, restr[i].from)), shown(restr[i]))
                   ELSE fill(prevEnd(i), Length)]
<1>1. FormatPowerRestrictions = Flat(aa)
  BY DEF FormatPowerRestrictions
<1>2. IsPath(steps) /\ restr \in Seq(Restriction(Ids(steps))) /\ custom \in Seq(ShownRange)
  BY DEF PowerInv, Refers
<1>3. /\ n \in Nat
      /\ \A i \in 1..n : /\ PosOf(steps, restr[i].from) \in Position
                         /\ PosOf(steps, restr[i].to) \in Position
                         /\ restr[i].value \in Value
  <2>1. n \in Nat /\ \A i \in 1..n : restr[i] \in Restriction(Ids(steps))
    BY <1>2
  <2>2. \A r \in Restriction(Ids(steps)) : r.from \in Ids(steps) /\ r.to \in Ids(steps) /\ r.value \in Value
    BY DEF Restriction
  <2>3. \A i \in 1..n : restr[i].from \in Ids(steps) /\ restr[i].to \in Ids(steps) /\ restr[i].value \in Value
    BY <2>1, <2>2
  <2> HIDE DEF n
  <2> QED
    BY <1>2, <2>1, <2>3, PosOfTyped
<1> HIDE DEF n
<1>4. \A i \in 1..n + 1 : prevEnd(i) \in Position
  <2> SUFFICES ASSUME NEW i \in 1..n + 1 PROVE prevEnd(i) \in Position
    OBVIOUS
  <2>1. CASE i = 1
    BY <2>1, PositionsAreNaturals
  <2>2. CASE i # 1
    <3>1. i - 1 \in 1..n
      BY <1>3, <2>2
    <3> QED
      BY <1>3, <2>2, <3>1
  <2> QED
    BY <2>1, <2>2
<1>5. \A from, to \in Position : fill(from, to) \in Seq(ShownRange)
  BY <1>2, FilledShown
<1>6. \A i \in 1..n : shown(restr[i]) \in ShownRange
  <2> SUFFICES ASSUME NEW i \in 1..n PROVE shown(restr[i]) \in ShownRange
    OBVIOUS
  <2>1. \A a, b \in Position : \A v \in Value : Range3(a, b, v) \in ShownRange
    BY DEF ShownRange, Range3
  <2> QED
    BY <1>3, <2>1
<1>7. Length \in Position
  BY PositionsAreNaturals
<1> HIDE DEF prevEnd, fill, shown
<1>8. \A i \in 1..n + 1 : aa[i] \in Seq(ShownRange)
  <2> SUFFICES ASSUME NEW i \in 1..n + 1 PROVE aa[i] \in Seq(ShownRange)
    OBVIOUS
  <2>1. CASE i <= n
    <3>1. i \in 1..n
      BY <1>3, <2>1
    <3>2. fill(prevEnd(i), PosOf(steps, restr[i].from)) \in Seq(ShownRange) /\ shown(restr[i]) \in ShownRange
      BY <1>3, <1>4, <1>5, <1>6, <3>1
    <3> QED
      BY <2>1, <3>2
  <2>2. CASE ~(i <= n)
    BY <1>4, <1>5, <1>7, <2>2
  <2> QED
    BY <2>1, <2>2
<1>9. aa \in [1..n + 1 -> Seq(ShownRange)] /\ n + 1 \in Nat
  BY <1>3, <1>8
<1> HIDE DEF aa
<1>10. aa \in Seq(Seq(ShownRange))
  BY <1>9
<1> QED
  BY <1>1, <1>10, FlatTyped

-----------------------------------------------------------------------------
(* The selector.                                                           *)

LEMMA NewIds ==
  ASSUME PowerInv
  PROVE  NewId \in Nat /\ OtherNewId \in Nat
<1> DEFINE f == [i \in DOMAIN steps |-> steps[i].id]
           g == [i \in DOMAIN restr |-> restr[i].from]
           h == [i \in DOMAIN restr |-> restr[i].to]
           A == Ids(steps)
           B == {restr[i].from : i \in DOMAIN restr}
           C == {restr[i].to : i \in DOMAIN restr}
           c == Cardinality(InUse)
<1>1. IsFiniteSet(DOMAIN steps) /\ IsFiniteSet(DOMAIN restr)
  <2>1. restr \in Seq(Restriction(Ids(steps))) /\ IsPath(steps)
    BY DEF PowerInv, Refers
  <2>2. Len(steps) \in Nat /\ DOMAIN steps = 1..Len(steps)
    BY <2>1, PathSound
  <2>3. Len(restr) \in Nat /\ DOMAIN restr = 1..Len(restr)
    BY <2>1
  <2> QED
    BY <2>2, <2>3, FS_Interval
<1>2. IsFiniteSet(A) /\ IsFiniteSet(B) /\ IsFiniteSet(C)
  <2>1. /\ DOMAIN f = DOMAIN steps /\ A = {f[i] : i \in DOMAIN steps}
        /\ DOMAIN g = DOMAIN restr /\ B = {g[i] : i \in DOMAIN restr}
        /\ DOMAIN h = DOMAIN restr /\ C = {h[i] : i \in DOMAIN restr}
    BY DEF Ids
  <2> HIDE DEF f, g, h, A, B, C
  <2> QED
    BY <1>1, <2>1, FiniteImage
<1>3. IsFiniteSet(InUse) /\ c \in Nat
  <2>1. InUse = (A \cup B) \cup C
    BY DEF InUse
  <2> HIDE DEF A, B, C
  <2>2. IsFiniteSet(A \cup B)
    BY <1>2, FS_Union
  <2>3. IsFiniteSet((A \cup B) \cup C)
    BY <1>2, <2>2, FS_Union
  <2> QED
    BY <2>1, <2>3, FS_CardinalityType
<1> HIDE DEF c
<1>4. Unused = 1..c + 2 \ InUse
  BY DEF Unused, c
<1>5. IsFiniteSet(1..c + 2) /\ Cardinality(1..c + 2) = c + 2
  BY <1>3, FS_Interval
<1>6. \A x : Unused \ {x} # {}
  <2> SUFFICES ASSUME NEW x, Unused \ {x} = {} PROVE FALSE
    OBVIOUS
  <2>1. 1..c + 2 \in SUBSET (InUse \cup {x})
    BY <1>4
  <2>2. /\ IsFiniteSet(InUse \cup {x})
        /\ Cardinality(InUse \cup {x}) = IF x \in InUse THEN c ELSE c + 1
    BY <1>3, FS_AddElement DEF c
  <2>3. Cardinality(1..c + 2) <= Cardinality(InUse \cup {x})
    BY <2>1, <2>2, FS_Subset
  <2> QED
    BY <1>3, <1>5, <2>2, <2>3
<1>7. Unused \subseteq Nat /\ Unused # {}
  BY <1>3, <1>4, <1>6
<1>8. NewId \in Unused
  BY <1>7, LeastOf DEF NewId
<1>9. OtherNewId \in Unused
  BY <1>6 DEF OtherNewId
<1> QED
  BY <1>7, <1>8, <1>9

LEMMA StepsAt ==
  ASSUME PowerInv, NEW pos \in Position
  PROVE  /\ HasStep(pos) => GetPathStep(pos) \in PathStep
         /\ \A id \in Nat : NewStep(id, pos) \in PathStep
         /\ \A id \in Nat : GetOrCreatePathStepAtPosition(id, pos) \in PathStep
<1>1. HasStep(pos) => GetPathStep(pos) \in PathStep
  <2> SUFFICES ASSUME HasStep(pos) PROVE GetPathStep(pos) \in PathStep
    OBVIOUS
  <2> DEFINE I == {i \in 1..Len(steps) : steps[i].pos = pos}
  <2>1. /\ Len(steps) \in Nat /\ DOMAIN steps = 1..Len(steps)
        /\ \A i \in DOMAIN steps : steps[i] \in PathStep
    BY PathSound DEF PowerInv
  <2>2. I \subseteq Nat /\ I # {}
    BY <2>1 DEF HasStep
  <2>3. GetPathStep(pos) = steps[Min(I)]
    BY <2>2 DEF GetPathStep, SelectInSeq
  <2>4. Min(I) \in I
    <3> HIDE DEF I
    <3> QED
      BY <2>2, MinOf
  <2> QED
    BY <2>1, <2>3, <2>4
<1>2. \A id \in Nat : NewStep(id, pos) \in PathStep
  BY DEF NewStep, PathStep
<1> QED
  BY <1>1, <1>2 DEF GetOrCreatePathStepAtPosition

LEMMA SortedShown ==
  ASSUME NEW rs \in Seq(ShownRange)
  PROVE  SortByBegin(rs) \in Seq(ShownRange)
<1> DEFINE key == [i \in DOMAIN rs |-> rs[i].begin]
<1>1. \A i \in DOMAIN rs : rs[i].begin \in Int
  <2>1. \A r \in ShownRange : r.begin \in Int
    <3>1. \A r \in ShownRange : r.begin \in Position
      BY DEF ShownRange
    <3>2. \A p \in Position : p \in Int
      BY PositionsAreNaturals
    <3> QED
      BY <3>1, <3>2
  <2>2. \A i \in DOMAIN rs : rs[i] \in ShownRange
    OBVIOUS
  <2> QED
    BY <2>1, <2>2
<1>2. key \in [DOMAIN rs -> Int]
  BY <1>1
<1>3. SortByBegin(rs) = SortBy(rs, key)
  BY DEF SortByBegin
<1> HIDE DEF key
<1> QED
  BY <1>2, <1>3, SortByTyped

\* The bounds and the value of a range that is shown.
LEMMA ShownParts ==
  ASSUME NEW ranges \in Seq(ShownRange), NEW i \in DOMAIN ranges
  PROVE  /\ ranges[i] \in ShownRange
         /\ ranges[i].begin \in Position /\ ranges[i].end \in Position /\ ranges[i].value \in Value
<1>1. ranges[i] \in ShownRange
  OBVIOUS
<1> QED
  BY <1>1 DEF ShownRange

LEMMA Ranges3 ==
  ASSUME NEW a \in Position, NEW b \in Position, NEW v \in Value
  PROVE  Range3(a, b, v) \in ShownRange
  BY DEF ShownRange, Range3

LEMMA EditedKeeps ==
  ASSUME PowerInv, NEW ranges \in Seq(ShownRange), NEW i \in DOMAIN ranges, NEW value \in Value,
         EditPowerRestrictionRanges(ranges, i, value)
  PROVE  PowerInv'
<1> DEFINE range == ranges[i]
           from == GetOrCreatePathStepAtPosition(NewId, range.begin)
           to == GetOrCreatePathStepAtPosition(OtherNewId, range.end)
<1>1. range \in ShownRange /\ range.begin \in Position /\ range.end \in Position /\ range.value \in Value
  BY ShownParts
<1> HIDE DEF range
<1>2. from \in PathStep /\ to \in PathStep
  BY <1>1, NewIds, StepsAt
<1>3. custom \in Seq(ShownRange)
  BY DEF PowerInv
<1> HIDE DEF from, to
<1>4. CASE value # Empty
  <2>1. UpsertPowerRestrictionRanges(from, to, value) /\ custom' = CustomWithout(range.begin, range.end)
    BY <1>4 DEF EditPowerRestrictionRanges, range, from, to
  <2>2. custom' \in Seq(ShownRange)
    BY <1>3, <2>1, KeptElements DEF CustomWithout
  <2> QED
    BY <1>2, <2>1, <2>2, Upserted DEF PowerInv
<1>5. CASE value = Empty
  <2> DEFINE new == [range EXCEPT !.value = Empty]
  <2>1. DeletePowerRestrictionRanges(from, to) /\ custom' = SortByBegin(Append(custom, new))
    BY <1>5 DEF EditPowerRestrictionRanges, range, from, to
  <2>2. new \in ShownRange
    <3>1. PICK a \in Position, b \in Position, v \in Value : range = [begin |-> a, end |-> b, value |-> v]
      BY <1>1 DEF ShownRange
    <3>2. new = [begin |-> a, end |-> b, value |-> Empty]
      BY <3>1
    <3> QED
      BY <3>2 DEF ShownRange, Value
  <2> HIDE DEF new
  <2>3. Append(custom, new) \in Seq(ShownRange)
    BY <1>3, <2>2
  <2>4. custom' \in Seq(ShownRange)
    BY <2>1, <2>3, SortedShown
  <2> QED
    BY <1>2, <2>1, <2>4, DeletedKeeps DEF PowerInv
<1> QED
  BY <1>4, <1>5

LEMMA CutRangeShown ==
  ASSUME PowerInv, NEW ranges \in Seq(ShownRange), NEW pos \in Position, ~CannotCut(ranges, pos)
  PROVE  CutRange(ranges, pos) \in Seq(ShownRange)
<1> USE PositionsAreNaturals
<1> DEFINE n == Len(ranges)
           I == {i \in 1..n : ranges[i].begin < pos /\ pos < ranges[i].end}
           inside == SelectInSeq(ranges, LAMBDA r : r.begin < pos /\ pos < r.end)
           cut == ranges[inside]
           J == {i \in DOMAIN custom : custom[i].begin # cut.begin \/ custom[i].end # cut.end}
           kept == Kept(custom, J)
           new == <<Range3(cut.begin, pos, Empty), Range3(pos, cut.end, Empty)>>
           old == ranges[1]
           two == <<Range3(0, pos, old.value), Range3(pos, Length, old.value)>>
<1>1. n \in Nat /\ DOMAIN ranges = 1..n /\ custom \in Seq(ShownRange) /\ 0 \in Position /\ Length \in Position
  BY DEF PowerInv
<1>2. CASE n = 1
  <2>1. CutRange(ranges, pos) = two
    BY <1>2 DEF CutRange
  <2>2. old.value \in Value
    BY <1>1, <1>2, ShownParts
  <2> HIDE DEF old
  <2>3. Range3(0, pos, old.value) \in ShownRange /\ Range3(pos, Length, old.value) \in ShownRange
    BY <1>1, <2>2, Ranges3
  <2>4. two \in Seq(ShownRange)
    BY <2>3
  <2> QED
    BY <2>1, <2>4
<1>3. CASE n # 1
  <2>1. CutRange(ranges, pos) = SortByBegin(kept \o new)
    BY <1>3 DEF CutRange
  <2>2. I # {} /\ I \subseteq Nat
    BY <1>1, <1>3 DEF CannotCut
  <2>3. inside = Min(I)
    BY <2>2 DEF SelectInSeq
  <2>4. Min(I) \in I
    <3> HIDE DEF I
    <3> QED
      BY <2>2, MinOf
  <2>5. inside \in DOMAIN ranges
    BY <1>1, <2>3, <2>4
  <2> HIDE DEF inside, I
  <2>6. cut.begin \in Position /\ cut.end \in Position
    BY <2>5, ShownParts
  <2> HIDE DEF cut
  <2>7. Empty \in Value
    BY DEF Value
  <2>8. Range3(cut.begin, pos, Empty) \in ShownRange /\ Range3(pos, cut.end, Empty) \in ShownRange
    BY <2>6, <2>7, Ranges3
  <2>9. new \in Seq(ShownRange)
    BY <2>8
  <2>10. kept \in Seq(ShownRange)
    BY <1>1, KeptElements
  <2> HIDE DEF new, kept
  <2>11. kept \o new \in Seq(ShownRange)
    BY <2>9, <2>10, ConcatProperties
  <2> QED
    BY <2>1, <2>11, SortedShown
<1> QED
  BY <1>2, <1>3

LEMMA CutActionKeeps ==
  ASSUME PowerInv, NEW ranges \in Seq(ShownRange), NEW pos \in Position,
         CutPowerRestrictionRange(ranges, pos)
  PROVE  PowerInv'
<1>1. CASE /\ ~CannotCut(ranges, pos) /\ custom' = CutRange(ranges, pos)
           /\ UNCHANGED <<steps, restr>>
  BY <1>1, CutRangeShown DEF PowerInv, Refers
<1>2. CASE CutPowerRestrictionRanges(NewStep(NewId, pos)) /\ UNCHANGED custom
  <2>1. NewStep(NewId, pos) \in PathStep
    BY NewIds, StepsAt
  <2>2. IsPath(steps') /\ Refers(restr', steps')
    BY <1>2, <2>1, CutKeeps
  <2> QED
    BY <1>2, <2>2 DEF PowerInv
<1> QED
  BY <1>1, <1>2 DEF CutPowerRestrictionRange

LEMMA MergeActionKeeps ==
  ASSUME PowerInv, NEW ranges \in Seq(ShownRange), NEW i \in DOMAIN ranges,
         MergePowerRestrictionRange(ranges, i)
  PROVE  PowerInv'
<1> DEFINE from == ranges[i].begin
           prevTo == ranges[i].end
           newTo == ranges[i + 1].end
           J == {j \in DOMAIN custom : custom[j].begin = from \/ custom[j].begin # newTo}
           kept == Kept(custom, J)
           ms == [j \in DOMAIN kept |-> IF kept[j].begin = from THEN [kept[j] EXCEPT !.end = newTo]
                                        ELSE kept[j]]
<1>1. i < Len(ranges) /\ custom' = ms
  BY DEF MergePowerRestrictionRange
<1>2. from \in Position /\ prevTo \in Position /\ newTo \in Position
  <2>1. i + 1 \in DOMAIN ranges
    BY <1>1
  <2> QED
    BY <2>1, ShownParts
<1>3. IsPath(steps') /\ Refers(restr', steps')
  <2> HIDE DEF from, prevTo, newTo
  <2>1. CASE DeletePowerRestrictionRanges(GetPathStep(prevTo), GetPathStep(newTo))
    BY <2>1, DeletedKeeps
  <2>2. CASE /\ HasStep(from) /\ HasStep(prevTo)
             /\ MergePowerRestrictionRanges(GetPathStep(from), GetPathStep(prevTo),
                                            GetOrCreatePathStepAtPosition(NewId, newTo))
    <3>1. /\ GetPathStep(from) \in PathStep /\ GetPathStep(prevTo) \in PathStep
          /\ GetOrCreatePathStepAtPosition(NewId, newTo) \in PathStep
      BY <1>2, <2>2, NewIds, StepsAt
    <3> QED
      BY <2>2, <3>1, MergedKeeps
  <2>3. CASE UNCHANGED <<steps, restr>>
    BY <2>3 DEF PowerInv, Refers
  <2> QED
    BY <2>1, <2>2, <2>3 DEF MergePowerRestrictionRange, from, prevTo, newTo
<1> HIDE DEF from, prevTo, newTo
<1>4. kept \in Seq(ShownRange)
  BY KeptElements DEF PowerInv
<1> HIDE DEF kept
<1>5. \A j \in DOMAIN kept : ms[j] \in ShownRange
  <2> SUFFICES ASSUME NEW j \in DOMAIN kept PROVE ms[j] \in ShownRange
    OBVIOUS
  <2>1. PICK r \in ShownRange : r = kept[j]
    BY <1>4
  <2>2. PICK a \in Position, b \in Position, v \in Value : r = [begin |-> a, end |-> b, value |-> v]
    BY DEF ShownRange
  <2>3. [r EXCEPT !.end = newTo] = [begin |-> a, end |-> newTo, value |-> v]
    BY <2>2
  <2>4. [r EXCEPT !.end = newTo] \in ShownRange
    BY <1>2, <2>2, <2>3 DEF ShownRange
  <2>5. ms[j] = IF r.begin = from THEN [r EXCEPT !.end = newTo] ELSE r
    BY <2>1
  <2> QED
    BY <2>4, <2>5
<1>6. ms \in [DOMAIN kept -> ShownRange]
  BY <1>5
<1> HIDE DEF ms
<1>7. ms \in Seq(ShownRange)
  BY <1>4, <1>6, ArrayOver
<1> QED
  BY <1>1, <1>3, <1>7 DEF PowerInv

LEMMA DeleteActionKeeps ==
  ASSUME PowerInv, NEW ranges \in Seq(ShownRange), NEW i \in DOMAIN ranges,
         DeletePowerRestrictionRange(ranges, i)
  PROVE  PowerInv'
<1> DEFINE from == ranges[i].begin
           to == ranges[i].end
<1>1. custom \in Seq(ShownRange) /\ <<>> \in Seq(ShownRange)
  BY DEF PowerInv
<1>2. CustomWithout(from, to) \in Seq(ShownRange)
  BY <1>1, KeptElements DEF CustomWithout
<1>3. /\ custom' \in {<<>>, custom, CustomWithout(from, to)}
      /\ \/ DeletePowerRestrictionRanges(GetPathStep(from), GetPathStep(to))
         \/ UNCHANGED <<steps, restr>>
  BY DEF DeletePowerRestrictionRange
<1>4. custom' \in Seq(ShownRange)
  BY <1>1, <1>2, <1>3
<1> HIDE DEF from, to
<1>5. CASE DeletePowerRestrictionRanges(GetPathStep(from), GetPathStep(to))
  BY <1>4, <1>5, DeletedKeeps DEF PowerInv
<1>6. CASE UNCHANGED <<steps, restr>>
  BY <1>4, <1>6 DEF PowerInv, Refers
<1> QED
  BY <1>3, <1>5, <1>6

LEMMA CustomCleaned ==
  ASSUME PowerInv, NEW first \in ShownRange \cup {NoRange}, NEW second \in ShownRange \cup {NoRange},
         NEW pos \in Position
  PROVE  CleanCustomRanges(first, second, pos) \in Seq(ShownRange)
<1> DEFINE resize(c) == IF c = first THEN [c EXCEPT !.end = pos]
                        ELSE IF c = second THEN [c EXCEPT !.begin = pos] ELSE c
           J == {j \in DOMAIN custom :
                  \/ custom[j] \in {first, second}
                  \/ second.end <= custom[j].begin /\ custom[j].end <= first.begin}
           kept == Kept(custom, J)
           resized == [j \in DOMAIN kept |-> resize(kept[j])]
           new(range, begin, end) ==
             IF range \in Range(custom) THEN <<>> ELSE <<Range3(begin, end, Empty)>>
<1>1. custom \in Seq(ShownRange) /\ 0 \in Position /\ Length \in Position
  BY PositionsAreNaturals DEF PowerInv
<1>2. \A a, b \in Position : Range3(a, b, Empty) \in ShownRange
  BY Ranges3 DEF Value
<1>3. CASE first = NoRange \/ second = NoRange
  <2>1. /\ Range3(0, pos, Empty) \in ShownRange /\ Range3(pos, Length, Empty) \in ShownRange
    BY <1>1, <1>2
  <2>2. /\ <<Range3(0, pos, Empty), Range3(pos, Length, Empty)>> \in Seq(ShownRange)
        /\ Append(custom, Range3(pos, Length, Empty)) \in Seq(ShownRange)
        /\ <<Range3(0, pos, Empty)>> \in Seq(ShownRange)
    BY <1>1, <2>1
  <2>3. <<Range3(0, pos, Empty)>> \o custom \in Seq(ShownRange)
    BY <1>1, <2>2, ConcatProperties
  <2>4. CleanCustomRanges(first, second, pos) =
          IF custom = <<>> THEN <<Range3(0, pos, Empty), Range3(pos, Length, Empty)>>
          ELSE IF first.end = Length THEN Append(custom, Range3(pos, Length, Empty))
          ELSE <<Range3(0, pos, Empty)>> \o custom
    BY <1>3, Zenon DEF CleanCustomRanges
  <2> QED
    BY <2>2, <2>3, <2>4
<1>4. CASE first # NoRange /\ second # NoRange
  <2>1. first \in ShownRange /\ second \in ShownRange
    BY <1>4
  <2>2. kept \in Seq(ShownRange)
    BY <1>1, KeptElements
  <2>3. \A c \in ShownRange : resize(c) \in ShownRange
    <3> SUFFICES ASSUME NEW c \in ShownRange PROVE resize(c) \in ShownRange
      OBVIOUS
    <3>1. PICK a \in Position, b \in Position, v \in Value : c = [begin |-> a, end |-> b, value |-> v]
      BY DEF ShownRange
    <3>2. /\ [c EXCEPT !.end = pos] = [begin |-> a, end |-> pos, value |-> v]
          /\ [c EXCEPT !.begin = pos] = [begin |-> pos, end |-> b, value |-> v]
      BY <3>1
    <3>3. [c EXCEPT !.end = pos] \in ShownRange /\ [c EXCEPT !.begin = pos] \in ShownRange
      BY <3>1, <3>2 DEF ShownRange
    <3> QED
      BY <3>3
  <2> HIDE DEF resize, kept
  <2>4. resized \in [DOMAIN kept -> ShownRange]
    BY <2>2, <2>3
  <2> HIDE DEF resized
  <2>5. resized \in Seq(ShownRange)
    BY <2>2, <2>4, ArrayOver
  <2> DEFINE x == new(first, first.begin, pos)
             y == new(second, pos, second.end)
  <2>6. x \in Seq(ShownRange) /\ y \in Seq(ShownRange)
    <3>1. first.begin \in Position /\ second.end \in Position
      BY <2>1 DEF ShownRange
    <3>2. Range3(first.begin, pos, Empty) \in ShownRange /\ Range3(pos, second.end, Empty) \in ShownRange
      BY <1>2, <3>1
    <3> QED
      BY <3>2
  <2>7. CleanCustomRanges(first, second, pos) =
          IF first.value # Empty \/ second.value # Empty THEN resized
          ELSE SortByBegin(resized \o x \o y)
    BY <1>4, Zenon DEF CleanCustomRanges, resized, kept, resize
  <2> HIDE DEF x, y
  <2>8. resized \o x \in Seq(ShownRange)
    BY <2>5, <2>6, ConcatProperties
  <2>9. resized \o x \o y \in Seq(ShownRange)
    BY <2>6, <2>8, ConcatProperties
  <2>10. SortByBegin(resized \o x \o y) \in Seq(ShownRange)
    BY <2>9, SortedShown
  <2> QED
    BY <2>5, <2>7, <2>10
<1> QED
  BY <1>3, <1>4

LEMMA ResizeActionKeeps ==
  ASSUME PowerInv, NEW ranges \in Seq(ShownRange), NEW i \in DOMAIN ranges,
         NEW context, NEW pos \in Position, ResizeSegments(ranges, i, context, pos)
  PROVE  PowerInv'
<1> DEFINE both == GetRangesToResize(ranges, i, pos, context)
           first == both.first
           second == both.second
           step == GetOrCreatePathStepAtPosition(NewId, pos)
           S == ShownRange \cup {NoRange}
<1>1. first \in S /\ second \in S
  <2> DEFINE nth(j) == IF j \in DOMAIN ranges THEN ranges[j] ELSE NoRange
  <2>1. \A j : nth(j) \in S
    OBVIOUS
  <2>2. ranges[i] \in S
    OBVIOUS
  <2>3. PICK a \in S : both \in {[first |-> a, second |-> ranges[i]], [first |-> ranges[i], second |-> a]}
    <3>1. PICK j, k : both = IF context = "begin"
                             THEN [first |-> IF ranges[i].begin <= pos /\ pos <= ranges[i].end
                                             THEN nth(i - 1) ELSE nth(k), second |-> ranges[i]]
                             ELSE [first |-> ranges[i],
                                   second |-> IF ranges[i].begin <= pos /\ pos <= ranges[i].end
                                              THEN nth(i + 1) ELSE nth(k)]
      BY DEF GetRangesToResize
    <3> HIDE DEF nth, both, S
    <3> QED
      BY <2>1, <3>1
  <2> HIDE DEF both, S
  <2> QED
    BY <2>2, <2>3
<1>2. step \in PathStep
  BY NewIds, StepsAt
<1>3. custom' \in Seq(ShownRange)
  <2>1. custom' = IF Empty \in {first.value, second.value} THEN CleanCustomRanges(first, second, pos)
                  ELSE custom
    BY DEF ResizeSegments
  <2> HIDE DEF first, second
  <2>2. CleanCustomRanges(first, second, pos) \in Seq(ShownRange)
    BY <1>1, CustomCleaned
  <2>3. custom \in Seq(ShownRange)
    BY DEF PowerInv
  <2> QED
    BY <2>1, <2>2, <2>3
<1>4. \/ \E begin, end : CleanPowerRestrictionsCoveredByANewRange(begin, end)
      \/ \E f, g, at : ResizeSegmentBeginInput(f, g, at, step) \/ ResizeSegmentEndInput(f, g, at, step)
  <2>1. \/ CleanPowerRestrictionsCoveredByANewRange(
             IF first = NoRange THEN 0 ELSE first.begin, IF second = NoRange THEN Length ELSE second.end)
        \/ ResizeSegmentBeginInput(RestrictionOf(first), RestrictionOf(second), second.end, step)
        \/ ResizeSegmentEndInput(RestrictionOf(first), RestrictionOf(second), first.begin, step)
    BY DEF ResizeSegments
  <2> HIDE DEF step, first, second
  <2> QED
    BY <2>1, Zenon
<1> HIDE DEF step
<1>5. IsPath(steps') /\ Refers(restr', steps')
  BY <1>2, <1>4, CoveredKeeps, ResizedKeeps
<1> QED
  BY <1>3, <1>5 DEF PowerInv

LEMMA PowerStep ==
  ASSUME PowerInv, [PowerNext]_powerVars
  PROVE  PowerInv'
<1> DEFINE ranges == FormatPowerRestrictions
<1>1. ranges \in Seq(ShownRange)
  BY RangesShown
<1>2. CASE PowerNext
  <2>1. \/ \E i \in DOMAIN ranges, value \in Value : EditPowerRestrictionRanges(ranges, i, value)
        \/ \E pos \in Position : CutPowerRestrictionRange(ranges, pos)
        \/ \E i \in DOMAIN ranges : MergePowerRestrictionRange(ranges, i)
        \/ \E i \in DOMAIN ranges : DeletePowerRestrictionRange(ranges, i)
        \/ \E i \in DOMAIN ranges, context \in {"begin", "end"}, pos \in Position :
             ResizeSegments(ranges, i, context, pos)
    BY <1>2, Zenon DEF PowerNext, Value
  <2> HIDE DEF ranges
  <2>2. CASE \E i \in DOMAIN ranges, value \in Value : EditPowerRestrictionRanges(ranges, i, value)
    BY <1>1, <2>2, EditedKeeps
  <2>3. CASE \E pos \in Position : CutPowerRestrictionRange(ranges, pos)
    BY <1>1, <2>3, CutActionKeeps
  <2>4. CASE \E i \in DOMAIN ranges : MergePowerRestrictionRange(ranges, i)
    BY <1>1, <2>4, MergeActionKeeps
  <2>5. CASE \E i \in DOMAIN ranges : DeletePowerRestrictionRange(ranges, i)
    BY <1>1, <2>5, DeleteActionKeeps
  <2>6. CASE \E i \in DOMAIN ranges, context \in {"begin", "end"}, pos \in Position :
               ResizeSegments(ranges, i, context, pos)
    BY <1>1, <2>6, ResizeActionKeeps
  <2> QED
    BY <2>1, <2>2, <2>3, <2>4, <2>5, <2>6
<1>3. CASE UNCHANGED powerVars
  BY <1>3 DEF powerVars, PowerInv, Refers
<1> QED
  BY <1>2, <1>3

LEMMA PowerMeans ==
  ASSUME PowerInv
  PROVE  RestrictionsHaveSteps /\ StepsInOrder
<1>1. RestrictionsHaveSteps
  <2>1. restr \in Seq(Restriction(Ids(steps)))
    BY DEF PowerInv, Refers
  <2>2. \A r \in Restriction(Ids(steps)) : {r.from, r.to} \subseteq Ids(steps)
    BY DEF Restriction
  <2>3. \A i \in DOMAIN restr : restr[i] \in Restriction(Ids(steps))
    BY <2>1
  <2> QED
    BY <2>2, <2>3 DEF RestrictionsHaveSteps
<1>2. StepsInOrder
  <2>1. IsPath(steps) /\ Len(steps) \in Nat /\ DOMAIN steps = 1..Len(steps)
    BY PathSound DEF PowerInv
  <2>2. \A i \in 1..Len(steps) - 1 : i \in DOMAIN steps /\ i + 1 \in DOMAIN steps /\ i <= i + 1
    BY <2>1
  <2> QED
    BY <2>1, <2>2 DEF IsPath, StepsInOrder, Last
<1> QED
  BY <1>1, <1>2

LEMMA PowerInvariant == PowerSpec => []PowerInv
<1>1. PowerInv /\ [PowerNext]_powerVars => PowerInv'
  BY PowerStep
<1> QED
  BY <1>1, InitialPath, PTL DEF PowerSpec

\* Whatever the user edits, cuts, merges, deletes or resizes on any path, no
\* restriction refers to a step that cleanPathSteps removed: formatPowerRestrictions
\* never throws.
THEOREM RestrictionsKeepTheirSteps == PowerSpec => []RestrictionsHaveSteps
<1>1. PowerInv => RestrictionsHaveSteps
  BY PowerMeans
<1> QED
  BY <1>1, PowerInvariant, PTL

\* The steps that addPathStep inserts and cleanPathSteps removes leave a path that
\* is travelled forward from its origin to its destination.
THEOREM PathStaysInOrder == PowerSpec => []StepsInOrder
<1>1. PowerInv => StepsInOrder
  BY PowerMeans
<1> QED
  BY <1>1, PowerInvariant, PTL
-----------------------------------------------------------------------------
(* The macro editor.                                                       *)

IsArray(q) == \E S : q \in Seq(S)
IsNode(n) == n = Node(n.nge, n.db, n.key, n.trigram)

WellFormed(s) ==
  /\ IsArray(s.nodes)
  /\ \A i \in DOMAIN s.nodes : s.nodes[i] = Null \/ IsNode(s.nodes[i])
  /\ \A k \in DOMAIN s.byKey : s.byKey[k] \in DOMAIN s.nodes
  /\ \A id \in DOMAIN s.byNge : s.byNge[id] \in DOMAIN s.nodes

Sound(s) == WellFormed(s) /\ IndexSound(s)

LEMMA NodesAreThere == \A n : IsNode(n) => n # Null
<1> SUFFICES ASSUME NEW n, n = Node(n.nge, n.db, n.key, n.trigram) PROVE n # Null
  BY DEF IsNode
<1>1. "nge" \in DOMAIN Node(n.nge, n.db, n.key, n.trigram)
  BY DEF Node
<1>2. "nge" \notin DOMAIN Null
  BY DEF Null
<1> QED
  BY <1>1, <1>2

LEMMA ObjectParts ==
  ASSUME NEW a, NEW b, NEW c, NEW d
  PROVE  /\ Object(a, b, c, d).nodes = a /\ Object(a, b, c, d).byKey = b
         /\ Object(a, b, c, d).byNge = c /\ Object(a, b, c, d).trains = d
  BY DEF Object

\* What an array is after one element was put in place of another, or added.
LEMMA ArrayChanged ==
  ASSUME NEW q, IsArray(q), NEW x, NEW i \in DOMAIN q
  PROVE  /\ IsArray([q EXCEPT ![i] = x]) /\ DOMAIN [q EXCEPT ![i] = x] = DOMAIN q
         /\ [q EXCEPT ![i] = x][i] = x
         /\ \A j \in DOMAIN q : j # i => [q EXCEPT ![i] = x][j] = q[j]
<1>1. PICK S : q \in Seq(S)
  BY DEF IsArray
<1>2. q \in Seq(S \cup {x})
  BY <1>1
<1>3. [q EXCEPT ![i] = x] \in Seq(S \cup {x})
  BY <1>2
<1> QED
  BY <1>1, <1>3 DEF IsArray

LEMMA ArrayLonger ==
  ASSUME NEW q, IsArray(q), NEW x
  PROVE  /\ IsArray(Append(q, x)) /\ Len(q) \in Nat /\ Len(Append(q, x)) = Len(q) + 1
         /\ DOMAIN Append(q, x) = DOMAIN q \cup {Len(q) + 1} /\ Len(q) + 1 \notin DOMAIN q
         /\ Append(q, x)[Len(q) + 1] = x /\ \A j \in DOMAIN q : Append(q, x)[j] = q[j]
<1>1. PICK S : q \in Seq(S)
  BY DEF IsArray
<1>2. q \in Seq(S \cup {x}) /\ Append(q, x) \in Seq(S \cup {x})
  BY <1>1
<1>3. Len(q) \in Nat /\ DOMAIN q = 1..Len(q) /\ Len(Append(q, x)) = Len(q) + 1
  BY <1>2
<1>4. DOMAIN Append(q, x) = 1..Len(q) + 1
  BY <1>2, <1>3
<1> QED
  BY <1>2, <1>3, <1>4 DEF IsArray

\* A state whose parts are given is sound when they fit.
LEMMA SoundObject ==
  ASSUME NEW nodes, NEW byKey, NEW byNge, NEW trs, IsArray(nodes),
         \A i \in DOMAIN nodes : nodes[i] = Null \/ IsNode(nodes[i]),
         \A i \in DOMAIN nodes : nodes[i] # Null =>
           /\ nodes[i].nge \in DOMAIN byNge /\ byNge[nodes[i].nge] = i
           /\ nodes[i].key \in DOMAIN byKey /\ byKey[nodes[i].key] = i,
         \A id \in DOMAIN byNge : byNge[id] \in DOMAIN nodes /\ nodes[byNge[id]] # Null
                                  /\ nodes[byNge[id]].nge = id,
         \A k \in DOMAIN byKey : byKey[k] \in DOMAIN nodes /\ nodes[byKey[k]] # Null
  PROVE  Sound(Object(nodes, byKey, byNge, trs))
  BY ObjectParts DEF Sound, WellFormed, IndexSound, LiveNodes, GetNodeByNgeId, GetNodeByKey

LEMMA SoundParts ==
  ASSUME NEW s, Sound(s)
  PROVE  /\ IsArray(s.nodes)
         /\ \A i \in DOMAIN s.nodes : s.nodes[i] = Null \/ IsNode(s.nodes[i])
         /\ \A i \in DOMAIN s.nodes : s.nodes[i] # Null =>
              /\ s.nodes[i].nge \in DOMAIN s.byNge /\ s.byNge[s.nodes[i].nge] = i
              /\ s.nodes[i].key \in DOMAIN s.byKey /\ s.byKey[s.nodes[i].key] = i
         /\ \A id \in DOMAIN s.byNge : /\ s.byNge[id] \in DOMAIN s.nodes
                                       /\ s.nodes[s.byNge[id]] # Null
                                       /\ s.nodes[s.byNge[id]].nge = id
         /\ \A k \in DOMAIN s.byKey : s.byKey[k] \in DOMAIN s.nodes /\ s.nodes[s.byKey[k]] # Null
  BY DEF Sound, WellFormed, IndexSound, LiveNodes, GetNodeByNgeId, GetNodeByKey

\* A node for a key that is known: it takes the place of the node found there.
LEMMA Reindexed ==
  ASSUME NEW s, Sound(s), NEW key \in DOMAIN s.byKey, NEW node, IsNode(node),
         node.nge \notin DOMAIN s.byNge \/ node.nge = s.nodes[s.byKey[key]].nge,
         \A i \in LiveNodes(s) : s.nodes[i].key = node.key => i = s.byKey[key]
  PROVE  /\ Sound(IndexNodeByKey(s, key, node))
         /\ DOMAIN IndexNodeByKey(s, key, node).nodes = DOMAIN s.nodes
         /\ IndexNodeByKey(s, key, node).nodes[s.byKey[key]] = node
         /\ \A i \in DOMAIN s.nodes : i # s.byKey[key] =>
              IndexNodeByKey(s, key, node).nodes[i] = s.nodes[i]
<1> DEFINE i == s.byKey[key]
           nn == [s.nodes EXCEPT ![i] = node]
           bk == With(Without(s.byKey, {key}), node.key, i)
           bn == With(Without(s.byNge, {s.nodes[i].nge}), node.nge, i)
<1>1. IndexNodeByKey(s, key, node) = Object(nn, bk, bn, s.trains)
  BY DEF IndexNodeByKey
<1>2. i \in DOMAIN s.nodes /\ s.nodes[i] # Null /\ node # Null
  BY SoundParts, NodesAreThere
<1>3. /\ IsArray(nn) /\ DOMAIN nn = DOMAIN s.nodes /\ nn[i] = node
      /\ \A j \in DOMAIN s.nodes : j # i => nn[j] = s.nodes[j]
  BY <1>2, ArrayChanged, SoundParts
<1>4. /\ DOMAIN bk = (DOMAIN s.byKey \ {key}) \cup {node.key} /\ bk[node.key] = i
      /\ \A x \in DOMAIN s.byKey \ {key} : x # node.key => bk[x] = s.byKey[x]
  BY DEF With, Without, Restrict
<1>5. /\ DOMAIN bn = (DOMAIN s.byNge \ {s.nodes[i].nge}) \cup {node.nge} /\ bn[node.nge] = i
      /\ \A x \in DOMAIN s.byNge \ {s.nodes[i].nge} : x # node.nge => bn[x] = s.byNge[x]
  BY DEF With, Without, Restrict
<1> HIDE DEF nn, bk, bn
<1>6. \A j \in DOMAIN nn : nn[j] = Null \/ IsNode(nn[j])
  BY <1>3, SoundParts
<1>7. ASSUME NEW j \in DOMAIN nn, nn[j] # Null
      PROVE  nn[j].nge \in DOMAIN bn /\ bn[nn[j].nge] = j
  <2>1. CASE j = i
    BY <2>1, <1>3, <1>5
  <2>2. CASE j # i
    <3>1. nn[j] = s.nodes[j] /\ s.nodes[j].nge \in DOMAIN s.byNge /\ s.byNge[s.nodes[j].nge] = j
      BY <2>2, <1>3, <1>7, SoundParts
    <3>2. s.byNge[s.nodes[i].nge] = i
      BY <1>2, SoundParts
    <3>3. s.nodes[j].nge # s.nodes[i].nge /\ s.nodes[j].nge # node.nge
      BY <2>2, <3>1, <3>2
    <3> QED
      BY <3>1, <3>3, <1>5
  <2> QED
    BY <2>1, <2>2
<1>8. ASSUME NEW j \in DOMAIN nn, nn[j] # Null
      PROVE  nn[j].key \in DOMAIN bk /\ bk[nn[j].key] = j
  <2>1. CASE j = i
    BY <2>1, <1>3, <1>4
  <2>2. CASE j # i
    <3>1. nn[j] = s.nodes[j] /\ s.nodes[j].key \in DOMAIN s.byKey /\ s.byKey[s.nodes[j].key] = j
      BY <2>2, <1>3, <1>8, SoundParts
    <3>2. s.nodes[j].key # key
      BY <2>2, <3>1
    <3>3. s.nodes[j].key # node.key
      BY <2>2, <3>1, <1>8, <1>3 DEF LiveNodes
    <3> QED
      BY <3>1, <3>2, <3>3, <1>4
  <2> QED
    BY <2>1, <2>2
<1>9. ASSUME NEW id \in DOMAIN bn
      PROVE  bn[id] \in DOMAIN nn /\ nn[bn[id]] # Null /\ nn[bn[id]].nge = id
  <2>1. CASE id = node.nge
    BY <2>1, <1>2, <1>3, <1>5
  <2>2. CASE id # node.nge
    <3>1. id \in DOMAIN s.byNge /\ id # s.nodes[i].nge /\ bn[id] = s.byNge[id]
      BY <2>2, <1>5
    <3>2. s.byNge[id] \in DOMAIN s.nodes /\ s.nodes[s.byNge[id]] # Null /\ s.nodes[s.byNge[id]].nge = id
      BY <3>1, SoundParts
    <3> QED
      BY <3>1, <3>2, <1>3
  <2> QED
    BY <2>1, <2>2
<1>10. \A k \in DOMAIN bk : bk[k] \in DOMAIN nn /\ nn[bk[k]] # Null
  <2> SUFFICES ASSUME NEW k \in DOMAIN bk PROVE bk[k] \in DOMAIN nn /\ nn[bk[k]] # Null
    OBVIOUS
  <2>1. CASE k = node.key
    BY <2>1, <1>2, <1>3, <1>4
  <2>2. CASE k # node.key
    <3>1. k \in DOMAIN s.byKey /\ bk[k] = s.byKey[k]
      BY <2>2, <1>4
    <3> QED
      BY <3>1, <1>2, <1>3, SoundParts
  <2> QED
    BY <2>1, <2>2
<1>11. Sound(Object(nn, bk, bn, s.trains))
  BY <1>3, <1>6, <1>7, <1>8, <1>9, <1>10, SoundObject
<1> QED
  BY <1>1, <1>3, <1>11, ObjectParts

\* A node for a key that is not known is added.
LEMMA NewlyIndexed ==
  ASSUME NEW s, Sound(s), NEW key, key \notin DOMAIN s.byKey, NEW node, IsNode(node),
         node.nge \notin DOMAIN s.byNge,
         \A i \in LiveNodes(s) : s.nodes[i].key # node.key
  PROVE  /\ Sound(IndexNodeByKey(s, key, node))
         /\ \A i \in DOMAIN IndexNodeByKey(s, key, node).nodes :
              \/ IndexNodeByKey(s, key, node).nodes[i] = node
              \/ i \in DOMAIN s.nodes /\ IndexNodeByKey(s, key, node).nodes[i] = s.nodes[i]
<1> DEFINE i == Len(s.nodes) + 1
           nn == Append(s.nodes, node)
           bk == With(s.byKey, node.key, i)
           bn == With(s.byNge, node.nge, i)
<1>1. IndexNodeByKey(s, key, node) = Object(nn, bk, bn, s.trains)
  BY DEF IndexNodeByKey
<1>2. node # Null
  BY NodesAreThere
<1>3. /\ IsArray(nn) /\ DOMAIN nn = DOMAIN s.nodes \cup {i} /\ i \notin DOMAIN s.nodes /\ nn[i] = node
      /\ \A j \in DOMAIN s.nodes : nn[j] = s.nodes[j]
  BY ArrayLonger, SoundParts
<1>4. /\ DOMAIN bk = DOMAIN s.byKey \cup {node.key} /\ bk[node.key] = i
      /\ \A x \in DOMAIN s.byKey : x # node.key => bk[x] = s.byKey[x]
  BY DEF With
<1>5. /\ DOMAIN bn = DOMAIN s.byNge \cup {node.nge} /\ bn[node.nge] = i
      /\ \A x \in DOMAIN s.byNge : x # node.nge => bn[x] = s.byNge[x]
  BY DEF With
<1> HIDE DEF i, nn, bk, bn
<1>6. \A j \in DOMAIN nn : nn[j] = Null \/ IsNode(nn[j])
  BY <1>3, SoundParts
<1>7. ASSUME NEW j \in DOMAIN nn, nn[j] # Null
      PROVE  /\ nn[j].nge \in DOMAIN bn /\ bn[nn[j].nge] = j
             /\ nn[j].key \in DOMAIN bk /\ bk[nn[j].key] = j
  <2>1. CASE j = i
    BY <2>1, <1>3, <1>4, <1>5
  <2>2. CASE j # i
    <3>1. /\ j \in DOMAIN s.nodes /\ nn[j] = s.nodes[j]
          /\ s.nodes[j].nge \in DOMAIN s.byNge /\ s.byNge[s.nodes[j].nge] = j
          /\ s.nodes[j].key \in DOMAIN s.byKey /\ s.byKey[s.nodes[j].key] = j
      BY <2>2, <1>3, <1>7, SoundParts
    <3>2. s.nodes[j].key # node.key /\ s.nodes[j].nge # node.nge
      BY <3>1, <1>7 DEF LiveNodes
    <3> QED
      BY <3>1, <3>2, <1>4, <1>5
  <2> QED
    BY <2>1, <2>2
<1>8. ASSUME NEW id \in DOMAIN bn
      PROVE  bn[id] \in DOMAIN nn /\ nn[bn[id]] # Null /\ nn[bn[id]].nge = id
  <2>1. CASE id = node.nge
    BY <2>1, <1>2, <1>3, <1>5
  <2>2. CASE id # node.nge
    BY <2>2, <1>3, <1>5, SoundParts
  <2> QED
    BY <2>1, <2>2
<1>9. \A k \in DOMAIN bk : bk[k] \in DOMAIN nn /\ nn[bk[k]] # Null
  <2> SUFFICES ASSUME NEW k \in DOMAIN bk PROVE bk[k] \in DOMAIN nn /\ nn[bk[k]] # Null
    OBVIOUS
  <2>1. CASE k = node.key
    BY <2>1, <1>2, <1>3, <1>4
  <2>2. CASE k # node.key
    BY <2>2, <1>3, <1>4, SoundParts
  <2> QED
    BY <2>1, <2>2
<1>10. Sound(Object(nn, bk, bn, s.trains))
  BY <1>3, <1>6, <1>7, <1>8, <1>9, SoundObject
<1>11. \A j \in DOMAIN nn : nn[j] = node \/ (j \in DOMAIN s.nodes /\ nn[j] = s.nodes[j])
  BY <1>3
<1> QED
  BY <1>1, <1>10, <1>11, ObjectParts

\* Deleting a node takes every reference to it.
LEMMA DeletedByIndex ==
  ASSUME NEW s, Sound(s), NEW i \in DOMAIN s.nodes
  PROVE  /\ Sound(DeleteByIndexStorage(s, i))
         /\ DOMAIN DeleteByIndexStorage(s, i).nodes = DOMAIN s.nodes
         /\ DeleteByIndexStorage(s, i).nodes[i] = Null
         /\ \A j \in DOMAIN s.nodes : j # i => DeleteByIndexStorage(s, i).nodes[j] = s.nodes[j]
<1> DEFINE nn == [s.nodes EXCEPT ![i] = Null]
           bk == Restrict(s.byKey, {k \in DOMAIN s.byKey : s.byKey[k] # i})
           bn == Restrict(s.byNge, {n \in DOMAIN s.byNge : s.byNge[n] # i})
<1>1. DeleteByIndexStorage(s, i) = Object(nn, bk, bn, s.trains)
  BY DEF DeleteByIndexStorage
<1>2. /\ IsArray(nn) /\ DOMAIN nn = DOMAIN s.nodes /\ nn[i] = Null
      /\ \A j \in DOMAIN s.nodes : j # i => nn[j] = s.nodes[j]
  BY ArrayChanged, SoundParts
<1>3. /\ DOMAIN bk = {k \in DOMAIN s.byKey : s.byKey[k] # i} /\ \A k \in DOMAIN bk : bk[k] = s.byKey[k]
      /\ DOMAIN bn = {n \in DOMAIN s.byNge : s.byNge[n] # i} /\ \A n \in DOMAIN bn : bn[n] = s.byNge[n]
  BY DEF Restrict
<1> HIDE DEF nn, bk, bn
<1>4. \A j \in DOMAIN nn : nn[j] = Null \/ IsNode(nn[j])
  BY <1>2, SoundParts
<1>5. ASSUME NEW j \in DOMAIN nn, nn[j] # Null
      PROVE  /\ nn[j].nge \in DOMAIN bn /\ bn[nn[j].nge] = j
             /\ nn[j].key \in DOMAIN bk /\ bk[nn[j].key] = j
  <2>1. j # i /\ nn[j] = s.nodes[j]
    BY <1>2, <1>5
  <2> QED
    BY <2>1, <1>2, <1>3, <1>5, SoundParts
<1>6. \A id \in DOMAIN bn : bn[id] \in DOMAIN nn /\ nn[bn[id]] # Null /\ nn[bn[id]].nge = id
  BY <1>2, <1>3, SoundParts
<1>7. \A k \in DOMAIN bk : bk[k] \in DOMAIN nn /\ nn[bk[k]] # Null
  BY <1>2, <1>3, SoundParts
<1>8. Sound(Object(nn, bk, bn, s.trains))
  BY <1>2, <1>4, <1>5, <1>6, <1>7, SoundObject
<1> QED
  BY <1>1, <1>2, <1>8, ObjectParts

\* New trains and new ids of saved nodes leave the indices alone.
LEMMA TrainsSet ==
  ASSUME NEW s, Sound(s), NEW trs
  PROVE  Sound(WithTrains(s, trs)) /\ WithTrains(s, trs).nodes = s.nodes
<1>1. Sound(Object(s.nodes, s.byKey, s.byNge, trs))
  BY SoundParts, SoundObject
<1> QED
  BY <1>1, ObjectParts DEF WithTrains

LEMMA NodeParts ==
  ASSUME NEW a, NEW b, NEW c, NEW d
  PROVE  /\ IsNode(Node(a, b, c, d)) /\ Node(a, b, c, d).nge = a /\ Node(a, b, c, d).db = b
         /\ Node(a, b, c, d).key = c /\ Node(a, b, c, d).trigram = d
  BY DEF IsNode, Node

LEMMA ArrayMade ==
  ASSUME NEW q, IsArray(q), NEW f, f = [i \in DOMAIN q |-> f[i]]
  PROVE  IsArray(f)
<1> DEFINE S == {f[i] : i \in DOMAIN q}
<1>1. PICK T : q \in Seq(T)
  BY DEF IsArray
<1>2. Len(q) \in Nat /\ DOMAIN q = 1..Len(q)
  BY <1>1
<1>3. f \in [1..Len(q) -> S]
  BY <1>2
<1>4. f \in Seq(S)
  BY <1>2, <1>3
<1> QED
  BY <1>4 DEF IsArray

LEMMA IdsSet ==
  ASSUME NEW s, Sound(s), NEW ids, DOMAIN ids \subseteq LiveNodes(s)
  PROVE  /\ Sound(UpdateNodeData(s, ids)) /\ DOMAIN UpdateNodeData(s, ids).nodes = DOMAIN s.nodes
         /\ \A i \in DOMAIN s.nodes :
              LET n == UpdateNodeData(s, ids).nodes[i] IN
              IF i \in DOMAIN ids THEN n.db = ids[i] /\ n.key = s.nodes[i].key ELSE n = s.nodes[i]
<1> DEFINE nn == [i \in DOMAIN s.nodes |->
                    IF i \in DOMAIN ids
                    THEN Node(s.nodes[i].nge, ids[i], s.nodes[i].key, s.nodes[i].trigram) ELSE s.nodes[i]]
<1>1. UpdateNodeData(s, ids) = Object(nn, s.byKey, s.byNge, s.trains)
  BY DEF UpdateNodeData
<1>2. /\ DOMAIN nn = DOMAIN s.nodes /\ nn = [i \in DOMAIN s.nodes |-> nn[i]]
      /\ \A i \in DOMAIN s.nodes : nn[i] = IF i \in DOMAIN ids
           THEN Node(s.nodes[i].nge, ids[i], s.nodes[i].key, s.nodes[i].trigram) ELSE s.nodes[i]
  OBVIOUS
<1> HIDE DEF nn
<1>3. IsArray(nn)
  BY <1>2, ArrayMade, SoundParts
<1>4. ASSUME NEW i \in DOMAIN s.nodes
      PROVE  /\ nn[i] = Null \/ IsNode(nn[i])
             /\ (nn[i] # Null => s.nodes[i] # Null) /\ (s.nodes[i] # Null => nn[i] # Null)
             /\ nn[i] # Null => nn[i].nge = s.nodes[i].nge /\ nn[i].key = s.nodes[i].key
             /\ IF i \in DOMAIN ids THEN nn[i].db = ids[i] /\ nn[i].key = s.nodes[i].key ELSE nn[i] = s.nodes[i]
  <2>1. CASE i \in DOMAIN ids
    <3>1. s.nodes[i] # Null
      BY <2>1 DEF LiveNodes
    <3>2. nn[i] = Node(s.nodes[i].nge, ids[i], s.nodes[i].key, s.nodes[i].trigram)
      BY <2>1, <1>2
    <3> QED
      BY <2>1, <3>1, <3>2, NodeParts, NodesAreThere
  <2>2. CASE i \notin DOMAIN ids
    <3>1. nn[i] = s.nodes[i]
      BY <2>2, <1>2
    <3> QED
      BY <2>2, <3>1, SoundParts
  <2> QED
    BY <2>1, <2>2
<1>5. ASSUME NEW i \in DOMAIN nn, nn[i] # Null
      PROVE  /\ nn[i].nge \in DOMAIN s.byNge /\ s.byNge[nn[i].nge] = i
             /\ nn[i].key \in DOMAIN s.byKey /\ s.byKey[nn[i].key] = i
  <2>1. /\ s.nodes[i] # Null /\ nn[i].nge = s.nodes[i].nge /\ nn[i].key = s.nodes[i].key
    BY <1>2, <1>4, <1>5
  <2> QED
    BY <2>1, <1>2, SoundParts
<1>6. ASSUME NEW id \in DOMAIN s.byNge
      PROVE  s.byNge[id] \in DOMAIN nn /\ nn[s.byNge[id]] # Null /\ nn[s.byNge[id]].nge = id
  <2>1. s.byNge[id] \in DOMAIN s.nodes /\ s.nodes[s.byNge[id]] # Null /\ s.nodes[s.byNge[id]].nge = id
    BY SoundParts
  <2> QED
    BY <2>1, <1>2, <1>4
<1>7. ASSUME NEW k \in DOMAIN s.byKey
      PROVE  s.byKey[k] \in DOMAIN nn /\ nn[s.byKey[k]] # Null
  BY <1>2, <1>4, SoundParts
<1>8. Sound(Object(nn, s.byKey, s.byNge, s.trains))
  BY <1>2, <1>3, <1>4, <1>5, <1>6, <1>7, SoundObject
<1> QED
  BY <1>1, <1>2, <1>4, <1>8, ObjectParts

\* A state just loaded: every key leads to the node of that key.
Loaded(s) ==
  /\ Sound(s) /\ \A i \in DOMAIN s.nodes : s.nodes[i] # Null
  /\ \A k \in DOMAIN s.byKey : s.nodes[s.byKey[k]].key = k

\* The nodes that are said to be saved are, under their keys.
SavedIn(s, saved) ==
  \A i \in LiveNodes(s) : s.nodes[i].db # NoDb =>
    s.nodes[i].db \in DOMAIN saved /\ saved[s.nodes[i].db].key = s.nodes[i].key

LEMMA Listed ==
  ASSUME NEW K, IsFiniteSet(K)
  PROVE  /\ Cardinality(K) \in Nat /\ SetToSeq(K) \in [1..Cardinality(K) -> K]
         /\ IsInjective(SetToSeq(K))
<1>1. Cardinality(K) \in Nat
  BY FS_CardinalityType
<1>2. ExistsBijection(1..Cardinality(K), K)
  BY FS_CardinalityType
<1>3. PICK f \in [1..Cardinality(K) -> K] : \A a, b \in 1..Cardinality(K) : f[a] = f[b] => a = b
  BY <1>2 DEF ExistsBijection, Bijection, Injection, IsInjective
<1>4. IsInjective(f)
  BY <1>3 DEF IsInjective
<1> QED
  BY <1>1, <1>3, <1>4 DEF SetToSeq

USE MacroEditorAssumption

LEMMA KeysAreFinite == IsFiniteSet(PathKey)
<1> DEFINE T == {"trigram", "op_id"} \X Name
           f == [p \in T |-> [type |-> p[1], name |-> p[2]]]
<1>1. IsFiniteSet(T)
  <2>1. IsFiniteSet({"trigram"})
    BY FS_Singleton
  <2>2. IsFiniteSet({"trigram"} \cup {"op_id"})
    BY <2>1, FS_AddElement
  <2>3. {"trigram", "op_id"} = {"trigram"} \cup {"op_id"}
    OBVIOUS
  <2> QED
    BY <2>2, <2>3, FS_Product
<1>2. IsFiniteSet({f[x] : x \in T})
  <2>1. DOMAIN f = T
    OBVIOUS
  <2> HIDE DEF f, T
  <2> QED
    BY <2>1, <1>1, FiniteImage
<1>3. PathKey \subseteq {f[x] : x \in T}
  <2> SUFFICES ASSUME NEW k \in PathKey PROVE k \in {f[x] : x \in T}
    OBVIOUS
  <2>1. k.type \in {"trigram", "op_id"} /\ k.name \in Name /\ k = [type |-> k.type, name |-> k.name]
    BY DEF PathKey
  <2>2. <<k.type, k.name>> \in T /\ f[<<k.type, k.name>>] = k
    BY <2>1
  <2> HIDE DEF f
  <2> QED
    BY <2>2
<1> QED
  BY <1>2, <1>3, FS_Subset

\* The keys of the nodes that were read are a list without repetitions.
LEMMA LoadedIs ==
  ASSUME NEW trs, NEW saved, IsFiniteSet(DOMAIN saved)
  PROVE  /\ Loaded(LoadAndIndexNge(trs, saved))
         /\ SavedIn(LoadAndIndexNge(trs, saved), saved)
<1> DEFINE K == {k \in PathKey : \E t \in DOMAIN trs : k \in Range(trs[t])}
                \cup {saved[id].key : id \in DOMAIN saved}
           keys == SetToSeq(K)
           n == Cardinality(K)
           idsOf(key) == {id \in DOMAIN saved : saved[id].key = key}
           node(i) == LET id == CHOOSE x \in idsOf(keys[i]) : TRUE IN
                      IF idsOf(keys[i]) = {} THEN Node(i - 1, NoDb, keys[i], keys[i].name)
                      ELSE Node(i - 1, id, keys[i], saved[id].trigram)
           nn == [i \in DOMAIN keys |-> node(i)]
           bk == [k \in Range(keys) |-> CHOOSE i \in DOMAIN keys : keys[i] = k]
           bn == [m \in {i - 1 : i \in DOMAIN keys} |-> m + 1]
           s == Object(nn, bk, bn, <<>>)
<1>1. LoadAndIndexNge(trs, saved) = s
  BY DEF LoadAndIndexNge
<1>2. IsFiniteSet(K)
  <2> DEFINE f == [id \in DOMAIN saved |-> saved[id].key]
  <2>1. IsFiniteSet({f[id] : id \in DOMAIN saved})
    BY FiniteImage
  <2>2. {saved[id].key : id \in DOMAIN saved} = {f[id] : id \in DOMAIN saved}
    OBVIOUS
  <2>3. IsFiniteSet({k \in PathKey : \E t \in DOMAIN trs : k \in Range(trs[t])})
    BY KeysAreFinite, FS_Subset
  <2> QED
    BY <2>1, <2>2, <2>3, FS_Union
<1> HIDE DEF K
<1>3. /\ n \in Nat /\ DOMAIN keys = 1..n
      /\ \A a, b \in 1..n : keys[a] = keys[b] => a = b
  BY <1>2, Listed DEF IsInjective
<1> HIDE DEF keys, n
<1>4. ASSUME NEW i \in 1..n
      PROVE  /\ IsNode(nn[i]) /\ nn[i].nge = i - 1 /\ nn[i].key = keys[i]
             /\ nn[i].db # NoDb => nn[i].db \in DOMAIN saved /\ saved[nn[i].db].key = keys[i]
  <2> DEFINE id == CHOOSE x \in idsOf(keys[i]) : TRUE
  <2>1. CASE idsOf(keys[i]) = {}
    <3>1. nn[i] = Node(i - 1, NoDb, keys[i], keys[i].name)
      BY <2>1, <1>3
    <3> HIDE DEF nn
    <3> QED
      BY <3>1, NodeParts
  <2>2. CASE idsOf(keys[i]) # {}
    <3>1. nn[i] = Node(i - 1, id, keys[i], saved[id].trigram)
      BY <2>2, <1>3
    <3>2. id \in idsOf(keys[i])
      BY <2>2
    <3>3. id \in DOMAIN saved /\ saved[id].key = keys[i]
      BY <3>2
    <3> HIDE DEF id, nn
    <3> QED
      BY <3>1, <3>3, NodeParts
  <2> QED
    BY <2>1, <2>2
<1>5. DOMAIN nn = 1..n /\ DOMAIN bk = Range(keys) /\ DOMAIN bn = {i - 1 : i \in 1..n}
  BY <1>3
<1>6. \A i \in 1..n : keys[i] \in DOMAIN bk /\ bk[keys[i]] = i
  BY <1>3 DEF Range
<1>7. \A k \in DOMAIN bk : bk[k] \in 1..n /\ keys[bk[k]] = k
  BY <1>3 DEF Range
<1>8. \A i \in 1..n : i - 1 \in DOMAIN bn /\ bn[i - 1] = i
  <2> SUFFICES ASSUME NEW i \in 1..n PROVE i - 1 \in DOMAIN bn /\ bn[i - 1] = i
    OBVIOUS
  <2>1. i - 1 \in DOMAIN bn
    BY <1>3
  <2>2. bn[i - 1] = (i - 1) + 1
    BY <2>1
  <2> HIDE DEF bn
  <2> QED
    BY <2>1, <2>2, <1>3
<1>9. \A m \in DOMAIN bn : bn[m] \in 1..n /\ bn[m] - 1 = m
  BY <1>3
<1>10. IsArray(nn)
  <2> DEFINE S == {nn[i] : i \in 1..n}
  <2>1. nn \in [1..n -> S]
    BY <1>3
  <2> HIDE DEF nn, S
  <2>2. nn \in Seq(S)
    BY <2>1, <1>3
  <2> QED
    BY <2>2 DEF IsArray
<1> HIDE DEF nn, bk, bn
<1>11. \A i \in 1..n : nn[i] # Null
  BY <1>4, NodesAreThere
<1>12. ASSUME NEW i \in DOMAIN nn
       PROVE  /\ nn[i].nge \in DOMAIN bn /\ bn[nn[i].nge] = i
              /\ nn[i].key \in DOMAIN bk /\ bk[nn[i].key] = i
  BY <1>4, <1>5, <1>6, <1>8
<1>13. ASSUME NEW id \in DOMAIN bn
       PROVE  bn[id] \in DOMAIN nn /\ nn[bn[id]] # Null /\ nn[bn[id]].nge = id
  BY <1>4, <1>5, <1>9, <1>11
<1>14. ASSUME NEW k \in DOMAIN bk
       PROVE  bk[k] \in DOMAIN nn /\ nn[bk[k]] # Null /\ nn[bk[k]].key = k
  BY <1>4, <1>5, <1>7, <1>11
<1>15. \A i \in DOMAIN nn : nn[i] = Null \/ IsNode(nn[i])
  BY <1>4, <1>5
<1>16. Sound(s)
  BY <1>10, <1>12, <1>13, <1>14, <1>15, SoundObject
<1>17. s.nodes = nn /\ s.byKey = bk
  BY ObjectParts
<1> HIDE DEF s
<1>18. Loaded(s)
  BY <1>5, <1>11, <1>14, <1>16, <1>17 DEF Loaded
<1>19. SavedIn(s, saved)
  BY <1>4, <1>5, <1>17 DEF SavedIn, LiveNodes
<1> QED
  BY <1>1, <1>18, <1>19

\* One node is kept for each trigram, and the keys of the others lead to it.
LEMMA Deduped ==
  ASSUME NEW s, Loaded(s), NEW main \in MainKeys(s), NEW saved, SavedIn(s, saved)
  PROVE  Sound(DedupNodes(s, main)) /\ SavedIn(DedupNodes(s, main), saved)
<1> DEFINE trigram(k) == s.nodes[s.byKey[k]].trigram
           lost == {k \in DOMAIN s.byKey : main[trigram(k)] # k}
           at == {s.byKey[k] : k \in lost}
           nn == [i \in DOMAIN s.nodes |-> IF i \in at THEN Null ELSE s.nodes[i]]
           bk == [k \in DOMAIN s.byKey |-> s.byKey[IF k \in lost THEN main[trigram(k)] ELSE k]]
           bn == Restrict(s.byNge, {n \in DOMAIN s.byNge : s.byNge[n] \notin at})
<1>1. DedupNodes(s, main) = Object(nn, bk, bn, s.trains)
  BY DEF DedupNodes, GetNodeByKey
<1>2. \A k \in DOMAIN s.byKey : main[trigram(k)] \in DOMAIN s.byKey
                                 /\ trigram(main[trigram(k)]) = trigram(k)
  BY DEF MainKeys, Trigrams, KeysOf, GetNodeByKey
<1>3. Sound(s) /\ \A k \in DOMAIN s.byKey : s.nodes[s.byKey[k]].key = k
  BY DEF Loaded
<1> HIDE DEF trigram
<1>4. \A k \in DOMAIN s.byKey : k \notin lost => s.byKey[k] \notin at
  BY <1>3
<1>5. \A k \in DOMAIN s.byKey : main[trigram(k)] \notin lost
  BY <1>2
<1>6. \A k \in DOMAIN s.byKey : bk[k] \in DOMAIN s.nodes /\ s.nodes[bk[k]] # Null /\ bk[k] \notin at
  <2> SUFFICES ASSUME NEW k \in DOMAIN s.byKey
               PROVE  bk[k] \in DOMAIN s.nodes /\ s.nodes[bk[k]] # Null /\ bk[k] \notin at
    OBVIOUS
  <2>1. PICK l \in DOMAIN s.byKey : bk[k] = s.byKey[l] /\ l \notin lost
    BY <1>2, <1>5
  <2> QED
    BY <2>1, <1>3, <1>4, SoundParts
<1>7. ASSUME NEW i \in DOMAIN s.nodes, s.nodes[i] # Null, i \notin at
      PROVE  s.nodes[i].key \in DOMAIN s.byKey /\ bk[s.nodes[i].key] = i
  <2>1. s.nodes[i].key \in DOMAIN s.byKey /\ s.byKey[s.nodes[i].key] = i
    BY <1>3, <1>7, SoundParts
  <2>2. s.nodes[i].key \notin lost
    BY <2>1, <1>7
  <2> QED
    BY <2>1, <2>2
<1>8. /\ DOMAIN nn = DOMAIN s.nodes /\ nn = [i \in DOMAIN s.nodes |-> nn[i]]
      /\ \A i \in DOMAIN s.nodes : nn[i] = IF i \in at THEN Null ELSE s.nodes[i]
  OBVIOUS
<1>9. /\ DOMAIN bn = {n \in DOMAIN s.byNge : s.byNge[n] \notin at}
      /\ \A n \in DOMAIN bn : bn[n] = s.byNge[n]
  BY DEF Restrict
<1>10. DOMAIN bk = DOMAIN s.byKey
  OBVIOUS
<1> HIDE DEF at, nn, bk, bn
<1>11. IsArray(nn)
  BY <1>3, <1>8, ArrayMade, SoundParts
<1>12. \A i \in DOMAIN nn : nn[i] = Null \/ IsNode(nn[i])
  BY <1>3, <1>8, SoundParts
<1>13. ASSUME NEW i \in DOMAIN nn, nn[i] # Null
       PROVE  /\ nn[i].nge \in DOMAIN bn /\ bn[nn[i].nge] = i
              /\ nn[i].key \in DOMAIN bk /\ bk[nn[i].key] = i
  <2>1. i \in DOMAIN s.nodes /\ i \notin at /\ nn[i] = s.nodes[i]
    BY <1>8, <1>13
  <2>2. s.nodes[i].nge \in DOMAIN s.byNge /\ s.byNge[s.nodes[i].nge] = i
    BY <2>1, <1>3, <1>13, SoundParts
  <2> QED
    BY <2>1, <2>2, <1>7, <1>9, <1>10, <1>13
<1>14. ASSUME NEW id \in DOMAIN bn
       PROVE  bn[id] \in DOMAIN nn /\ nn[bn[id]] # Null /\ nn[bn[id]].nge = id
  <2>1. /\ id \in DOMAIN s.byNge /\ bn[id] = s.byNge[id] /\ s.byNge[id] \notin at
    BY <1>9
  <2>2. s.byNge[id] \in DOMAIN s.nodes /\ s.nodes[s.byNge[id]] # Null /\ s.nodes[s.byNge[id]].nge = id
    BY <2>1, <1>3, SoundParts
  <2> QED
    BY <2>1, <2>2, <1>8
<1>15. \A k \in DOMAIN bk : bk[k] \in DOMAIN nn /\ nn[bk[k]] # Null
  BY <1>6, <1>8, <1>10
<1>16. Sound(Object(nn, bk, bn, s.trains))
  BY <1>11, <1>12, <1>13, <1>14, <1>15, SoundObject
<1>17. \A i \in DOMAIN nn : nn[i] # Null => i \in LiveNodes(s) /\ nn[i] = s.nodes[i]
  BY <1>8 DEF LiveNodes
<1>18. SavedIn(Object(nn, bk, bn, s.trains), saved)
  BY <1>17, ObjectParts DEF SavedIn, LiveNodes
<1> QED
  BY <1>1, <1>16, <1>18

\* Every node is saved, under its key.
AllSaved(s, saved) ==
  \A i \in LiveNodes(s) :
    s.nodes[i].db \in DOMAIN saved /\ saved[s.nodes[i].db].key = s.nodes[i].key

\* Saving the nodes that are not: each gets an id of its own, after those in use.
LEMMA NodesSaved ==
  ASSUME NEW s, Sound(s), SavedIn(s, dbNodes), nextId \in Nat \ {0},
         DOMAIN dbNodes \subseteq 1..nextId - 1
  PROVE  /\ Sound(UpdateNodeData(s, IdsGiven(s)))
         /\ AllSaved(UpdateNodeData(s, IdsGiven(s)), RowsAdded(s, IdsGiven(s)))
         /\ Cardinality(Unsaved(s)) \in Nat
         /\ DOMAIN RowsAdded(s, IdsGiven(s)) \subseteq 1..nextId + Cardinality(Unsaved(s)) - 1
         /\ \A id \in DOMAIN dbNodes : /\ id \in DOMAIN RowsAdded(s, IdsGiven(s))
                                       /\ RowsAdded(s, IdsGiven(s))[id] = dbNodes[id]
<1> DEFINE U == Unsaved(s)
           n == Cardinality(U)
           ids == IdsGiven(s)
           rows == RowsAdded(s, ids)
           t == UpdateNodeData(s, ids)
<1>1. PICK S : s.nodes \in Seq(S)
  BY SoundParts DEF IsArray
<1>2. Len(s.nodes) \in Nat /\ U \subseteq 1..Len(s.nodes)
  BY <1>1 DEF Unsaved, LiveNodes
<1>3. /\ n \in Nat /\ \A i \in U : Rank(U, i) \in 1..n
      /\ \A i, j \in U : i < j => Rank(U, i) < Rank(U, j)
  BY <1>2, RankNumbers
<1>4. /\ DOMAIN ids = U /\ \A j \in U : ids[j] = nextId + Rank(U, j) - 1
  BY DEF IdsGiven, Rank
<1> HIDE DEF U, n, ids
<1>5. \A j \in U : ids[j] \in nextId..nextId + n - 1
  BY <1>3, <1>4
<1>6. \A i, j \in U : ids[i] = ids[j] => i = j
  <2> SUFFICES ASSUME NEW i \in U, NEW j \in U, i # j PROVE ids[i] # ids[j]
    OBVIOUS
  <2>1. i < j \/ j < i
    BY <1>2
  <2>2. Rank(U, i) # Rank(U, j) /\ Rank(U, i) \in Int /\ Rank(U, j) \in Int
    BY <1>3, <2>1
  <2> QED
    BY <1>4, <2>2
<1>7. DOMAIN rows = DOMAIN dbNodes \cup Range(ids) /\ Range(ids) = {ids[j] : j \in U}
  BY <1>4 DEF RowsAdded, Range
<1>8. \A id \in DOMAIN dbNodes : id \in DOMAIN rows /\ rows[id] = dbNodes[id]
  BY DEF RowsAdded
<1>9. ASSUME NEW j \in U
      PROVE  ids[j] \in DOMAIN rows /\ rows[ids[j]].key = s.nodes[j].key
  <2> DEFINE c == CHOOSE l \in Unsaved(s) : ids[l] = ids[j]
  <2>1. ids[j] \in DOMAIN rows /\ ids[j] \notin DOMAIN dbNodes
    BY <1>5, <1>7, <1>3
  <2>2. c \in U /\ ids[c] = ids[j]
    BY DEF U
  <2>3. c = j
    BY <2>2, <1>6
  <2>4. rows[ids[j]] = [key |-> s.nodes[c].key, trigram |-> s.nodes[c].trigram]
    BY <2>1, <1>7 DEF RowsAdded
  <2> HIDE DEF c
  <2> QED
    BY <2>1, <2>3, <2>4
<1>10. DOMAIN rows \subseteq 1..nextId + n - 1
  BY <1>3, <1>5, <1>7
<1>11. DOMAIN ids \subseteq LiveNodes(s)
  BY <1>4 DEF U, Unsaved
<1>12. /\ Sound(t) /\ DOMAIN t.nodes = DOMAIN s.nodes
       /\ \A i \in DOMAIN s.nodes :
            IF i \in DOMAIN ids THEN t.nodes[i].db = ids[i] /\ t.nodes[i].key = s.nodes[i].key
            ELSE t.nodes[i] = s.nodes[i]
  BY <1>11, IdsSet
<1> HIDE DEF rows, t
<1>13. ASSUME NEW i \in LiveNodes(t)
       PROVE  t.nodes[i].db \in DOMAIN rows /\ rows[t.nodes[i].db].key = t.nodes[i].key
  <2>1. i \in DOMAIN s.nodes /\ t.nodes[i] # Null
    BY <1>12 DEF LiveNodes
  <2>2. CASE i \in U
    <3>1. t.nodes[i].db = ids[i] /\ t.nodes[i].key = s.nodes[i].key
      BY <2>1, <2>2, <1>4, <1>12
    <3> QED
      BY <3>1, <2>2, <1>9
  <2>3. CASE i \notin U
    <3>1. t.nodes[i] = s.nodes[i]
      BY <2>1, <2>3, <1>4, <1>12
    <3>2. i \in LiveNodes(s)
      BY <3>1, <2>1 DEF LiveNodes
    <3>3. s.nodes[i].db # NoDb
      BY <3>2, <2>3 DEF U, Unsaved
    <3>4. s.nodes[i].db \in DOMAIN dbNodes /\ dbNodes[s.nodes[i].db].key = s.nodes[i].key
      BY <3>2, <3>3 DEF SavedIn
    <3> QED
      BY <3>1, <3>4, <1>8
  <2> QED
    BY <2>2, <2>3
<1>14. AllSaved(t, rows)
  BY <1>13 DEF AllSaved
<1> QED
  BY <1>3, <1>8, <1>10, <1>12, <1>14 DEF t, rows, ids, n, U

-----------------------------------------------------------------------------

IsTask(k, c) == "st" \in DOMAIN k /\ k.st = c

RefreshSound(r, saved) ==
  /\ IsFiniteSet(DOMAIN r.trains) /\ IsFiniteSet(r.pairs)
  /\ r.pc = "post" => Sound(r.s) /\ SavedIn(r.s, saved)

RowsNumbered == nextId \in Nat \ {0} /\ DOMAIN dbNodes \subseteq 1..nextId - 1
StatesSound  == IsArray(states) /\ \A j \in DOMAIN states : Sound(states[j])
CurrentSaved == cur # 0 => cur \in DOMAIN states /\ AllSaved(states[cur], dbNodes)
TasksCurrent == IsArray(tasks) /\ \A j \in DOMAIN tasks : IsTask(tasks[j], cur)
RefreshesSound == IsArray(refreshes) /\ \A j \in DOMAIN refreshes : RefreshSound(refreshes[j], dbNodes)
EventsFinite == IsArray(queue) /\ \A q \in DOMAIN queue : IsFiniteSet(queue[q].ids)
AllFinite    == /\ IsFiniteSet(DOMAIN trains) /\ IsFiniteSet(pairs)
                /\ "runs" \in DOMAIN nge /\ IsFiniteSet(DOMAIN nge.runs)

\* As long as nothing has raced.
Calm ==
  /\ RowsNumbered /\ StatesSound /\ CurrentSaved /\ TasksCurrent /\ RefreshesSound
  /\ EventsFinite /\ AllFinite /\ (Busy => cur # 0)

MacroInv == raced \/ Calm

LEMMA EmptyArray == IsArray(<<>>) /\ DOMAIN <<>> = {}
<1>1. <<>> \in Seq({})
  OBVIOUS
<1> QED
  BY <1>1 DEF IsArray

LEMMA MacroStarts == MacroInit => MacroInv
<1> SUFFICES ASSUME MacroInit PROVE Calm
  BY DEF MacroInv
<1> USE DEF MacroInit
<1>1. RowsNumbered
  BY DEF RowsNumbered
<1>2. StatesSound /\ CurrentSaved /\ TasksCurrent /\ EventsFinite
  BY EmptyArray DEF StatesSound, CurrentSaved, TasksCurrent, EventsFinite
<1>3. RefreshesSound
  <2>1. refreshes \in Seq({Reading}) /\ DOMAIN refreshes = {1} /\ refreshes[1] = Reading
    OBVIOUS
  <2>2. RefreshSound(Reading, dbNodes)
    BY FS_EmptySet, EmptyArray DEF RefreshSound, Reading, Loading
  <2> QED
    BY <2>1, <2>2 DEF RefreshesSound, IsArray
<1>4. AllFinite
  <2>1. IsFiniteSet(DOMAIN trains)
    BY FS_Interval
  <2>2. "runs" \in DOMAIN nge /\ DOMAIN nge.runs = {}
    BY EmptyArray DEF NoDto
  <2> QED
    BY <2>1, <2>2, FS_EmptySet DEF AllFinite
<1>5. ~Busy
  BY DEF Busy
<1> QED
  BY <1>1, <1>2, <1>3, <1>4, <1>5 DEF Calm

LEMMA FiniteChanges ==
  ASSUME NEW f, IsFiniteSet(DOMAIN f), NEW k, NEW v, NEW S
  PROVE  IsFiniteSet(DOMAIN With(f, k, v)) /\ IsFiniteSet(DOMAIN Without(f, S))
<1>1. DOMAIN With(f, k, v) = DOMAIN f \cup {k} /\ DOMAIN Without(f, S) \subseteq DOMAIN f
  BY DEF With, Without, Restrict
<1> QED
  BY <1>1, FS_AddElement, FS_Subset

\* The other elements of an array stay when one is taken out.
LEMMA ArrayShorter ==
  ASSUME NEW q, IsArray(q), NEW i \in DOMAIN q
  PROVE  /\ IsArray(RemoveAt(q, i))
         /\ \A j \in DOMAIN RemoveAt(q, i) : \E l \in DOMAIN q : RemoveAt(q, i)[j] = q[l]
<1>1. PICK S : q \in Seq(S)
  BY DEF IsArray
<1>2. RemoveAt(q, i) \in Seq(S) /\ IsPick(RemoveAt(q, i), q, DOMAIN q \ {i})
  BY <1>1, RemovedPicks
<1> QED
  BY <1>2 DEF IsArray, IsPick

LEMMA ArrayTail ==
  ASSUME NEW q, IsArray(q), q # <<>>
  PROVE  /\ IsArray(Tail(q)) /\ (\A j \in DOMAIN Tail(q) : \E l \in DOMAIN q : Tail(q)[j] = q[l])
         /\ 1 \in DOMAIN q /\ Head(q) = q[1]
<1>1. PICK S : q \in Seq(S)
  BY DEF IsArray
<1>2. Len(q) \in Nat \ {0} /\ DOMAIN q = 1..Len(q) /\ Tail(q) \in Seq(S) /\ Head(q) = q[1]
  BY <1>1
<1>3. DOMAIN Tail(q) = 1..Len(q) - 1 /\ \A j \in 1..Len(q) - 1 : Tail(q)[j] = q[j + 1]
  BY <1>1, <1>2
<1> QED
  BY <1>2, <1>3 DEF IsArray

LEMMA ArraysJoined ==
  ASSUME NEW p, IsArray(p), NEW q, IsArray(q)
  PROVE  /\ IsArray(p \o q)
         /\ \A j \in DOMAIN (p \o q) : \/ \E l \in DOMAIN p : (p \o q)[j] = p[l]
                                       \/ \E l \in DOMAIN q : (p \o q)[j] = q[l]
<1>1. PICK S : p \in Seq(S)
  BY DEF IsArray
<1>2. PICK T : q \in Seq(T)
  BY DEF IsArray
<1>3. p \in Seq(S \cup T) /\ q \in Seq(S \cup T)
  BY <1>1, <1>2
<1>4. /\ p \o q \in Seq(S \cup T) /\ Len(p \o q) = Len(p) + Len(q)
      /\ \A j \in 1..Len(p) + Len(q) : (p \o q)[j] = IF j <= Len(p) THEN p[j] ELSE q[j - Len(p)]
  BY <1>3, ConcatProperties
<1>5. Len(p) \in Nat /\ Len(q) \in Nat /\ DOMAIN p = 1..Len(p) /\ DOMAIN q = 1..Len(q)
  BY <1>3
<1> DEFINE r == p \o q
<1>6. DOMAIN r = 1..Len(p) + Len(q)
  BY <1>4
<1> HIDE DEF r
<1>7. ASSUME NEW j \in DOMAIN r
      PROVE  (\E l \in DOMAIN p : r[j] = p[l]) \/ \E l \in DOMAIN q : r[j] = q[l]
  <2>1. CASE j <= Len(p)
    BY <2>1, <1>4, <1>5, <1>6 DEF r
  <2>2. CASE ~(j <= Len(p))
    <3>1. j - Len(p) \in DOMAIN q /\ r[j] = q[j - Len(p)]
      BY <2>2, <1>4, <1>5, <1>6 DEF r
    <3> QED
      BY <3>1
  <2> QED
    BY <2>1, <2>2
<1> QED
  BY <1>4, <1>7 DEF IsArray, r

\* An array made of a function on the indices of a finite set or of an array.
LEMMA ArrayOn ==
  ASSUME NEW n \in Nat, NEW f, f = [i \in 1..n |-> f[i]]
  PROVE  IsArray(f) /\ DOMAIN f = 1..n
<1> DEFINE S == {f[i] : i \in 1..n}
<1>1. f \in [1..n -> S] /\ DOMAIN f = 1..n
  <2>1. DOMAIN f = 1..n /\ \A i \in 1..n : f[i] \in S
    OBVIOUS
  <2> HIDE DEF S
  <2> QED
    BY <2>1
<1> HIDE DEF S
<1>2. f \in Seq(S)
  BY <1>1
<1> QED
  BY <1>1, <1>2 DEF IsArray

LEMMA SortedIdsArray ==
  ASSUME NEW S, IsFiniteSet(S)
  PROVE  IsArray(SortedIds(S))
<1>1. Cardinality(S) \in Nat
  BY FS_CardinalityType
<1>2. SortedIds(S) = [k \in 1..Cardinality(S) |-> SortedIds(S)[k]]
  <2> DEFINE h(k) == CHOOSE id \in S : Cardinality({other \in S : other <= id}) = k
  <2>1. SortedIds(S) = [k \in 1..Cardinality(S) |-> h(k)]
    BY DEF SortedIds
  <2> HIDE DEF h
  <2> QED
    BY <2>1
<1> QED
  BY <1>1, <1>2, ArrayOn

\* A finite number of trainruns is shown.
LEMMA GroupsFinite ==
  ASSUME NEW trs, IsFiniteSet(DOMAIN trs), NEW rows, IsFiniteSet(rows)
  PROVE  IsFiniteSet(DOMAIN GroupCompatibleRoundTrips(trs, rows))
<1> DEFINE g == GroupRoundTrips(trs, rows)
           c == {p \in g.roundTrips : CheckRoundTripCompatible(trs[p[1]], trs[p[2]])}
           left == g.roundTrips \ c
           a1 == SortedIds(g.oneWays)
           a2 == SortedIds(g.others)
           a3 == SortedIds(UNION {{p[1], p[2]} : p \in left})
           alone == a1 \o a2 \o a3
           x == [i \in DOMAIN alone |-> <<alone[i], NoId>>]
           y == [i \in 1..Cardinality(c) |-> CHOOSE p \in c : p[1] = SortedIds({q[1] : q \in c})[i]]
<1>1. GroupCompatibleRoundTrips(trs, rows) = x \o y
  BY DEF GroupCompatibleRoundTrips
<1>2. /\ g.oneWays = {p[1] : p \in {q \in rows : q[2] = NoId}}
      /\ g.roundTrips \subseteq rows /\ g.others \subseteq DOMAIN trs
  BY DEF GroupRoundTrips
<1>3. IsFiniteSet(g.oneWays) /\ IsFiniteSet(g.others)
  <2> DEFINE R == {q \in rows : q[2] = NoId}
             f == [p \in R |-> p[1]]
  <2>1. IsFiniteSet(R)
    BY FS_Subset
  <2>2. DOMAIN f = R /\ {f[p] : p \in R} = g.oneWays
    BY <1>2
  <2>3. IsFiniteSet({f[p] : p \in R})
    <3> HIDE DEF R, f, g
    <3> QED
      BY <2>1, <2>2, FiniteImage
  <2> QED
    BY <1>2, <2>2, <2>3, FS_Subset
<1>4. IsFiniteSet(c) /\ IsFiniteSet(left)
  BY <1>2, FS_Subset
<1> HIDE DEF g, left
<1>5. IsFiniteSet(UNION {{p[1], p[2]} : p \in left})
  <2> DEFINE f1 == [p \in left |-> p[1]]
             f2 == [p \in left |-> p[2]]
  <2>1. DOMAIN f1 = left /\ DOMAIN f2 = left
    OBVIOUS
  <2>2. IsFiniteSet({f1[p] : p \in left}) /\ IsFiniteSet({f2[p] : p \in left})
    <3> HIDE DEF f1, f2
    <3> QED
      BY <2>1, <1>4, FiniteImage
  <2>3. IsFiniteSet({f1[p] : p \in left} \cup {f2[p] : p \in left})
    BY <2>2, FS_Union
  <2>4. UNION {{p[1], p[2]} : p \in left} \subseteq {f1[p] : p \in left} \cup {f2[p] : p \in left}
    OBVIOUS
  <2> QED
    BY <2>3, <2>4, FS_Subset
<1>6. IsArray(a1) /\ IsArray(a2) /\ IsArray(a3)
  BY <1>3, <1>5, SortedIdsArray
<1> HIDE DEF a1, a2, a3
<1>7. IsArray(a1 \o a2)
  BY <1>6, ArraysJoined
<1>8. IsArray(alone)
  BY <1>6, <1>7, ArraysJoined
<1> HIDE DEF alone
<1>9. IsArray(x)
  BY <1>8, ArrayMade
<1>10. IsArray(y)
  <2>1. Cardinality(c) \in Nat
    BY <1>4, FS_CardinalityType
  <2> HIDE DEF c
  <2>2. y = [i \in 1..Cardinality(c) |-> y[i]]
    <3> DEFINE h(i) == CHOOSE p \in c : p[1] = SortedIds({q[1] : q \in c})[i]
    <3>1. y = [i \in 1..Cardinality(c) |-> h(i)]
      OBVIOUS
    <3> HIDE DEF h
    <3> QED
      BY <3>1
  <2> HIDE DEF y
  <2> QED
    BY <2>1, <2>2, ArrayOn
<1> HIDE DEF x, y
<1>11. IsArray(x \o y)
  BY <1>9, <1>10, ArraysJoined
<1>12. PICK S : x \o y \in Seq(S)
  BY <1>11 DEF IsArray
<1>13. Len(x \o y) \in Nat /\ DOMAIN (x \o y) = 1..Len(x \o y)
  BY <1>12
<1> QED
  BY <1>1, <1>13, FS_Interval

LEMMA EventKept ==
  ASSUME Calm, NEW type, NEW id, NEW ids, IsFiniteSet(ids), Emit(type, id, ids),
         "runs" \in DOMAIN nge', IsFiniteSet(DOMAIN nge'.runs)
  PROVE  Calm'
<1>1. /\ cur # 0 /\ queue' = Append(queue, Event(type, id, ids, nge'))
      /\ UNCHANGED <<trains, pairs, dbNodes, nextId, states, cur, tasks, refreshes>>
  BY DEF Emit, db
<1>2. (RowsNumbered /\ StatesSound /\ CurrentSaved /\ TasksCurrent /\ RefreshesSound)'
  BY <1>1 DEF Calm, RowsNumbered, StatesSound, CurrentSaved, TasksCurrent, RefreshesSound
<1>3. EventsFinite'
  <2> DEFINE ev == Event(type, id, ids, nge')
  <2>1. ev.ids = ids
    BY DEF Event
  <2> HIDE DEF ev
  <2>2. IsArray(queue) /\ \A q \in DOMAIN queue : IsFiniteSet(queue[q].ids)
    BY DEF Calm, EventsFinite
  <2>3. IsArray(Append(queue, ev)) /\ \A q \in DOMAIN Append(queue, ev) : IsFiniteSet(Append(queue, ev)[q].ids)
    BY <2>1, <2>2, ArrayLonger
  <2> QED
    BY <1>1, <2>3 DEF EventsFinite, ev
<1>4. AllFinite'
  BY <1>1 DEF Calm, AllFinite
<1> QED
  BY <1>1, <1>2, <1>3, <1>4 DEF Calm

LEMMA OperationKeeps ==
  ASSUME Calm, Operation
  PROVE  Calm'
<1>1. "runs" \in DOMAIN nge /\ IsFiniteSet(DOMAIN nge.runs) /\ IsFiniteSet({})
  BY FS_EmptySet DEF Calm, AllFinite
<1>2. ASSUME NEW x, nge' = [nge EXCEPT !.nodes = x]
      PROVE  "runs" \in DOMAIN nge' /\ IsFiniteSet(DOMAIN nge'.runs)
  BY <1>1, <1>2
<1>3. ASSUME NEW x, nge' = [nge EXCEPT !.runs = x], IsFiniteSet(DOMAIN x)
      PROVE  "runs" \in DOMAIN nge' /\ IsFiniteSet(DOMAIN nge'.runs)
  BY <1>1, <1>3
<1>4. CASE NgeCreateNode
  <2>1. PICK n \in Name : /\ nge' = [nge EXCEPT !.nodes = With(@, NextOf(@), n)]
                          /\ Emit("node", NextOf(nge.nodes), {})
    BY <1>4 DEF NgeCreateNode
  <2> QED
    BY <1>1, <1>2, <2>1, EventKept
<1>5. CASE NgeRenameNode
  <2>1. PICK id \in DOMAIN nge.nodes, n \in Name :
          nge' = [nge EXCEPT !.nodes[id] = n] /\ Emit("node", id, {})
    BY <1>5 DEF NgeRenameNode
  <2> QED
    BY <1>1, <1>2, <2>1, EventKept
<1>6. CASE NgeDeleteNode
  <2>1. PICK id \in DOMAIN nge.nodes \ Used :
          nge' = [nge EXCEPT !.nodes = Without(@, {id})] /\ Emit("nodeDelete", id, {})
    BY <1>6 DEF NgeDeleteNode
  <2> QED
    BY <1>1, <1>2, <2>1, EventKept
<1>7. CASE NgeCreateRun
  <2>1. PICK a \in DOMAIN nge.nodes, b \in DOMAIN nge.nodes :
          /\ nge' = [nge EXCEPT !.runs = With(@, NextOf(@), [path |-> <<a, b>>, dir |-> "round_trip"])]
          /\ Emit("create", NextOf(nge.runs), {})
    BY <1>7 DEF NgeCreateRun
  <2>2. IsFiniteSet(DOMAIN With(nge.runs, NextOf(nge.runs), [path |-> <<a, b>>, dir |-> "round_trip"]))
    BY <1>1, FiniteChanges
  <2> QED
    BY <1>1, <1>3, <2>1, <2>2, EventKept
<1>8. CASE NgeChangeDirection
  <2>1. PICK r \in DOMAIN nge.runs :
          /\ nge' = [nge EXCEPT !.runs[r].dir = IF @ = "one_way" THEN "round_trip" ELSE "one_way"]
          /\ Emit("update", r, {})
    BY <1>8 DEF NgeChangeDirection
  <2>2. "runs" \in DOMAIN nge' /\ DOMAIN nge'.runs = DOMAIN nge.runs
    BY <1>1, <2>1
  <2> QED
    BY <1>1, <2>1, <2>2, EventKept
<1>9. CASE NgeDeleteRun
  <2>1. PICK r \in DOMAIN nge.runs :
          nge' = [nge EXCEPT !.runs = Without(@, {r})] /\ Emit("delete", r, {})
    BY <1>9 DEF NgeDeleteRun
  <2>2. IsFiniteSet(DOMAIN Without(nge.runs, {r}))
    BY <1>1, FiniteChanges
  <2> QED
    BY <1>1, <1>3, <2>1, <2>2, EventKept
<1>10. CASE NgeUpdateLabel
  <2>1. PICK R \in {DOMAIN nge.runs} \cup {{r} : r \in DOMAIN nge.runs} :
          nge' = nge /\ Emit("label", NoId, R)
    BY <1>10 DEF NgeUpdateLabel
  <2>2. IsFiniteSet(R)
    BY <1>1, <2>1, FS_Singleton
  <2> QED
    BY <1>1, <2>1, <2>2, EventKept
<1> QED
  BY <1>4, <1>5, <1>6, <1>7, <1>8, <1>9, <1>10 DEF Operation

LEMMA ReadingIsSound ==
  ASSUME NEW saved
  PROVE  RefreshSound(Reading, saved)
  BY FS_EmptySet, EmptyArray DEF RefreshSound, Reading, Loading

LEMMA OutsideKeeps ==
  ASSUME Calm, Outside
  PROVE  Calm'
<1>1. /\ cur # 0 /\ refreshes' = Append(refreshes, Reading) /\ nextId' \in {nextId, nextId + 1}
      /\ UNCHANGED <<dbNodes, states, cur, nge, queue, tasks>>
  BY DEF Outside, RefreshNge
<1>2. RowsNumbered'
  BY <1>1 DEF Calm, RowsNumbered
<1>3. (StatesSound /\ CurrentSaved /\ TasksCurrent /\ EventsFinite)'
  BY <1>1 DEF Calm, StatesSound, CurrentSaved, TasksCurrent, EventsFinite
<1>4. RefreshesSound'
  <2>1. IsArray(refreshes) /\ \A j \in DOMAIN refreshes : RefreshSound(refreshes[j], dbNodes)
    BY DEF Calm, RefreshesSound
  <2>2. /\ IsArray(Append(refreshes, Reading))
        /\ \A j \in DOMAIN Append(refreshes, Reading) : RefreshSound(Append(refreshes, Reading)[j], dbNodes)
    BY <2>1, ReadingIsSound, ArrayLonger
  <2> QED
    BY <1>1, <2>2 DEF RefreshesSound
<1>5. IsFiniteSet(DOMAIN trains) /\ IsFiniteSet(pairs)
  BY DEF Calm, AllFinite
<1>6. IsFiniteSet(DOMAIN trains') /\ IsFiniteSet(pairs')
  <2>1. CASE /\ trains' = With(trains, nextId, trains[Min(DOMAIN trains)]) /\ UNCHANGED pairs
    BY <1>5, <2>1, FiniteChanges
  <2>2. CASE \E t \in DOMAIN trains :
               trains' = Without(trains, {t}) /\ pairs' = {p \in pairs : t \notin {p[1], p[2]}}
    BY <1>5, <2>2, FiniteChanges, FS_Subset
  <2>3. CASE \E t, u \in DOMAIN trains :
               /\ pairs' = {p \in pairs : {t, u} \cap {p[1], p[2]} = {}} \cup {<<t, u>>}
               /\ UNCHANGED trains
    <3>1. PICK t \in DOMAIN trains, u \in DOMAIN trains :
            /\ pairs' = {p \in pairs : {t, u} \cap {p[1], p[2]} = {}} \cup {<<t, u>>}
            /\ UNCHANGED trains
      BY <2>3
    <3>2. IsFiniteSet({p \in pairs : {t, u} \cap {p[1], p[2]} = {}})
      BY <1>5, FS_Subset
    <3> QED
      BY <1>5, <3>1, <3>2, FS_AddElement
  <2> QED
    BY <2>1, <2>2, <2>3 DEF Outside
<1>7. AllFinite'
  BY <1>1, <1>6 DEF Calm, AllFinite
<1> QED
  BY <1>1, <1>2, <1>3, <1>4, <1>7 DEF Calm

LEMMA TasksStay ==
  /\ \A main, dto, pc, todo : IsTask(Task(main, dto, pc, todo), cur)
  /\ \A k, c : IsTask(k, c) => IsTask(HandleUpdateTimetableItem(k), c)
<1>1. \A main, dto, pc, todo : IsTask(Task(main, dto, pc, todo), cur)
  BY DEF IsTask, Task
<1>2. ASSUME NEW k, NEW c, IsTask(k, c) PROVE IsTask(HandleUpdateTimetableItem(k), c)
  BY <1>2 DEF IsTask, HandleUpdateTimetableItem
<1> QED
  BY <1>1, <1>2

LEMMA HandleKeeps ==
  ASSUME Calm, HandleOperation
  PROVE  Calm'
<1> DEFINE e == Head(queue)
           runs == SortedIds(e.ids)
           label == [j \in DOMAIN runs |->
                       HandleUpdateTimetableItem(Task(FALSE, e.dto, "get", <<runs[j]>>))]
<1>1. /\ queue # <<>> /\ queue' = Tail(queue)
      /\ UNCHANGED <<trains, pairs, dbNodes, nextId, states, cur, nge, refreshes>>
  BY DEF HandleOperation, db
<1>2. cur # 0
  BY <1>1 DEF Calm, Busy
<1>3. (RowsNumbered /\ StatesSound /\ CurrentSaved /\ RefreshesSound /\ AllFinite)'
  BY <1>1 DEF Calm, RowsNumbered, StatesSound, CurrentSaved, RefreshesSound, AllFinite
<1>4. EventsFinite' /\ IsFiniteSet(e.ids)
  BY <1>1, ArrayTail DEF Calm, EventsFinite
<1>5. IsArray(tasks) /\ \A j \in DOMAIN tasks : IsTask(tasks[j], cur)
  BY DEF Calm, TasksCurrent
<1>6. \/ \E k : IsTask(k, cur) /\ tasks' = Append(tasks, k)
      \/ tasks' = tasks \o label
  <2>1. CASE e.type = "update"
    <3>1. tasks' = Append(tasks, HandleUpdateTimetableItem(Task(TRUE, e.dto, "get", <<e.id>>)))
      BY <2>1 DEF HandleOperation
    <3> QED
      BY <3>1, TasksStay
  <2>2. CASE e.type = "label"
    BY <2>2 DEF HandleOperation
  <2>3. CASE e.type # "update" /\ e.type # "label"
    <3> DEFINE t == Task(TRUE, e.dto, e.type, <<e.id>>)
               k == [t EXCEPT !.node = e.id,
                              !.ids = IF e.type = "delete" /\ e.id \in DOMAIN states[cur].trains
                                      THEN states[cur].trains[e.id] ELSE @]
    <3>1. tasks' = Append(tasks, k)
      BY <2>3 DEF HandleOperation
    <3>2. IsTask(t, cur)
      BY TasksStay
    <3> HIDE DEF t
    <3>3. IsTask(k, cur)
      BY <3>2 DEF IsTask
    <3> QED
      BY <3>1, <3>3
  <2> QED
    BY <2>1, <2>2, <2>3
<1>7. TasksCurrent'
  <2>1. CASE \E k : IsTask(k, cur) /\ tasks' = Append(tasks, k)
    BY <1>1, <1>5, <2>1, ArrayLonger DEF TasksCurrent
  <2>2. CASE tasks' = tasks \o label
    <3>1. IsArray(runs)
      BY <1>4, SortedIdsArray
    <3> HIDE DEF runs
    <3>2. label = [j \in DOMAIN runs |-> label[j]] /\ \A j \in DOMAIN label : IsTask(label[j], cur)
      BY TasksStay
    <3> HIDE DEF label
    <3>3. IsArray(label)
      BY <3>1, <3>2, ArrayMade
    <3>4. /\ IsArray(tasks')
          /\ \A j \in DOMAIN tasks' : \/ \E l \in DOMAIN tasks : tasks'[j] = tasks[l]
                                      \/ \E l \in DOMAIN label : tasks'[j] = label[l]
      BY <1>5, <2>2, <3>3, ArraysJoined
    <3> QED
      BY <1>1, <1>5, <3>2, <3>4 DEF TasksCurrent
  <2> QED
    BY <1>6, <2>1, <2>2
<1> QED
  BY <1>1, <1>2, <1>3, <1>4, <1>7 DEF Calm

-----------------------------------------------------------------------------
(* A step of a task: no refresh is under way, or the step races with it.   *)

\* What a step of task i leaves of the rows and of the states.
NodesKept ==
  /\ RowsNumbered' /\ StatesSound' /\ DOMAIN states' = DOMAIN states
  /\ AllSaved(states'[cur], dbNodes')
RunsKept == IsFiniteSet(DOMAIN trains') /\ IsFiniteSet(pairs')
TasksKept == IsArray(tasks') /\ \A j \in DOMAIN tasks' : IsTask(tasks'[j], cur)

\* The task under way, and the state it works on.
Working(i) ==
  /\ Calm /\ i \in DOMAIN tasks /\ IsTask(tasks[i], cur)
  /\ cur \in DOMAIN states /\ Sound(states[cur]) /\ AllSaved(states[cur], dbNodes)

LEMMA IsWorking ==
  ASSUME Calm, NEW i \in DOMAIN tasks
  PROVE  Working(i)
<1>1. IsTask(tasks[i], cur) /\ tasks # <<>>
  BY EmptyArray DEF Calm, TasksCurrent
<1>2. cur # 0
  BY <1>1 DEF Calm, Busy
<1> QED
  BY <1>1, <1>2 DEF Working, Calm, CurrentSaved, StatesSound

LEMMA TaskEnds ==
  ASSUME NEW i, Working(i), tasks' = RemoveAt(tasks, i)
  PROVE  TasksKept
  BY ArrayShorter DEF Working, Calm, TasksCurrent, TasksKept

LEMMA TaskContinues ==
  ASSUME NEW i, Working(i), NEW k, IsTask(k, cur), tasks' = [tasks EXCEPT ![i] = k]
  PROVE  TasksKept
<1>1. IsArray(tasks) /\ i \in DOMAIN tasks /\ \A j \in DOMAIN tasks : IsTask(tasks[j], cur)
  BY DEF Working, Calm, TasksCurrent
<1>2. /\ IsArray(tasks') /\ DOMAIN tasks' = DOMAIN tasks /\ tasks'[i] = k
      /\ \A j \in DOMAIN tasks : j # i => tasks'[j] = tasks[j]
  BY <1>1, ArrayChanged
<1> QED
  BY <1>1, <1>2 DEF TasksKept

LEMMA NodesUntouched ==
  ASSUME NEW i, Working(i), UNCHANGED <<states, dbNodes>>, nextId' \in {nextId, nextId + 1, nextId + 2}
  PROVE  NodesKept
<1>1. RowsNumbered'
  BY DEF Working, Calm, RowsNumbered
<1>2. StatesSound'
  BY DEF Working, Calm, StatesSound
<1> QED
  BY <1>1, <1>2 DEF NodesKept, Working

\* The state of the task gets another one in its place.
LEMMA StateReplaced ==
  ASSUME NEW i, Working(i), NEW s, Sound(s), states' = [states EXCEPT ![cur] = s],
         AllSaved(s, dbNodes'), RowsNumbered'
  PROVE  NodesKept
<1>1. IsArray(states) /\ cur \in DOMAIN states /\ \A j \in DOMAIN states : Sound(states[j])
  BY DEF Working, Calm, StatesSound
<1>2. /\ IsArray(states') /\ DOMAIN states' = DOMAIN states /\ states'[cur] = s
      /\ \A j \in DOMAIN states : j # cur => states'[j] = states[j]
  BY <1>1, ArrayChanged
<1>3. StatesSound'
  BY <1>1, <1>2 DEF StatesSound
<1> QED
  BY <1>2, <1>3 DEF NodesKept

LEMMA IdsReplaced ==
  ASSUME NEW i, Working(i), NEW k, k.st = cur, NEW trs, SetTrains(k, trs), UNCHANGED dbNodes,
         nextId' \in {nextId, nextId + 1, nextId + 2}
  PROVE  NodesKept
<1> DEFINE s == WithTrains(states[cur], trs)
<1>1. Sound(s) /\ s.nodes = states[cur].nodes
  BY TrainsSet DEF Working
<1>2. states' = [states EXCEPT ![cur] = s]
  BY DEF SetTrains, State
<1> HIDE DEF s
<1>3. AllSaved(s, dbNodes')
  BY <1>1 DEF Working, AllSaved, LiveNodes
<1>4. RowsNumbered'
  BY DEF Working, Calm, RowsNumbered
<1> QED
  BY <1>1, <1>2, <1>3, <1>4, StateReplaced

LEMMA RowsReplaced ==
  ASSUME Calm, NEW forward, NEW return, StoreRoundTrip(forward, return)
  PROVE  IsFiniteSet(pairs')
<1> DEFINE P == {p \in pairs : {p[1], p[2]} \cap {forward, return} \subseteq {NoId}}
<1>1. PICK x : pairs' = P \cup {x}
  BY DEF StoreRoundTrip
<1>2. IsFiniteSet(P)
  BY FS_Subset DEF Calm, AllFinite
<1> HIDE DEF P
<1> QED
  BY <1>1, <1>2, FS_AddElement

LEMMA TrainDeleted ==
  ASSUME Calm, NEW id, DeleteTrain(id)
  PROVE  RunsKept
  BY FiniteChanges, FS_Subset DEF Calm, AllFinite, DeleteTrain, RunsKept

LEMMA NextRunKeeps ==
  ASSUME NEW i, Working(i), NextRun(i, tasks[i])
  PROVE  TasksKept
<1> DEFINE k == tasks[i]
<1>1. CASE tasks' = RemoveAt(tasks, i)
  BY <1>1, TaskEnds
<1>2. CASE tasks' # RemoveAt(tasks, i)
  <2> DEFINE t == Tail(k.todo)
             x == IF Head(t) \in DOMAIN State(k).trains
                  THEN [k EXCEPT !.todo = t, !.pc = "get", !.ids = State(k).trains[Head(t)]]
                  ELSE [k EXCEPT !.todo = t, !.pc = "error"]
  <2>1. tasks' = [tasks EXCEPT ![i] = x]
    BY <1>2 DEF NextRun
  <2>2. IsTask(k, cur)
    BY DEF Working
  <2> HIDE DEF k, t
  <2>3. IsTask(x, cur)
    BY <2>2 DEF IsTask
  <2> HIDE DEF x
  <2> QED
    BY <2>1, <2>3, TaskContinues
<1> QED
  BY <1>1, <1>2

\* A new node: editoast has no row with its key, so no node of the state has it.
LEMMA CreateNodeKeeps ==
  ASSUME NEW i, Working(i), CreateMacroNode(i, tasks[i])
  PROVE  NodesKept /\ RunsKept /\ TasksKept
<1> DEFINE k == tasks[i]
           s == states[cur]
           name == k.dto.nodes[k.node]
           key == Key("trigram", name)
           node == Node(k.node, nextId, key, name)
           t == IndexNodeByKey(s, key, node)
<1>1. /\ GetNodeByNgeId(s, k.node) = Null /\ Free(key, NoDb)
      /\ dbNodes' = With(dbNodes, nextId, [key |-> key, trigram |-> name]) /\ nextId' = nextId + 1
      /\ states' = [states EXCEPT ![cur] = t] /\ tasks' = RemoveAt(tasks, i)
      /\ UNCHANGED <<trains, pairs>>
  BY DEF CreateMacroNode, State, Working, IsTask, End
<1>2. /\ Calm /\ Sound(s) /\ AllSaved(s, dbNodes)
      /\ nextId \in Nat \ {0} /\ DOMAIN dbNodes \subseteq 1..nextId - 1
  BY DEF Working, Calm, RowsNumbered
<1>3. IsNode(node) /\ node.nge = k.node /\ node.db = nextId /\ node.key = key
  BY NodeParts
<1> HIDE DEF k, s, key, node
<1>4. k.node \notin DOMAIN s.byNge
  BY <1>1, <1>2, SoundParts DEF GetNodeByNgeId
<1>5. \A j \in LiveNodes(s) : s.nodes[j].key # node.key
  <2> SUFFICES ASSUME NEW j \in LiveNodes(s) PROVE s.nodes[j].key # key
    BY <1>3
  <2>1. s.nodes[j].db \in DOMAIN dbNodes /\ dbNodes[s.nodes[j].db].key = s.nodes[j].key
    BY <1>2 DEF AllSaved
  <2>2. s.nodes[j].db # NoDb
    BY <2>1, <1>2 DEF NoDb
  <2> QED
    BY <1>1, <2>1, <2>2 DEF Free
<1>6. /\ Sound(t)
      /\ \A j \in DOMAIN t.nodes : t.nodes[j] = node \/ (j \in DOMAIN s.nodes /\ t.nodes[j] = s.nodes[j])
  <2>1. CASE key \in DOMAIN s.byKey
    <3>1. /\ Sound(t) /\ DOMAIN t.nodes = DOMAIN s.nodes /\ t.nodes[s.byKey[key]] = node
          /\ \A j \in DOMAIN s.nodes : j # s.byKey[key] => t.nodes[j] = s.nodes[j]
      BY <2>1, <1>2, <1>3, <1>4, <1>5, Reindexed
    <3> QED
      BY <3>1
  <2>2. CASE key \notin DOMAIN s.byKey
    BY <2>2, <1>2, <1>3, <1>4, <1>5, NewlyIndexed
  <2> QED
    BY <2>1, <2>2
<1> HIDE DEF t
<1>7. /\ DOMAIN dbNodes' = DOMAIN dbNodes \cup {nextId} /\ dbNodes'[nextId].key = key
      /\ nextId \notin DOMAIN dbNodes /\ \A d \in DOMAIN dbNodes : dbNodes'[d] = dbNodes[d]
  BY <1>1, <1>2 DEF With
<1>8. AllSaved(t, dbNodes')
  <2> SUFFICES ASSUME NEW j \in DOMAIN t.nodes, t.nodes[j] # Null
               PROVE  t.nodes[j].db \in DOMAIN dbNodes' /\ dbNodes'[t.nodes[j].db].key = t.nodes[j].key
    BY DEF AllSaved, LiveNodes
  <2>1. CASE t.nodes[j] = node
    BY <2>1, <1>3, <1>7
  <2>2. CASE j \in DOMAIN s.nodes /\ t.nodes[j] = s.nodes[j]
    <3>1. s.nodes[j].db \in DOMAIN dbNodes /\ dbNodes[s.nodes[j].db].key = s.nodes[j].key
      BY <2>2, <1>2 DEF AllSaved, LiveNodes
    <3> QED
      BY <2>2, <3>1, <1>7
  <2> QED
    BY <1>6, <2>1, <2>2
<1>9. RowsNumbered'
  BY <1>1, <1>2, <1>7 DEF RowsNumbered
<1>10. NodesKept
  BY <1>1, <1>6, <1>8, <1>9, StateReplaced
<1>11. RunsKept
  BY <1>1, <1>2 DEF Calm, AllFinite, RunsKept
<1> QED
  BY <1>1, <1>10, <1>11, TaskEnds

\* Two nodes with the same row have the same key, and so are one node.
LEMMA OneNodeForARow ==
  ASSUME NEW s, Sound(s), NEW saved, AllSaved(s, saved), NEW a \in LiveNodes(s), NEW b \in LiveNodes(s),
         s.nodes[a].db = s.nodes[b].db
  PROVE  a = b
<1>1. s.nodes[a].key = s.nodes[b].key
  BY DEF AllSaved
<1>2. s.byKey[s.nodes[a].key] = a /\ s.byKey[s.nodes[b].key] = b
  BY SoundParts DEF LiveNodes
<1> QED
  BY <1>1, <1>2

\* The node with an id that is known.
LEMMA KnownNode ==
  ASSUME NEW s, Sound(s), NEW id, GetNodeByNgeId(s, id) # Null
  PROVE  /\ id \in DOMAIN s.byNge /\ s.byNge[id] \in LiveNodes(s)
         /\ GetNodeByNgeId(s, id) = s.nodes[s.byNge[id]] /\ s.nodes[s.byNge[id]].nge = id
  BY SoundParts DEF GetNodeByNgeId, LiveNodes

\* A node that may have a new key: editoast has no other row with it.
LEMMA UpdateNodeKeeps ==
  ASSUME NEW i, Working(i), UpdateMacroNode(i, tasks[i])
  PROVE  NodesKept /\ RunsKept /\ TasksKept
<1> DEFINE k == tasks[i]
           s == states[cur]
           n == GetNodeByNgeId(s, k.node)
           a == s.byNge[k.node]
           name == k.dto.nodes[k.node]
           key == IF n.key.type = "trigram" /\ n.trigram # name THEN Key("trigram", name) ELSE n.key
           node == Node(k.node, n.db, key, name)
           t == IndexNodeByKey(s, n.key, node)
           todo == SortedIds({r \in DOMAIN k.dto.runs : k.node \in Range(k.dto.runs[r].path)})
           first == [k EXCEPT !.todo = todo]
<1>1. /\ n # Null /\ n.db \in DOMAIN dbNodes /\ Free(key, n.db)
      /\ dbNodes' = [dbNodes EXCEPT ![n.db] = [key |-> key, trigram |-> name]]
      /\ states' = [states EXCEPT ![cur] = t]
      /\ tasks' = RemoveAt(tasks, i) \/ tasks' = [tasks EXCEPT ![i] = HandleUpdateTimetableItem(first)]
      /\ UNCHANGED <<trains, pairs, nextId>>
  BY DEF UpdateMacroNode, State, Working, IsTask
<1>2. Calm /\ Sound(s) /\ AllSaved(s, dbNodes) /\ RowsNumbered /\ IsTask(k, cur)
  BY DEF Working, Calm
<1>3. IsNode(node) /\ node.nge = k.node /\ node.db = n.db /\ node.key = key
  BY NodeParts
<1>4. TasksKept
  <2> HIDE DEF k, todo
  <2>1. IsTask(first, cur)
    BY <1>2 DEF IsTask
  <2> HIDE DEF first
  <2> QED
    BY <1>1, <2>1, TasksStay, TaskEnds, TaskContinues
<1>5. RunsKept
  BY <1>1, <1>2 DEF Calm, AllFinite, RunsKept
<1> HIDE DEF k, s, key, node, todo, first
<1>6. k.node \in DOMAIN s.byNge /\ a \in LiveNodes(s) /\ n = s.nodes[a] /\ s.nodes[a].nge = k.node
  BY <1>1, <1>2, KnownNode
<1> HIDE DEF n, a
<1>7. n.key \in DOMAIN s.byKey /\ s.byKey[n.key] = a /\ dbNodes[n.db].key = n.key
  BY <1>2, <1>6, SoundParts DEF LiveNodes, AllSaved
<1>8. \A j \in LiveNodes(s) : s.nodes[j].key = node.key => j = a
  <2> SUFFICES ASSUME NEW j \in LiveNodes(s), s.nodes[j].key = key PROVE j = a
    BY <1>3
  <2>1. s.nodes[j].db \in DOMAIN dbNodes /\ dbNodes[s.nodes[j].db].key = key
    BY <1>2 DEF AllSaved
  <2>2. s.nodes[j].db = n.db
    BY <1>1, <2>1 DEF Free
  <2> QED
    BY <1>2, <1>6, <2>2, OneNodeForARow
<1>9. /\ Sound(t) /\ DOMAIN t.nodes = DOMAIN s.nodes /\ t.nodes[a] = node
      /\ \A j \in DOMAIN s.nodes : j # a => t.nodes[j] = s.nodes[j]
  BY <1>2, <1>3, <1>6, <1>7, <1>8, Reindexed
<1> HIDE DEF t
<1>10. /\ DOMAIN dbNodes' = DOMAIN dbNodes /\ dbNodes'[n.db].key = key
       /\ \A d \in DOMAIN dbNodes : d # n.db => dbNodes'[d] = dbNodes[d]
  BY <1>1
<1>11. AllSaved(t, dbNodes')
  <2> SUFFICES ASSUME NEW j \in DOMAIN t.nodes, t.nodes[j] # Null
               PROVE  t.nodes[j].db \in DOMAIN dbNodes' /\ dbNodes'[t.nodes[j].db].key = t.nodes[j].key
    BY DEF AllSaved, LiveNodes
  <2>1. CASE j = a
    BY <2>1, <1>1, <1>3, <1>9, <1>10
  <2>2. CASE j # a
    <3>1. t.nodes[j] = s.nodes[j] /\ j \in LiveNodes(s)
      BY <2>2, <1>9 DEF LiveNodes
    <3>2. s.nodes[j].db \in DOMAIN dbNodes /\ dbNodes[s.nodes[j].db].key = s.nodes[j].key
      BY <3>1, <1>2 DEF AllSaved
    <3>3. s.nodes[j].db # n.db
      BY <2>2, <3>1, <1>2, <1>6, OneNodeForARow
    <3> QED
      BY <3>1, <3>2, <3>3, <1>10
  <2> QED
    BY <2>1, <2>2
<1>12. RowsNumbered'
  BY <1>1, <1>2, <1>10 DEF RowsNumbered
<1>13. NodesKept
  BY <1>1, <1>9, <1>11, <1>12, StateReplaced
<1> QED
  BY <1>4, <1>5, <1>13

LEMMA DeleteNodeKeeps ==
  ASSUME NEW i, Working(i), DeleteMacroNode(i, tasks[i])
  PROVE  NodesKept /\ RunsKept /\ TasksKept
<1> DEFINE k == tasks[i]
           s == states[cur]
           n == GetNodeByNgeId(s, k.node)
           a == s.byNge[k.node]
           t == DeleteNodeByNgeId(s, k.node)
<1>1. /\ dbNodes' = IF n = Null THEN dbNodes ELSE Without(dbNodes, {n.db})
      /\ states' = [states EXCEPT ![cur] = t] /\ tasks' = RemoveAt(tasks, i)
      /\ UNCHANGED <<trains, pairs, nextId>>
  BY DEF DeleteMacroNode, State, Working, IsTask, End
<1>2. Calm /\ Sound(s) /\ AllSaved(s, dbNodes) /\ RowsNumbered
  BY DEF Working, Calm
<1> HIDE DEF k, s
<1>3. RunsKept /\ TasksKept
  BY <1>1, <1>2, TaskEnds DEF Calm, AllFinite, RunsKept
<1>4. CASE n = Null
  <2>1. t = s /\ dbNodes' = dbNodes
    BY <1>1, <1>4 DEF DeleteNodeByNgeId
  <2>2. RowsNumbered'
    BY <1>1, <1>2, <2>1 DEF RowsNumbered
  <2>3. NodesKept
    BY <1>1, <1>2, <2>1, <2>2, StateReplaced
  <2> QED
    BY <1>3, <2>3
<1>5. CASE n # Null
  <2>1. k.node \in DOMAIN s.byNge /\ a \in LiveNodes(s) /\ n = s.nodes[a]
    BY <1>2, <1>5, KnownNode
  <2>2. t = DeleteByIndexStorage(s, a)
    BY <1>5 DEF DeleteNodeByNgeId
  <2>3. dbNodes' = Without(dbNodes, {n.db})
    BY <1>1, <1>5
  <2> HIDE DEF n, a, t
  <2>4. /\ Sound(t) /\ DOMAIN t.nodes = DOMAIN s.nodes /\ t.nodes[a] = Null
        /\ \A j \in DOMAIN s.nodes : j # a => t.nodes[j] = s.nodes[j]
    BY <1>2, <2>1, <2>2, DeletedByIndex DEF LiveNodes
  <2>5. /\ DOMAIN dbNodes' = DOMAIN dbNodes \ {n.db}
        /\ \A d \in DOMAIN dbNodes \ {n.db} : dbNodes'[d] = dbNodes[d]
    BY <2>3 DEF Without, Restrict
  <2>6. AllSaved(t, dbNodes')
    <3> SUFFICES ASSUME NEW j \in DOMAIN t.nodes, t.nodes[j] # Null
                 PROVE  t.nodes[j].db \in DOMAIN dbNodes' /\ dbNodes'[t.nodes[j].db].key = t.nodes[j].key
      BY DEF AllSaved, LiveNodes
    <3>1. j # a /\ t.nodes[j] = s.nodes[j] /\ j \in LiveNodes(s)
      BY <2>4 DEF LiveNodes
    <3>2. s.nodes[j].db \in DOMAIN dbNodes /\ dbNodes[s.nodes[j].db].key = s.nodes[j].key
      BY <3>1, <1>2 DEF AllSaved
    <3>3. s.nodes[j].db # n.db
      BY <3>1, <1>2, <2>1, OneNodeForARow
    <3> QED
      BY <3>1, <3>2, <3>3, <2>5
  <2>7. RowsNumbered'
    BY <1>1, <1>2, <2>5 DEF RowsNumbered
  <2>8. NodesKept
    BY <1>1, <2>4, <2>6, <2>7, StateReplaced
  <2> QED
    BY <1>3, <2>8
<1> QED
  BY <1>4, <1>5

\* The handlers of trainruns change the trains and the ids of the trainruns.
LEMMA TrainsStayFinite ==
  ASSUME NEW i, Working(i)
  PROVE  /\ UNCHANGED <<trains, pairs>> => RunsKept
         /\ \A id, path : trains' = [trains EXCEPT ![id] = path] /\ UNCHANGED pairs => RunsKept
         /\ \A id, path : trains' = With(trains, id, path) /\ UNCHANGED pairs => RunsKept
         /\ \A f, r : UNCHANGED trains /\ StoreRoundTrip(f, r) => RunsKept
<1>1. Calm /\ IsFiniteSet(DOMAIN trains) /\ IsFiniteSet(pairs)
  BY DEF Working, Calm, AllFinite
<1>2. ASSUME NEW id, NEW path, trains' = [trains EXCEPT ![id] = path], UNCHANGED pairs PROVE RunsKept
  <2>1. DOMAIN trains' = DOMAIN trains
    BY <1>2
  <2> QED
    BY <1>1, <1>2, <2>1 DEF RunsKept
<1>3. ASSUME NEW id, NEW path, trains' = With(trains, id, path), UNCHANGED pairs PROVE RunsKept
  BY <1>1, <1>3, FiniteChanges DEF RunsKept
<1>4. ASSUME NEW f, NEW r, UNCHANGED trains, StoreRoundTrip(f, r) PROVE RunsKept
  BY <1>1, <1>4, RowsReplaced DEF RunsKept
<1> QED
  BY <1>1, <1>2, <1>3, <1>4 DEF RunsKept

LEMMA CreateKeeps ==
  ASSUME NEW i, Working(i), HandleCreateTimetableItem(i, tasks[i])
  PROVE  NodesKept /\ RunsKept /\ TasksKept
<1> DEFINE k == tasks[i]
           both == Run(k).dir = "round_trip"
           new == <<nextId, IF both THEN nextId + 1 ELSE NoId>>
           forward == With(trains, nextId, GeneratePath(k, "FORWARD"))
<1>1. /\ trains' = IF both THEN With(forward, nextId + 1, GeneratePath(k, "BACKWARD")) ELSE forward
      /\ nextId' \in {nextId + 1, nextId + 2} /\ SetIds(k, new)
      /\ tasks' = [tasks EXCEPT ![i] = [k EXCEPT !.pc = "store", !.main = FALSE, !.ids = new]]
      /\ UNCHANGED <<pairs, dbNodes>>
  BY DEF HandleCreateTimetableItem
<1>2. Calm /\ IsTask(k, cur) /\ IsFiniteSet(DOMAIN trains) /\ IsFiniteSet(pairs)
  BY DEF Working, Calm, AllFinite
<1>3. IsFiniteSet(DOMAIN forward)
  BY <1>2, FiniteChanges
<1> HIDE DEF both, forward, new
<1>4. RunsKept
  <2>1. CASE both
    BY <2>1, <1>1, <1>2, <1>3, FiniteChanges DEF RunsKept
  <2>2. CASE ~both
    BY <2>2, <1>1, <1>2, <1>3 DEF RunsKept
  <2> QED
    BY <2>1, <2>2
<1> DEFINE x == [k EXCEPT !.pc = "store", !.main = FALSE, !.ids = new]
<1>5. TasksKept
  <2>1. IsTask(x, cur)
    <3> HIDE DEF k
    <3> QED
      BY <1>2 DEF IsTask
  <2>2. tasks' = [tasks EXCEPT ![i] = x]
    BY <1>1
  <2> HIDE DEF x
  <2> QED
    BY <2>1, <2>2, TaskContinues
<1>6. NodesKept
  BY <1>1, <1>2, IdsReplaced DEF SetIds, IsTask
<1> QED
  BY <1>4, <1>5, <1>6

LEMMA StoreCreatedKeeps ==
  ASSUME NEW i, Working(i), StoreCreated(i, tasks[i])
  PROVE  NodesKept /\ RunsKept /\ TasksKept
  BY NodesUntouched, TrainsStayFinite, TaskEnds DEF StoreCreated, End

LEMMA FetchForwardKeeps ==
  ASSUME NEW i, Working(i), FetchForward(i, tasks[i])
  PROVE  NodesKept /\ RunsKept /\ TasksKept
<1> DEFINE k == tasks[i]
           x == [k EXCEPT !.pc = "put", !.path = GeneratePath(k, "FORWARD")]
<1>1. tasks' = [tasks EXCEPT ![i] = x] /\ UNCHANGED <<trains, pairs, dbNodes, nextId, states>>
  BY DEF FetchForward, db
<1>2. IsTask(k, cur)
  BY DEF Working
<1> HIDE DEF k
<1>3. IsTask(x, cur)
  BY <1>2 DEF IsTask
<1> HIDE DEF x
<1>4. TasksKept
  BY <1>1, <1>3, TaskContinues
<1> QED
  BY <1>1, <1>4, NodesUntouched, TrainsStayFinite

LEMMA StoreForwardKeeps ==
  ASSUME NEW i, Working(i), StoreForward(i, tasks[i])
  PROVE  NodesKept /\ RunsKept /\ TasksKept
<1> DEFINE k == tasks[i]
           x == [k EXCEPT !.path = GeneratePath(k, "BACKWARD"),
                          !.pc = IF Run(k).dir = "one_way" THEN "one_way"
                                 ELSE IF ~KnownNodes(k) THEN "error"
                                 ELSE IF k.ids[2] # NoId THEN "getReturn" ELSE "postReturn"]
<1>1. trains' = [trains EXCEPT ![k.ids[1]] = k.path] /\ UNCHANGED <<pairs, dbNodes, nextId>>
  BY DEF StoreForward
<1>2. IsTask(k, cur)
  BY DEF Working
<1>3. \/ SetIds(k, <<k.ids[1], NoId>>) /\ NextRun(i, k)
      \/ tasks' = [tasks EXCEPT ![i] = x] /\ UNCHANGED states
  BY DEF StoreForward
<1>4. RunsKept
  BY <1>1, TrainsStayFinite
<1>5. CASE SetIds(k, <<k.ids[1], NoId>>) /\ NextRun(i, k)
  <2>1. NodesKept
    BY <1>1, <1>2, <1>5, IdsReplaced DEF SetIds, IsTask
  <2> QED
    BY <1>4, <1>5, <2>1, NextRunKeeps
<1>6. CASE tasks' = [tasks EXCEPT ![i] = x] /\ UNCHANGED states
  <2> HIDE DEF k
  <2>1. IsTask(x, cur)
    BY <1>2 DEF IsTask
  <2> HIDE DEF x
  <2> QED
    BY <1>1, <1>4, <1>6, <2>1, TaskContinues, NodesUntouched
<1> QED
  BY <1>3, <1>5, <1>6

\* The step goes on at another place.
LEMMA Continued ==
  ASSUME NEW i, Working(i), NEW pc, ContinueAt(i, tasks[i], pc)
  PROVE  TasksKept
<1> DEFINE k == tasks[i]
           x == [k EXCEPT !.pc = pc]
<1>1. tasks' = [tasks EXCEPT ![i] = x] /\ IsTask(k, cur)
  BY DEF ContinueAt, Working
<1> HIDE DEF k
<1>2. IsTask(x, cur)
  BY <1>1 DEF IsTask
<1> HIDE DEF x
<1> QED
  BY <1>1, <1>2, TaskContinues

LEMMA StoreOneWayKeeps ==
  ASSUME NEW i, Working(i), StoreOneWay(i, tasks[i])
  PROVE  NodesKept /\ RunsKept /\ TasksKept
  BY NodesUntouched, TrainsStayFinite, Continued DEF StoreOneWay

LEMMA DeleteReturnKeeps ==
  ASSUME NEW i, Working(i), DeleteReturn(i, tasks[i])
  PROVE  NodesKept /\ RunsKept /\ TasksKept
<1> DEFINE k == tasks[i]
<1>1. /\ DeleteTrain(k.ids[2]) /\ SetIds(k, <<k.ids[1], NoId>>) /\ NextRun(i, k)
      /\ UNCHANGED <<dbNodes, nextId>>
  BY DEF DeleteReturn
<1>2. IsTask(k, cur) /\ Calm
  BY DEF Working
<1>3. NodesKept
  BY <1>1, <1>2, IdsReplaced DEF SetIds, IsTask
<1> QED
  BY <1>1, <1>2, <1>3, TrainDeleted, NextRunKeeps

LEMMA FetchReturnKeeps ==
  ASSUME NEW i, Working(i), FetchReturn(i, tasks[i])
  PROVE  NodesKept /\ RunsKept /\ TasksKept
  BY NodesUntouched, TrainsStayFinite, Continued DEF FetchReturn, db

LEMMA StoreReturnKeeps ==
  ASSUME NEW i, Working(i), StoreReturn(i, tasks[i])
  PROVE  NodesKept /\ RunsKept /\ TasksKept
  BY NodesUntouched, TrainsStayFinite, Continued DEF StoreReturn

LEMMA CreateReturnKeeps ==
  ASSUME NEW i, Working(i), CreateReturn(i, tasks[i])
  PROVE  NodesKept /\ RunsKept /\ TasksKept
<1> DEFINE k == tasks[i]
           x == [k EXCEPT !.pc = "pair", !.ids = <<k.ids[1], nextId>>]
<1>1. /\ trains' = With(trains, nextId, k.path) /\ nextId' = nextId + 1
      /\ tasks' = [tasks EXCEPT ![i] = x] /\ UNCHANGED <<pairs, dbNodes, states>>
  BY DEF CreateReturn
<1>2. IsTask(k, cur)
  BY DEF Working
<1> HIDE DEF k
<1>3. IsTask(x, cur)
  BY <1>2 DEF IsTask
<1> HIDE DEF x
<1>4. TasksKept
  BY <1>1, <1>3, TaskContinues
<1> QED
  BY <1>1, <1>4, NodesUntouched, TrainsStayFinite

LEMMA StorePairKeeps ==
  ASSUME NEW i, Working(i), StorePair(i, tasks[i])
  PROVE  NodesKept /\ RunsKept /\ TasksKept
<1> DEFINE k == tasks[i]
<1>1. /\ StoreRoundTrip(k.ids[1], k.ids[2]) /\ SetIds(k, k.ids) /\ NextRun(i, k)
      /\ UNCHANGED <<trains, dbNodes, nextId>>
  BY DEF StorePair
<1>2. IsTask(k, cur)
  BY DEF Working
<1>3. NodesKept
  BY <1>1, <1>2, IdsReplaced DEF SetIds, IsTask
<1> QED
  BY <1>1, <1>3, TrainsStayFinite, NextRunKeeps

LEMMA DeleteKeeps ==
  ASSUME NEW i, Working(i), HandleDeleteTimetableItem(i, tasks[i])
  PROVE  NodesKept /\ RunsKept /\ TasksKept
<1> DEFINE k == tasks[i]
           left == SelectSeq(k.ids, LAMBDA id : id # NoId)
           x == [k EXCEPT !.ids = IF Len(left) = 2 THEN <<NoId, left[2]>> ELSE <<NoId, NoId>>]
<1>1. IsTask(k, cur) /\ Calm
  BY DEF Working
<1>2. CASE left = <<>>
  <2>1. /\ SetTrains(k, Without(State(k).trains, {Head(k.todo)})) /\ tasks' = RemoveAt(tasks, i)
        /\ UNCHANGED <<trains, pairs, dbNodes, nextId>>
    BY <1>2 DEF HandleDeleteTimetableItem, End, db
  <2>2. NodesKept
    BY <1>1, <2>1, IdsReplaced DEF IsTask
  <2> QED
    BY <2>1, <2>2, TrainsStayFinite, TaskEnds
<1>3. CASE left # <<>>
  <2>1. DeleteTrain(left[1]) /\ tasks' = [tasks EXCEPT ![i] = x] /\ UNCHANGED <<dbNodes, nextId, states>>
    BY <1>3 DEF HandleDeleteTimetableItem
  <2> HIDE DEF k, left
  <2>2. IsTask(x, cur)
    BY <1>1 DEF IsTask
  <2> HIDE DEF x
  <2>3. TasksKept
    BY <2>1, <2>2, TaskContinues
  <2> QED
    BY <1>1, <2>1, <2>3, NodesUntouched, TrainDeleted
<1> QED
  BY <1>2, <1>3

LEMMA StepKeeps ==
  ASSUME Calm, NEW i \in DOMAIN tasks, Step(i), ~raced'
  PROVE  Calm'
<1>1. Working(i)
  BY IsWorking
<1>2. refreshes = <<>> /\ UNCHANGED <<cur, nge, queue, refreshes>>
  BY DEF Step, rest
<1>3. NodesKept /\ RunsKept /\ TasksKept
  <2>1. CASE TaskFails(i)
    BY <1>1, <2>1, NodesUntouched, TrainsStayFinite, TaskEnds DEF TaskFails, End, db
  <2>2. CASE Answered(i)
    BY <1>1, <2>2, CreateKeeps, StoreCreatedKeeps, FetchForwardKeeps, StoreForwardKeeps, StoreOneWayKeeps,
       DeleteReturnKeeps, FetchReturnKeeps, StoreReturnKeeps, CreateReturnKeeps, StorePairKeeps, DeleteKeeps,
       CreateNodeKeeps, UpdateNodeKeeps, DeleteNodeKeeps DEF Answered
  <2> QED
    BY <2>1, <2>2 DEF Step
<1>4. cur # 0 /\ cur \in DOMAIN states
  BY <1>1 DEF Working, Calm, StatesSound, IsArray
<1>5. (RowsNumbered /\ StatesSound /\ CurrentSaved /\ TasksCurrent /\ AllFinite)'
  BY <1>2, <1>3, <1>4 DEF NodesKept, RunsKept, TasksKept, CurrentSaved, TasksCurrent, AllFinite, Calm
<1>6. (RefreshesSound /\ EventsFinite)'
  BY <1>2, EmptyArray DEF RefreshesSound, EventsFinite, Calm
<1> QED
  BY <1>2, <1>4, <1>5, <1>6 DEF Calm

-----------------------------------------------------------------------------
(* A refresh.                                                              *)

LEMMA LoadingParts ==
  ASSUME NEW pc, NEW trs, NEW rows, NEW s
  PROVE  /\ Loading(pc, trs, rows, s).pc = pc /\ Loading(pc, trs, rows, s).trains = trs
         /\ Loading(pc, trs, rows, s).pairs = rows /\ Loading(pc, trs, rows, s).s = s
  BY DEF Loading

\* Reading changes nothing but the refresh.
LEMMA ReadKeeps ==
  ASSUME Calm, NEW i \in DOMAIN refreshes, UNCHANGED <<db, states, cur, nge, queue, tasks>>,
         \/ refreshes' = RemoveAt(refreshes, i)
         \/ \E r : RefreshSound(r, dbNodes) /\ refreshes' = [refreshes EXCEPT ![i] = r]
  PROVE  Calm'
<1>1. IsArray(refreshes) /\ \A j \in DOMAIN refreshes : RefreshSound(refreshes[j], dbNodes)
  BY DEF Calm, RefreshesSound
<1>2. UNCHANGED <<trains, pairs, dbNodes, nextId>>
  BY DEF db
<1>3. RefreshesSound'
  <2>1. CASE refreshes' = RemoveAt(refreshes, i)
    BY <1>1, <1>2, <2>1, ArrayShorter DEF RefreshesSound
  <2>2. CASE \E r : RefreshSound(r, dbNodes) /\ refreshes' = [refreshes EXCEPT ![i] = r]
    <3>1. PICK r : RefreshSound(r, dbNodes) /\ refreshes' = [refreshes EXCEPT ![i] = r]
      BY <2>2
    <3>2. /\ IsArray(refreshes') /\ DOMAIN refreshes' = DOMAIN refreshes /\ refreshes'[i] = r
          /\ \A j \in DOMAIN refreshes : j # i => refreshes'[j] = refreshes[j]
      BY <1>1, <3>1, ArrayChanged
    <3> QED
      BY <1>1, <1>2, <3>1, <3>2 DEF RefreshesSound
  <2> QED
    BY <2>1, <2>2
<1>4. (RowsNumbered /\ StatesSound /\ CurrentSaved /\ TasksCurrent /\ EventsFinite /\ AllFinite)'
  BY <1>2 DEF Calm, RowsNumbered, StatesSound, CurrentSaved, TasksCurrent, EventsFinite, AllFinite
<1>5. Busy' = Busy /\ cur' = cur
  BY DEF Busy
<1> QED
  BY <1>3, <1>4, <1>5 DEF Calm

LEMMA ReadTrainsKeeps ==
  ASSUME Calm, NEW i \in DOMAIN refreshes, ReadTrains(i)
  PROVE  Calm'
<1> DEFINE r == Loading("pairs", trains, {}, NewState)
<1>1. RefreshSound(r, dbNodes)
  BY LoadingParts, FS_EmptySet DEF RefreshSound, Calm, AllFinite
<1>2. refreshes' = [refreshes EXCEPT ![i] = r] /\ UNCHANGED <<db, states, cur, nge, queue, tasks>>
  BY DEF ReadTrains
<1> HIDE DEF r
<1> QED
  BY <1>1, <1>2, ReadKeeps

LEMMA ReadPairsKeeps ==
  ASSUME Calm, NEW i \in DOMAIN refreshes, ReadPairs(i)
  PROVE  Calm'
<1> DEFINE r == Loading("nodes", refreshes[i].trains, pairs, NewState)
<1>1. RefreshSound(r, dbNodes)
  BY LoadingParts DEF RefreshSound, Calm, AllFinite, RefreshesSound
<1>2. /\ refreshes' = RemoveAt(refreshes, i) \/ refreshes' = [refreshes EXCEPT ![i] = r]
      /\ UNCHANGED <<db, states, cur, nge, queue, tasks>>
  BY DEF ReadPairs
<1> HIDE DEF r
<1> QED
  BY <1>1, <1>2, ReadKeeps

LEMMA ReadNodesKeeps ==
  ASSUME Calm, NEW i \in DOMAIN refreshes, ReadNodes(i)
  PROVE  Calm'
<1> DEFINE s == LoadAndIndexNge(refreshes[i].trains, dbNodes)
<1>1. PICK main \in MainKeys(s) :
        refreshes' = [refreshes EXCEPT ![i] =
                        Loading("post", refreshes[i].trains, refreshes[i].pairs, DedupNodes(s, main))]
  BY DEF ReadNodes
<1>2. IsFiniteSet(DOMAIN dbNodes)
  <2>1. nextId - 1 \in Int /\ DOMAIN dbNodes \subseteq 1..nextId - 1
    BY DEF Calm, RowsNumbered
  <2>2. IsFiniteSet(1..nextId - 1)
    BY <2>1, FS_Interval
  <2> QED
    BY <2>1, <2>2, FS_Subset
<1>3. Loaded(s) /\ SavedIn(s, dbNodes)
  BY <1>2, LoadedIs
<1> HIDE DEF s
<1> DEFINE t == DedupNodes(s, main)
           r == Loading("post", refreshes[i].trains, refreshes[i].pairs, t)
<1>4. Sound(t) /\ SavedIn(t, dbNodes)
  BY <1>3, Deduped
<1> HIDE DEF t
<1>5. RefreshSound(r, dbNodes)
  BY <1>4, LoadingParts DEF RefreshSound, Calm, RefreshesSound
<1>6. refreshes' = [refreshes EXCEPT ![i] = r] /\ UNCHANGED <<db, states, cur, nge, queue, tasks>>
  BY <1>1 DEF ReadNodes, t
<1> HIDE DEF r
<1> QED
  BY <1>5, <1>6, ReadKeeps

\* The new state: no handler is under way, or the refresh races with it.
LEMMA StoreNodesKeeps ==
  ASSUME Calm, NEW i \in DOMAIN refreshes, StoreTrainPathNodes(i), ~raced'
  PROVE  Calm'
<1> DEFINE s == refreshes[i].s
           trs == refreshes[i].trains
           rows == refreshes[i].pairs
           groups == GroupCompatibleRoundTrips(trs, rows)
           saved == UpdateNodeData(s, IdsGiven(s))
           new == WithTrains(saved, groups)
           taken == \E j \in Unsaved(s) : s.nodes[j].key \in DbKeys
<1>1. refreshes[i].pc = "post" /\ refreshes' = RemoveAt(refreshes, i) /\ UNCHANGED <<trains, pairs, queue, tasks>>
  BY DEF StoreTrainPathNodes
<1>2. CASE taken
  <2>1. UNCHANGED <<dbNodes, nextId, states, cur, nge>>
    BY <1>2 DEF StoreTrainPathNodes
  <2> QED
    BY <1>1, <2>1, ReadKeeps DEF db
<1>3. CASE ~taken
  <2>1. /\ dbNodes' = RowsAdded(s, IdsGiven(s)) /\ nextId' = nextId + Cardinality(Unsaved(s))
        /\ states' = Append(states, new) /\ cur' = Len(states) + 1 /\ nge' = GetNgeDto(saved, trs, groups)
        /\ ~Busy
    BY <1>3 DEF StoreTrainPathNodes
  <2>2. /\ IsArray(refreshes) /\ \A j \in DOMAIN refreshes : RefreshSound(refreshes[j], dbNodes)
        /\ Sound(s) /\ SavedIn(s, dbNodes) /\ IsFiniteSet(DOMAIN trs) /\ IsFiniteSet(rows)
    BY <1>1 DEF Calm, RefreshesSound, RefreshSound
  <2>3. /\ Sound(saved) /\ AllSaved(saved, dbNodes') /\ RowsNumbered'
        /\ \A id \in DOMAIN dbNodes : id \in DOMAIN dbNodes' /\ dbNodes'[id] = dbNodes[id]
    <3> HIDE DEF s
    <3>1. nextId \in Nat \ {0} /\ DOMAIN dbNodes \subseteq 1..nextId - 1
      BY DEF Calm, RowsNumbered
    <3>2. /\ Sound(saved) /\ AllSaved(saved, RowsAdded(s, IdsGiven(s)))
          /\ Cardinality(Unsaved(s)) \in Nat
          /\ DOMAIN RowsAdded(s, IdsGiven(s)) \subseteq 1..nextId + Cardinality(Unsaved(s)) - 1
          /\ \A id \in DOMAIN dbNodes : /\ id \in DOMAIN RowsAdded(s, IdsGiven(s))
                                        /\ RowsAdded(s, IdsGiven(s))[id] = dbNodes[id]
      BY <2>2, <3>1, NodesSaved
    <3> DEFINE added == RowsAdded(s, IdsGiven(s))
               m == nextId + Cardinality(Unsaved(s))
    <3>3. dbNodes' = added /\ nextId' = m
      BY <2>1
    <3> HIDE DEF saved, added, m
    <3>4. m \in Nat \ {0} /\ DOMAIN added \subseteq 1..m - 1
      BY <3>1, <3>2 DEF added, m
    <3>5. RowsNumbered'
      BY <3>3, <3>4 DEF RowsNumbered
    <3>6. Sound(saved) /\ AllSaved(saved, dbNodes')
      BY <3>2, <3>3 DEF added
    <3>7. \A id \in DOMAIN dbNodes : id \in DOMAIN dbNodes' /\ dbNodes'[id] = dbNodes[id]
      BY <3>2, <3>3 DEF added
    <3> QED
      BY <3>5, <3>6, <3>7
  <2>4. IsFiniteSet(DOMAIN groups)
    BY <2>2, GroupsFinite
  <2> HIDE DEF s, trs, rows, groups, saved
  <2>5. Sound(new) /\ new.nodes = saved.nodes
    BY <2>3, TrainsSet
  <2>6. AllSaved(new, dbNodes')
    BY <2>3, <2>5 DEF AllSaved, LiveNodes
  <2> HIDE DEF new
  <2>7. IsArray(states) /\ \A j \in DOMAIN states : Sound(states[j])
    BY DEF Calm, StatesSound
  <2>8. /\ IsArray(states') /\ DOMAIN states' = DOMAIN states \cup {cur'} /\ cur' \notin DOMAIN states
        /\ states'[cur'] = new /\ \A j \in DOMAIN states : states'[j] = states[j]
        /\ cur' # 0
    BY <2>1, <2>7, ArrayLonger
  <2>9. StatesSound' /\ CurrentSaved'
    BY <2>5, <2>6, <2>7, <2>8 DEF StatesSound, CurrentSaved
  <2>10. RefreshesSound'
    <3>1. ASSUME NEW r, RefreshSound(r, dbNodes) PROVE RefreshSound(r, dbNodes')
      BY <2>3, <3>1 DEF RefreshSound, SavedIn
    <3>2. IsArray(refreshes') /\ \A j \in DOMAIN refreshes' : \E l \in DOMAIN refreshes : refreshes'[j] = refreshes[l]
      BY <1>1, <2>2, ArrayShorter
    <3> QED
      BY <2>2, <3>1, <3>2 DEF RefreshesSound
  <2>11. AllFinite'
    <3>1. "runs" \in DOMAIN nge' /\ DOMAIN nge'.runs = DOMAIN groups
      BY <2>1 DEF GetNgeDto
    <3> QED
      BY <1>1, <2>4, <3>1 DEF Calm, AllFinite
  <2>12. TasksCurrent' /\ EventsFinite'
    BY <1>1, <2>1, EmptyArray DEF Calm, EventsFinite, TasksCurrent, Busy
  <2> QED
    BY <2>3, <2>8, <2>9, <2>10, <2>11, <2>12 DEF Calm
<1> QED
  BY <1>2, <1>3

\* Once a step has raced with another, it is not forgotten.
LEMMA RacedStays == [MacroNext]_macroVars /\ raced => raced'
  BY DEF MacroNext, macroVars, Operation, NgeCreateNode, NgeRenameNode, NgeDeleteNode, NgeCreateRun,
         NgeChangeDirection, NgeDeleteRun, NgeUpdateLabel, Emit, Outside, HandleOperation, Step, Refresh,
         ReadTrains, ReadPairs, ReadNodes, StoreTrainPathNodes

LEMMA MacroStep == MacroInv /\ [MacroNext]_macroVars => MacroInv'
<1> SUFFICES ASSUME MacroInv, [MacroNext]_macroVars, ~raced' PROVE Calm'
  BY DEF MacroInv
<1>1. Calm
  BY RacedStays DEF MacroInv
<1>2. CASE Operation
  BY <1>1, <1>2, OperationKeeps
<1>3. CASE Outside
  BY <1>1, <1>3, OutsideKeeps
<1>4. CASE HandleOperation
  BY <1>1, <1>4, HandleKeeps
<1>5. CASE \E i \in DOMAIN tasks : Step(i)
  BY <1>1, <1>5, StepKeeps
<1>6. CASE \E i \in DOMAIN refreshes : Refresh(i)
  BY <1>1, <1>6, ReadTrainsKeeps, ReadPairsKeeps, ReadNodesKeeps, StoreNodesKeeps DEF Refresh
<1>7. CASE UNCHANGED macroVars
  BY <1>1, <1>7 DEF macroVars, Calm, RowsNumbered, StatesSound, CurrentSaved, TasksCurrent, RefreshesSound,
                    EventsFinite, AllFinite, Busy
<1> QED
  BY <1>2, <1>3, <1>4, <1>5, <1>6, <1>7 DEF MacroNext

\* Through any operations, refreshes and failures that do not race, the indices of
\* every MacroEditorState agree with its nodes.
THEOREM IndicesAgree == MacroSpec => []NodesIndexed
<1>1. MacroInv => NodesIndexed
  BY DEF MacroInv, Calm, StatesSound, Sound, NodesIndexed
<1> QED
  BY <1>1, MacroStarts, MacroStep, PTL DEF MacroSpec
=============================================================================
