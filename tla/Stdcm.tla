------------------------------- MODULE Stdcm --------------------------------
(***************************************************************************)
(* The short-term page of the front end: the request of a last-minute path *)
(* (useStdcm), the simulations it leaves in the store (stdcmConf), and the *)
(* buttons of the page (StdcmView, StdcmConfig), which decide what the     *)
(* user can do while requests are in flight.                               *)
(*                                                                         *)
(* A launch is one run of launchStdcmRequest. It goes on when the network  *)
(* answers; between two answers its code runs without interruption. Every  *)
(* launch of a mounted page shares one status, one isCancelledRef and one  *)
(* requestPromise. editoast may give any answer at any time. Loading the   *)
(* environment unmounts the page: the launches in flight go on, without a  *)
(* status to set, and still add their simulations to the store.            *)
(***************************************************************************)
EXTENDS Naturals, Sequences, SequencesExt

CONSTANTS
  Input,        \* what the user can type into the form
  MaxLaunches,  \* bound: requests launched
  MaxLoads      \* bound: environments loaded, scenarios selected

ASSUME StdcmAssumption == MaxLaunches \in Nat /\ MaxLoads \in Nat

None == 0       \* undefined: simulations are numbered from 1

VARIABLES
  form,         \* [in, adj]: the inputs, and the directions they were adjusted by
  status,       \* currentStdcmRequestStatus
  cancelled,    \* isCancelledRef of every mount so far
  promise,      \* requestPromise: the launch whose requests it holds
  launch,       \* the launches: [pc, mount, inputs, alt, stopped]
  sims,         \* state.simulations: [launch, alt, inputs, found]
  selected, retained,   \* indices of simulations
  debug, showBtn,       \* isDebugMode, showBtnToLaunchSimulation
  mounted,      \* StdcmViewContent is there
  loading,      \* loads in flight: "environment", "scenario"
  loads

vars == <<form, status, cancelled, promise, launch, sims, selected, retained,
          debug, showBtn, mounted, loading, loads>>

hook  == <<status, cancelled, promise>>
store == <<form, sims, selected, retained>>
page  == <<debug, mounted, loading, loads>>

Mount == Len(cancelled)
Directions == {"downstream", "upstream"}
Pending == {"pending", "pending_additional"}

Init ==
  /\ form \in [in : Input, adj : {<<>>}]
  /\ status = "idle" /\ cancelled = <<FALSE>> /\ promise = None
  /\ launch = <<>> /\ sims = <<>> /\ selected = None /\ retained = None
  /\ debug \in BOOLEAN /\ showBtn = TRUE /\ mounted = TRUE /\ loading = {} /\ loads = 0

-----------------------------------------------------------------------------
(* The store.                                                              *)

\* Fault: the index is the length of the list.
AddStdcmSimulations_PastEnd(new) ==
  /\ sims' = sims \o new
  /\ selected' = Len(sims') + 1

\* The first simulation added is selected.
AddStdcmSimulations(new) ==
  /\ sims' = sims \o new
  /\ selected' = Len(sims') - Len(new) + 1

ResetStdcmSimulations == sims' = <<>> /\ selected' = None /\ retained' = None

\* adjustInputByDirection: the times of the end points move, once more every time.
AdjustInputByDirection(inputs, d) == [inputs EXCEPT !.adj = Append(@, d)]

\* createSimulation: what a launch records of an answer.
CreateSimulation(l, alt, answer) ==
  [launch |-> l, alt |-> alt, found |-> answer = "success",
   inputs |-> IF alt = "requested" THEN launch[l].inputs
              ELSE AdjustInputByDirection(launch[l].inputs, alt)]

-----------------------------------------------------------------------------
(* The page.                                                               *)

\* The effects of StdcmView on its launch button, in their order.
Effects(show) ==
  LET edited == form' # form \/ selected' # selected
      s1 == IF edited THEN selected' = None \/ form' # sims'[selected'].inputs ELSE show
      s2 == IF status' \in Pending /\ status' # status THEN FALSE ELSE s1
  IN  showBtn' = IF status' = "canceled" /\ status # "canceled" THEN TRUE ELSE s2

Disabled == status = "pending" \/ retained # None

EditForm ==
  /\ mounted /\ ~Disabled
  /\ \E i \in Input : form' = [in |-> i, adj |-> <<>>] /\ form' # form
  /\ UNCHANGED <<hook, launch, sims, selected, retained, page>> /\ Effects(showBtn)

\* handleSelectSimulation: the form takes the inputs of the simulation.
HandleSelectSimulation(i) ==
  /\ mounted /\ retained = None
  /\ selected' = i /\ form' = sims[i].inputs
  /\ UNCHANGED <<hook, launch, sims, retained, page>> /\ Effects(FALSE)

RetainSimulation ==
  /\ mounted /\ selected # None /\ sims[selected].found /\ retained' = selected
  /\ UNCHANGED <<form, hook, launch, sims, selected, showBtn, page>>

\* handleStartNewQuery; the new window is another page.
HandleStartNewQuery ==
  /\ mounted /\ retained # None /\ status' = "idle"
  /\ UNCHANGED <<cancelled, promise, launch, store, page>> /\ Effects(showBtn)

\* Leaving the debug mode loads the environment again, which unmounts the page.
ToggleDebugMode ==
  /\ loads < MaxLoads /\ "environment" \notin loading /\ debug' = ~debug
  /\ IF debug
     THEN /\ mounted' = FALSE /\ loading' = loading \cup {"environment"}
          /\ loads' = loads + 1 /\ status' = "idle"
     ELSE UNCHANGED <<mounted, loading, loads, status>>
  /\ UNCHANGED <<cancelled, promise, launch, store, showBtn>>

\* selectScenario, in debug mode: the page stays.
SelectScenario ==
  /\ mounted /\ debug /\ ~Disabled /\ loads < MaxLoads /\ "scenario" \notin loading
  /\ loading' = loading \cup {"scenario"} /\ loads' = loads + 1
  /\ UNCHANGED <<hook, launch, store, debug, showBtn, mounted>>

ScenarioSelected ==
  /\ "scenario" \in loading /\ loading' = loading \ {"scenario"}
  /\ ResetStdcmSimulations
  /\ UNCHANGED <<form, hook, launch, debug, mounted, loads>>
  /\ IF mounted THEN Effects(showBtn) ELSE UNCHANGED showBtn

\* loadStdcmEnvironment is answered: a new page, with a hook of its own.
EnvironmentLoaded ==
  /\ "environment" \in loading /\ loading' = loading \ {"environment"}
  /\ ResetStdcmSimulations /\ mounted' = TRUE
  /\ status' = "idle" /\ cancelled' = Append(cancelled, FALSE) /\ promise' = None
  /\ showBtn' = TRUE
  /\ UNCHANGED <<form, launch, debug, loads>>

\* No configuration: the page is not shown.
EnvironmentMissing ==
  /\ "environment" \in loading /\ loading' = loading \ {"environment"}
  /\ UNCHANGED <<hook, launch, store, debug, showBtn, mounted, loads>>

-----------------------------------------------------------------------------
(* Launching and cancelling.                                               *)

CanLaunch == mounted /\ ~Disabled /\ (debug \/ showBtn)

LaunchStdcmRequest ==
  /\ CanLaunch /\ Len(launch) < MaxLaunches
  /\ cancelled' = [cancelled EXCEPT ![Mount] = FALSE]
  /\ status' = "pending" /\ promise' = Len(launch) + 1
  /\ launch' = Append(launch, [pc |-> "post", mount |-> Mount, inputs |-> form, alt |-> <<>>,
                               stopped |-> FALSE])
  /\ UNCHANGED <<store, page>> /\ Effects(showBtn)

\* The form is not valid: the status of an earlier request is gone all the same.
LaunchInvalid ==
  /\ CanLaunch
  /\ cancelled' = [cancelled EXCEPT ![Mount] = FALSE] /\ status' = "idle"
  /\ UNCHANGED <<promise, launch, store, page>> /\ Effects(showBtn)

\* What a launch does to the status: nothing once its page is gone.
SetStatus(l, s) ==
  status' = IF launch[l].mount = Mount /\ mounted THEN s ELSE status

Rendered == IF mounted THEN Effects(showBtn) ELSE UNCHANGED showBtn

IsCancelled(l) == cancelled[launch[l].mount]

\* The simulations of a launch, the requested one first.
Requested(l, answer) == <<CreateSimulation(l, "requested", answer)>>
Alternatives(l) ==
  <<CreateSimulation(l, "downstream", launch[l].alt[1]),
    CreateSimulation(l, "upstream", launch[l].alt[2])>>

\* Fault: the abort is left to the flag that the next launch resets.
CancelStdcmRequest_FlagOnly ==
  /\ mounted /\ status \in Pending
  /\ cancelled' = [cancelled EXCEPT ![Mount] = TRUE] /\ promise' = None
  /\ status' = "canceled"
  /\ launch' = IF promise = None THEN launch ELSE [launch EXCEPT ![promise].stopped = TRUE]
  /\ UNCHANGED <<store, page>> /\ Effects(showBtn)

\* The requests in requestPromise are aborted, if they are not answered yet.
\* Additional requests that are aborted leave the answer they follow.
CancelStdcmRequest ==
  /\ mounted /\ status \in Pending
  /\ cancelled' = [cancelled EXCEPT ![Mount] = TRUE] /\ promise' = None
  /\ status' = "canceled"
  /\ IF promise # None /\ launch[promise].pc \in {"post", "posts"}
     THEN /\ launch' = [launch EXCEPT ![promise].pc = "done", ![promise].stopped = TRUE]
          /\ IF launch[promise].pc = "posts"
             THEN AddStdcmSimulations(Requested(promise, "path_not_found"))
             ELSE UNCHANGED <<sims, selected>>
     ELSE UNCHANGED <<launch, sims, selected>>
  /\ UNCHANGED <<form, retained, page>> /\ Effects(showBtn)

-----------------------------------------------------------------------------
(* Answers.                                                                *)

Goto(l, pc) == launch' = [launch EXCEPT ![l].pc = pc]

\* handleSuccess: the status is set first, the path properties are fetched next.
HandleSuccess(l) ==
  /\ launch[l].pc = "post" /\ Goto(l, "fetch")
  /\ SetStatus(l, "success")
  /\ UNCHANGED <<cancelled, promise, store, page>> /\ Rendered

SuccessFetched(l) ==
  /\ launch[l].pc = "fetch" /\ Goto(l, "done")
  /\ IF IsCancelled(l) THEN UNCHANGED <<sims, selected>>
     ELSE AddStdcmSimulations(Requested(l, "success"))
  /\ UNCHANGED <<form, retained, hook, page>> /\ Rendered

\* handlePathNotFound: two more requests, which replace those in requestPromise.
HandlePathNotFound(l) ==
  /\ launch[l].pc = "post" /\ launch' = [launch EXCEPT ![l].pc = "posts", ![l].alt = <<"none", "none">>]
  /\ SetStatus(l, "pending_additional")
  /\ promise' = IF launch[l].mount = Mount THEN l ELSE promise
  /\ UNCHANGED <<cancelled, store, page>> /\ Rendered

\* Fault: an answer with an unexpected status is passed over.
HandleRejection_Silent(l) == UNCHANGED status

HandleRejection(l) == SetStatus(l, "rejected")

\* Failed or unexpected: of the main request, or of the path properties.
Rejected(l) ==
  /\ launch[l].pc \in {"post", "fetch"} /\ Goto(l, "done")
  /\ HandleRejection(l)
  /\ UNCHANGED <<cancelled, promise, store, page>> /\ Rendered

\* An additional request is answered: d = 1 is downstream.
AlternativeAnswered(l, d, answer) ==
  LET alt == [launch[l].alt EXCEPT ![d] = answer]
      ToEnd(new) ==
        /\ launch' = [launch EXCEPT ![l].pc = "done", ![l].alt = alt]
        /\ AddStdcmSimulations(new)
  IN
  /\ launch[l].pc = "posts" /\ launch[l].alt[d] = "none"
  /\ \/ /\ answer = "failed" \/ ("preprocessing" \in Range(alt) /\ "none" \notin Range(alt))
        /\ HandleRejection(l)
        /\ ToEnd(Requested(l, "path_not_found"))
     \/ /\ answer # "failed" /\ "none" \in Range(alt)
        /\ launch' = [launch EXCEPT ![l].alt = alt]
        /\ UNCHANGED <<sims, selected, status>>
     \/ /\ Range(alt) \cap {"failed", "preprocessing", "none"} = {}
        /\ IF IsCancelled(l)
           THEN ToEnd(Requested(l, "path_not_found")) /\ UNCHANGED status
           ELSE IF "success" \in Range(alt)
           THEN /\ launch' = [launch EXCEPT ![l].pc = "altfetch", ![l].alt = alt]
                /\ UNCHANGED <<sims, selected, status>>
           ELSE /\ SetStatus(l, "success")
                /\ ToEnd(Requested(l, "path_not_found")
                         \o <<CreateSimulation(l, "downstream", alt[1]),
                              CreateSimulation(l, "upstream", alt[2])>>)
  /\ UNCHANGED <<form, retained, cancelled, promise, page>> /\ Rendered

\* The path properties of the alternatives are there, or not.
AlternativesFetched(l) ==
  /\ launch[l].pc = "altfetch" /\ Goto(l, "done")
  /\ \/ /\ SetStatus(l, "success")
        /\ AddStdcmSimulations(Requested(l, "path_not_found") \o Alternatives(l))
     \/ /\ HandleRejection(l)
        /\ AddStdcmSimulations(Requested(l, "path_not_found"))
  /\ UNCHANGED <<form, retained, cancelled, promise, page>> /\ Rendered

Answers == {"success", "path_not_found", "preprocessing", "failed"}

Answer(l) ==
  \/ HandleSuccess(l) \/ SuccessFetched(l) \/ HandlePathNotFound(l) \/ Rejected(l)
  \/ \E d \in {1, 2}, answer \in Answers : AlternativeAnswered(l, d, answer)
  \/ AlternativesFetched(l)

User ==
  \/ EditForm \/ \E i \in DOMAIN sims : HandleSelectSimulation(i)
  \/ RetainSimulation \/ HandleStartNewQuery \/ ToggleDebugMode \/ SelectScenario
  \/ LaunchStdcmRequest \/ LaunchInvalid \/ CancelStdcmRequest

Next ==
  \/ User \/ ScenarioSelected \/ EnvironmentLoaded \/ EnvironmentMissing
  \/ \E l \in DOMAIN launch : Answer(l)

Spec == Init /\ [][Next]_vars

\* Requests and loads are answered; the user owes nothing.
FairSpec ==
  /\ Spec /\ \A l \in 1..MaxLaunches : WF_vars(l \in DOMAIN launch /\ Answer(l))
  /\ WF_vars(ScenarioSelected) /\ WF_vars(EnvironmentLoaded \/ EnvironmentMissing)

-----------------------------------------------------------------------------
(* Properties.                                                             *)

\* The page shows the results when there are simulations, and getSelectedSimulation
\* throws unless one of them is selected: whatever was added by a launch of an
\* earlier page, reset, or cancelled meanwhile.
SelectedExists ==
  /\ sims # <<>> => selected \in DOMAIN sims
  /\ selected # None => selected \in DOMAIN sims
  /\ retained # None => retained \in DOMAIN sims

\* A request that was stopped before its first answer leaves no simulation, even
\* when the next launch has reset isCancelledRef.
StoppedAddsNothing ==
  \A i \in DOMAIN sims : LET l == sims[i].launch IN
    launch[l].stopped => launch[l].alt # <<>>

\* The form is not locked forever: "pending" ends.
PendingEnds == status = "pending" ~> status # "pending"
=============================================================================
