----------------------------- MODULE PacedTrain -----------------------------
(***************************************************************************)
(* One paced train of a timetable: the model train, from which its         *)
(* occurrences are computed, and the exceptions that make single           *)
(* occurrences differ (buildPacedTrainException, formatTimetableItemPayload*)
(* and the actions of the occurrence list, useOccurrenceActions).          *)
(*                                                                         *)
(* Every operation takes the train as the page shows it, builds a whole    *)
(* new train and sends it with a PUT that nobody waits for: the page shows *)
(* the new train when its answer comes, in whatever order answers come.    *)
(* The edit form is a modal over the list and works on the train it was    *)
(* opened with. A PUT succeeds or fails.                                   *)
(*                                                                         *)
(* A change group is one value, but for path_and_schedule, whose power     *)
(* restrictions are a field of their own: they are stored with the group   *)
(* and take no part in comparisons. Left out: comfort, options, whose      *)
(* object is shared between the train and its occurrences, and             *)
(* initial_speed, which the form rounds. Names are of the numeric form.    *)
(***************************************************************************)
EXTENDS Integers, FiniteSets, Arrays

CONSTANTS
  Groups,       \* change groups
  Values,       \* what they hold; 0 is null
  KnownStocks,  \* the rolling stocks the page finds by their name
  Times,        \* start times the user can type
  Names,        \* names the user can type
  Paces,        \* [window, interval] the user can choose
  MaxOps,       \* bound: the user's changes of the train and of the selection
  MaxInFlight   \* bound: PUTs waiting for their answer

Null == 0
NoStock == -1                       \* the empty rolling stock name

ASSUME PacedAssumption ==
  /\ {"path_and_schedule", "rolling_stock", "speed_limit_tag"} \subseteq Groups
  /\ {"power_restrictions", "start_time", "train_name"} \cap Groups = {}
  /\ KnownStocks \subseteq Values /\ NoStock \notin KnownStocks
  /\ 0 \in Values /\ Values \subseteq Int /\ Times \subseteq Int /\ Names \subseteq Int
  /\ Paces \subseteq [window : Nat, interval : Nat \ {0}]
  /\ MaxOps \in Nat /\ MaxInFlight \in Nat

NoIndex == -1                       \* occurrence_index of an added exception
Fields == Groups \cup {"power_restrictions", "start_time", "train_name"}

VARIABLES
  shown,     \* the train of the list: [fields, pace, exceptions]
  form,      \* the edit form: [open, base, id]
  drafts,    \* addedExceptions of the store: [key, start]
  puts,      \* PUTs in flight: [kind, id, item, select], and want, what the
             \* user wants of the occurrence
  selected,  \* selectedTrainId, and whether it was there when it was set
  keys,      \* uuids handed out
  ops

vars == <<shown, form, drafts, puts, selected, keys, ops>>

-----------------------------------------------------------------------------
(* Occurrences and their ids.                                              *)

NoId == <<"none", 0>>
IndexedId(i) == <<"indexedoccurrence", i>>
ExceptionId(key) == <<"exception", key>>

getOccurrencesNb(pace) == (pace.window + pace.interval - 1) \div pace.interval

OccurrencesIds(item) ==
  {ExceptionId(e.key) : e \in {e \in ToSet(item.exceptions) : e.index = NoIndex}}
    \cup {IndexedId(i) : i \in 0..(getOccurrencesNb(item.pace) - 1)}

\* Place of the exception of an occurrence in a list, 0 when it has none.
FindException(exceptions, id) ==
  SelectInSeq(exceptions, LAMBDA e : IF e.index # NoIndex
                                     THEN id = IndexedId(e.index)
                                     ELSE id = ExceptionId(e.key))

IndexedStartTime(start, pace, i) == start + i * pace.interval

\* computeOccurrenceName; an added exception is called "name/+".
OccurrenceName(name, i) == IF i = NoIndex THEN -name ELSE name + 2 * i

\* What an occurrence is, without its exception.
Default(item, i) ==
  [item.fields EXCEPT !["start_time"] = IndexedStartTime(@, item.pace, i),
                      !["train_name"] = OccurrenceName(@, i)]

IndexOf(id) == IF id[1] = "indexedoccurrence" THEN id[2] ELSE NoIndex

ExtractOccurrence(item, id) ==
  LET k == FindException(item.exceptions, id)
      changed == IF k = 0 THEN << >> ELSE item.exceptions[k].groups
  IN [g \in Fields |-> IF g \in DOMAIN changed
                       THEN changed[g] ELSE Default(item, IndexOf(id))[g]]

-----------------------------------------------------------------------------
(* The train as the list holds it, and as it is sent.                      *)

\* The exceptions of a simulated train get a summary property. The speed
\* limit tag of the train with details is called speedLimitTag...
WithDetails(item, simulated) ==
  [item EXCEPT !.exceptions =
     [k \in DOMAIN item.exceptions |->
        [item.exceptions[k] EXCEPT !.others =
           IF simulated THEN @ \cup {"summary"} ELSE @]]]

\* ...and the payload asks for its speed_limit_tag, which it has not. The name of
\* the rolling stock is taken from the stock found by that name.
Payload(details) ==
  [details EXCEPT !.fields["speed_limit_tag"] = Null,
                  !.fields["rolling_stock"] = IF @ \in KnownStocks THEN @ ELSE NoStock]

\* The fields of a train that the payload loses.
Lost(fields) ==
  {"speed_limit_tag"} \cup IF fields["rolling_stock"] \in KnownStocks THEN {} ELSE {"rolling_stock"}

-----------------------------------------------------------------------------
(* Exceptions.                                                             *)

\* others: which of the properties disabled and summary the object has.
Exception(key, i, groups) ==
  [key |-> key, index |-> i, groups |-> groups, disabled |-> FALSE, others |-> {}]

\* The fields stored for a set of change groups: the power restrictions go with
\* the path and the schedule, however they compare.
Whole(S) ==
  (S \ {"power_restrictions"})
    \cup IF "path_and_schedule" \in S THEN {"power_restrictions"} ELSE {}

GenerateException_RawStart(occurrence, original, i) ==
  LET changed == {g \in Fields : \/ g = "start_time" /\ i = NoIndex
                                 \/ g = "start_time" /\ occurrence[g] # original.fields[g]
                                 \/ g # "start_time" /\ occurrence[g] # Default(original, i)[g]}
  IN [g \in Whole(changed) |-> occurrence[g]]

\* The groups of the occurrence that differ from what the train gives it.
GenerateException(occurrence, original, i) ==
  LET changed == {g \in Fields : \/ g = "start_time" /\ i = NoIndex
                                 \/ occurrence[g] # Default(original, i)[g]}
  IN [g \in Whole(changed) |-> occurrence[g]]

UpdateExceptionsList_Last(exceptions, e, id) ==
  LET hasExceptions == DOMAIN e.groups # {} \/ "summary" \in e.others \/ e.disabled
      k == FindException(exceptions, id)
  IN IF k = 0 THEN IF hasExceptions THEN Append(exceptions, e) ELSE exceptions
     ELSE IF hasExceptions THEN [exceptions EXCEPT ![Len(exceptions)] = e]
     ELSE RemoveAt(exceptions, k)

UpdateExceptionsList(exceptions, e, id) ==
  LET hasExceptions == DOMAIN e.groups # {} \/ "summary" \in e.others \/ e.disabled
      k == FindException(exceptions, id)
  IN IF k = 0 THEN IF hasExceptions THEN Append(exceptions, e) ELSE exceptions
     ELSE IF hasExceptions THEN [exceptions EXCEPT ![k] = e]
     ELSE RemoveAt(exceptions, k)

\* Start time and name compared with the train's, not with the occurrence's.
CheckChangeGroups_RawStart(item, exceptions) ==
  LET same(e, g) == /\ e.groups[g] = item.fields[g]
                    /\ g \in {"start_time", "train_name"} => e.index # NoIndex
      left(e) == Whole({g \in DOMAIN e.groups : ~ same(e, g)})
      cleaned == [k \in DOMAIN exceptions |->
                    [exceptions[k] EXCEPT
                       !.groups = [g \in left(exceptions[k]) |-> @[g]]]]
  IN Kept(cleaned, {k \in DOMAIN cleaned : DOMAIN cleaned[k].groups # {} \/ cleaned[k].others # {}})

\* The groups that now say what the train says are dropped, a path with whatever
\* power restrictions it has, then the exceptions with no property left but their
\* key and index.
CheckChangeGroups(item, exceptions) ==
  LET same(e, g) == /\ e.groups[g] = Default(item, e.index)[g]
                    /\ g \in {"start_time", "train_name"} => e.index # NoIndex
      left(e) == Whole({g \in DOMAIN e.groups : ~ same(e, g)})
      cleaned == [k \in DOMAIN exceptions |->
                    [exceptions[k] EXCEPT
                       !.groups = [g \in left(exceptions[k]) |-> @[g]]]]
  IN Kept(cleaned, {k \in DOMAIN cleaned : DOMAIN cleaned[k].groups # {} \/ cleaned[k].others # {}})

-----------------------------------------------------------------------------
(* Selection and storing.                                                  *)

NoSelection == [id |-> NoId, safe |-> TRUE]

\* safe: the occurrence is in the train shown and in all that may replace it.
Chosen(id, items) ==
  [id |-> id, safe |-> \A item \in items : id \in OccurrencesIds(item) \cup {NoId}]

Unset_AddedKept(item) ==
  IF selected.id[1] = "exception" \/ selected.id \in OccurrencesIds(item)
  THEN selected ELSE NoSelection

\* unsetTrainIdsMatchingMissingOccurencesOf
Unset(item) == IF selected.id \in OccurrencesIds(item) THEN selected ELSE NoSelection

InFlight == {p.item : p \in puts}

\* storePacedTrain, up to the request.
StorePacedTrain(kind, id, item, want, select) ==
  /\ Cardinality(puts) < MaxInFlight
  /\ ops < MaxOps
  /\ ops' = ops + 1
  /\ puts' = puts \cup {[kind |-> kind, id |-> id, item |-> item,
                         want |-> want, select |-> select]}

KeyOf(exceptions, id) ==
  LET k == FindException(exceptions, id)
  IN IF k = 0 THEN keys + 1 ELSE exceptions[k].key

IsDisabled(item, id) ==
  LET k == FindException(item.exceptions, id)
  IN k # 0 /\ item.exceptions[k].disabled

-----------------------------------------------------------------------------
(* The list.                                                               *)

SelectOccurrence(id) ==
  /\ ~ form.open /\ ~ IsDisabled(shown, id)
  /\ ops < MaxOps /\ ops' = ops + 1
  /\ selected' = Chosen(id, InFlight \cup {shown})
  /\ UNCHANGED <<shown, form, drafts, puts, keys>>

\* The first enabled occurrence in the order of the list.
FirstEnabled(item, id) ==
  LET others == {o \in OccurrencesIds(item) \ {id} : ~ IsDisabled(item, o)}
      start(o) == ExtractOccurrence(item, o)["start_time"]
  IN IF others = {} THEN {NoId}
     ELSE {o \in others : \A q \in others : start(o) <= start(q)}

UpdateOccurrenceStatus(id, disable) ==
  \E simulated \in BOOLEAN :
    LET train == WithDetails(shown, simulated)
        k == FindException(train.exceptions, id)
        old == IF k = 0 THEN Exception(keys + 1, IndexOf(id), << >>) ELSE train.exceptions[k]
        new == [old EXCEPT !.disabled = disable, !.others = @ \cup {"disabled"}]
        item == [Payload(train) EXCEPT
                   !.exceptions = UpdateExceptionsList(@, new, id)]
    IN /\ ~ form.open /\ IndexOf(id) # NoIndex
       /\ IsDisabled(shown, id) = ~ disable
       /\ StorePacedTrain("status", id, item, << >>, NoId)
       /\ IF disable /\ selected.id = id
          THEN \E o \in FirstEnabled(train, id) :
                 selected' = Chosen(o, InFlight \cup {shown, item})
          ELSE selected' = Unset(item)
       /\ keys' = IF k = 0 THEN keys + 1 ELSE keys
       /\ UNCHANGED <<shown, form, drafts>>

ResetExceptions_AllIndexed(exceptions, id) ==
  LET k == FindException(exceptions, id)
      e == exceptions[k]
  IN IF e.index # NoIndex THEN Kept(exceptions, {j \in DOMAIN exceptions : exceptions[j].index = NoIndex})
     ELSE [exceptions EXCEPT ![k] =
             Exception(e.key, NoIndex, [g \in {"start_time"} |-> e.groups[g]])]

\* The exception of an indexed occurrence goes, an added one keeps its start.
ResetExceptions(exceptions, id) ==
  LET k == FindException(exceptions, id)
      e == exceptions[k]
  IN IF e.index # NoIndex THEN Kept(exceptions, {j \in DOMAIN exceptions : exceptions[j].index # e.index})
     ELSE [exceptions EXCEPT ![k] =
             Exception(e.key, NoIndex, [g \in {"start_time"} |-> e.groups[g]])]

\* The menu of an occurrence offers to restore it.
OffersRestore(id) ==
  LET k == FindException(shown.exceptions, id)
  IN /\ k # 0 /\ ~ IsDisabled(shown, id)
     /\ DOMAIN shown.exceptions[k].groups
          \ (IF IndexOf(id) = NoIndex THEN {"start_time"} ELSE {}) # {}

ResetOccurrenceExceptions(id) ==
  \E simulated \in BOOLEAN :
    LET train == WithDetails(shown, simulated)
        k == FindException(train.exceptions, id)
        item == [Payload(train) EXCEPT !.exceptions = ResetExceptions(@, id)]
        start == IF IndexOf(id) = NoIndex
                 THEN train.exceptions[k].groups["start_time"]
                 ELSE Default(shown, IndexOf(id))["start_time"]
    IN /\ ~ form.open /\ OffersRestore(id)
       /\ StorePacedTrain("reset", id, item,
            [Default(shown, IndexOf(id)) EXCEPT !["start_time"] = start], NoId)
       /\ selected' = Unset(item)
       /\ UNCHANGED <<shown, form, drafts, keys>>

WithoutAdded(exceptions, id) ==
  Kept(exceptions, {k \in DOMAIN exceptions : ExceptionId(exceptions[k].key) # id})

DeleteAddedException(id) ==
  \E simulated \in BOOLEAN :
    LET train == WithDetails(shown, simulated)
        item == [Payload(train) EXCEPT !.exceptions = WithoutAdded(@, id)]
    IN /\ ~ form.open /\ IndexOf(id) = NoIndex
       /\ StorePacedTrain("delete", id, item, << >>, NoId)
       /\ selected' = Unset(item)
       /\ UNCHANGED <<shown, form, drafts, keys>>

DeleteExceptions ==
  LET item == [Payload(shown) EXCEPT !.exceptions = << >>]
  IN /\ ~ form.open /\ shown.exceptions # << >>
     /\ StorePacedTrain("clear", NoId, item, << >>, NoId)
     /\ selected' = Unset(item)
     /\ UNCHANGED <<shown, form, drafts, keys>>

-----------------------------------------------------------------------------
(* The form.                                                               *)

NoForm == [open |-> FALSE, base |-> << >>, id |-> NoId]

\* Opened on an occurrence, or with NoId on the whole paced train.
OpenForm(id) ==
  /\ ~ form.open /\ ~ IsDisabled(shown, id)
  /\ ops < MaxOps
  /\ \E simulated \in BOOLEAN :
       form' = [open |-> TRUE, base |-> WithDetails(shown, simulated), id |-> id]
  /\ UNCHANGED <<shown, drafts, puts, selected, keys, ops>>

\* The drafts of added occurrences stay in the store.
LeaveForm ==
  /\ form.open /\ ops < MaxOps
  /\ form' = NoForm
  /\ UNCHANGED <<shown, drafts, puts, selected, keys, ops>>

AddAddedException ==
  /\ form.open /\ form.id = NoId /\ ops < MaxOps
  /\ \E t \in Times : drafts' = Append(drafts, [key |-> keys + 1, start |-> t])
  /\ keys' = keys + 1
  /\ ops' = ops + 1
  /\ UNCHANGED <<shown, form, puts, selected>>

RemoveAddedException ==
  /\ form.open /\ form.id = NoId /\ ops < MaxOps
  /\ \E k \in DOMAIN drafts : drafts' = RemoveAt(drafts, k)
  /\ UNCHANGED <<shown, form, puts, selected, keys, ops>>

\* What the user can make of the fields: one of them at a time, or none. The
\* pace is chosen with the fields as they are.
Edited(fields) ==
  {[fields EXCEPT ![g] = v] : g \in Groups \cup {"power_restrictions"}, v \in Values}
    \cup {[fields EXCEPT !["start_time"] = t] : t \in Times}
    \cup {[fields EXCEPT !["train_name"] = n] : n \in Names}

\* checkCurrentConfig refuses a form without a rolling stock.
CheckCurrentConfig(fields) == fields["rolling_stock"] \in KnownStocks

\* The occurrence selected when the form is sent, selected again afterwards.
TrainIdToSelect == IF selected.id # NoId THEN selected.id ELSE IndexedId(0)

SubmitOccurrence ==
  /\ form.open /\ form.id # NoId /\ ops < MaxOps
  /\ \E occurrence \in Edited(ExtractOccurrence(form.base, form.id)) :
       LET original == Payload(form.base)
           i == IndexOf(form.id)
           key == KeyOf(original.exceptions, form.id)
           new == Exception(key, i, GenerateException(occurrence, original, i))
           item == [original EXCEPT !.exceptions = UpdateExceptionsList(@, new, form.id)]
       IN /\ CheckCurrentConfig(occurrence)
          /\ StorePacedTrain("occurrence", form.id, item, occurrence, TrainIdToSelect)
          /\ selected' = Unset(item)
          /\ keys' = IF key > keys THEN key ELSE keys
  /\ UNCHANGED <<shown, form, drafts>>

SubmitPacedTrain ==
  /\ form.open /\ form.id = NoId /\ ops < MaxOps
  /\ \E fields \in Edited(form.base.fields), pace \in Paces :
       /\ CheckCurrentConfig(fields)
       /\ fields = form.base.fields \/ pace = form.base.pace
       /\ LET new == [fields |-> fields, pace |-> pace, exceptions |-> << >>]
              added == [k \in DOMAIN drafts |->
                          Exception(drafts[k].key, NoIndex,
                                    [g \in {"start_time"} |-> drafts[k].start])]
              item == [new EXCEPT !.exceptions =
                         IF pace = form.base.pace
                         THEN CheckChangeGroups(new, form.base.exceptions) \o added
                         ELSE << >>]
          IN /\ StorePacedTrain("pacedTrain", NoId, item, << >>, TrainIdToSelect)
             /\ selected' = Unset(item)
  /\ UNCHANGED <<shown, form, drafts, keys>>

-----------------------------------------------------------------------------
(* The answers of editoast.                                                *)

Stored(p) ==
  /\ puts' = puts \ {p}
  /\ shown' = p.item
  /\ IF p.kind \in {"occurrence", "pacedTrain"}
     THEN /\ selected' = Chosen(p.select, {q.item : q \in puts})
          /\ drafts' = << >>
          /\ form' = NoForm
     ELSE UNCHANGED <<selected, drafts, form>>
  /\ UNCHANGED <<keys, ops>>

NotStored(p) ==
  /\ puts' = puts \ {p}
  /\ UNCHANGED <<shown, form, drafts, selected, keys, ops>>

-----------------------------------------------------------------------------
\* A train with an added occurrence on another path, as loaded from editoast,
\* which writes the property disabled of every exception.
Init ==
  /\ \E p \in Paces, stock \in Values :
       /\ getOccurrencesNb(p) > 1
       /\ shown = [fields |-> [[f \in Fields |-> 1] EXCEPT !["start_time"] = 0, !["rolling_stock"] = stock],
                   pace |-> p,
                   exceptions |-> <<[Exception(1, NoIndex, [f \in Whole({"path_and_schedule", "start_time"}) |-> 0])
                                       EXCEPT !.others = {"disabled"}]>>]
  /\ form = NoForm /\ drafts = << >> /\ puts = {}
  /\ selected = NoSelection /\ keys = 1 /\ ops = 0

Next ==
  \/ \E id \in OccurrencesIds(shown) :
       \/ SelectOccurrence(id)
       \/ OpenForm(id)
       \/ \E disable \in BOOLEAN : UpdateOccurrenceStatus(id, disable)
       \/ ResetOccurrenceExceptions(id)
       \/ DeleteAddedException(id)
  \/ DeleteExceptions
  \/ OpenForm(NoId)
  \/ LeaveForm
  \/ AddAddedException
  \/ RemoveAddedException
  \/ SubmitOccurrence
  \/ SubmitPacedTrain
  \/ \E p \in puts : Stored(p) \/ NotStored(p)

Spec == Init /\ [][Next]_vars

-----------------------------------------------------------------------------
(* Properties.                                                             *)

Items == InFlight \cup {shown}

\* The train an operation works from.
Base == IF form.open THEN form.base ELSE shown

\* Through any sequence of edits, resets and stale answers, an exception list
\* names each occurrence once and only occurrences the pace has, and an added
\* exception has a start time and is not disabled: useOccurrences reads
\* exception.start_time!.value, and findExceptionWithOccurrenceId takes the
\* first match.
ExceptionsIdentify ==
  \A item \in Items :
    LET es == item.exceptions IN
    /\ \A j, k \in DOMAIN es : j # k =>
         /\ es[j].key # es[k].key
         /\ es[j].index # es[k].index \/ es[j].index = NoIndex
    /\ \A e \in ToSet(es) :
         IF e.index = NoIndex
         THEN "start_time" \in DOMAIN e.groups /\ ~ e.disabled
         ELSE e.index < getOccurrencesNb(item.pace)

\* What is stored for an occurrence, put back together by
\* extractOccurrenceDetailsFromPacedTrain, is what the user asked for. An edited
\* one: what the form said, but for power restrictions on the path, schedule and
\* margins of the train, which generatePacedTrainException does not compare. A
\* restored one: what the train shown says, but for what its payload loses.
EditSticks ==
  \A p \in puts : p.kind \in {"occurrence", "reset"} => \A g \in Fields :
    \/ ExtractOccurrence(p.item, p.id)[g] = p.want[g]
    \/ p.kind = "reset" /\ g \in Lost(p.want)
    \/ p.kind = "occurrence" /\ g = "power_restrictions"
       /\ p.want["path_and_schedule"] = p.item.fields["path_and_schedule"]

\* An operation on one occurrence leaves the others as they were, enabled or
\* disabled, in everything but what the payload of their train loses.
OthersUntouched ==
  [][\A p \in puts' \ puts : p.kind \in {"occurrence", "status", "reset", "delete"} =>
       \A id \in OccurrencesIds(Base) \ {p.id} :
         /\ id \in OccurrencesIds(p.item)
         /\ IsDisabled(p.item, id) = IsDisabled(Base, id)
         /\ \A g \in Fields \ Lost(Base.fields) :
              ExtractOccurrence(p.item, id)[g] = ExtractOccurrence(Base, id)[g]]_vars

\* An edit of the whole train that keeps its pace keeps every change made to
\* single occurrences, although checkChangeGroups drops what says the same; but
\* for the power restrictions of an occurrence on the train's own path.
ExceptionsSurvive ==
  [][\A p \in puts' \ puts : p.kind = "pacedTrain" /\ p.item.pace = Base.pace =>
       \A e \in ToSet(Base.exceptions) :
         LET id == IF e.index = NoIndex THEN ExceptionId(e.key) ELSE IndexedId(e.index)
         IN /\ IsDisabled(p.item, id) = e.disabled
            /\ \A g \in DOMAIN e.groups :
                 \/ ExtractOccurrence(p.item, id)[g] = e.groups[g]
                 \/ g = "power_restrictions"
                    /\ e.groups["path_and_schedule"] = p.item.fields["path_and_schedule"]]_vars

\* The selected occurrence exists, unless it was selected while a PUT without
\* it was under way: storePacedTrain unselects what the new train lacks.
SelectedOccurrenceExists ==
  selected.safe => selected.id \in OccurrencesIds(shown) \cup {NoId}

=============================================================================
