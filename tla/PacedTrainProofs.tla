--------------------------- MODULE PacedTrainProofs ---------------------------
(***************************************************************************)
(* Proofs, for any train, edits, paces and order of answers: the selected  *)
(* occurrence exists unless it was selected against a PUT that was under   *)
(* way; exceptions name one occurrence each; an edit of an occurrence      *)
(* sticks and leaves the others alone; an edit of the train keeps what was *)
(* changed in single occurrences.                                          *)
(***************************************************************************)
EXTENDS PacedTrain, ArrayProofs

\* The inductive invariant looks ahead: the selection is safe in the train that
\* is shown and in every train an answer may put in its place.
SelectionSafe ==
  selected.safe => \A item \in Items : selected.id \in OccurrencesIds(item) \cup {NoId}

\* storePacedTrain unselects what the new train lacks.
LEMMA UnsetIsSafe ==
  ASSUME SelectionSafe, NEW item, Items' \subseteq Items \cup {item}, selected' = Unset(item)
  PROVE  SelectionSafe'
<1>1. CASE selected.id \in OccurrencesIds(item)
  <2>1. selected' = selected
    BY <1>1 DEF Unset
  <2> QED
    BY <1>1, <2>1 DEF SelectionSafe
<1>2. CASE selected.id \notin OccurrencesIds(item)
  <2>1. selected'.id = NoId
    BY <1>2 DEF Unset, NoSelection
  <2> QED
    BY <2>1 DEF SelectionSafe
<1> QED
  BY <1>1, <1>2

LEMMA ChosenIsSafe ==
  ASSUME NEW id, NEW items, Items' \subseteq items, selected' = Chosen(id, items)
  PROVE  SelectionSafe'
<1>1. selected'.id = id /\ selected'.safe = (\A item \in items : id \in OccurrencesIds(item) \cup {NoId})
  BY DEF Chosen
<1> QED
  BY <1>1 DEF SelectionSafe

LEMMA KeptIsSafe ==
  ASSUME SelectionSafe, Items' \subseteq Items, selected' = selected
  PROVE  SelectionSafe'
  BY DEF SelectionSafe

\* A PUT that leaves adds the train it carries to those that may be shown.
LEMMA PutAddsItem ==
  ASSUME NEW kind, NEW id, NEW item, NEW want, NEW select, shown' = shown,
         StorePacedTrain(kind, id, item, want, select)
  PROVE  Items' = Items \cup {item}
<1> DEFINE put == [kind |-> kind, id |-> id, item |-> item, want |-> want, select |-> select]
<1>1. puts' = puts \cup {put} /\ put.item = item
  BY DEF StorePacedTrain
<1> HIDE DEF put
<1>2. {p.item : p \in puts'} = {p.item : p \in puts} \cup {item}
  BY <1>1
<1> QED
  BY <1>2 DEF Items, InFlight

LEMMA SelectPreserves ==
  ASSUME SelectionSafe, NEW id, SelectOccurrence(id)
  PROVE  SelectionSafe'
<1>1. Items' = Items /\ selected' = Chosen(id, Items)
  BY DEF SelectOccurrence, Items, InFlight
<1> QED
  BY <1>1, ChosenIsSafe

\* Disabling the selected occurrence selects another, among the present train,
\* the new one and those under way.
LEMMA StatusPreserves ==
  ASSUME SelectionSafe, NEW id, NEW disable, UpdateOccurrenceStatus(id, disable)
  PROVE  SelectionSafe'
<1>1. PICK item : /\ StorePacedTrain("status", id, item, << >>, NoId) /\ shown' = shown
                  /\ \/ \E o : selected' = Chosen(o, InFlight \cup {shown, item})
                     \/ selected' = Unset(item)
  BY DEF UpdateOccurrenceStatus
<1>2. Items' = Items \cup {item}
  BY <1>1, PutAddsItem
<1>3. Items' \subseteq InFlight \cup {shown, item}
  BY <1>2 DEF Items
<1> QED
  BY <1>1, <1>2, <1>3, ChosenIsSafe, UnsetIsSafe

LEMMA StorePreserves ==
  ASSUME SelectionSafe, NEW kind, NEW id, NEW item, NEW want, NEW select,
         StorePacedTrain(kind, id, item, want, select), shown' = shown, selected' = Unset(item)
  PROVE  SelectionSafe'
  BY PutAddsItem, UnsetIsSafe

LEMMA AnswerPreserves ==
  ASSUME SelectionSafe, NEW p \in puts, Stored(p) \/ NotStored(p)
  PROVE  SelectionSafe'
<1>1. puts' = puts \ {p} /\ (shown' = shown \/ shown' = p.item)
  BY DEF Stored, NotStored
<1>2. Items' \subseteq Items /\ (shown' = p.item => Items' \subseteq InFlight)
  BY <1>1 DEF Items, InFlight
<1>3. CASE selected' = selected
  BY <1>2, <1>3, KeptIsSafe
<1>4. CASE Stored(p) /\ selected' = Chosen(p.select, {q.item : q \in puts})
  <2>1. Items' \subseteq {q.item : q \in puts}
    BY <1>2, <1>4 DEF Stored, InFlight
  <2> QED
    BY <1>4, <2>1, ChosenIsSafe
<1> QED
  BY <1>3, <1>4 DEF Stored, NotStored

LEMMA NextPreserves == SelectionSafe /\ [Next]_vars => SelectionSafe'
<1> SUFFICES ASSUME SelectionSafe, [Next]_vars PROVE SelectionSafe'
  OBVIOUS
<1>1. CASE \E id \in OccurrencesIds(shown) : SelectOccurrence(id)
  BY <1>1, SelectPreserves
<1>2. CASE \E id \in OccurrencesIds(shown), disable \in BOOLEAN : UpdateOccurrenceStatus(id, disable)
  BY <1>2, StatusPreserves
<1>3. CASE \E id \in OccurrencesIds(shown) : ResetOccurrenceExceptions(id)
  BY <1>3, StorePreserves DEF ResetOccurrenceExceptions
<1>4. CASE \E id \in OccurrencesIds(shown) : DeleteAddedException(id)
  BY <1>4, StorePreserves DEF DeleteAddedException
<1>5. CASE DeleteExceptions
  BY <1>5, StorePreserves DEF DeleteExceptions
<1>6. CASE SubmitOccurrence
  BY <1>6, StorePreserves DEF SubmitOccurrence
<1>7. CASE SubmitPacedTrain
  BY <1>7, StorePreserves DEF SubmitPacedTrain
<1>8. CASE \E p \in puts : Stored(p) \/ NotStored(p)
  BY <1>8, AnswerPreserves
<1>9. CASE (\E id : OpenForm(id)) \/ LeaveForm \/ AddAddedException \/ RemoveAddedException
  BY <1>9, KeptIsSafe
  DEF OpenForm, LeaveForm, AddAddedException, RemoveAddedException, Items, InFlight
<1>10. CASE UNCHANGED vars
  BY <1>10, KeptIsSafe DEF vars, Items, InFlight
<1> QED
  BY <1>1, <1>2, <1>3, <1>4, <1>5, <1>6, <1>7, <1>8, <1>9, <1>10 DEF Next

\* Unless it was selected while a PUT that lacks it was under way, the selected
\* occurrence is one of the train shown, whatever is edited, reset or deleted and
\* in whatever order answers come.
THEOREM SelectionExists == Spec => []SelectedOccurrenceExists
<1>1. Init => SelectionSafe
  BY DEF Init, NoSelection, SelectionSafe
<1>2. SelectionSafe => SelectedOccurrenceExists
  BY DEF SelectionSafe, SelectedOccurrenceExists, Items
<1> QED
  BY <1>1, <1>2, NextPreserves, PTL DEF Spec

-----------------------------------------------------------------------------
(* Exceptions.                                                             *)

\* Power restrictions are stored with a path, and only with one.
Paired(D) == "power_restrictions" \in D <=> "path_and_schedule" \in D
Grouping == UNION {[D -> Int] : D \in {E \in SUBSET Fields : Paired(E)}}
AnException ==
  [key : Nat, index : Int, groups : Grouping, disabled : BOOLEAN,
   others : SUBSET {"disabled", "summary"}]
Train == [fields : [Fields -> Int], pace : Paces, exceptions : Seq(AnException)]
Draft == [key : Nat, start : Int]

\* A list names each occurrence once, and no key twice.
Distinct(es) ==
  \A j, k \in DOMAIN es :
    j # k => es[j].key # es[k].key /\ (es[j].index # es[k].index \/ es[j].index = NoIndex)

\* An exception fits its train. Its key is one of the first n uuids; it was only
\* disabled if it has the property.
Fits(e, pace, n) ==
  /\ e.key <= n
  /\ e.disabled => e.others # {}
  /\ IF e.index = NoIndex THEN "start_time" \in DOMAIN e.groups /\ ~ e.disabled
     ELSE e.index < getOccurrencesNb(pace)

Sound(item, n) ==
  /\ item \in Train
  /\ Distinct(item.exceptions)
  /\ \A k \in DOMAIN item.exceptions : Fits(item.exceptions[k], item.pace, n)

TrainsSound ==
  /\ Sound(shown, keys)
  /\ form.open => Sound(form.base, keys)
  /\ \A p \in puts : Sound(p.item, keys)

\* The form is about an occurrence of the train it was opened with.
FormSound == form.open /\ form.id # NoId => form.id \in OccurrencesIds(form.base)

\* The keys of drafts are new to every train the form can be opened with while
\* there are drafts. A PUT of the form may carry them: its answer drops the drafts.
Holds(item, key) == \E k \in DOMAIN item.exceptions : item.exceptions[k].key = key
DraftsSound ==
  /\ drafts \in Seq(Draft)
  /\ \A j, k \in DOMAIN drafts : j # k => drafts[j].key # drafts[k].key
  /\ \A k \in DOMAIN drafts :
       /\ drafts[k].key <= keys
       /\ ~ Holds(shown, drafts[k].key)
       /\ form.open => ~ Holds(form.base, drafts[k].key)
       /\ \A p \in puts : p.kind \in {"occurrence", "pacedTrain"} \/ ~ Holds(p.item, drafts[k].key)

\* The inductive invariant of the exceptions.
ExceptionInv == keys \in Nat /\ TrainsSound /\ FormSound /\ DraftsSound /\ EditSticks

-----------------------------------------------------------------------------
(* Types.                                                                  *)

LEMMA GroupingMade == \A D \in SUBSET Fields : Paired(D) => \A f \in [D -> Int] : f \in Grouping
  BY DEF Grouping

LEMMA GroupingKnown ==
  \A f \in Grouping : DOMAIN f \in SUBSET Fields /\ Paired(DOMAIN f) /\ f \in [DOMAIN f -> Int]
  BY DEF Grouping

LEMMA PairedPlain == Paired({}) /\ Paired({"start_time"})
  BY DEF Paired

LEMMA ExceptionFields ==
  \A e \in AnException : /\ e.key \in Nat /\ e.index \in Int /\ e.groups \in Grouping
                         /\ e.disabled \in BOOLEAN /\ e.others \in SUBSET {"disabled", "summary"}
  BY DEF AnException

LEMMA TrainFields ==
  \A t \in Train : /\ t.fields \in [Fields -> Int] /\ t.pace \in Paces /\ t.exceptions \in Seq(AnException)
                   /\ Len(t.exceptions) \in Nat /\ DOMAIN t.exceptions = 1..Len(t.exceptions)
                   /\ \A k \in DOMAIN t.exceptions : t.exceptions[k] \in AnException
  BY DEF Train

LEMMA TrainMade ==
  \A fields \in [Fields -> Int] : \A pace \in Paces : \A es \in Seq(AnException) :
    [fields |-> fields, pace |-> pace, exceptions |-> es] \in Train
  BY DEF Train

LEMMA ExceptionMade ==
  ASSUME NEW key \in Nat, NEW i \in Int, NEW groups \in Grouping
  PROVE  /\ Exception(key, i, groups) \in AnException
         /\ Exception(key, i, groups).key = key /\ Exception(key, i, groups).index = i
         /\ Exception(key, i, groups).groups = groups /\ ~Exception(key, i, groups).disabled
         /\ Exception(key, i, groups).others = {}
  BY DEF Exception, AnException

LEMMA FieldsKnown == /\ "start_time" \in Fields /\ "train_name" \in Fields /\ "speed_limit_tag" \in Fields
                     /\ "power_restrictions" \in Fields /\ "path_and_schedule" \in Fields
                     /\ "rolling_stock" \in Fields /\ Groups \subseteq Fields
  BY PacedAssumption DEF Fields

\* The fields stored for change groups are the groups, power restrictions with
\* the path.
LEMMA WholeKnown ==
  ASSUME NEW S \in SUBSET Fields
  PROVE  /\ Whole(S) \in SUBSET Fields /\ Paired(Whole(S))
         /\ \A g : g # "power_restrictions" => (g \in Whole(S) <=> g \in S)
         /\ "power_restrictions" \in Whole(S) <=> "path_and_schedule" \in S
  BY FieldsKnown DEF Whole, Paired

LEMMA PaceNumbers == \A p \in Paces : p.interval \in Int /\ getOccurrencesNb(p) \in Int
<1> SUFFICES ASSUME NEW p \in Paces PROVE p.interval \in Int /\ getOccurrencesNb(p) \in Int
  OBVIOUS
<1>1. p.interval \in Nat \ {0} /\ p.window \in Nat
  BY PacedAssumption
<1>2. PICK a \in Int, b \in Nat \ {0} : a = p.window + p.interval - 1 /\ b = p.interval
  BY <1>1
<1>3. a \div b \in Int
  OBVIOUS
<1> QED
  BY <1>2, <1>3 DEF getOccurrencesNb

-----------------------------------------------------------------------------
(* The exception of an occurrence.                                         *)

\* The test of findExceptionWithOccurrenceId.
IsOf(e, id) == IF e.index # NoIndex THEN id = IndexedId(e.index) ELSE id = ExceptionId(e.key)

LEMMA IdsDiffer ==
  /\ \A i, k : IndexedId(i) # ExceptionId(k) /\ IndexedId(i) # NoId /\ ExceptionId(k) # NoId
  /\ \A i, j : IndexedId(i) = IndexedId(j) => i = j
  /\ \A i, j : ExceptionId(i) = ExceptionId(j) => i = j
  /\ \A i : IndexOf(IndexedId(i)) = i /\ IndexOf(ExceptionId(i)) = NoIndex
  /\ IndexOf(NoId) = NoIndex
  BY DEF IndexedId, ExceptionId, NoId, IndexOf

LEMMA Found ==
  ASSUME NEW es \in Seq(AnException), NEW id
  PROVE  LET k == FindException(es, id) IN
         \/ k = 0 /\ \A j \in DOMAIN es : ~IsOf(es[j], id)
         \/ k # 0 /\ k \in DOMAIN es /\ IsOf(es[k], id)
<1> DEFINE I == {i \in 1..Len(es) : IsOf(es[i], id)}
<1>1. FindException(es, id) = IF I # {} THEN Min(I) ELSE 0
  BY DEF FindException, SelectInSeq, IsOf
<1>2. I \subseteq Nat /\ I \subseteq 1..Len(es) /\ DOMAIN es = 1..Len(es)
  OBVIOUS
<1>3. CASE I = {}
  BY <1>1, <1>2, <1>3
<1>4. CASE I # {}
  <2>1. Min(I) \in I
    <3> HIDE DEF I
    <3> QED
      BY <1>2, <1>4, MinOf
  <2> QED
    BY <1>1, <1>2, <1>4, <2>1
<1> QED
  BY <1>3, <1>4

LEMMA IsOfOne ==
  ASSUME NEW es \in Seq(AnException), Distinct(es), NEW j \in DOMAIN es, NEW k \in DOMAIN es, NEW id,
         IsOf(es[j], id), IsOf(es[k], id)
  PROVE  j = k
  BY IdsDiffer DEF IsOf, Distinct

LEMMA FoundIt ==
  ASSUME NEW es \in Seq(AnException), Distinct(es), NEW k \in DOMAIN es, NEW id, IsOf(es[k], id)
  PROVE  FindException(es, id) = k /\ k # 0
<1>1. k # 0
  OBVIOUS
<1> QED
  BY <1>1, Found, IsOfOne

\* An occurrence without an exception is what the train says; with one, what the
\* exception says first.
LEMMA ExtractPlain ==
  ASSUME NEW item \in Train, NEW id, \A k \in DOMAIN item.exceptions : ~IsOf(item.exceptions[k], id)
  PROVE  /\ \A g \in Fields : ExtractOccurrence(item, id)[g] = Default(item, IndexOf(id))[g]
         /\ ~IsDisabled(item, id)
<1>1. FindException(item.exceptions, id) = 0
  BY Found, TrainFields
<1>2. ~IsDisabled(item, id)
  BY <1>1 DEF IsDisabled
<1>3. ExtractOccurrence(item, id) = [g \in Fields |-> IF g \in DOMAIN << >>
                                       THEN << >>[g] ELSE Default(item, IndexOf(id))[g]]
  BY <1>1 DEF ExtractOccurrence
<1> HIDE DEF Default
<1>4. \A g : g \notin DOMAIN << >>
  OBVIOUS
<1> QED
  BY <1>2, <1>3, <1>4

LEMMA ExtractChanged ==
  ASSUME NEW item \in Train, Distinct(item.exceptions), NEW id, NEW k \in DOMAIN item.exceptions,
         IsOf(item.exceptions[k], id)
  PROVE  /\ \A g \in Fields : ExtractOccurrence(item, id)[g] =
              IF g \in DOMAIN item.exceptions[k].groups THEN item.exceptions[k].groups[g]
              ELSE Default(item, IndexOf(id))[g]
         /\ IsDisabled(item, id) = item.exceptions[k].disabled
<1>1. FindException(item.exceptions, id) = k /\ k # 0
  BY FoundIt, TrainFields
<1>2. item.exceptions[k].disabled \in BOOLEAN
  BY TrainFields, ExceptionFields
<1>3. IsDisabled(item, id) = item.exceptions[k].disabled
  BY <1>1, <1>2 DEF IsDisabled
<1>4. ExtractOccurrence(item, id) =
        [g \in Fields |-> IF g \in DOMAIN item.exceptions[k].groups THEN item.exceptions[k].groups[g]
                          ELSE Default(item, IndexOf(id))[g]]
  BY <1>1 DEF ExtractOccurrence
<1> QED
  BY <1>3, <1>4

-----------------------------------------------------------------------------
(* Lists of exceptions.                                                    *)

LEMMA PickedList ==
  ASSUME NEW es \in Seq(AnException), Distinct(es), NEW I, I \subseteq DOMAIN es, NEW tt, IsPick(tt, es, I)
  PROVE  /\ Distinct(tt)
         /\ \A j \in DOMAIN tt : \E i \in I : tt[j] = es[i]
         /\ \A i \in I : \E j \in DOMAIN tt : tt[j] = es[i]
<1>1. PICK f \in [DOMAIN tt -> I] :
        /\ \A j \in DOMAIN tt : tt[j] = es[f[j]]
        /\ \A j, k \in DOMAIN tt : j # k => f[j] # f[k]
        /\ \A i \in I : \E j \in DOMAIN tt : f[j] = i
  BY DEF IsPick
<1>2. \A j \in DOMAIN tt : f[j] \in I /\ f[j] \in DOMAIN es
  BY <1>1
<1>3. Distinct(tt)
  BY <1>1, <1>2 DEF Distinct
<1>4. \A i \in I : \E j \in DOMAIN tt : tt[j] = es[i]
  BY <1>1
<1> QED
  BY <1>1, <1>2, <1>3, <1>4

\* What updatePacedTrainExceptionsList keeps in the list.
Has(e) == DOMAIN e.groups # {} \/ "summary" \in e.others \/ e.disabled

\* tt is es with e for the occurrence, or with nothing for it.
IsUpdate(tt, es, e, id) ==
  /\ tt \in Seq(AnException) /\ Distinct(tt)
  /\ \A j \in DOMAIN tt : \/ tt[j] = e /\ Has(e)
                          \/ \E k \in DOMAIN es : tt[j] = es[k] /\ ~IsOf(es[k], id)
  /\ \A k \in DOMAIN es : ~IsOf(es[k], id) => \E j \in DOMAIN tt : tt[j] = es[k]
  /\ Has(e) => \E j \in DOMAIN tt : tt[j] = e

LEMMA SameOccurrence ==
  ASSUME NEW d \in AnException, NEW e \in AnException, NEW id, IsOf(d, id), IsOf(e, id)
  PROVE  d.index = e.index /\ (d.index = NoIndex => d.key = e.key)
  BY IdsDiffer DEF IsOf

LEMMA Updated ==
  ASSUME NEW es \in Seq(AnException), Distinct(es), NEW e \in AnException, NEW id, IsOf(e, id),
         \A k \in DOMAIN es : es[k].key = e.key <=> IsOf(es[k], id)
  PROVE  IsUpdate(UpdateExceptionsList(es, e, id), es, e, id)
<1> DEFINE n == FindException(es, id)
           tt == UpdateExceptionsList(es, e, id)
<1>0. \A k \in DOMAIN es : es[k] \in AnException
  OBVIOUS
<1>1. tt = IF n = 0 THEN IF Has(e) THEN Append(es, e) ELSE es
           ELSE IF Has(e) THEN [es EXCEPT ![n] = e] ELSE RemoveAt(es, n)
  BY DEF UpdateExceptionsList, Has
<1>2. \/ n = 0 /\ \A j \in DOMAIN es : ~IsOf(es[j], id)
      \/ n # 0 /\ n \in DOMAIN es /\ IsOf(es[n], id)
  BY Found
<1> HIDE DEF n, tt
<1>3. CASE n = 0 /\ Has(e)
  <2> DEFINE u == Append(es, e)
  <2>1. tt = u
    BY <1>1, <1>3
  <2>2. \A j \in DOMAIN es : ~IsOf(es[j], id)
    BY <1>2, <1>3
  <2>3. /\ u \in Seq(AnException) /\ DOMAIN u = 1..Len(es) + 1 /\ u[Len(es) + 1] = e
        /\ DOMAIN es = 1..Len(es) /\ Len(es) \in Nat
        /\ \A j \in DOMAIN es : u[j] = es[j]
    OBVIOUS
  <2> HIDE DEF u
  <2>4. \A j \in DOMAIN u : j = Len(es) + 1 \/ j \in DOMAIN es
    BY <2>3
  <2>5. \A j \in DOMAIN es : /\ es[j].key # e.key
                             /\ es[j].index # e.index \/ es[j].index = NoIndex
    BY <2>2 DEF IsOf
  <2>6. Distinct(u)
    <3> SUFFICES ASSUME NEW j \in DOMAIN u, NEW k \in DOMAIN u, j # k
                 PROVE  u[j].key # u[k].key /\ (u[j].index # u[k].index \/ u[j].index = NoIndex)
      BY DEF Distinct
    <3>1. CASE j \in DOMAIN es /\ k \in DOMAIN es
      BY <2>3, <3>1 DEF Distinct
    <3>2. CASE j = Len(es) + 1 /\ k \in DOMAIN es
      BY <2>3, <2>5, <3>2
    <3>3. CASE j \in DOMAIN es /\ k = Len(es) + 1
      BY <2>3, <2>5, <3>3
    <3> QED
      BY <2>4, <3>1, <3>2, <3>3
  <2>7. Len(es) + 1 \in DOMAIN u /\ \A j \in DOMAIN es : j \in DOMAIN u
    BY <2>3
  <2>8. \A j \in DOMAIN u : \/ u[j] = e /\ Has(e)
                           \/ \E k \in DOMAIN es : u[j] = es[k] /\ ~IsOf(es[k], id)
    BY <1>3, <2>2, <2>3, <2>4
  <2>9. \A k \in DOMAIN es : ~IsOf(es[k], id) => \E j \in DOMAIN u : u[j] = es[k]
    BY <2>3, <2>7
  <2>10. \E j \in DOMAIN u : u[j] = e
    BY <2>3, <2>7
  <2>11. IsUpdate(u, es, e, id)
    BY <2>3, <2>6, <2>8, <2>9, <2>10, Zenon DEF IsUpdate
  <2> QED
    BY <2>1, <2>11 DEF tt
<1>4. CASE n = 0 /\ ~Has(e)
  <2>1. tt = es /\ \A j \in DOMAIN es : ~IsOf(es[j], id)
    BY <1>1, <1>2, <1>4
  <2>2. IsUpdate(es, es, e, id)
    BY <1>4, <2>1, Zenon DEF IsUpdate
  <2> QED
    BY <2>1, <2>2 DEF tt
<1>5. CASE n # 0 /\ Has(e)
  <2> DEFINE u == [es EXCEPT ![n] = e]
  <2>1. tt = u /\ n \in DOMAIN es /\ IsOf(es[n], id)
    BY <1>1, <1>2, <1>5
  <2>2. /\ u \in Seq(AnException) /\ DOMAIN u = DOMAIN es /\ u[n] = e
        /\ \A j \in DOMAIN es : j # n => u[j] = es[j]
    BY <2>1
  <2> HIDE DEF u
  <2>3. e.key = es[n].key /\ e.index = es[n].index
    BY <1>0, <2>1, SameOccurrence
  <2>4. \A j \in DOMAIN u : u[j].key = es[j].key /\ u[j].index = es[j].index
    BY <2>2, <2>3
  <2>5. Distinct(u)
    BY <2>2, <2>4 DEF Distinct
  <2>6. \A j \in DOMAIN es : j # n => ~IsOf(es[j], id)
    BY <2>1, IsOfOne
  <2>7. \A j \in DOMAIN u : \/ u[j] = e /\ Has(e)
                           \/ \E k \in DOMAIN es : u[j] = es[k] /\ ~IsOf(es[k], id)
    BY <1>5, <2>2, <2>6
  <2>8. \A k \in DOMAIN es : ~IsOf(es[k], id) => \E j \in DOMAIN u : u[j] = es[k]
    BY <2>1, <2>2
  <2>9. \E j \in DOMAIN u : u[j] = e
    BY <2>1, <2>2
  <2>10. IsUpdate(u, es, e, id)
    BY <2>2, <2>5, <2>7, <2>8, <2>9, Zenon DEF IsUpdate
  <2> QED
    BY <2>1, <2>10 DEF tt
<1>6. CASE n # 0 /\ ~Has(e)
  <2>1. tt = RemoveAt(es, n) /\ n \in DOMAIN es /\ IsOf(es[n], id)
    BY <1>1, <1>2, <1>6
  <2> DEFINE I == DOMAIN es \ {n}
  <2>2. tt \in Seq(AnException) /\ IsPick(tt, es, I)
    BY <2>1, RemovedPicks
  <2>3. I \subseteq DOMAIN es /\ \A j \in I : ~IsOf(es[j], id)
    BY <2>1, IsOfOne
  <2>5. \A j \in DOMAIN es : ~IsOf(es[j], id) => j \in I
    BY <2>1
  <2> HIDE DEF I
  <2>4. /\ Distinct(tt)
        /\ \A j \in DOMAIN tt : \E i \in I : tt[j] = es[i]
        /\ \A i \in I : \E j \in DOMAIN tt : tt[j] = es[i]
    BY <2>2, <2>3, PickedList
  <2>6. \A j \in DOMAIN tt : \E k \in DOMAIN es : tt[j] = es[k] /\ ~IsOf(es[k], id)
    BY <2>3, <2>4
  <2>7. \A k \in DOMAIN es : ~IsOf(es[k], id) => \E j \in DOMAIN tt : tt[j] = es[k]
    BY <2>4, <2>5
  <2>8. IsUpdate(tt, es, e, id)
    BY <1>6, <2>2, <2>4, <2>6, <2>7, Zenon DEF IsUpdate
  <2> QED
    BY <2>8 DEF tt
<1> QED
  BY <1>3, <1>4, <1>5, <1>6 DEF tt

-----------------------------------------------------------------------------
(* The train with details, and the payload.                                *)

\* The same but for the properties the page adds.
Alike(d, e) == d.key = e.key /\ d.index = e.index /\ d.groups = e.groups /\ d.disabled = e.disabled

\* t is s but for what the payload loses and the exceptions.
Agrees(t, s) == t.pace = s.pace /\ \A g \in Fields \ Lost(s.fields) : t.fields[g] = s.fields[g]

With(t, es) == [fields |-> t.fields, pace |-> t.pace, exceptions |-> es]

LEMMA WithFields ==
  ASSUME NEW t \in Train, NEW es \in Seq(AnException)
  PROVE  /\ With(t, es) \in Train /\ With(t, es).fields = t.fields
         /\ With(t, es).pace = t.pace /\ With(t, es).exceptions = es
  BY TrainFields, TrainMade DEF With

LEMMA SoundKnown ==
  ASSUME NEW item, NEW n, Sound(item, n)
  PROVE  /\ item \in Train /\ Distinct(item.exceptions) /\ item.exceptions \in Seq(AnException)
         /\ item.pace \in Paces /\ item.fields \in [Fields -> Int]
         /\ \A k \in DOMAIN item.exceptions :
              item.exceptions[k] \in AnException /\ Fits(item.exceptions[k], item.pace, n)
  BY TrainFields DEF Sound

LEMMA Later ==
  ASSUME NEW item, NEW n \in Nat, NEW m \in Nat, n <= m, Sound(item, n)
  PROVE  Sound(item, m)
<1>1. \A k \in DOMAIN item.exceptions : Fits(item.exceptions[k], item.pace, m)
  <2> SUFFICES ASSUME NEW k \in DOMAIN item.exceptions PROVE Fits(item.exceptions[k], item.pace, m)
    OBVIOUS
  <2>1. Fits(item.exceptions[k], item.pace, n) /\ item.exceptions[k].key \in Nat
    BY SoundKnown, ExceptionFields
  <2>2. item.exceptions[k].key <= m
    BY <2>1 DEF Fits
  <2> QED
    BY <2>1, <2>2 DEF Fits
<1> QED
  BY <1>1 DEF Sound

LEMMA Detailed ==
  ASSUME NEW e \in AnException, NEW simulated \in BOOLEAN
  PROVE  LET d == [e EXCEPT !.others = IF simulated THEN @ \cup {"summary"} ELSE @]
         IN  d \in AnException /\ Alike(d, e) /\ e.others \subseteq d.others
<1> DEFINE o == IF simulated THEN e.others \cup {"summary"} ELSE e.others
           d == [e EXCEPT !.others = o]
<1>1. o \in SUBSET {"disabled", "summary"} /\ e.others \subseteq o
  BY ExceptionFields
<1> HIDE DEF o
<1>2. d \in AnException /\ d.others = o /\ d.key = e.key /\ d.index = e.index
      /\ d.groups = e.groups /\ d.disabled = e.disabled
  BY <1>1 DEF AnException
<1> HIDE DEF d
<1>3. d \in AnException /\ Alike(d, e) /\ e.others \subseteq d.others
  BY <1>1, <1>2 DEF Alike
<1> QED
  BY <1>3 DEF d, o

\* t is item with details.
IsDetailed(t, item) ==
  /\ t.fields = item.fields /\ t.pace = item.pace /\ DOMAIN t.exceptions = DOMAIN item.exceptions
  /\ \A k \in DOMAIN item.exceptions : Alike(t.exceptions[k], item.exceptions[k])

LEMMA FitsAlike ==
  ASSUME NEW d, NEW e, NEW pace, NEW n, Alike(d, e), e.others \subseteq d.others, Fits(e, pace, n)
  PROVE  Fits(d, pace, n)
<1>1. d.disabled => d.others # {}
  BY DEF Fits, Alike
<1> QED
  BY <1>1 DEF Fits, Alike

LEMMA Details ==
  ASSUME NEW item, NEW n, Sound(item, n), NEW simulated \in BOOLEAN
  PROVE  Sound(WithDetails(item, simulated), n) /\ IsDetailed(WithDetails(item, simulated), item)
<1> DEFINE es == item.exceptions
           ds == [k \in DOMAIN es |-> [es[k] EXCEPT !.others = IF simulated THEN @ \cup {"summary"} ELSE @]]
           t == WithDetails(item, simulated)
<1>1. /\ item \in Train /\ Distinct(es) /\ es \in Seq(AnException)
      /\ \A k \in DOMAIN es : es[k] \in AnException /\ Fits(es[k], item.pace, n)
  BY SoundKnown
<1>2. /\ DOMAIN ds = DOMAIN es
      /\ \A k \in DOMAIN es : ds[k] \in AnException /\ Alike(ds[k], es[k]) /\ es[k].others \subseteq ds[k].others
  BY <1>1, Detailed
<1>3. t = [item EXCEPT !.exceptions = ds]
  BY DEF WithDetails
<1>4. t.fields = item.fields /\ t.pace = item.pace /\ t.exceptions = ds /\ t = With(item, ds)
  BY <1>1, <1>3 DEF Train, With
<1>5. Len(es) \in Nat /\ DOMAIN es = 1..Len(es)
  BY <1>1
<1> HIDE DEF ds, t
<1>6. ds \in Seq(AnException)
  <2>1. ds \in [1..Len(es) -> AnException]
    <3>1. ds = [k \in DOMAIN es |-> ds[k]]
      BY DEF ds
    <3> QED
      BY <1>2, <1>5, <3>1
  <2> QED
    BY <1>5, <2>1
<1>7. Distinct(ds)
  BY <1>1, <1>2 DEF Distinct, Alike
<1>8. \A k \in DOMAIN ds : Fits(ds[k], item.pace, n)
  BY <1>1, <1>2, FitsAlike
<1>9. Sound(t, n)
  BY <1>1, <1>4, <1>6, <1>7, <1>8, WithFields DEF Sound
<1>10. IsDetailed(t, item)
  BY <1>2, <1>4 DEF IsDetailed
<1> QED
  BY <1>9, <1>10 DEF t

LEMMA Paid ==
  ASSUME NEW t \in Train
  PROVE  /\ Payload(t) \in Train /\ Payload(t).exceptions = t.exceptions /\ Payload(t).pace = t.pace
         /\ Agrees(Payload(t), t)
<1>1. PICK h \in [Fields -> Int] : h = t.fields
  BY TrainFields
<1> DEFINE stock == IF h["rolling_stock"] \in KnownStocks THEN h["rolling_stock"] ELSE NoStock
           f == [h EXCEPT !["speed_limit_tag"] = Null, !["rolling_stock"] = stock]
<1>2. Payload(t) = [t EXCEPT !.fields = f]
  BY <1>1, FieldsKnown DEF Payload, Train
<1>3. stock \in Int
  BY FieldsKnown DEF NoStock
<1>4. h["rolling_stock"] \in KnownStocks => stock = h["rolling_stock"]
  OBVIOUS
<1> HIDE DEF stock
<1>5. f = [g \in Fields |-> IF g = "rolling_stock" THEN stock
                           ELSE IF g = "speed_limit_tag" THEN 0 ELSE h[g]]
  BY FieldsKnown DEF Null
<1>6. \A g \in Fields : (IF g = "rolling_stock" THEN stock
                         ELSE IF g = "speed_limit_tag" THEN 0 ELSE h[g]) \in Int
  BY <1>3
<1>7. f \in [Fields -> Int]
  BY <1>5, <1>6, Zenon
<1>8. \A g \in Fields \ Lost(h) : f[g] = h[g]
  BY <1>4, <1>5 DEF Lost
<1> HIDE DEF f
<1>9. Payload(t).fields = f /\ Payload(t).pace = t.pace /\ Payload(t).exceptions = t.exceptions
      /\ Payload(t) \in Train
  BY <1>2, <1>7 DEF Train
<1> QED
  BY <1>1, <1>8, <1>9 DEF Agrees

-----------------------------------------------------------------------------
(* What an occurrence is in two trains.                                    *)

LEMMA DefaultAt ==
  ASSUME NEW t \in Train, NEW i, NEW g \in Fields
  PROVE  Default(t, i)[g] = IF g = "start_time" THEN IndexedStartTime(t.fields["start_time"], t.pace, i)
                            ELSE IF g = "train_name" THEN OccurrenceName(t.fields["train_name"], i)
                            ELSE t.fields[g]
<1>1. PICK h \in [Fields -> Int] : h = t.fields
  BY TrainFields
<1> DEFINE a == IndexedStartTime(h["start_time"], t.pace, i)
           b == OccurrenceName(h["train_name"], i)
           c == [h EXCEPT !["start_time"] = a]
<1> HIDE DEF a, b
<1>2. Default(t, i) = [h EXCEPT !["start_time"] = a, !["train_name"] = b]
  BY <1>1, FieldsKnown DEF Default, a, b
<1>3. Default(t, i) = [f \in Fields |-> IF f = "train_name" THEN b ELSE IF f = "start_time" THEN a ELSE h[f]]
  BY <1>2, FieldsKnown
<1> QED
  BY <1>1, <1>3 DEF a, b

LEMMA DefaultAgrees ==
  ASSUME NEW t \in Train, NEW s \in Train, Agrees(t, s), NEW i
  PROVE  \A g \in Fields \ Lost(s.fields) : Default(t, i)[g] = Default(s, i)[g]
<1>1. /\ t.pace = s.pace /\ t.fields["start_time"] = s.fields["start_time"]
      /\ t.fields["train_name"] = s.fields["train_name"]
      /\ \A g \in Fields \ Lost(s.fields) : t.fields[g] = s.fields[g]
  BY FieldsKnown DEF Agrees, Lost
<1> SUFFICES ASSUME NEW g \in Fields \ Lost(s.fields) PROVE Default(t, i)[g] = Default(s, i)[g]
  OBVIOUS
<1>2. Default(t, i)[g] = IF g = "start_time" THEN IndexedStartTime(t.fields["start_time"], t.pace, i)
                         ELSE IF g = "train_name" THEN OccurrenceName(t.fields["train_name"], i)
                         ELSE t.fields[g]
  BY DefaultAt
<1>3. Default(s, i)[g] = IF g = "start_time" THEN IndexedStartTime(s.fields["start_time"], s.pace, i)
                         ELSE IF g = "train_name" THEN OccurrenceName(s.fields["train_name"], i)
                         ELSE s.fields[g]
  BY DefaultAt
<1> QED
  BY <1>1, <1>2, <1>3

LEMMA DefaultSame ==
  ASSUME NEW t \in Train, NEW s \in Train, t.fields = s.fields, t.pace = s.pace, NEW i
  PROVE  Default(t, i) = Default(s, i)
  BY DEF Default

LEMMA DefaultType ==
  ASSUME NEW t \in Train, NEW i \in Int
  PROVE  \A g \in Fields : Default(t, i)[g] \in Int
<1>1. t.fields \in [Fields -> Int] /\ t.pace.interval \in Int
  BY TrainFields, PaceNumbers
<1>2. PICK a \in Int, b \in Int, w \in Int :
        a = t.fields["start_time"] /\ b = t.fields["train_name"] /\ w = t.pace.interval
  BY <1>1, FieldsKnown
<1>3. a + i * w \in Int /\ -b \in Int /\ b + 2 * i \in Int
  OBVIOUS
<1>4. IndexedStartTime(t.fields["start_time"], t.pace, i) \in Int
      /\ OccurrenceName(t.fields["train_name"], i) \in Int
  BY <1>2, <1>3 DEF IndexedStartTime, OccurrenceName
<1> QED
  BY <1>1, <1>4, DefaultAt

LEMMA IsOfAlike ==
  ASSUME NEW d, NEW e, Alike(d, e), NEW id
  PROVE  IsOf(d, id) <=> IsOf(e, id)
  BY DEF IsOf, Alike

LEMMA IsOfId ==
  ASSUME NEW e, NEW id, NEW other, IsOf(e, id), IsOf(e, other)
  PROVE  id = other
  BY DEF IsOf

\* The ids of a train are those of its pace and of its added exceptions.
LEMMA KnownId ==
  ASSUME NEW item \in Train, NEW id
  PROVE  id \in OccurrencesIds(item) <=>
           \/ \E i \in 0..getOccurrencesNb(item.pace) - 1 : id = IndexedId(i)
           \/ \E k \in DOMAIN item.exceptions : /\ item.exceptions[k].index = NoIndex
                                                /\ id = ExceptionId(item.exceptions[k].key)
<1>1. ToSet(item.exceptions) = {item.exceptions[k] : k \in DOMAIN item.exceptions}
  BY DEF ToSet
<1> QED
  BY <1>1, Zenon DEF OccurrencesIds

LEMMA IdIndex ==
  ASSUME NEW item \in Train, NEW id \in OccurrencesIds(item)
  PROVE  /\ IndexOf(id) \in Int /\ id # NoId
         /\ IndexOf(id) # NoIndex => /\ id = IndexedId(IndexOf(id))
                                     /\ IndexOf(id) < getOccurrencesNb(item.pace)
         /\ IndexOf(id) = NoIndex => \E k \in DOMAIN item.exceptions :
              /\ item.exceptions[k].index = NoIndex /\ id = ExceptionId(item.exceptions[k].key)
              /\ IsOf(item.exceptions[k], id)
<1>1. getOccurrencesNb(item.pace) \in Int
  BY TrainFields, PaceNumbers
<1>2. CASE \E i \in 0..getOccurrencesNb(item.pace) - 1 : id = IndexedId(i)
  <2>1. PICK i \in Int : 0 <= i /\ i < getOccurrencesNb(item.pace) /\ id = IndexedId(i)
    BY <1>1, <1>2
  <2>2. IndexOf(id) = i /\ i # NoIndex /\ id # NoId
    BY <2>1, IdsDiffer DEF NoIndex
  <2> QED
    BY <2>1, <2>2
<1>3. CASE \E k \in DOMAIN item.exceptions : /\ item.exceptions[k].index = NoIndex
                                             /\ id = ExceptionId(item.exceptions[k].key)
  <2>1. IndexOf(id) = NoIndex /\ NoIndex \in Int /\ id # NoId
    BY <1>3, IdsDiffer DEF NoIndex
  <2> QED
    BY <1>3, <2>1 DEF IsOf
<1> QED
  BY <1>2, <1>3, KnownId

\* The occurrence is the same in both trains but for what the payload of s loses.
Spared(t, s, id) ==
  /\ id \in OccurrencesIds(t)
  /\ IsDisabled(t, id) = IsDisabled(s, id)
  /\ \A g \in Fields \ Lost(s.fields) : ExtractOccurrence(t, id)[g] = ExtractOccurrence(s, id)[g]

LEMMA SameExtract ==
  ASSUME NEW t \in Train, NEW s \in Train, Agrees(t, s), NEW id,
         Distinct(t.exceptions), Distinct(s.exceptions),
         \A k \in DOMAIN s.exceptions : IsOf(s.exceptions[k], id) =>
           \E j \in DOMAIN t.exceptions : Alike(t.exceptions[j], s.exceptions[k]),
         \A j \in DOMAIN t.exceptions : IsOf(t.exceptions[j], id) =>
           \E k \in DOMAIN s.exceptions : Alike(t.exceptions[j], s.exceptions[k])
  PROVE  /\ IsDisabled(t, id) = IsDisabled(s, id)
         /\ \A g \in Fields \ Lost(s.fields) : ExtractOccurrence(t, id)[g] = ExtractOccurrence(s, id)[g]
<1>0. \A g \in Fields \ Lost(s.fields) : Default(t, IndexOf(id))[g] = Default(s, IndexOf(id))[g]
  BY DefaultAgrees
<1>1. CASE \E k \in DOMAIN s.exceptions : IsOf(s.exceptions[k], id)
  <2>1. PICK k \in DOMAIN s.exceptions : IsOf(s.exceptions[k], id)
    BY <1>1
  <2>2. PICK j \in DOMAIN t.exceptions : Alike(t.exceptions[j], s.exceptions[k])
    BY <2>1
  <2>3. IsOf(t.exceptions[j], id)
    BY <2>1, <2>2, IsOfAlike
  <2>4. /\ \A g \in Fields : ExtractOccurrence(t, id)[g] =
              IF g \in DOMAIN t.exceptions[j].groups THEN t.exceptions[j].groups[g]
              ELSE Default(t, IndexOf(id))[g]
        /\ IsDisabled(t, id) = t.exceptions[j].disabled
    BY <2>3, ExtractChanged
  <2>5. /\ \A g \in Fields : ExtractOccurrence(s, id)[g] =
              IF g \in DOMAIN s.exceptions[k].groups THEN s.exceptions[k].groups[g]
              ELSE Default(s, IndexOf(id))[g]
        /\ IsDisabled(s, id) = s.exceptions[k].disabled
    BY <2>1, ExtractChanged
  <2>6. t.exceptions[j].groups = s.exceptions[k].groups /\ t.exceptions[j].disabled = s.exceptions[k].disabled
    BY <2>2 DEF Alike
  <2> QED
    BY <1>0, <2>4, <2>5, <2>6
<1>2. CASE \A k \in DOMAIN s.exceptions : ~IsOf(s.exceptions[k], id)
  <2>1. \A j \in DOMAIN t.exceptions : ~IsOf(t.exceptions[j], id)
    BY <1>2, IsOfAlike
  <2>2. ~IsDisabled(t, id) /\ \A g \in Fields : ExtractOccurrence(t, id)[g] = Default(t, IndexOf(id))[g]
    BY <2>1, ExtractPlain
  <2>3. ~IsDisabled(s, id) /\ \A g \in Fields : ExtractOccurrence(s, id)[g] = Default(s, IndexOf(id))[g]
    BY <1>2, ExtractPlain
  <2>4. IsDisabled(t, id) \in BOOLEAN /\ IsDisabled(s, id) \in BOOLEAN
    BY DEF IsDisabled
  <2> QED
    BY <1>0, <2>2, <2>3, <2>4
<1> QED
  BY <1>1, <1>2

-----------------------------------------------------------------------------
(* A list in which one occurrence has something else, or nothing.          *)

Replaces(tt, es, id) ==
  /\ tt \in Seq(AnException) /\ Distinct(tt)
  /\ \A j \in DOMAIN tt : IsOf(tt[j], id) \/ \E k \in DOMAIN es : tt[j] = es[k] /\ ~IsOf(es[k], id)
  /\ \A k \in DOMAIN es : ~IsOf(es[k], id) => \E j \in DOMAIN tt : tt[j] = es[k]

LEMMA UpdateReplaces ==
  ASSUME NEW tt, NEW es, NEW e, NEW id, IsOf(e, id) \/ ~Has(e), IsUpdate(tt, es, e, id)
  PROVE  Replaces(tt, es, id)
<1>1. \A j \in DOMAIN tt : IsOf(tt[j], id) \/ \E k \in DOMAIN es : tt[j] = es[k] /\ ~IsOf(es[k], id)
  <2> SUFFICES ASSUME NEW j \in DOMAIN tt
               PROVE  IsOf(tt[j], id) \/ \E k \in DOMAIN es : tt[j] = es[k] /\ ~IsOf(es[k], id)
    OBVIOUS
  <2>1. (tt[j] = e /\ Has(e)) \/ \E k \in DOMAIN es : tt[j] = es[k] /\ ~IsOf(es[k], id)
    BY Zenon DEF IsUpdate
  <2> QED
    BY <2>1
<1>2. /\ tt \in Seq(AnException) /\ Distinct(tt)
      /\ \A k \in DOMAIN es : ~IsOf(es[k], id) => \E j \in DOMAIN tt : tt[j] = es[k]
  BY Zenon DEF IsUpdate
<1> QED
  BY <1>1, <1>2, Zenon DEF Replaces

LEMMA ReplacedSpares ==
  ASSUME NEW base, NEW n, Sound(base, n), NEW t, NEW m, Sound(t, m), IsDetailed(t, base),
         NEW id, NEW tt, Replaces(tt, t.exceptions, id), NEW item \in Train,
         item.exceptions = tt, Agrees(item, t), NEW other \in OccurrencesIds(base), other # id
  PROVE  Spared(item, base, other)
<1> DEFINE es == t.exceptions
           bs == base.exceptions
<1>1. base \in Train /\ Distinct(bs) /\ t \in Train /\ Distinct(es)
  BY SoundKnown
<1>2. Agrees(item, base) /\ item.pace = base.pace
  BY DEF IsDetailed, Agrees
<1>3. DOMAIN es = DOMAIN bs /\ \A k \in DOMAIN bs : Alike(es[k], bs[k])
  BY DEF IsDetailed
<1>4. /\ tt \in Seq(AnException) /\ Distinct(tt)
      /\ \A j \in DOMAIN tt : IsOf(tt[j], id) \/ \E k \in DOMAIN es : tt[j] = es[k] /\ ~IsOf(es[k], id)
      /\ \A k \in DOMAIN es : ~IsOf(es[k], id) => \E j \in DOMAIN tt : tt[j] = es[k]
  BY Zenon DEF Replaces
<1> HIDE DEF es, bs
<1>5. \A k \in DOMAIN bs : IsOf(bs[k], other) => \E j \in DOMAIN tt : Alike(tt[j], bs[k])
  <2> SUFFICES ASSUME NEW k \in DOMAIN bs, IsOf(bs[k], other) PROVE \E j \in DOMAIN tt : Alike(tt[j], bs[k])
    OBVIOUS
  <2>1. IsOf(es[k], other)
    BY <1>3, IsOfAlike
  <2>2. ~IsOf(es[k], id)
    BY <2>1, IsOfId
  <2> QED
    BY <1>3, <1>4, <2>2
<1>6. \A j \in DOMAIN tt : IsOf(tt[j], other) => \E k \in DOMAIN bs : Alike(tt[j], bs[k])
  <2> SUFFICES ASSUME NEW j \in DOMAIN tt, IsOf(tt[j], other) PROVE \E k \in DOMAIN bs : Alike(tt[j], bs[k])
    OBVIOUS
  <2>1. ~IsOf(tt[j], id)
    BY IsOfId
  <2> QED
    BY <1>3, <1>4, <2>1
<1>7. IsDisabled(item, other) = IsDisabled(base, other)
      /\ \A g \in Fields \ Lost(base.fields) :
           ExtractOccurrence(item, other)[g] = ExtractOccurrence(base, other)[g]
  BY <1>1, <1>2, <1>4, <1>5, <1>6, SameExtract DEF bs
<1>8. other \in OccurrencesIds(item)
  <2>1. CASE \E i \in 0..getOccurrencesNb(base.pace) - 1 : other = IndexedId(i)
    BY <1>2, <2>1, KnownId
  <2>2. CASE \E k \in DOMAIN bs : bs[k].index = NoIndex /\ other = ExceptionId(bs[k].key)
    <3>1. PICK k \in DOMAIN bs : bs[k].index = NoIndex /\ other = ExceptionId(bs[k].key)
      BY <2>2
    <3>2. IsOf(bs[k], other)
      BY <3>1 DEF IsOf
    <3>3. PICK j \in DOMAIN tt : Alike(tt[j], bs[k])
      BY <1>5, <3>2
    <3>4. tt[j].index = NoIndex /\ other = ExceptionId(tt[j].key)
      BY <3>1, <3>3 DEF Alike
    <3> QED
      BY <3>4, KnownId
  <2> QED
    BY <1>1, <2>1, <2>2, KnownId DEF bs
<1> QED
  BY <1>7, <1>8 DEF Spared

FitsFor(tt, id, pace, m) == \A j \in DOMAIN tt : IsOf(tt[j], id) => Fits(tt[j], pace, m)

LEMMA ReplacedSound ==
  ASSUME NEW t, NEW n \in Nat, Sound(t, n), NEW id, NEW tt, Replaces(tt, t.exceptions, id),
         NEW item \in Train, item.exceptions = tt, item.pace = t.pace, NEW m \in Nat, n <= m,
         FitsFor(tt, id, t.pace, m)
  PROVE  Sound(item, m)
<1>1. \A k \in DOMAIN t.exceptions : Fits(t.exceptions[k], t.pace, m)
  BY Later, SoundKnown
<1>2. /\ Distinct(tt)
      /\ \A j \in DOMAIN tt : IsOf(tt[j], id) \/ \E k \in DOMAIN t.exceptions : tt[j] = t.exceptions[k]
  BY Zenon DEF Replaces
<1>3. \A j \in DOMAIN tt : Fits(tt[j], t.pace, m)
  BY <1>1, <1>2 DEF FitsFor
<1> QED
  BY <1>2, <1>3 DEF Sound

\* No key of the drafts gets into the list.
Avoids(tt, id, key) == \A j \in DOMAIN tt : IsOf(tt[j], id) => tt[j].key # key

LEMMA ReplacedKeys ==
  ASSUME NEW base, NEW t, IsDetailed(t, base), NEW id, NEW tt, Replaces(tt, t.exceptions, id),
         NEW item, item.exceptions = tt, NEW key, ~Holds(base, key), Avoids(tt, id, key)
  PROVE  ~Holds(item, key)
<1>1. \A j \in DOMAIN tt : IsOf(tt[j], id) \/ \E k \in DOMAIN t.exceptions : tt[j] = t.exceptions[k]
  BY Zenon DEF Replaces
<1>2. \A k \in DOMAIN t.exceptions : t.exceptions[k].key # key
  BY DEF IsDetailed, Alike, Holds
<1> QED
  BY <1>1, <1>2 DEF Holds, Avoids

\* The key that names the occurrence in the list, or a new one.
LEMMA NewKey ==
  ASSUME NEW es \in Seq(AnException), Distinct(es), NEW n \in Nat, NEW id, NEW key,
         \A k \in DOMAIN es : es[k].key <= n,
         key = IF FindException(es, id) = 0 THEN n + 1 ELSE es[FindException(es, id)].key
  PROVE  /\ key \in Nat /\ key <= n + 1
         /\ \A k \in DOMAIN es : es[k].key = key <=> IsOf(es[k], id)
<1> DEFINE f == FindException(es, id)
<1>1. \/ f = 0 /\ \A j \in DOMAIN es : ~IsOf(es[j], id)
      \/ f # 0 /\ f \in DOMAIN es /\ IsOf(es[f], id)
  BY Found
<1>2. \A k \in DOMAIN es : es[k].key \in Nat /\ es[k].key <= n
  BY ExceptionFields
<1> HIDE DEF f
<1>3. CASE f = 0
  <2>1. key = n + 1
    BY <1>3 DEF f
  <2>2. \A k \in DOMAIN es : es[k].key # key
    BY <1>2, <2>1
  <2>3. \A k \in DOMAIN es : ~IsOf(es[k], id)
    BY <1>1, <1>3
  <2> QED
    BY <2>1, <2>2, <2>3
<1>4. CASE f # 0
  <2>1. key = es[f].key /\ f \in DOMAIN es /\ IsOf(es[f], id)
    BY <1>1, <1>4 DEF f
  <2>2. \A k \in DOMAIN es : IsOf(es[k], id) <=> k = f
    BY <2>1, IsOfOne
  <2>3. \A k \in DOMAIN es : es[k].key = key <=> k = f
    BY <2>1 DEF Distinct
  <2>4. key \in Nat /\ key <= n + 1
    BY <1>2, <2>1
  <2> QED
    BY <2>2, <2>3, <2>4
<1> QED
  BY <1>3, <1>4

-----------------------------------------------------------------------------
(* Storing.                                                                *)

FormKinds == {"occurrence", "pacedTrain"}

\* What a put may lose of what the user asked for, and that it loses no more.
Exempt(kind, fields, want, g) ==
  \/ kind = "reset" /\ g \in Lost(want)
  \/ kind = "occurrence" /\ g = "power_restrictions"
     /\ want["path_and_schedule"] = fields["path_and_schedule"]
Sticks(kind, item, id, want) ==
  \A g \in Fields : ExtractOccurrence(item, id)[g] = want[g] \/ Exempt(kind, item.fields, want, g)

LEMMA PutIs ==
  ASSUME NEW kind, NEW id, NEW item, NEW want, NEW select,
         StorePacedTrain(kind, id, item, want, select)
  PROVE  /\ \A p \in puts' : p \in puts \/ (p.kind = kind /\ p.id = id /\ p.item = item /\ p.want = want)
         /\ puts \subseteq puts'
<1> DEFINE put == [kind |-> kind, id |-> id, item |-> item, want |-> want, select |-> select]
<1>1. puts' = puts \cup {put} /\ put.kind = kind /\ put.id = id /\ put.item = item /\ put.want = want
  BY DEF StorePacedTrain
<1> HIDE DEF put
<1> QED
  BY <1>1

LEMMA TrainsLater ==
  ASSUME ExceptionInv, NEW m \in Nat, keys <= m
  PROVE  /\ Sound(shown, m) /\ (form.open => Sound(form.base, m))
         /\ \A p \in puts : Sound(p.item, m)
<1>1. keys \in Nat
  BY DEF ExceptionInv
<1> QED
  BY <1>1, Later DEF ExceptionInv, TrainsSound

LEMMA StoreKeeps ==
  ASSUME ExceptionInv, NEW kind, NEW id, NEW item, NEW want, NEW select,
         StorePacedTrain(kind, id, item, want, select),
         shown' = shown, form' = form, drafts' = drafts, keys' \in Nat, keys <= keys',
         Sound(item, keys'),
         kind \in FormKinds \/ \A k \in DOMAIN drafts : ~Holds(item, drafts[k].key),
         kind \in {"occurrence", "reset"} => Sticks(kind, item, id, want)
  PROVE  ExceptionInv'
<1>1. \A p \in puts' : p \in puts \/ (p.kind = kind /\ p.id = id /\ p.item = item /\ p.want = want)
  BY PutIs
<1>2. TrainsSound'
  <2>1. /\ Sound(shown, keys') /\ (form.open => Sound(form.base, keys'))
        /\ \A p \in puts : Sound(p.item, keys')
    BY TrainsLater
  <2> QED
    BY <1>1, <2>1 DEF TrainsSound
<1>3. FormSound'
  BY DEF FormSound, ExceptionInv
<1>4. DraftsSound'
  <2>1. /\ drafts \in Seq(Draft) /\ keys \in Nat
        /\ \A j, k \in DOMAIN drafts : j # k => drafts[j].key # drafts[k].key
        /\ \A k \in DOMAIN drafts :
             /\ drafts[k].key <= keys
             /\ ~ Holds(shown, drafts[k].key)
             /\ form.open => ~ Holds(form.base, drafts[k].key)
             /\ \A p \in puts : p.kind \in {"occurrence", "pacedTrain"} \/ ~ Holds(p.item, drafts[k].key)
    BY DEF ExceptionInv, DraftsSound
  <2>2. \A k \in DOMAIN drafts : drafts[k].key \in Nat
    <3>1. \A k \in DOMAIN drafts : drafts[k] \in Draft
      BY <2>1
    <3> QED
      BY <3>1 DEF Draft
  <2>3. \A k \in DOMAIN drafts : drafts[k].key <= keys'
    BY <2>1, <2>2
  <2>4. \A k \in DOMAIN drafts : \A p \in puts' :
          p.kind \in {"occurrence", "pacedTrain"} \/ ~ Holds(p.item, drafts[k].key)
    BY <1>1, <2>1 DEF FormKinds
  <2> QED
    BY <2>1, <2>3, <2>4 DEF DraftsSound
<1>5. EditSticks'
  <2>1. \A p \in puts' : p.kind \in {"occurrence", "reset"} => Sticks(p.kind, p.item, p.id, p.want)
    BY <1>1 DEF EditSticks, Sticks, Exempt, ExceptionInv
  <2> QED
    BY <2>1 DEF EditSticks, Sticks, Exempt
<1> QED
  BY <1>2, <1>3, <1>4, <1>5 DEF ExceptionInv

\* What the two action properties say of a step.
OthersSpared ==
  \A p \in puts' \ puts : p.kind \in {"occurrence", "status", "reset", "delete"} =>
    \A id \in OccurrencesIds(Base) \ {p.id} : Spared(p.item, Base, id)

NamedBy(e) == IF e.index = NoIndex THEN ExceptionId(e.key) ELSE IndexedId(e.index)
Survives(e, item) ==
  /\ IsDisabled(item, NamedBy(e)) = e.disabled
  /\ \A g \in DOMAIN e.groups :
       \/ ExtractOccurrence(item, NamedBy(e))[g] = e.groups[g]
       \/ g = "power_restrictions" /\ e.groups["path_and_schedule"] = item.fields["path_and_schedule"]
ExceptionsKept ==
  \A p \in puts' \ puts : p.kind = "pacedTrain" /\ p.item.pace = Base.pace =>
    \A e \in ToSet(Base.exceptions) : Survives(e, p.item)

\* What is to be shown of a step.
StepGood == ExceptionInv' /\ OthersSpared /\ ExceptionsKept

LEMMA NothingSent ==
  ASSUME puts' \subseteq puts, ExceptionInv'
  PROVE  StepGood
  BY DEF StepGood, OthersSpared, ExceptionsKept

\* An operation on one occurrence.
LEMMA StoreGood ==
  ASSUME ExceptionInv, NEW kind \in {"occurrence", "status", "reset", "delete"}, NEW id, NEW item, NEW want, NEW select,
         StorePacedTrain(kind, id, item, want, select),
         shown' = shown, form' = form, drafts' = drafts, keys' \in Nat, keys <= keys',
         Sound(item, keys'),
         kind \in FormKinds \/ \A k \in DOMAIN drafts : ~Holds(item, drafts[k].key),
         kind \in {"occurrence", "reset"} => Sticks(kind, item, id, want),
         \A other \in OccurrencesIds(Base) \ {id} : Spared(item, Base, other)
  PROVE  StepGood
<1>1. ExceptionInv'
  BY StoreKeeps
<1>2. \A p \in puts' \ puts : p.kind = kind /\ p.id = id /\ p.item = item
  BY PutIs
<1>3. OthersSpared
  BY <1>2 DEF OthersSpared
<1>4. ExceptionsKept
  BY <1>2 DEF ExceptionsKept
<1> QED
  BY <1>1, <1>3, <1>4 DEF StepGood

-----------------------------------------------------------------------------
(* The operations on one occurrence.                                       *)

\* A train is updated with an exception that the key names.
LEMMA Updating ==
  ASSUME NEW t, NEW n \in Nat, Sound(t, n), NEW id, NEW e \in AnException, IsOf(e, id),
         e.key = IF FindException(t.exceptions, id) = 0 THEN n + 1
                 ELSE t.exceptions[FindException(t.exceptions, id)].key
  PROVE  IsUpdate(UpdateExceptionsList(t.exceptions, e, id), t.exceptions, e, id)
<1>1. t.exceptions \in Seq(AnException) /\ Distinct(t.exceptions)
  BY SoundKnown
<1>2. \A k \in DOMAIN t.exceptions : t.exceptions[k].key <= n
  BY SoundKnown DEF Fits
<1>3. \A k \in DOMAIN t.exceptions : t.exceptions[k].key = e.key <=> IsOf(t.exceptions[k], id)
  BY <1>1, <1>2, NewKey, ZenonT(30)
<1> QED
  BY <1>1, <1>3, Updated

LEMMA OnlyNew ==
  ASSUME NEW tt, NEW es, NEW e, NEW id, IsUpdate(tt, es, e, id), NEW j \in DOMAIN tt, IsOf(tt[j], id)
  PROVE  tt[j] = e
  BY Zenon DEF IsUpdate

LEMMA SentItem ==
  ASSUME NEW t \in Train, NEW tt \in Seq(AnException)
  PROVE  LET item == [Payload(t) EXCEPT !.exceptions = tt] IN
         /\ item \in Train /\ item.exceptions = tt /\ item.pace = t.pace /\ Agrees(item, t)
         /\ item.fields = Payload(t).fields
<1> DEFINE item == [Payload(t) EXCEPT !.exceptions = tt]
<1>1. /\ Payload(t) \in Train /\ Payload(t).pace = t.pace /\ Agrees(Payload(t), t)
  BY Paid
<1>2. item = With(Payload(t), tt)
  <2>1. PICK q \in Train : q = Payload(t)
    BY <1>1
  <2>2. [q EXCEPT !.exceptions = tt] = With(q, tt)
    BY DEF Train, With
  <2> QED
    BY <2>1, <2>2
<1> HIDE DEF item
<1>3. /\ item \in Train /\ item.exceptions = tt /\ item.pace = t.pace
      /\ item.fields = Payload(t).fields
  BY <1>1, <1>2, WithFields
<1>4. Agrees(item, t)
  BY <1>1, <1>3 DEF Agrees
<1> QED
  BY <1>3, <1>4 DEF item

LEMMA StatusGood ==
  ASSUME ExceptionInv, NEW id \in OccurrencesIds(shown), NEW disable \in BOOLEAN,
         UpdateOccurrenceStatus(id, disable)
  PROVE  StepGood
<1>1. PICK simulated \in BOOLEAN :
        LET train == WithDetails(shown, simulated)
            k == FindException(train.exceptions, id)
            old == IF k = 0 THEN Exception(keys + 1, IndexOf(id), << >>) ELSE train.exceptions[k]
            new == [old EXCEPT !.disabled = disable, !.others = @ \cup {"disabled"}]
            item == [Payload(train) EXCEPT
                       !.exceptions = UpdateExceptionsList(@, new, id)]
        IN /\ ~ form.open /\ IndexOf(id) # NoIndex
           /\ StorePacedTrain("status", id, item, << >>, NoId)
           /\ keys' = IF k = 0 THEN keys + 1 ELSE keys
           /\ UNCHANGED <<shown, form, drafts>>
  BY Zenon DEF UpdateOccurrenceStatus
<1> DEFINE train == WithDetails(shown, simulated)
           k == FindException(train.exceptions, id)
           old == IF k = 0 THEN Exception(keys + 1, IndexOf(id), << >>) ELSE train.exceptions[k]
           new == [old EXCEPT !.disabled = disable, !.others = @ \cup {"disabled"}]
           tt == UpdateExceptionsList(train.exceptions, new, id)
           item == [Payload(train) EXCEPT !.exceptions = tt]
<1>2. keys \in Nat /\ Sound(shown, keys)
  BY DEF ExceptionInv, TrainsSound
<1>3. Sound(train, keys) /\ IsDetailed(train, shown)
  BY <1>2, Details
<1>4. shown \in Train /\ train \in Train /\ train.exceptions \in Seq(AnException) /\ train.pace = shown.pace
      /\ Payload(train).exceptions = train.exceptions
  BY <1>2, <1>3, SoundKnown, Paid DEF IsDetailed
<1>5. /\ ~ form.open /\ IndexOf(id) # NoIndex
      /\ StorePacedTrain("status", id, item, << >>, NoId)
      /\ keys' = IF k = 0 THEN keys + 1 ELSE keys
      /\ shown' = shown /\ form' = form /\ drafts' = drafts
  BY <1>1, <1>4
<1>6. id = IndexedId(IndexOf(id)) /\ IndexOf(id) \in Int /\ IndexOf(id) < getOccurrencesNb(shown.pace)
  BY <1>4, <1>5, IdIndex
<1>7. \/ k = 0
      \/ k # 0 /\ k \in DOMAIN train.exceptions /\ IsOf(train.exceptions[k], id)
  BY <1>4, Found
<1> HIDE DEF train, k
<1>8. old \in AnException /\ old.index = IndexOf(id)
      /\ old.key = IF k = 0 THEN keys + 1 ELSE train.exceptions[k].key
  <2>1. CASE k = 0
    <3>1. << >> \in Grouping
      <4>1. << >> \in [{} -> Int]
        OBVIOUS
      <4> QED
        BY <4>1, GroupingMade, PairedPlain
    <3>2. keys + 1 \in Nat
      BY <1>2
    <3> QED
      BY <1>6, <2>1, <3>1, <3>2, ExceptionMade
  <2>2. CASE k # 0
    <3>1. train.exceptions[k] \in AnException /\ IsOf(train.exceptions[k], id)
      BY <1>4, <1>7, <2>2
    <3>2. train.exceptions[k].index = IndexOf(id)
      BY <3>1, <1>5, <1>6, IdsDiffer DEF IsOf
    <3> QED
      BY <2>2, <3>1, <3>2
  <2> QED
    BY <2>1, <2>2
<1> HIDE DEF old
<1>9. /\ new \in AnException /\ new.index = IndexOf(id) /\ new.key = old.key /\ new.others # {}
  BY <1>8 DEF AnException
<1> HIDE DEF new
<1>10. IsOf(new, id)
  BY <1>5, <1>6, <1>9 DEF IsOf
<1>11. IsUpdate(tt, train.exceptions, new, id)
  BY <1>2, <1>3, <1>8, <1>9, <1>10, Updating DEF k
<1> HIDE DEF tt
<1>12. Replaces(tt, train.exceptions, id) /\ tt \in Seq(AnException)
  BY <1>10, <1>11, UpdateReplaces DEF Replaces
<1>13. item \in Train /\ item.exceptions = tt /\ item.pace = train.pace /\ Agrees(item, train)
  BY <1>4, <1>12, SentItem
<1> HIDE DEF item
<1>14. keys' \in Nat /\ keys <= keys' /\ new.key <= keys' /\ (k = 0 => new.key = keys + 1)
  <2>1. k # 0 => new.key <= keys
    BY <1>3, <1>7, <1>8, <1>9, SoundKnown DEF Fits
  <2> QED
    BY <1>2, <1>5, <1>8, <1>9, <2>1
<1>15. Fits(new, train.pace, keys')
  BY <1>4, <1>5, <1>6, <1>9, <1>14 DEF Fits
<1>16. \A j \in DOMAIN tt : IsOf(tt[j], id) => tt[j] = new
  BY <1>11, OnlyNew
<1>17. Sound(item, keys')
  <2>1. FitsFor(tt, id, train.pace, keys')
    BY <1>15, <1>16 DEF FitsFor
  <2> QED
    BY <1>2, <1>3, <1>12, <1>13, <1>14, <2>1, ReplacedSound
<1>18. \A d \in DOMAIN drafts : ~Holds(item, drafts[d].key)
  <2> SUFFICES ASSUME NEW d \in DOMAIN drafts PROVE ~Holds(item, drafts[d].key)
    OBVIOUS
  <2>1. drafts[d].key <= keys /\ ~Holds(shown, drafts[d].key) /\ drafts[d] \in Draft
    BY DEF ExceptionInv, DraftsSound
  <2>2. drafts[d].key \in Nat
    BY <2>1 DEF Draft
  <2>3. new.key # drafts[d].key
    <3>1. CASE k = 0
      BY <1>2, <1>14, <2>1, <2>2, <3>1
    <3>2. CASE k # 0
      BY <1>3, <1>7, <1>8, <1>9, <2>1, <3>2 DEF Holds, IsDetailed, Alike
    <3> QED
      BY <3>1, <3>2
  <2>4. Avoids(tt, id, drafts[d].key)
    BY <1>16, <2>3 DEF Avoids
  <2> QED
    BY <1>3, <1>12, <1>13, <2>1, <2>4, ReplacedKeys
<1>19. \A other \in OccurrencesIds(Base) \ {id} : Spared(item, Base, other)
  <2>1. Base = shown
    BY <1>5 DEF Base
  <2> QED
    BY <1>2, <1>3, <1>12, <1>13, <2>1, ReplacedSpares
<1> QED
  BY <1>5, <1>14, <1>17, <1>18, <1>19, StoreGood

LEMMA FieldSet ==
  ASSUME NEW h \in [Fields -> Int], NEW f \in Fields, NEW v \in Int
  PROVE  [h EXCEPT ![f] = v] \in [Fields -> Int]
<1>1. [h EXCEPT ![f] = v] = [g \in Fields |-> IF g = f THEN v ELSE h[g]]
  OBVIOUS
<1>2. \A g \in Fields : (IF g = f THEN v ELSE h[g]) \in Int
  OBVIOUS
<1> QED
  BY <1>1, <1>2, Zenon

LEMMA EditedType ==
  ASSUME NEW h \in [Fields -> Int]
  PROVE  Edited(h) \subseteq [Fields -> Int]
<1> SUFFICES ASSUME NEW w \in Edited(h) PROVE w \in [Fields -> Int]
  OBVIOUS
<1>1. \E f \in Fields, v \in Int : w = [h EXCEPT ![f] = v]
  <2>1. CASE \E g \in Groups \cup {"power_restrictions"}, v \in Values : w = [h EXCEPT ![g] = v]
    BY <2>1, FieldsKnown, PacedAssumption
  <2>2. CASE \E t \in Times : w = [h EXCEPT !["start_time"] = t]
    BY <2>2, FieldsKnown, PacedAssumption
  <2>3. CASE \E n \in Names : w = [h EXCEPT !["train_name"] = n]
    BY <2>3, FieldsKnown, PacedAssumption
  <2> QED
    BY <2>1, <2>2, <2>3 DEF Edited
<1>2. PICK f \in Fields, v \in Int : w = [h EXCEPT ![f] = v]
  BY <1>1
<1> QED
  BY <1>2, FieldSet

LEMMA ExtractType ==
  ASSUME NEW t \in Train, Distinct(t.exceptions), NEW id, IndexOf(id) \in Int
  PROVE  ExtractOccurrence(t, id) \in [Fields -> Int]
<1>1. \A g \in Fields : Default(t, IndexOf(id))[g] \in Int
  BY DefaultType
<1>2. \A g \in Fields : ExtractOccurrence(t, id)[g] \in Int
  <2>1. CASE \E k \in DOMAIN t.exceptions : IsOf(t.exceptions[k], id)
    <3>1. PICK k \in DOMAIN t.exceptions : IsOf(t.exceptions[k], id)
      BY <2>1
    <3>2. PICK h \in Grouping : h = t.exceptions[k].groups
      BY TrainFields, ExceptionFields
    <3>3. \A g \in DOMAIN h : h[g] \in Int
      BY GroupingKnown
    <3>4. \A g \in Fields : ExtractOccurrence(t, id)[g] =
             IF g \in DOMAIN h THEN h[g] ELSE Default(t, IndexOf(id))[g]
      BY <3>1, <3>2, ExtractChanged
    <3> QED
      BY <1>1, <3>3, <3>4
  <2>2. CASE \A k \in DOMAIN t.exceptions : ~IsOf(t.exceptions[k], id)
    BY <1>1, <2>2, ExtractPlain
  <2> QED
    BY <2>1, <2>2
<1>3. ExtractOccurrence(t, id) = [g \in Fields |-> ExtractOccurrence(t, id)[g]]
  BY DEF ExtractOccurrence
<1> QED
  BY <1>2, <1>3, Zenon

\* What generateExceptionFromOccurrence makes of an occurrence.
LEMMA Generated ==
  ASSUME NEW occurrence \in [Fields -> Int], NEW original \in Train, NEW i \in Int
  PROVE  LET gs == GenerateException(occurrence, original, i) IN
         /\ gs \in Grouping
         /\ \A g \in DOMAIN gs : gs[g] = occurrence[g]
         /\ \A g \in Fields : g \notin DOMAIN gs =>
              \/ occurrence[g] = Default(original, i)[g]
              \/ Exempt("occurrence", original.fields, occurrence, g)
         /\ i = NoIndex => "start_time" \in DOMAIN gs
<1> DEFINE changed == {g \in Fields : \/ g = "start_time" /\ i = NoIndex
                                      \/ occurrence[g] # Default(original, i)[g]}
           D == Whole(changed)
           gs == [g \in D |-> occurrence[g]]
<1>1. GenerateException(occurrence, original, i) = gs
  BY DEF GenerateException
<1>2. changed \in SUBSET Fields
  OBVIOUS
<1>3. \A g \in Fields : g \notin changed => occurrence[g] = Default(original, i)[g]
  OBVIOUS
<1>4. i = NoIndex => "start_time" \in changed
  BY FieldsKnown
<1> HIDE DEF changed
<1>5. /\ D \in SUBSET Fields /\ Paired(D)
      /\ \A g : g # "power_restrictions" => (g \in D <=> g \in changed)
      /\ "power_restrictions" \in D <=> "path_and_schedule" \in changed
  BY <1>2, WholeKnown
<1> HIDE DEF D
<1>6. \A g \in D : occurrence[g] \in Int
  BY <1>5
<1>7. gs \in [D -> Int] /\ DOMAIN gs = D /\ \A g \in D : gs[g] = occurrence[g]
  BY <1>6
<1>8. gs \in Grouping
  BY <1>5, <1>7, GroupingMade
<1>9. ASSUME NEW g \in Fields, g \notin D
      PROVE  \/ occurrence[g] = Default(original, i)[g]
             \/ Exempt("occurrence", original.fields, occurrence, g)
  <2>1. CASE g # "power_restrictions"
    BY <1>3, <1>5, <1>9, <2>1
  <2>2. CASE g = "power_restrictions"
    <3>1. occurrence["path_and_schedule"] = Default(original, i)["path_and_schedule"]
      BY <1>3, <1>5, <1>9, <2>2, FieldsKnown
    <3>2. Default(original, i)["path_and_schedule"] = original.fields["path_and_schedule"]
      BY DefaultAt, FieldsKnown
    <3> QED
      BY <2>2, <3>1, <3>2 DEF Exempt
  <2> QED
    BY <2>1, <2>2
<1>10. i = NoIndex => "start_time" \in D
  BY <1>4, <1>5
<1> HIDE DEF gs
<1>11. \A g \in DOMAIN gs : gs[g] = occurrence[g]
  BY <1>7
<1>12. \A g \in Fields : g \notin DOMAIN gs =>
         \/ occurrence[g] = Default(original, i)[g]
         \/ Exempt("occurrence", original.fields, occurrence, g)
  BY <1>7, <1>9
<1> QED
  BY <1>1, <1>7, <1>8, <1>10, <1>11, <1>12

LEMMA SelfDetailed == \A t : IsDetailed(t, t)
  BY DEF IsDetailed, Alike

\* The edited occurrence is put back together from its exception and the train.
LEMMA EditedBack ==
  ASSUME NEW item \in Train, NEW original \in Train, item.fields = original.fields, item.pace = original.pace,
         NEW es, NEW e \in AnException, NEW id, IsOf(e, id), IsUpdate(item.exceptions, es, e, id),
         NEW occurrence, NEW kind,
         \A g \in DOMAIN e.groups : e.groups[g] = occurrence[g],
         \A g \in Fields : g \notin DOMAIN e.groups =>
           occurrence[g] = Default(original, IndexOf(id))[g] \/ Exempt(kind, original.fields, occurrence, g)
  PROVE  Sticks(kind, item, id, occurrence)
<1>0. Default(item, IndexOf(id)) = Default(original, IndexOf(id))
  BY DefaultSame
<1>1. CASE Has(e)
  <2>1. PICK j \in DOMAIN item.exceptions : item.exceptions[j] = e
    BY <1>1, Zenon DEF IsUpdate
  <2>2. Distinct(item.exceptions)
    BY Zenon DEF IsUpdate
  <2>3. IsOf(item.exceptions[j], id)
    BY <2>1
  <2>4. \A g \in Fields : ExtractOccurrence(item, id)[g] =
              IF g \in DOMAIN item.exceptions[j].groups THEN item.exceptions[j].groups[g]
              ELSE Default(item, IndexOf(id))[g]
    BY <2>2, <2>3, ExtractChanged
  <2>5. \A g \in Fields : ExtractOccurrence(item, id)[g] =
              IF g \in DOMAIN e.groups THEN e.groups[g] ELSE Default(item, IndexOf(id))[g]
    BY <2>1, <2>4
  <2> QED
    BY <1>0, <2>5 DEF Sticks
<1>2. CASE ~Has(e)
  <2>1. \A j \in DOMAIN item.exceptions : ~IsOf(item.exceptions[j], id)
    BY <1>2, Zenon DEF IsUpdate
  <2>2. \A g \in Fields : ExtractOccurrence(item, id)[g] = Default(item, IndexOf(id))[g]
    BY <2>1, ExtractPlain
  <2>3. DOMAIN e.groups = {}
    BY <1>2 DEF Has
  <2> QED
    BY <1>0, <2>2, <2>3 DEF Sticks
<1> QED
  BY <1>1, <1>2

LEMMA OccurrenceGood ==
  ASSUME ExceptionInv, SubmitOccurrence
  PROVE  StepGood
<1> DEFINE t == form.base
           id == form.id
           i == IndexOf(id)
<1>1. PICK occurrence \in Edited(ExtractOccurrence(t, id)) :
       LET original == Payload(t)
           key == KeyOf(original.exceptions, id)
           new == Exception(key, i, GenerateException(occurrence, original, i))
           item == [original EXCEPT !.exceptions = UpdateExceptionsList(@, new, id)]
       IN /\ StorePacedTrain("occurrence", id, item, occurrence, TrainIdToSelect)
          /\ keys' = IF key > keys THEN key ELSE keys
  BY Zenon DEF SubmitOccurrence
<1>2. form.open /\ id # NoId /\ shown' = shown /\ form' = form /\ drafts' = drafts
  BY DEF SubmitOccurrence
<1>3. keys \in Nat /\ Sound(t, keys) /\ id \in OccurrencesIds(t)
  BY <1>2 DEF ExceptionInv, TrainsSound, FormSound
<1>4. /\ t \in Train /\ t.exceptions \in Seq(AnException) /\ Distinct(t.exceptions)
      /\ Payload(t) \in Train /\ Payload(t).exceptions = t.exceptions /\ Payload(t).pace = t.pace
  BY <1>3, SoundKnown, Paid
<1> DEFINE key == KeyOf(t.exceptions, id)
           k == FindException(t.exceptions, id)
           gs == GenerateException(occurrence, Payload(t), i)
           new == Exception(key, i, gs)
           tt == UpdateExceptionsList(t.exceptions, new, id)
           item == [Payload(t) EXCEPT !.exceptions = tt]
<1>5. /\ StorePacedTrain("occurrence", id, item, occurrence, TrainIdToSelect)
      /\ keys' = IF key > keys THEN key ELSE keys
  BY <1>1, <1>4
<1>6. i \in Int /\ Base = t
  BY <1>2, <1>3, <1>4, IdIndex DEF Base
<1>7. occurrence \in [Fields -> Int]
  BY <1>4, <1>6, ExtractType, EditedType
<1>8. /\ gs \in Grouping
      /\ \A g \in DOMAIN gs : gs[g] = occurrence[g]
      /\ \A g \in Fields : g \notin DOMAIN gs =>
           occurrence[g] = Default(Payload(t), i)[g] \/ Exempt("occurrence", Payload(t).fields, occurrence, g)
      /\ i = NoIndex => "start_time" \in DOMAIN gs
  BY <1>4, <1>6, <1>7, Generated
<1> HIDE DEF gs, i
<1>9. key = IF k = 0 THEN keys + 1 ELSE t.exceptions[k].key
  BY DEF KeyOf
<1>10. /\ key \in Nat /\ key <= keys + 1
       /\ \A j \in DOMAIN t.exceptions : t.exceptions[j].key = key <=> IsOf(t.exceptions[j], id)
  <2>1. \A j \in DOMAIN t.exceptions : t.exceptions[j].key <= keys
    BY <1>3, SoundKnown DEF Fits
  <2> QED
    BY <1>3, <1>4, <1>9, <2>1, NewKey
<1> HIDE DEF key, k
<1>11. /\ new \in AnException /\ new.key = key /\ new.index = i /\ new.groups = gs
       /\ ~new.disabled /\ new.others = {}
  BY <1>6, <1>8, <1>10, ExceptionMade
<1> HIDE DEF new
<1>12. IsOf(new, id)
  <2>1. CASE i # NoIndex
    <3>1. id = IndexedId(i)
      BY <1>3, <1>4, <2>1, IdIndex DEF i
    <3> QED
      BY <1>11, <2>1, <3>1 DEF IsOf
  <2>2. CASE i = NoIndex
    <3>1. PICK j \in DOMAIN t.exceptions : id = ExceptionId(t.exceptions[j].key) /\ IsOf(t.exceptions[j], id)
      BY <1>3, <1>4, <2>2, IdIndex DEF i
    <3>2. id = ExceptionId(key)
      BY <1>10, <3>1
    <3> QED
      BY <1>11, <2>2, <3>2 DEF IsOf
  <2> QED
    BY <2>1, <2>2
<1>13. IsUpdate(tt, t.exceptions, new, id)
  BY <1>3, <1>9, <1>11, <1>12, Updating DEF k
<1> HIDE DEF tt
<1>14. Replaces(tt, t.exceptions, id) /\ tt \in Seq(AnException)
  BY <1>12, <1>13, UpdateReplaces DEF Replaces
<1>15. /\ item \in Train /\ item.exceptions = tt /\ item.pace = t.pace /\ Agrees(item, t)
       /\ item.fields = Payload(t).fields
  BY <1>4, <1>14, SentItem
<1> HIDE DEF item
<1>16. keys' \in Nat /\ keys <= keys' /\ key <= keys'
  BY <1>3, <1>5, <1>10
<1>17. Fits(new, t.pace, keys')
  <2>1. CASE i # NoIndex
    <3>1. i < getOccurrencesNb(t.pace)
      BY <1>3, <1>4, <2>1, IdIndex DEF i
    <3> QED
      BY <1>11, <1>16, <2>1, <3>1 DEF Fits
  <2>2. CASE i = NoIndex
    BY <1>8, <1>11, <1>16, <2>2 DEF Fits
  <2> QED
    BY <2>1, <2>2
<1>18. Sound(item, keys')
  <2>1. FitsFor(tt, id, t.pace, keys')
    BY <1>13, <1>17, OnlyNew DEF FitsFor
  <2> QED
    BY <1>3, <1>14, <1>15, <1>16, <2>1, ReplacedSound
<1>19. Sticks("occurrence", item, id, occurrence)
  <2>1. /\ \A g \in DOMAIN new.groups : new.groups[g] = occurrence[g]
        /\ \A g \in Fields : g \notin DOMAIN new.groups =>
             \/ occurrence[g] = Default(Payload(t), IndexOf(id))[g]
             \/ Exempt("occurrence", Payload(t).fields, occurrence, g)
    BY <1>8, <1>11 DEF i
  <2> QED
    BY <1>4, <1>11, <1>12, <1>13, <1>15, <2>1, EditedBack
<1>20. \A other \in OccurrencesIds(Base) \ {id} : Spared(item, Base, other)
  BY <1>3, <1>6, <1>14, <1>15, SelfDetailed, ReplacedSpares
<1> QED
  BY <1>2, <1>5, <1>16, <1>18, <1>19, <1>20, StoreGood DEF FormKinds

LEMMA Plain ==
  ASSUME NEW i \in Int
  PROVE  LET e == Exception(0, i, << >>) IN
         /\ e \in AnException /\ e.index = i /\ e.key = 0 /\ DOMAIN e.groups = {} /\ ~Has(e)
<1>1. << >> \in [{} -> Int] /\ DOMAIN << >> = {}
  OBVIOUS
<1>2. << >> \in Grouping
  BY <1>1, GroupingMade, PairedPlain
<1>3. PICK e : e = Exception(0, i, << >>)
  OBVIOUS
<1>4. e \in AnException /\ e.key = 0 /\ e.index = i /\ e.groups = << >> /\ ~e.disabled /\ e.others = {}
  BY <1>2, <1>3, ExceptionMade
<1>5. DOMAIN e.groups = {} /\ ~Has(e)
  BY <1>1, <1>4 DEF Has
<1> QED
  BY <1>3, <1>4, <1>5

LeavesOut(I, es, id) == \A k \in DOMAIN es : k \in I <=> ~IsOf(es[k], id)

\* Filtering out what is of the occurrence is an update with nothing.
LEMMA Dropped ==
  ASSUME NEW es \in Seq(AnException), Distinct(es), NEW I, I \subseteq DOMAIN es, NEW id,
         LeavesOut(I, es, id), NEW e, ~Has(e)
  PROVE  IsUpdate(Kept(es, I), es, e, id)
<1> DEFINE tt == Kept(es, I)
<1>1. tt \in Seq(AnException) /\ IsPick(tt, es, I)
  BY KeptPicks
<1> HIDE DEF tt
<1>2. /\ Distinct(tt)
      /\ \A j \in DOMAIN tt : \E i \in I : tt[j] = es[i]
      /\ \A i \in I : \E j \in DOMAIN tt : tt[j] = es[i]
  BY <1>1, PickedList
<1>3. \A j \in DOMAIN tt : \E k \in DOMAIN es : tt[j] = es[k] /\ ~IsOf(es[k], id)
  BY <1>2 DEF LeavesOut
<1>4. \A k \in DOMAIN es : ~IsOf(es[k], id) => \E j \in DOMAIN tt : tt[j] = es[k]
  BY <1>2 DEF LeavesOut
<1>5. IsUpdate(tt, es, e, id)
  BY <1>1, <1>2, <1>3, <1>4, Zenon DEF IsUpdate
<1> QED
  BY <1>5 DEF tt

\* What is left of an exception that is reset.
IsReset(e, old, id, pace, n) ==
  /\ IndexOf(id) # NoIndex => ~Has(e) /\ DOMAIN e.groups = {}
  /\ IndexOf(id) = NoIndex => /\ e.key = old.key /\ Fits(e, pace, n)
                              /\ DOMAIN e.groups = {"start_time"}
                              /\ e.groups["start_time"] = old.groups["start_time"]

\* resetOccurrenceExceptions, on an occurrence that has an exception.
LEMMA ResetList ==
  ASSUME NEW t, NEW n \in Nat, Sound(t, n), NEW id, NEW k \in DOMAIN t.exceptions, IsOf(t.exceptions[k], id)
  PROVE  \E e \in AnException :
           /\ IsUpdate(ResetExceptions(t.exceptions, id), t.exceptions, e, id)
           /\ IsOf(e, id)
           /\ IsReset(e, t.exceptions[k], id, t.pace, n)
<1> DEFINE es == t.exceptions
           old == es[k]
<1>1. /\ es \in Seq(AnException) /\ Distinct(es) /\ FindException(es, id) = k /\ k # 0
      /\ old \in AnException /\ Fits(old, t.pace, n)
  BY SoundKnown, FoundIt
<1>2. IndexOf(id) = old.index
  BY IdsDiffer DEF IsOf
<1>3. old.key \in Nat /\ old.index \in Int /\ old.groups \in Grouping
  BY <1>1, ExceptionFields
<1>4. CASE old.index # NoIndex
  <2> DEFINE I == {j \in DOMAIN es : es[j].index # old.index}
             e == Exception(0, old.index, << >>)
  <2>1. ResetExceptions(es, id) = Kept(es, I)
    BY <1>1, <1>4 DEF ResetExceptions
  <2>2. e \in AnException /\ e.index = old.index /\ DOMAIN e.groups = {} /\ ~Has(e)
    BY <1>3, Plain
  <2> HIDE DEF e
  <2>3. IsOf(e, id)
    BY <1>4, <2>2 DEF IsOf
  <2>4. \A j \in DOMAIN es : es[j].index # old.index <=> ~IsOf(es[j], id)
    <3> SUFFICES ASSUME NEW j \in DOMAIN es PROVE es[j].index # old.index <=> ~IsOf(es[j], id)
      OBVIOUS
    <3>1. j = k => es[j].index = old.index /\ IsOf(es[j], id)
      OBVIOUS
    <3>2. j # k => es[j].index # old.index
      BY <1>4 DEF Distinct, Sound
    <3>3. j # k => ~IsOf(es[j], id)
      BY <1>1, IsOfOne
    <3> QED
      BY <3>1, <3>2, <3>3
  <2>5. I \subseteq DOMAIN es /\ LeavesOut(I, es, id)
    BY <2>4 DEF LeavesOut
  <2> HIDE DEF I
  <2>6. IsUpdate(Kept(es, I), es, e, id)
    BY <1>1, <2>2, <2>5, Dropped
  <2> QED
    BY <1>2, <1>4, <2>1, <2>2, <2>3, <2>6 DEF IsReset
<1>5. CASE old.index = NoIndex
  <2> DEFINE gs == [g \in {"start_time"} |-> old.groups[g]]
             e == Exception(old.key, NoIndex, gs)
  <2>1. ResetExceptions(es, id) = [es EXCEPT ![k] = e]
    BY <1>1, <1>5 DEF ResetExceptions
  <2>2. "start_time" \in DOMAIN old.groups
    BY <1>1, <1>5 DEF Fits
  <2>3. old.groups["start_time"] \in Int
    BY <1>3, <2>2, GroupingKnown
  <2>4. gs \in [{"start_time"} -> Int] /\ gs["start_time"] = old.groups["start_time"] /\ DOMAIN gs = {"start_time"}
    BY <2>3
  <2> HIDE DEF gs
  <2>5. gs \in Grouping
    BY <2>4, GroupingMade, PairedPlain, FieldsKnown
  <2>6. NoIndex \in Int
    BY DEF NoIndex
  <2>7. /\ e \in AnException /\ e.key = old.key /\ e.index = NoIndex /\ e.groups = gs
        /\ ~e.disabled /\ e.others = {}
    BY <1>3, <2>5, <2>6, ExceptionMade
  <2> HIDE DEF e
  <2>8. IsOf(e, id) /\ Has(e) /\ Fits(e, t.pace, n)
    BY <1>1, <1>5, <2>4, <2>7 DEF IsOf, Has, Fits
  <2>9. IsUpdate(UpdateExceptionsList(es, e, id), es, e, id)
    BY <1>1, <2>7, <2>8, Updating
  <2>10. UpdateExceptionsList(es, e, id) = [es EXCEPT ![k] = e]
    BY <1>1, <2>8 DEF UpdateExceptionsList, Has
  <2>11. IsUpdate(ResetExceptions(es, id), es, e, id)
    BY <2>1, <2>9, <2>10
  <2> QED
    BY <1>2, <1>5, <2>4, <2>7, <2>8, <2>11 DEF IsReset
<1> QED
  BY <1>4, <1>5

LEMMA ResetGood ==
  ASSUME ExceptionInv, NEW id \in OccurrencesIds(shown), ResetOccurrenceExceptions(id)
  PROVE  StepGood
<1>1. PICK simulated \in BOOLEAN :
        LET train == WithDetails(shown, simulated)
            k == FindException(train.exceptions, id)
            item == [Payload(train) EXCEPT !.exceptions = ResetExceptions(@, id)]
            start == IF IndexOf(id) = NoIndex
                     THEN train.exceptions[k].groups["start_time"]
                     ELSE Default(shown, IndexOf(id))["start_time"]
        IN /\ ~ form.open /\ OffersRestore(id)
           /\ StorePacedTrain("reset", id, item,
                [Default(shown, IndexOf(id)) EXCEPT !["start_time"] = start], NoId)
           /\ UNCHANGED <<shown, form, drafts, keys>>
  BY Zenon DEF ResetOccurrenceExceptions
<1> DEFINE train == WithDetails(shown, simulated)
           k == FindException(train.exceptions, id)
           tt == ResetExceptions(train.exceptions, id)
           item == [Payload(train) EXCEPT !.exceptions = tt]
           start == IF IndexOf(id) = NoIndex
                    THEN train.exceptions[k].groups["start_time"]
                    ELSE Default(shown, IndexOf(id))["start_time"]
           want == [Default(shown, IndexOf(id)) EXCEPT !["start_time"] = start]
<1>2. keys \in Nat /\ Sound(shown, keys)
  BY DEF ExceptionInv, TrainsSound
<1>3. Sound(train, keys) /\ IsDetailed(train, shown)
  BY <1>2, Details
<1>4. /\ shown \in Train /\ train \in Train /\ train.exceptions \in Seq(AnException) /\ train.pace = shown.pace
      /\ Payload(train).exceptions = train.exceptions /\ shown.exceptions \in Seq(AnException)
  BY <1>2, <1>3, SoundKnown, Paid DEF IsDetailed
<1>5. /\ ~ form.open /\ OffersRestore(id)
      /\ StorePacedTrain("reset", id, item, want, NoId)
      /\ shown' = shown /\ form' = form /\ drafts' = drafts /\ keys' = keys
  BY <1>1, <1>4
<1>6. k \in DOMAIN train.exceptions /\ IsOf(train.exceptions[k], id)
  <2>1. FindException(shown.exceptions, id) # 0
    BY <1>5 DEF OffersRestore
  <2>2. PICK j \in DOMAIN shown.exceptions : IsOf(shown.exceptions[j], id)
    BY <1>4, <2>1, Found
  <2>3. j \in DOMAIN train.exceptions /\ IsOf(train.exceptions[j], id)
    BY <1>3, <2>2, IsOfAlike DEF IsDetailed
  <2> QED
    BY <1>3, <2>3, SoundKnown, FoundIt
<1> HIDE DEF train, k
<1>7. PICK e \in AnException :
           /\ IsUpdate(tt, train.exceptions, e, id)
           /\ IsOf(e, id)
           /\ IsReset(e, train.exceptions[k], id, train.pace, keys)
  BY <1>2, <1>3, <1>6, ResetList
<1> HIDE DEF tt
<1>8. Replaces(tt, train.exceptions, id) /\ tt \in Seq(AnException)
  BY <1>7, UpdateReplaces DEF Replaces
<1>9. item \in Train /\ item.exceptions = tt /\ item.pace = train.pace /\ Agrees(item, train)
  BY <1>4, <1>8, SentItem
<1> HIDE DEF item, start
<1>10. \A j \in DOMAIN tt : IsOf(tt[j], id) => tt[j] = e /\ Has(e)
  BY <1>7, Zenon DEF IsUpdate
<1>11. FitsFor(tt, id, train.pace, keys) /\ keys <= keys
  BY <1>2, <1>7, <1>10 DEF FitsFor, IsReset
<1>12. Sound(item, keys)
  BY <1>2, <1>3, <1>8, <1>9, <1>11, ReplacedSound
<1>13. \A d \in DOMAIN drafts : ~Holds(item, drafts[d].key)
  <2> SUFFICES ASSUME NEW d \in DOMAIN drafts PROVE ~Holds(item, drafts[d].key)
    OBVIOUS
  <2>1. ~Holds(shown, drafts[d].key)
    BY DEF ExceptionInv, DraftsSound
  <2>2. train.exceptions[k].key # drafts[d].key
    BY <1>3, <1>6, <2>1 DEF Holds, IsDetailed, Alike
  <2>3. Avoids(tt, id, drafts[d].key)
    BY <1>7, <1>10, <2>2 DEF Avoids, IsReset
  <2> QED
    BY <1>3, <1>8, <1>9, <2>1, <2>3, ReplacedKeys
<1>14. Sticks("reset", item, id, want)
  <2>1. \A g \in Fields : want[g] = IF g = "start_time" THEN start ELSE Default(shown, IndexOf(id))[g]
    <3>1. PICK h : h = Default(shown, IndexOf(id))
      OBVIOUS
    <3>2. DOMAIN h = Fields
      BY <1>4, <3>1, TrainFields DEF Default
    <3>3. want = [h EXCEPT !["start_time"] = start]
      BY <3>1
    <3>4. \A g \in Fields : [h EXCEPT !["start_time"] = start][g] = IF g = "start_time" THEN start ELSE h[g]
      BY <3>2
    <3> QED
      BY <3>1, <3>3, <3>4
  <2> HIDE DEF want
  <2>2. want["rolling_stock"] = shown.fields["rolling_stock"]
    <3>1. Default(shown, IndexOf(id))["rolling_stock"] = shown.fields["rolling_stock"]
      BY <1>4, DefaultAt, FieldsKnown
    <3> QED
      BY <2>1, <3>1, FieldsKnown
  <2>3. Lost(want) = Lost(train.fields) /\ "start_time" \notin Lost(want)
    BY <1>3, <2>2 DEF Lost, IsDetailed
  <2>4. \A g \in Fields \ Lost(want) : Default(item, IndexOf(id))[g] = Default(shown, IndexOf(id))[g]
    <3>1. Default(train, IndexOf(id)) = Default(shown, IndexOf(id))
      BY <1>3, <1>4, DefaultSame DEF IsDetailed
    <3> QED
      BY <1>4, <1>9, <2>3, <3>1, DefaultAgrees
  <2>5. \A g \in DOMAIN e.groups : e.groups[g] = want[g]
    <3>1. CASE IndexOf(id) # NoIndex
      BY <1>7, <3>1 DEF IsReset
    <3>2. CASE IndexOf(id) = NoIndex
      <4>1. start = train.exceptions[k].groups["start_time"]
        BY <3>2 DEF start
      <4>2. want["start_time"] = start
        BY <2>1, FieldsKnown
      <4> QED
        BY <1>7, <3>2, <4>1, <4>2 DEF IsReset
    <3> QED
      BY <3>1, <3>2
  <2>6. \A g \in Fields : g \notin DOMAIN e.groups => want[g] = Default(shown, IndexOf(id))[g]
    <3>1. CASE IndexOf(id) # NoIndex
      <4>1. start = Default(shown, IndexOf(id))["start_time"]
        BY <3>1 DEF start
      <4> QED
        BY <2>1, <4>1
    <3>2. CASE IndexOf(id) = NoIndex
      BY <1>7, <2>1, <3>2 DEF IsReset
    <3> QED
      BY <3>1, <3>2
  <2>7. \A g \in Fields : g \notin DOMAIN e.groups =>
          want[g] = Default(item, IndexOf(id))[g] \/ Exempt("reset", item.fields, want, g)
    BY <2>4, <2>6 DEF Exempt
  <2>8. IsUpdate(item.exceptions, train.exceptions, e, id)
    BY <1>7, <1>9
  <2> QED
    BY <1>7, <1>9, <2>5, <2>7, <2>8, EditedBack
<1>15. \A other \in OccurrencesIds(Base) \ {id} : Spared(item, Base, other)
  <2>1. Base = shown
    BY <1>5 DEF Base
  <2> QED
    BY <1>2, <1>3, <1>8, <1>9, <2>1, ReplacedSpares
<1> HIDE DEF want
<1>16. keys' \in Nat /\ keys <= keys' /\ Sound(item, keys')
  BY <1>2, <1>5, <1>12
<1> QED
  BY <1>5, <1>13, <1>14, <1>15, <1>16, StoreGood

LEMMA DeleteGood ==
  ASSUME ExceptionInv, NEW id \in OccurrencesIds(shown), DeleteAddedException(id)
  PROVE  StepGood
<1>1. PICK simulated \in BOOLEAN :
        LET train == WithDetails(shown, simulated)
            item == [Payload(train) EXCEPT !.exceptions = WithoutAdded(@, id)]
        IN /\ ~ form.open /\ IndexOf(id) = NoIndex
           /\ StorePacedTrain("delete", id, item, << >>, NoId)
           /\ UNCHANGED <<shown, form, drafts, keys>>
  BY Zenon DEF DeleteAddedException
<1> DEFINE train == WithDetails(shown, simulated)
           es == train.exceptions
           I == {k \in DOMAIN es : ExceptionId(es[k].key) # id}
           tt == Kept(es, I)
           item == [Payload(train) EXCEPT !.exceptions = tt]
           e == Exception(0, 0, << >>)
<1>2. keys \in Nat /\ Sound(shown, keys)
  BY DEF ExceptionInv, TrainsSound
<1>3. Sound(train, keys) /\ IsDetailed(train, shown)
  BY <1>2, Details
<1>4. /\ shown \in Train /\ train \in Train /\ es \in Seq(AnException) /\ Distinct(es)
      /\ Payload(train).exceptions = es
  BY <1>2, <1>3, SoundKnown, Paid
<1>5. /\ ~ form.open /\ IndexOf(id) = NoIndex
      /\ StorePacedTrain("delete", id, item, << >>, NoId)
      /\ shown' = shown /\ form' = form /\ drafts' = drafts /\ keys' = keys
  BY <1>1, <1>4 DEF WithoutAdded
<1>6. PICK n \in DOMAIN es : IsOf(es[n], id) /\ id = ExceptionId(es[n].key)
  <2>1. PICK n \in DOMAIN shown.exceptions :
          IsOf(shown.exceptions[n], id) /\ id = ExceptionId(shown.exceptions[n].key)
    BY <1>4, <1>5, IdIndex
  <2> QED
    BY <1>3, <2>1, IsOfAlike DEF IsDetailed, Alike
<1> HIDE DEF train, es
<1>7. LeavesOut(I, es, id) /\ I \subseteq DOMAIN es
  <2>1. \A j \in DOMAIN es : ExceptionId(es[j].key) = id <=> j = n
    BY <1>4, <1>6, IdsDiffer DEF Distinct
  <2>2. \A j \in DOMAIN es : IsOf(es[j], id) <=> j = n
    BY <1>4, <1>6, IsOfOne
  <2> QED
    BY <2>1, <2>2 DEF LeavesOut
<1>8. ~Has(e)
  BY Plain
<1> HIDE DEF e, I
<1>9. IsUpdate(tt, es, e, id)
  BY <1>4, <1>7, <1>8, Dropped
<1> HIDE DEF tt
<1>10. Replaces(tt, es, id) /\ tt \in Seq(AnException)
  BY <1>8, <1>9, UpdateReplaces DEF Replaces
<1>11. \A j \in DOMAIN tt : ~IsOf(tt[j], id)
  BY <1>8, <1>9, Zenon DEF IsUpdate
<1>12. item \in Train /\ item.exceptions = tt /\ item.pace = train.pace /\ Agrees(item, train)
  BY <1>4, <1>10, SentItem
<1> HIDE DEF item
<1>13. Sound(item, keys)
  <2>1. FitsFor(tt, id, train.pace, keys) /\ keys <= keys
    BY <1>2, <1>11 DEF FitsFor
  <2> QED
    BY <1>2, <1>3, <1>10, <1>12, <2>1, ReplacedSound DEF es
<1>14. \A d \in DOMAIN drafts : ~Holds(item, drafts[d].key)
  <2> SUFFICES ASSUME NEW d \in DOMAIN drafts PROVE ~Holds(item, drafts[d].key)
    OBVIOUS
  <2>1. ~Holds(shown, drafts[d].key) /\ Avoids(tt, id, drafts[d].key)
    BY <1>11 DEF ExceptionInv, DraftsSound, Avoids
  <2> QED
    BY <1>3, <1>10, <1>12, <2>1, ReplacedKeys DEF es
<1>15. \A other \in OccurrencesIds(Base) \ {id} : Spared(item, Base, other)
  <2>1. Base = shown
    BY <1>5 DEF Base
  <2> QED
    BY <1>2, <1>3, <1>10, <1>12, <2>1, ReplacedSpares DEF es
<1>16. keys' \in Nat /\ keys <= keys' /\ Sound(item, keys')
  BY <1>2, <1>5, <1>13
<1> QED
  BY <1>5, <1>14, <1>15, <1>16, StoreGood

LEMMA NoExceptions ==
  ASSUME NEW t \in Train, t.exceptions = << >>, NEW n
  PROVE  Sound(t, n) /\ \A key : ~Holds(t, key)
  BY DEF Sound, Distinct, Holds

LEMMA ClearGood ==
  ASSUME ExceptionInv, DeleteExceptions
  PROVE  StepGood
<1> DEFINE item == [Payload(shown) EXCEPT !.exceptions = << >>]
<1>1. /\ StorePacedTrain("clear", NoId, item, << >>, NoId)
      /\ shown' = shown /\ form' = form /\ drafts' = drafts /\ keys' = keys
  BY DEF DeleteExceptions
<1>2. keys \in Nat /\ shown \in Train
  BY SoundKnown DEF ExceptionInv, TrainsSound
<1>3. item \in Train /\ item.exceptions = << >>
  <2>1. << >> \in Seq(AnException)
    OBVIOUS
  <2> QED
    BY <1>2, <2>1, SentItem
<1> HIDE DEF item
<1>4. Sound(item, keys) /\ \A k \in DOMAIN drafts : ~Holds(item, drafts[k].key)
  BY <1>3, NoExceptions
<1>5. keys' \in Nat /\ keys <= keys' /\ Sound(item, keys')
  BY <1>1, <1>2, <1>4
<1>6. ExceptionInv'
  BY <1>1, <1>4, <1>5, StoreKeeps
<1>7. \A p \in puts' \ puts : p.kind = "clear"
  BY <1>1, PutIs
<1> QED
  BY <1>6, <1>7 DEF StepGood, OthersSpared, ExceptionsKept

-----------------------------------------------------------------------------
(* An edit of the whole train.                                             *)

SaysSame(t, e, g) ==
  e.groups[g] = Default(t, e.index)[g] /\ (g \in {"start_time", "train_name"} => e.index # NoIndex)
Left(t, e) == Whole({g \in DOMAIN e.groups : ~ SaysSame(t, e, g)})
Worth(e) == DOMAIN e.groups # {} \/ e.others # {}

\* c is e without the groups that say what the train says.
IsCleaned(c, t, e) ==
  /\ c \in AnException /\ c.key = e.key /\ c.index = e.index /\ c.disabled = e.disabled
  /\ c.others = e.others /\ DOMAIN c.groups = Left(t, e) /\ \A g \in Left(t, e) : c.groups[g] = e.groups[g]

\* A dropped group says what the train says, but for the power restrictions of a
\* path that does.
LEMMA LeftKnown ==
  ASSUME NEW t, NEW e \in AnException
  PROVE  /\ Left(t, e) \subseteq DOMAIN e.groups /\ Paired(Left(t, e))
         /\ \A g \in DOMAIN e.groups : g # "power_restrictions" => (g \in Left(t, e) <=> ~SaysSame(t, e, g))
         /\ "power_restrictions" \in DOMAIN e.groups /\ "power_restrictions" \notin Left(t, e)
              => /\ "path_and_schedule" \in DOMAIN e.groups
                 /\ SaysSame(t, e, "path_and_schedule")
<1> DEFINE S == {g \in DOMAIN e.groups : ~ SaysSame(t, e, g)}
<1>1. PICK D : D = DOMAIN e.groups /\ D \in SUBSET Fields /\ Paired(D)
  BY ExceptionFields, GroupingKnown
<1>2. S \subseteq D /\ S \in SUBSET Fields /\ \A g \in D : g \in S <=> ~SaysSame(t, e, g)
  BY <1>1
<1>3. Left(t, e) = Whole(S)
  BY DEF Left
<1> HIDE DEF S
<1>4. /\ Paired(Whole(S)) /\ Whole(S) \in SUBSET Fields
      /\ \A g : g # "power_restrictions" => (g \in Whole(S) <=> g \in S)
      /\ "power_restrictions" \in Whole(S) <=> "path_and_schedule" \in S
  BY <1>2, WholeKnown
<1>5. Whole(S) \subseteq D
  BY <1>1, <1>2, <1>4 DEF Paired
<1>6. "power_restrictions" \in D /\ "power_restrictions" \notin Whole(S)
        => "path_and_schedule" \in D /\ SaysSame(t, e, "path_and_schedule")
  BY <1>1, <1>2, <1>4 DEF Paired
<1> QED
  BY <1>1, <1>2, <1>3, <1>4, <1>5, <1>6

LEMMA Cleaned ==
  ASSUME NEW t, NEW e \in AnException
  PROVE  IsCleaned([e EXCEPT !.groups = [g \in Left(t, e) |-> @[g]]], t, e)
<1> DEFINE gs == [g \in Left(t, e) |-> e.groups[g]]
           c == [e EXCEPT !.groups = gs]
<1>1. e.groups \in Grouping
  BY ExceptionFields
<1>2. PICK h \in Grouping : h = e.groups
  BY <1>1
<1>3. Left(t, e) \subseteq DOMAIN h /\ DOMAIN h \in SUBSET Fields /\ \A g \in DOMAIN h : h[g] \in Int
  BY <1>2, GroupingKnown, LeftKnown
<1>4. Left(t, e) \in SUBSET Fields /\ Paired(Left(t, e)) /\ \A g \in Left(t, e) : e.groups[g] \in Int
  BY <1>2, <1>3, LeftKnown
<1>5. gs \in [Left(t, e) -> Int] /\ DOMAIN gs = Left(t, e) /\ \A g \in Left(t, e) : gs[g] = e.groups[g]
  BY <1>4
<1>6. gs \in Grouping
  BY <1>4, <1>5, GroupingMade
<1> HIDE DEF gs
<1>7. c \in AnException /\ c.groups = gs /\ c.key = e.key /\ c.index = e.index
      /\ c.disabled = e.disabled /\ c.others = e.others
  BY <1>6 DEF AnException
<1> HIDE DEF c
<1>8. IsCleaned(c, t, e)
  BY <1>5, <1>7 DEF IsCleaned
<1> QED
  BY <1>8 DEF c, gs

\* tt has the cleaned exceptions that are worth keeping.
IsChecked(tt, t, es) ==
  /\ \A j \in DOMAIN tt : Worth(tt[j]) /\ \E k \in DOMAIN es : IsCleaned(tt[j], t, es[k])
  /\ \A k \in DOMAIN es : \/ \E j \in DOMAIN tt : IsCleaned(tt[j], t, es[k])
                          \/ Left(t, es[k]) = {} /\ es[k].others = {}

LEMMA Checked ==
  ASSUME NEW t, NEW es \in Seq(AnException), Distinct(es)
  PROVE  LET tt == CheckChangeGroups(t, es) IN
         tt \in Seq(AnException) /\ Distinct(tt) /\ IsChecked(tt, t, es)
<1> DEFINE cs == [k \in DOMAIN es |-> [es[k] EXCEPT !.groups = [g \in Left(t, es[k]) |-> @[g]]]]
           I == {k \in DOMAIN cs : DOMAIN cs[k].groups # {} \/ cs[k].others # {}}
           tt == Kept(cs, I)
<1>1. CheckChangeGroups(t, es) = tt
  BY Zenon DEF CheckChangeGroups, Left, SaysSame
<1>2. DOMAIN cs = DOMAIN es /\ \A k \in DOMAIN es : IsCleaned(cs[k], t, es[k])
  BY Cleaned
<1>3. cs = [k \in DOMAIN es |-> cs[k]] /\ Len(es) \in Nat /\ DOMAIN es = 1..Len(es)
  OBVIOUS
<1>4. I \subseteq DOMAIN cs /\ \A k \in DOMAIN cs : k \in I <=> Worth(cs[k])
  BY DEF Worth
<1> HIDE DEF cs, I
<1>5. cs \in Seq(AnException)
  <2>1. \A k \in 1..Len(es) : cs[k] \in AnException
    BY <1>2, <1>3 DEF IsCleaned
  <2>2. cs \in [1..Len(es) -> AnException]
    BY <1>3, <2>1
  <2> QED
    BY <1>3, <2>2
<1>6. Distinct(cs)
  BY <1>2 DEF Distinct, IsCleaned
<1>7. tt \in Seq(AnException) /\ IsPick(tt, cs, I)
  BY <1>4, <1>5, KeptPicks
<1> HIDE DEF tt
<1>8. /\ Distinct(tt)
      /\ \A j \in DOMAIN tt : \E i \in I : tt[j] = cs[i]
      /\ \A i \in I : \E j \in DOMAIN tt : tt[j] = cs[i]
  <2>1. I \subseteq DOMAIN cs
    BY <1>4
  <2> QED
    BY <1>5, <1>6, <1>7, <2>1, PickedList
<1>9. \A j \in DOMAIN tt : Worth(tt[j]) /\ \E k \in DOMAIN es : IsCleaned(tt[j], t, es[k])
  BY <1>2, <1>4, <1>8
<1>10. \A k \in DOMAIN es : \/ \E j \in DOMAIN tt : IsCleaned(tt[j], t, es[k])
                            \/ Left(t, es[k]) = {} /\ es[k].others = {}
  <2> SUFFICES ASSUME NEW k \in DOMAIN es
               PROVE  \/ \E j \in DOMAIN tt : IsCleaned(tt[j], t, es[k])
                      \/ Left(t, es[k]) = {} /\ es[k].others = {}
    OBVIOUS
  <2>1. CASE k \in I
    BY <1>2, <1>8, <2>1
  <2>2. CASE k \notin I
    BY <1>2, <1>4, <2>2 DEF Worth, IsCleaned
  <2> QED
    BY <2>1, <2>2
<1>11. IsChecked(tt, t, es)
  BY <1>9, <1>10, Zenon DEF IsChecked
<1> QED
  BY <1>1, <1>7, <1>8, <1>11

LEMMA CleanedFits ==
  ASSUME NEW t, NEW e \in AnException, NEW pace, NEW n, Fits(e, pace, n), NEW c, IsCleaned(c, t, e)
  PROVE  Fits(c, pace, n)
<1>1. CASE e.index = NoIndex
  <2>1. "start_time" \in DOMAIN e.groups /\ ~SaysSame(t, e, "start_time")
    BY <1>1 DEF Fits, SaysSame
  <2>2. "start_time" \in DOMAIN c.groups
    BY <2>1, LeftKnown DEF IsCleaned
  <2> QED
    BY <1>1, <2>2 DEF Fits, IsCleaned
<1>2. CASE e.index # NoIndex
  BY <1>2 DEF Fits, IsCleaned
<1> QED
  BY <1>1, <1>2

\* The drafts become added exceptions.
IsAdded(u) == /\ DOMAIN u = DOMAIN drafts
              /\ \A k \in DOMAIN drafts : /\ u[k] \in AnException
                                          /\ u[k].key = drafts[k].key /\ u[k].index = NoIndex
                                          /\ Fits(u[k], form.base.pace, keys)

LEMMA AddedOnes ==
  ASSUME ExceptionInv,
         NEW u, u = [k \in DOMAIN drafts |-> Exception(drafts[k].key, NoIndex,
                                                      [g \in {"start_time"} |-> drafts[k].start])]
  PROVE  u \in Seq(AnException) /\ IsAdded(u)
<1>1. /\ drafts \in Seq(Draft) /\ Len(drafts) \in Nat /\ DOMAIN drafts = 1..Len(drafts)
      /\ \A k \in DOMAIN drafts : drafts[k] \in Draft
      /\ \A k \in DOMAIN drafts : drafts[k].key <= keys
  <2>1. drafts \in Seq(Draft)
    BY DEF ExceptionInv, DraftsSound
  <2>2. \A k \in DOMAIN drafts : drafts[k].key <= keys
    BY DEF ExceptionInv, DraftsSound
  <2> QED
    BY <2>1, <2>2
<1>2. \A k \in DOMAIN drafts : u[k] = Exception(drafts[k].key, NoIndex, [g \in {"start_time"} |-> drafts[k].start])
  OBVIOUS
<1>3. ASSUME NEW k \in DOMAIN drafts
      PROVE  /\ u[k] \in AnException /\ u[k].key = drafts[k].key /\ u[k].index = NoIndex
             /\ Fits(u[k], form.base.pace, keys)
  <2> DEFINE gs == [g \in {"start_time"} |-> drafts[k].start]
  <2>1. drafts[k].key \in Nat /\ drafts[k].start \in Int
    BY <1>1 DEF Draft
  <2>2. gs \in [{"start_time"} -> Int] /\ "start_time" \in DOMAIN gs
    BY <2>1
  <2> HIDE DEF gs
  <2>3. gs \in Grouping
    BY <2>2, FieldsKnown, GroupingMade, PairedPlain
  <2>4. NoIndex \in Int
    BY DEF NoIndex
  <2>5. u[k] = Exception(drafts[k].key, NoIndex, gs)
    BY <1>2 DEF gs
  <2>6. /\ u[k] \in AnException /\ u[k].key = drafts[k].key /\ u[k].index = NoIndex
        /\ u[k].groups = gs /\ ~u[k].disabled
    BY <2>1, <2>3, <2>4, <2>5, ExceptionMade
  <2> QED
    BY <1>1, <2>2, <2>6 DEF Fits
<1>4. u \in [1..Len(drafts) -> AnException] /\ DOMAIN u = DOMAIN drafts
  <2>1. u = [k \in 1..Len(drafts) |-> u[k]]
    BY <1>1
  <2>2. \A k \in 1..Len(drafts) : u[k] \in AnException
    BY <1>1, <1>3
  <2> QED
    BY <1>1, <2>1, <2>2
<1>5. u \in Seq(AnException)
  BY <1>1, <1>4
<1> QED
  BY <1>3, <1>4, <1>5 DEF IsAdded

\* w has the elements of u and those of v.
IsJoin(w, u, v) ==
  /\ \A j \in DOMAIN w : (\E a \in DOMAIN u : w[j] = u[a]) \/ (\E b \in DOMAIN v : w[j] = v[b])
  /\ \A a \in DOMAIN u : \E j \in DOMAIN w : w[j] = u[a]

LEMMA Joined ==
  ASSUME NEW u \in Seq(AnException), NEW v \in Seq(AnException), Distinct(u), Distinct(v),
         \A a \in DOMAIN u : \A b \in DOMAIN v : u[a].key # v[b].key,
         \A b \in DOMAIN v : v[b].index = NoIndex
  PROVE  u \o v \in Seq(AnException) /\ Distinct(u \o v) /\ IsJoin(u \o v, u, v)
<1> DEFINE w == u \o v
<1>1. PICK m \in Nat, n \in Nat : m = Len(u) /\ n = Len(v)
  OBVIOUS
<1>2. /\ w \in Seq(AnException) /\ Len(w) = m + n
      /\ \A j \in 1..m : w[j] = u[j]
      /\ \A j \in 1..n : w[m + j] = v[j]
  <2>1. /\ w \in Seq(AnException) /\ Len(w) = Len(u) + Len(v)
        /\ \A j \in 1..Len(u) : w[j] = u[j]
        /\ \A j \in 1..Len(v) : w[Len(u) + j] = v[j]
    BY ConcatProperties
  <2> QED
    BY <1>1, <2>1
<1> HIDE DEF w
<1>3. DOMAIN w = 1..m + n /\ DOMAIN u = 1..m /\ DOMAIN v = 1..n
  BY <1>1, <1>2
<1>4. \A j \in DOMAIN w : \/ j \in DOMAIN u /\ w[j] = u[j]
                          \/ j - m \in DOMAIN v /\ w[j] = v[j - m]
  <2> SUFFICES ASSUME NEW j \in 1..m + n PROVE \/ j \in 1..m /\ w[j] = u[j]
                                               \/ j - m \in 1..n /\ w[j] = v[j - m]
    BY <1>3
  <2>1. CASE j <= m
    BY <1>2, <2>1
  <2>2. CASE j > m
    <3>1. PICK i \in 1..n : j = m + i
      <4>1. j - m \in 1..n /\ j = m + (j - m)
        BY <2>2
      <4> QED
        BY <4>1
    <3>2. w[j] = v[i] /\ j - m = i
      BY <1>2, <3>1
    <3> QED
      BY <3>2
  <2> QED
    BY <2>1, <2>2
<1>5. Distinct(w)
  <2> SUFFICES ASSUME NEW j \in DOMAIN w, NEW k \in DOMAIN w, j # k
               PROVE  w[j].key # w[k].key /\ (w[j].index # w[k].index \/ w[j].index = NoIndex)
    BY DEF Distinct
  <2>1. CASE j \in DOMAIN u /\ w[j] = u[j] /\ k \in DOMAIN u /\ w[k] = u[k]
    BY <2>1 DEF Distinct
  <2>2. CASE j \in DOMAIN u /\ w[j] = u[j] /\ k - m \in DOMAIN v /\ w[k] = v[k - m]
    BY <2>2
  <2>3. CASE j - m \in DOMAIN v /\ w[j] = v[j - m] /\ k \in DOMAIN u /\ w[k] = u[k]
    BY <2>3
  <2>4. CASE j - m \in DOMAIN v /\ w[j] = v[j - m] /\ k - m \in DOMAIN v /\ w[k] = v[k - m]
    <3>1. j - m # k - m
      BY <1>3
    <3> QED
      BY <2>4, <3>1 DEF Distinct
  <2> QED
    BY <1>4, <2>1, <2>2, <2>3, <2>4
<1>6. IsJoin(w, u, v)
  <2>1. \A j \in DOMAIN w : (\E a \in DOMAIN u : w[j] = u[a]) \/ (\E b \in DOMAIN v : w[j] = v[b])
    BY <1>4
  <2>2. \A a \in DOMAIN u : a \in DOMAIN w /\ w[a] = u[a]
    BY <1>2, <1>3
  <2> QED
    BY <2>1, <2>2, Zenon DEF IsJoin
<1> QED
  BY <1>2, <1>5, <1>6 DEF w

\* The item of an edit of the train that keeps its pace.
IsRevision(item, es, tt, u) ==
  /\ item \in Train /\ Distinct(item.exceptions) /\ IsJoin(item.exceptions, tt, u)
  /\ IsChecked(tt, item, es)

LEMMA RevisionSound ==
  ASSUME ExceptionInv, form.open, NEW item, NEW tt, NEW u, IsRevision(item, form.base.exceptions, tt, u),
         IsAdded(u), item.pace = form.base.pace
  PROVE  Sound(item, keys)
<1> DEFINE es == form.base.exceptions
<1>1. Sound(form.base, keys)
  BY DEF ExceptionInv, TrainsSound
<1>2. \A k \in DOMAIN es : es[k] \in AnException /\ Fits(es[k], item.pace, keys)
  BY <1>1, SoundKnown
<1>3. \A j \in DOMAIN tt : Fits(tt[j], item.pace, keys)
  BY <1>2, CleanedFits DEF IsRevision, IsChecked
<1>4. \A j \in DOMAIN u : Fits(u[j], item.pace, keys)
  BY DEF IsAdded
<1>5. \A j \in DOMAIN item.exceptions : Fits(item.exceptions[j], item.pace, keys)
  BY <1>3, <1>4 DEF IsRevision, IsJoin
<1> QED
  BY <1>5 DEF Sound, IsRevision

LEMMA NamedIt ==
  \A e : IsOf(e, NamedBy(e)) /\ IndexOf(NamedBy(e)) = e.index
  BY IdsDiffer DEF IsOf, NamedBy

LEMMA RevisionKeeps ==
  ASSUME ExceptionInv, form.open, NEW item, NEW tt, NEW u, IsRevision(item, form.base.exceptions, tt, u),
         IsAdded(u), NEW k \in DOMAIN form.base.exceptions
  PROVE  Survives(form.base.exceptions[k], item)
<1> DEFINE es == form.base.exceptions
           e == es[k]
           id == NamedBy(e)
<1>1. Sound(form.base, keys)
  BY DEF ExceptionInv, TrainsSound
<1>2. es \in Seq(AnException) /\ Distinct(es) /\ e \in AnException /\ Fits(e, form.base.pace, keys)
  BY <1>1, SoundKnown
<1>3. IsOf(e, id) /\ IndexOf(id) = e.index
  BY NamedIt
<1>4. DOMAIN e.groups \subseteq Fields /\ e.disabled \in BOOLEAN
  BY <1>2, ExceptionFields, GroupingKnown
<1>5. item \in Train /\ Distinct(item.exceptions) /\ IsJoin(item.exceptions, tt, u) /\ IsChecked(tt, item, es)
  BY DEF IsRevision
<1>8. \A g \in DOMAIN e.groups : g \notin Left(item, e) =>
        \/ e.groups[g] = Default(item, e.index)[g]
        \/ g = "power_restrictions" /\ e.groups["path_and_schedule"] = item.fields["path_and_schedule"]
  <2>1. ASSUME NEW g \in DOMAIN e.groups, SaysSame(item, e, g)
        PROVE  e.groups[g] = Default(item, e.index)[g]
    BY <2>1 DEF SaysSame
  <2>2. Default(item, e.index)["path_and_schedule"] = item.fields["path_and_schedule"]
    BY <1>5, DefaultAt, FieldsKnown
  <2> QED
    BY <1>2, <2>1, <2>2, LeftKnown
<1>6. CASE \E j \in DOMAIN tt : IsCleaned(tt[j], item, e)
  <2>1. PICK a \in DOMAIN tt : IsCleaned(tt[a], item, e)
    BY <1>6
  <2>2. PICK j \in DOMAIN item.exceptions : item.exceptions[j] = tt[a]
    BY <1>5 DEF IsJoin
  <2>3. PICK c : c = item.exceptions[j] /\ IsCleaned(c, item, e)
    BY <2>1, <2>2
  <2>4. IsOf(item.exceptions[j], id)
    BY <1>3, <2>3 DEF IsOf, IsCleaned
  <2>5. /\ \A g \in Fields : ExtractOccurrence(item, id)[g] =
             IF g \in DOMAIN c.groups THEN c.groups[g] ELSE Default(item, IndexOf(id))[g]
        /\ IsDisabled(item, id) = c.disabled
    BY <1>5, <2>3, <2>4, ExtractChanged
  <2>6. c.disabled = e.disabled /\ DOMAIN c.groups = Left(item, e)
        /\ \A g \in Left(item, e) : c.groups[g] = e.groups[g]
    BY <2>3 DEF IsCleaned
  <2>7. \A g \in DOMAIN e.groups : \/ ExtractOccurrence(item, id)[g] = e.groups[g]
                                   \/ g = "power_restrictions"
                                      /\ e.groups["path_and_schedule"] = item.fields["path_and_schedule"]
    BY <1>3, <1>4, <1>8, <2>5, <2>6
  <2> QED
    BY <2>5, <2>6, <2>7 DEF Survives
<1>7. CASE ~ \E j \in DOMAIN tt : IsCleaned(tt[j], item, e)
  <2>1. Left(item, e) = {} /\ e.others = {}
    BY <1>5, <1>7, Zenon DEF IsChecked
  <2>2. ~e.disabled
    BY <1>2, <2>1 DEF Fits
  <2>3. \A j \in DOMAIN tt : ~IsOf(tt[j], id)
    <3> SUFFICES ASSUME NEW j \in DOMAIN tt, IsOf(tt[j], id) PROVE FALSE
      OBVIOUS
    <3>1. PICK m \in DOMAIN es : IsCleaned(tt[j], item, es[m])
      BY <1>5, Zenon DEF IsChecked
    <3>2. IsOf(es[m], id)
      BY <3>1 DEF IsOf, IsCleaned
    <3>3. m = k
      BY <1>2, <1>3, <3>2, IsOfOne
    <3> QED
      BY <1>7, <3>1, <3>3
  <2>4. \A j \in DOMAIN u : ~IsOf(u[j], id)
    <3> SUFFICES ASSUME NEW j \in DOMAIN u, IsOf(u[j], id) PROVE FALSE
      OBVIOUS
    <3>1. j \in DOMAIN drafts /\ u[j].key = drafts[j].key /\ u[j].index = NoIndex
      BY DEF IsAdded
    <3>2. id = ExceptionId(drafts[j].key)
      BY <3>1 DEF IsOf
    <3>3. e.index = NoIndex /\ e.key = drafts[j].key
      BY <3>2, IdsDiffer DEF NamedBy
    <3>4. Holds(form.base, drafts[j].key)
      BY <3>3 DEF Holds
    <3> QED
      BY <3>1, <3>4 DEF ExceptionInv, DraftsSound
  <2>5. \A j \in DOMAIN item.exceptions : ~IsOf(item.exceptions[j], id)
    BY <1>5, <2>3, <2>4 DEF IsJoin
  <2>6. ~IsDisabled(item, id) /\ \A g \in Fields : ExtractOccurrence(item, id)[g] = Default(item, IndexOf(id))[g]
    BY <1>5, <2>5, ExtractPlain
  <2>7. \A g \in DOMAIN e.groups : \/ ExtractOccurrence(item, id)[g] = e.groups[g]
                                   \/ g = "power_restrictions"
                                      /\ e.groups["path_and_schedule"] = item.fields["path_and_schedule"]
    BY <1>3, <1>4, <1>8, <2>1, <2>6
  <2>8. IsDisabled(item, id) = e.disabled
    <3>1. IsDisabled(item, id) \in BOOLEAN
      BY DEF IsDisabled
    <3> QED
      BY <1>4, <2>2, <2>6, <3>1
  <2> QED
    BY <2>7, <2>8 DEF Survives
<1> QED
  BY <1>6, <1>7

LEMMA CheckedAgain ==
  ASSUME NEW t \in Train, NEW s \in Train, t.fields = s.fields, t.pace = s.pace, NEW tt, NEW es,
         IsChecked(tt, t, es)
  PROVE  IsChecked(tt, s, es)
<1>1. \A i : Default(t, i) = Default(s, i)
  BY DefaultSame
<1>2. \A e : Left(t, e) = Left(s, e)
  <2> TAKE e
  <2>1. \A g : SaysSame(t, e, g) <=> SaysSame(s, e, g)
    BY <1>1 DEF SaysSame
  <2> QED
    BY <2>1 DEF Left
<1>3. \A c, e : IsCleaned(c, t, e) <=> IsCleaned(c, s, e)
  BY <1>2 DEF IsCleaned
<1> QED
  BY <1>2, <1>3 DEF IsChecked

LEMMA TrainGood ==
  ASSUME ExceptionInv, SubmitPacedTrain
  PROVE  StepGood
<1> DEFINE base == form.base
           added == [k \in DOMAIN drafts |->
                       Exception(drafts[k].key, NoIndex, [g \in {"start_time"} |-> drafts[k].start])]
<1>1. PICK fields \in Edited(base.fields), pace \in Paces :
        LET new == [fields |-> fields, pace |-> pace, exceptions |-> << >>]
            item == [new EXCEPT !.exceptions =
                       IF pace = base.pace THEN CheckChangeGroups(new, base.exceptions) \o added ELSE << >>]
        IN StorePacedTrain("pacedTrain", NoId, item, << >>, TrainIdToSelect)
  BY Zenon DEF SubmitPacedTrain
<1> DEFINE new == [fields |-> fields, pace |-> pace, exceptions |-> << >>]
           tt == CheckChangeGroups(new, base.exceptions)
           xs == IF pace = base.pace THEN tt \o added ELSE << >>
           item == [new EXCEPT !.exceptions = xs]
<1>2. /\ form.open /\ form.id = NoId /\ shown' = shown /\ form' = form /\ drafts' = drafts /\ keys' = keys
      /\ StorePacedTrain("pacedTrain", NoId, item, << >>, TrainIdToSelect)
  BY <1>1 DEF SubmitPacedTrain
<1>3. keys \in Nat /\ Sound(base, keys) /\ Base = base
  BY <1>2 DEF ExceptionInv, TrainsSound, Base
<1>4. base.exceptions \in Seq(AnException) /\ Distinct(base.exceptions) /\ base.fields \in [Fields -> Int]
  BY <1>3, SoundKnown
<1>5. fields \in [Fields -> Int] /\ << >> \in Seq(AnException)
  BY <1>4, EditedType
<1>6. new \in Train /\ new.fields = fields /\ new.pace = pace
  BY <1>5, TrainMade
<1>7. tt \in Seq(AnException) /\ Distinct(tt) /\ IsChecked(tt, new, base.exceptions)
  BY <1>4, Checked
<1>8. added \in Seq(AnException) /\ IsAdded(added)
  BY AddedOnes
<1>9. item = [fields |-> fields, pace |-> pace, exceptions |-> xs]
  <2>1. PICK ys : ys = xs
    OBVIOUS
  <2>2. [new EXCEPT !.exceptions = ys] = [fields |-> fields, pace |-> pace, exceptions |-> ys]
    OBVIOUS
  <2> QED
    BY <2>1, <2>2
<1> HIDE DEF new, tt, added, base
<1>10. /\ tt \o added \in Seq(AnException) /\ Distinct(tt \o added)
       /\ IsJoin(tt \o added, tt, added)
  <2>1. \A a \in DOMAIN tt : \E k \in DOMAIN base.exceptions : tt[a].key = base.exceptions[k].key
    BY <1>7 DEF IsChecked, IsCleaned
  <2>2. \A b \in DOMAIN added : /\ added[b].index = NoIndex /\ added[b].key = drafts[b].key
                                /\ b \in DOMAIN drafts /\ ~Holds(base, drafts[b].key)
    BY <1>2, <1>8 DEF IsAdded, ExceptionInv, DraftsSound, base
  <2>3. \A a \in DOMAIN tt : \A b \in DOMAIN added : tt[a].key # added[b].key
    BY <2>1, <2>2 DEF Holds
  <2>4. \A j, k \in DOMAIN drafts : j # k => drafts[j].key # drafts[k].key
    BY DEF ExceptionInv, DraftsSound
  <2>5. Distinct(added)
    BY <2>2, <2>4 DEF Distinct
  <2> QED
    BY <1>7, <1>8, <2>2, <2>3, <2>5, Joined
<1>11. xs \in Seq(AnException)
  BY <1>5, <1>10
<1> HIDE DEF xs, item
<1>12. item \in Train /\ item.fields = fields /\ item.pace = pace /\ item.exceptions = xs
  <2>1. item \in Train
    BY <1>5, <1>9, <1>11, TrainMade
  <2> QED
    BY <1>9, <2>1
<1>13. Sound(item, keys) /\ (item.pace = Base.pace => \A e \in ToSet(Base.exceptions) : Survives(e, item))
  <2>1. CASE pace = base.pace
    <3>1. xs = tt \o added
      BY <2>1 DEF xs
    <3>2. IsChecked(tt, item, base.exceptions)
      BY <1>6, <1>7, <1>12, CheckedAgain
    <3>3. IsRevision(item, form.base.exceptions, tt, added)
      BY <1>10, <1>12, <3>1, <3>2 DEF IsRevision, base
    <3>4. Sound(item, keys)
      BY <1>2, <1>8, <1>12, <2>1, <3>3, RevisionSound DEF base
    <3>5. \A k \in DOMAIN form.base.exceptions : Survives(form.base.exceptions[k], item)
      BY <1>2, <1>8, <3>3, RevisionKeeps
    <3>6. \A e \in ToSet(Base.exceptions) : Survives(e, item)
      BY <1>3, <3>5 DEF ToSet, base
    <3> QED
      BY <3>4, <3>6
  <2>2. CASE pace # base.pace
    <3>1. xs = << >>
      BY <2>2 DEF xs
    <3>2. Sound(item, keys)
      BY <1>12, <3>1, NoExceptions
    <3> QED
      BY <1>3, <1>12, <2>2, <3>2
  <2> QED
    BY <2>1, <2>2
<1>14. keys' \in Nat /\ keys <= keys' /\ Sound(item, keys')
  BY <1>2, <1>3, <1>13
<1>15. ExceptionInv'
  BY <1>2, <1>14, StoreKeeps DEF FormKinds
<1>16. \A p \in puts' \ puts : p.kind = "pacedTrain" /\ p.item = item
  BY <1>2, PutIs
<1>17. OthersSpared /\ ExceptionsKept
  BY <1>13, <1>16 DEF OthersSpared, ExceptionsKept
<1> QED
  BY <1>15, <1>17 DEF StepGood

-----------------------------------------------------------------------------
(* The form, and the answers.                                              *)

LEMMA OpenGood ==
  ASSUME ExceptionInv, NEW id \in OccurrencesIds(shown) \cup {NoId}, OpenForm(id)
  PROVE  StepGood
<1>1. PICK simulated \in BOOLEAN :
        form' = [open |-> TRUE, base |-> WithDetails(shown, simulated), id |-> id]
  BY DEF OpenForm
<1> DEFINE t == WithDetails(shown, simulated)
<1>2. shown' = shown /\ drafts' = drafts /\ puts' = puts /\ keys' = keys
  BY DEF OpenForm
<1>3. form'.open = TRUE /\ form'.base = t /\ form'.id = id
  BY <1>1
<1>4. Sound(t, keys) /\ IsDetailed(t, shown) /\ Sound(shown, keys)
  BY Details DEF ExceptionInv, TrainsSound
<1> HIDE DEF t
<1>5. TrainsSound'
  BY <1>2, <1>3, <1>4 DEF TrainsSound, ExceptionInv
<1>6. FormSound'
  <2>1. CASE id \in OccurrencesIds(shown)
    <3>1. t \in Train /\ shown \in Train /\ t.pace = shown.pace
      BY <1>4, SoundKnown DEF IsDetailed
    <3>2. id \in OccurrencesIds(t)
      <4>1. CASE \E i \in 0..getOccurrencesNb(shown.pace) - 1 : id = IndexedId(i)
        BY <3>1, <4>1, KnownId
      <4>2. CASE \E k \in DOMAIN shown.exceptions : /\ shown.exceptions[k].index = NoIndex
                                                    /\ id = ExceptionId(shown.exceptions[k].key)
        <5>1. PICK k \in DOMAIN shown.exceptions : /\ shown.exceptions[k].index = NoIndex
                                                   /\ id = ExceptionId(shown.exceptions[k].key)
          BY <4>2
        <5>2. k \in DOMAIN t.exceptions /\ t.exceptions[k].index = NoIndex /\ id = ExceptionId(t.exceptions[k].key)
          BY <1>4, <5>1 DEF IsDetailed, Alike
        <5> QED
          BY <3>1, <5>2, KnownId
      <4> QED
        BY <2>1, <3>1, <4>1, <4>2, KnownId
    <3> QED
      BY <1>3, <3>2 DEF FormSound
  <2>2. CASE id = NoId
    BY <1>3, <2>2 DEF FormSound
  <2> QED
    BY <2>1, <2>2
<1>7. DraftsSound'
  <2>1. \A key : Holds(t, key) <=> Holds(shown, key)
    BY <1>4 DEF Holds, IsDetailed, Alike
  <2> QED
    BY <1>2, <1>3, <2>1 DEF ExceptionInv, DraftsSound
<1>8. ExceptionInv'
  BY <1>2, <1>5, <1>6, <1>7 DEF ExceptionInv, EditSticks
<1> QED
  BY <1>2, <1>8, NothingSent

LEMMA LeaveGood ==
  ASSUME ExceptionInv, LeaveForm
  PROVE  StepGood
<1>1. shown' = shown /\ drafts' = drafts /\ puts' = puts /\ keys' = keys /\ ~form'.open
  BY DEF LeaveForm, NoForm
<1>2. ExceptionInv'
  BY <1>1 DEF ExceptionInv, TrainsSound, FormSound, DraftsSound, EditSticks
<1> QED
  BY <1>1, <1>2, NothingSent

LEMMA AddDraftGood ==
  ASSUME ExceptionInv, AddAddedException
  PROVE  StepGood
<1>1. PICK t \in Times : drafts' = Append(drafts, [key |-> keys + 1, start |-> t])
  BY DEF AddAddedException
<1>2. /\ shown' = shown /\ form' = form /\ puts' = puts /\ keys' = keys + 1 /\ form.open
  BY DEF AddAddedException
<1>3. keys \in Nat /\ keys + 1 \in Nat /\ keys <= keys + 1 /\ t \in Int
  BY PacedAssumption DEF ExceptionInv
<1> DEFINE d == [key |-> keys + 1, start |-> t]
<1>4. d \in Draft /\ d.key = keys + 1
  BY <1>3 DEF Draft
<1> HIDE DEF d
<1>5. TrainsSound'
  <2>1. /\ Sound(shown, keys + 1) /\ (form.open => Sound(form.base, keys + 1))
        /\ \A p \in puts : Sound(p.item, keys + 1)
    BY <1>3, TrainsLater
  <2> QED
    BY <1>2, <2>1 DEF TrainsSound
<1>6. FormSound' /\ EditSticks'
  BY <1>2 DEF ExceptionInv, FormSound, EditSticks
<1>7. ASSUME NEW s, Sound(s, keys) PROVE ~Holds(s, keys + 1)
  <2>1. \A k \in DOMAIN s.exceptions : s.exceptions[k].key \in Nat /\ s.exceptions[k].key <= keys
    BY <1>7, SoundKnown, ExceptionFields DEF Fits
  <2>2. \A k \in DOMAIN s.exceptions : s.exceptions[k].key # keys + 1
    BY <1>3, <2>1
  <2> QED
    BY <2>2 DEF Holds
<1>8. /\ drafts \in Seq(Draft) /\ Len(drafts) \in Nat
      /\ \A j, k \in DOMAIN drafts : j # k => drafts[j].key # drafts[k].key
      /\ \A k \in DOMAIN drafts :
           /\ drafts[k].key <= keys
           /\ ~ Holds(shown, drafts[k].key)
           /\ form.open => ~ Holds(form.base, drafts[k].key)
           /\ \A p \in puts : p.kind \in {"occurrence", "pacedTrain"} \/ ~ Holds(p.item, drafts[k].key)
  BY DEF ExceptionInv, DraftsSound
<1>9. \A k \in DOMAIN drafts : drafts[k] \in Draft
  BY <1>8
<1>10. \A k \in DOMAIN drafts : drafts[k].key \in Nat /\ drafts[k].key <= keys /\ drafts[k].key # keys + 1
  <2>1. \A k \in DOMAIN drafts : drafts[k].key \in Nat
    BY <1>9 DEF Draft
  <2> QED
    BY <1>3, <1>8, <2>1
<1>11. /\ drafts' \in Seq(Draft)
       /\ \A k \in DOMAIN drafts' : (k \in DOMAIN drafts /\ drafts'[k] = drafts[k])
                                    \/ (k = Len(drafts) + 1 /\ drafts'[k] = d)
  <2>1. drafts' = Append(drafts, d)
    BY <1>1 DEF d
  <2> QED
    BY <1>4, <1>8, <2>1
<1>12. \A j, k \in DOMAIN drafts' : j # k => drafts'[j].key # drafts'[k].key
  BY <1>4, <1>8, <1>10, <1>11
<1>13. ~Holds(shown, d.key) /\ ~Holds(form.base, d.key) /\ \A p \in puts : ~Holds(p.item, d.key)
  BY <1>2, <1>4, <1>7 DEF ExceptionInv, TrainsSound
<1>14. \A k \in DOMAIN drafts' :
         /\ drafts'[k].key <= keys + 1
         /\ ~ Holds(shown, drafts'[k].key)
         /\ form.open => ~ Holds(form.base, drafts'[k].key)
         /\ \A p \in puts : p.kind \in {"occurrence", "pacedTrain"} \/ ~ Holds(p.item, drafts'[k].key)
  <2> SUFFICES ASSUME NEW k \in DOMAIN drafts'
               PROVE  /\ drafts'[k].key <= keys + 1
                      /\ ~ Holds(shown, drafts'[k].key)
                      /\ form.open => ~ Holds(form.base, drafts'[k].key)
                      /\ \A p \in puts : p.kind \in {"occurrence", "pacedTrain"} \/ ~ Holds(p.item, drafts'[k].key)
    OBVIOUS
  <2>1. CASE k \in DOMAIN drafts /\ drafts'[k] = drafts[k]
    BY <1>3, <1>8, <1>10, <2>1
  <2>2. CASE drafts'[k] = d
    BY <1>3, <1>4, <1>13, <2>2
  <2> QED
    BY <1>11, <2>1, <2>2
<1>15. DraftsSound'
  BY <1>2, <1>11, <1>12, <1>14 DEF DraftsSound
<1>16. ExceptionInv'
  BY <1>2, <1>3, <1>5, <1>6, <1>15 DEF ExceptionInv
<1> QED
  BY <1>2, <1>16, NothingSent

LEMMA RemoveDraftGood ==
  ASSUME ExceptionInv, RemoveAddedException
  PROVE  StepGood
<1>1. PICK n \in DOMAIN drafts : drafts' = RemoveAt(drafts, n)
  BY DEF RemoveAddedException
<1>2. shown' = shown /\ form' = form /\ puts' = puts /\ keys' = keys
  BY DEF RemoveAddedException
<1>3. drafts \in Seq(Draft)
  BY DEF ExceptionInv, DraftsSound
<1>4. drafts' \in Seq(Draft) /\ IsPick(drafts', drafts, DOMAIN drafts \ {n})
  BY <1>1, <1>3, RemovedPicks
<1>5. PICK f \in [DOMAIN drafts' -> DOMAIN drafts \ {n}] :
        /\ \A j \in DOMAIN drafts' : drafts'[j] = drafts[f[j]]
        /\ \A j, k \in DOMAIN drafts' : j # k => f[j] # f[k]
  BY <1>4 DEF IsPick
<1>6. \A j \in DOMAIN drafts' : f[j] \in DOMAIN drafts
  BY <1>5
<1>7. DraftsSound'
  <2>1. /\ \A j, k \in DOMAIN drafts : j # k => drafts[j].key # drafts[k].key
        /\ \A k \in DOMAIN drafts :
             /\ drafts[k].key <= keys
             /\ ~ Holds(shown, drafts[k].key)
             /\ form.open => ~ Holds(form.base, drafts[k].key)
             /\ \A p \in puts : p.kind \in {"occurrence", "pacedTrain"} \/ ~ Holds(p.item, drafts[k].key)
    BY DEF ExceptionInv, DraftsSound
  <2>2. \A j, k \in DOMAIN drafts' : j # k => drafts'[j].key # drafts'[k].key
    BY <1>5, <1>6, <2>1
  <2>3. \A k \in DOMAIN drafts' :
           /\ drafts'[k].key <= keys
           /\ ~ Holds(shown, drafts'[k].key)
           /\ form.open => ~ Holds(form.base, drafts'[k].key)
           /\ \A p \in puts : p.kind \in {"occurrence", "pacedTrain"} \/ ~ Holds(p.item, drafts'[k].key)
    BY <1>5, <1>6, <2>1
  <2> QED
    BY <1>2, <1>4, <2>2, <2>3 DEF DraftsSound
<1>8. ExceptionInv'
  BY <1>2, <1>7 DEF ExceptionInv, TrainsSound, FormSound, EditSticks
<1> QED
  BY <1>2, <1>8, NothingSent

LEMMA AnswerGood ==
  ASSUME ExceptionInv, NEW p \in puts, Stored(p) \/ NotStored(p)
  PROVE  StepGood
<1>1. puts' \subseteq puts /\ keys' = keys /\ (shown' = shown \/ shown' = p.item)
  BY DEF Stored, NotStored
<1>2. \/ drafts' = << >> /\ ~form'.open
      \/ /\ drafts' = drafts /\ form' = form
         /\ shown' = shown \/ (shown' = p.item /\ p.kind \notin {"occurrence", "pacedTrain"})
  BY DEF Stored, NotStored, NoForm
<1>3. TrainsSound'
  BY <1>1, <1>2 DEF ExceptionInv, TrainsSound
<1>4. FormSound'
  BY <1>2 DEF ExceptionInv, FormSound
<1>5. DraftsSound'
  <2>1. CASE drafts' = << >> /\ ~form'.open
    <3>1. << >> \in Seq(Draft) /\ DOMAIN << >> = {}
      OBVIOUS
    <3> QED
      BY <2>1, <3>1 DEF DraftsSound
  <2>2. CASE drafts' = drafts /\ form' = form
    <3>1. \A k \in DOMAIN drafts : ~Holds(shown', drafts[k].key)
      <4>1. CASE shown' = shown
        BY <4>1 DEF ExceptionInv, DraftsSound
      <4>2. CASE shown' = p.item /\ p.kind \notin {"occurrence", "pacedTrain"}
        BY <4>2 DEF ExceptionInv, DraftsSound
      <4>3. CASE drafts' = << >>
        BY <2>2, <4>3
      <4> QED
        BY <1>2, <4>1, <4>2, <4>3
    <3> QED
      BY <1>1, <2>2, <3>1 DEF ExceptionInv, DraftsSound
  <2> QED
    BY <1>2, <2>1, <2>2
<1>6. EditSticks'
  BY <1>1 DEF ExceptionInv, EditSticks
<1>7. ExceptionInv'
  BY <1>1, <1>3, <1>4, <1>5, <1>6 DEF ExceptionInv
<1> QED
  BY <1>1, <1>7, NothingSent

-----------------------------------------------------------------------------
(* Theorems.                                                               *)

LEMMA InitGood == Init => ExceptionInv
<1> SUFFICES ASSUME Init PROVE ExceptionInv
  OBVIOUS
<1> DEFINE D == Whole({"path_and_schedule", "start_time"})
           gs == [f \in D |-> 0]
           x == Exception(1, NoIndex, gs)
           e == [x EXCEPT !.others = {"disabled"}]
           ones == [f \in Fields |-> 1]
<1>1. PICK p \in Paces, stock \in Values :
        shown = [fields |-> [ones EXCEPT !["start_time"] = 0, !["rolling_stock"] = stock], pace |-> p,
                 exceptions |-> <<e>>]
  BY DEF Init
<1> DEFINE fs == [ones EXCEPT !["start_time"] = 0, !["rolling_stock"] = stock]
<1>2. /\ form = NoForm /\ drafts = << >> /\ puts = {} /\ keys = 1
  BY DEF Init
<1>3. fs \in [Fields -> Int]
  <2>1. ones \in [Fields -> Int] /\ 0 \in Int /\ stock \in Int
    BY PacedAssumption
  <2> HIDE DEF ones
  <2>2. PICK h \in [Fields -> Int] : h = [ones EXCEPT !["start_time"] = 0]
    BY <2>1, FieldSet, FieldsKnown
  <2>3. fs = [h EXCEPT !["rolling_stock"] = stock]
    BY <2>2
  <2> QED
    BY <2>1, <2>3, FieldSet, FieldsKnown
<1>4. gs \in Grouping /\ "start_time" \in DOMAIN gs
  <2>1. {"path_and_schedule", "start_time"} \in SUBSET Fields
    BY FieldsKnown
  <2>2. D \in SUBSET Fields /\ Paired(D) /\ "start_time" \in D
    BY <2>1, WholeKnown
  <2> HIDE DEF D
  <2>3. gs \in [D -> Int] /\ DOMAIN gs = D
    OBVIOUS
  <2> QED
    BY <2>2, <2>3, GroupingMade
<1> HIDE DEF fs, gs
<1>5. /\ x \in AnException /\ x.key = 1 /\ x.index = NoIndex /\ x.groups = gs /\ ~x.disabled
  <2>1. 1 \in Nat /\ NoIndex \in Int
    BY DEF NoIndex
  <2> QED
    BY <1>4, <2>1, ExceptionMade
<1> HIDE DEF x
<1>6. /\ e \in AnException /\ e.key = 1 /\ e.index = NoIndex /\ e.groups = gs /\ ~e.disabled
  BY <1>5 DEF AnException
<1> HIDE DEF e
<1>7. /\ <<e>> \in Seq(AnException) /\ DOMAIN <<e>> = {1} /\ <<e>>[1] = e
  BY <1>6
<1>8. shown = [fields |-> fs, pace |-> p, exceptions |-> <<e>>]
  BY <1>1 DEF fs
<1>9. shown \in Train /\ shown.exceptions = <<e>> /\ shown.pace = p
  <2>1. shown \in Train
    BY <1>3, <1>7, <1>8, TrainMade
  <2> QED
    BY <1>8, <2>1
<1>10. Fits(e, p, 1)
  BY <1>4, <1>6 DEF Fits
<1>11. Distinct(<<e>>)
  BY <1>7 DEF Distinct
<1>12. Sound(shown, keys)
  BY <1>2, <1>7, <1>9, <1>10, <1>11 DEF Sound
<1>13. ~form.open
  BY <1>2 DEF NoForm
<1>14. DraftsSound
  <2>1. << >> \in Seq(Draft) /\ DOMAIN << >> = {}
    OBVIOUS
  <2> QED
    BY <1>2, <2>1 DEF DraftsSound
<1> QED
  BY <1>2, <1>12, <1>13, <1>14 DEF ExceptionInv, TrainsSound, FormSound, EditSticks

LEMMA StepIsGood == ExceptionInv /\ [Next]_vars => StepGood
<1> SUFFICES ASSUME ExceptionInv, [Next]_vars PROVE StepGood
  OBVIOUS
<1>1. CASE \E id \in OccurrencesIds(shown) : SelectOccurrence(id)
  <2>1. shown' = shown /\ form' = form /\ drafts' = drafts /\ puts' = puts /\ keys' = keys
    BY <1>1 DEF SelectOccurrence
  <2>2. ExceptionInv'
    BY <2>1 DEF ExceptionInv, TrainsSound, FormSound, DraftsSound, EditSticks
  <2> QED
    BY <2>1, <2>2, NothingSent
<1>2. CASE \E id \in OccurrencesIds(shown) \cup {NoId} : OpenForm(id)
  BY <1>2, OpenGood
<1>3. CASE \E id \in OccurrencesIds(shown), disable \in BOOLEAN : UpdateOccurrenceStatus(id, disable)
  BY <1>3, StatusGood
<1>4. CASE \E id \in OccurrencesIds(shown) : ResetOccurrenceExceptions(id)
  BY <1>4, ResetGood
<1>5. CASE \E id \in OccurrencesIds(shown) : DeleteAddedException(id)
  BY <1>5, DeleteGood
<1>6. CASE DeleteExceptions
  BY <1>6, ClearGood
<1>7. CASE LeaveForm
  BY <1>7, LeaveGood
<1>8. CASE AddAddedException
  BY <1>8, AddDraftGood
<1>9. CASE RemoveAddedException
  BY <1>9, RemoveDraftGood
<1>10. CASE SubmitOccurrence
  BY <1>10, OccurrenceGood
<1>11. CASE SubmitPacedTrain
  BY <1>11, TrainGood
<1>12. CASE \E p \in puts : Stored(p) \/ NotStored(p)
  BY <1>12, AnswerGood
<1>13. CASE UNCHANGED vars
  <2>1. shown' = shown /\ form' = form /\ drafts' = drafts /\ puts' = puts /\ keys' = keys
    BY <1>13 DEF vars
  <2>2. ExceptionInv'
    BY <2>1 DEF ExceptionInv, TrainsSound, FormSound, DraftsSound, EditSticks
  <2> QED
    BY <2>1, <2>2, NothingSent
<1> QED
  BY <1>1, <1>2, <1>3, <1>4, <1>5, <1>6, <1>7, <1>8, <1>9, <1>10, <1>11, <1>12, <1>13 DEF Next

\* The inductive invariant holds of every edit, reset and order of answers.
THEOREM ExceptionsSound == Spec => []ExceptionInv
<1>1. ExceptionInv /\ [Next]_vars => ExceptionInv'
  BY StepIsGood DEF StepGood
<1> QED
  BY <1>1, InitGood, PTL DEF Spec

\* Every list of exceptions, of the train shown and of those under way, names each
\* occurrence once and only occurrences of its pace; what findExceptionWithOccurrenceId
\* finds is the exception of the occurrence, and an added one has a start time.
THEOREM OccurrencesIdentified == Spec => []ExceptionsIdentify
<1>1. ExceptionInv => ExceptionsIdentify
  <2> SUFFICES ASSUME ExceptionInv, NEW item \in Items
               PROVE  /\ \A j, k \in DOMAIN item.exceptions : j # k =>
                           /\ item.exceptions[j].key # item.exceptions[k].key
                           /\ item.exceptions[j].index # item.exceptions[k].index
                              \/ item.exceptions[j].index = NoIndex
                      /\ \A e \in ToSet(item.exceptions) :
                           IF e.index = NoIndex
                           THEN "start_time" \in DOMAIN e.groups /\ ~ e.disabled
                           ELSE e.index < getOccurrencesNb(item.pace)
    BY DEF ExceptionsIdentify
  <2>1. Sound(item, keys)
    BY DEF Items, InFlight, ExceptionInv, TrainsSound
  <2>2. \A k \in DOMAIN item.exceptions : Fits(item.exceptions[k], item.pace, keys)
    BY <2>1, SoundKnown
  <2>3. \A e \in ToSet(item.exceptions) : Fits(e, item.pace, keys)
    BY <2>2 DEF ToSet
  <2>4. Distinct(item.exceptions)
    BY <2>1, SoundKnown
  <2> QED
    BY <2>3, <2>4 DEF Fits, Distinct
<1> QED
  BY <1>1, ExceptionsSound, PTL

\* Whatever the train and its other exceptions, an edited occurrence is put back
\* together from what is stored as the user asked for it, but for power restrictions
\* on the train's own path, and a restored one as the train shown says, but for the
\* speed limit tag and a rolling stock that is not found.
THEOREM EditsStick == Spec => []EditSticks
<1>1. ExceptionInv => EditSticks
  BY DEF ExceptionInv
<1> QED
  BY <1>1, ExceptionsSound, PTL

\* An operation on one occurrence sends a train in which every other one is there,
\* as enabled as it was and the same but for the speed limit tag of the train and
\* its rolling stock when that is not found.
THEOREM OthersStay == Spec => OthersUntouched
<1>1. ExceptionInv /\ [Next]_vars => OthersSpared
  BY StepIsGood DEF StepGood
<1>2. OthersSpared =>
        [\A p \in puts' \ puts : p.kind \in {"occurrence", "status", "reset", "delete"} =>
           \A id \in OccurrencesIds(Base) \ {p.id} :
             /\ id \in OccurrencesIds(p.item)
             /\ IsDisabled(p.item, id) = IsDisabled(Base, id)
             /\ \A g \in Fields \ Lost(Base.fields) :
                  ExtractOccurrence(p.item, id)[g] = ExtractOccurrence(Base, id)[g]]_vars
  BY DEF OthersSpared, Spared
<1> QED
  BY <1>1, <1>2, ExceptionsSound, PTL DEF Spec, OthersUntouched

\* An edit of the whole train that keeps its pace sends a train in which every
\* occurrence with an exception is what its exception said, groups that
\* checkChangeGroups dropped and exceptions left without any included, but for the
\* power restrictions of an exception whose path is now the train's.
THEOREM ChangesSurvive == Spec => ExceptionsSurvive
<1>1. ExceptionInv /\ [Next]_vars => ExceptionsKept
  BY StepIsGood DEF StepGood
<1>2. ExceptionsKept =>
        [\A p \in puts' \ puts : p.kind = "pacedTrain" /\ p.item.pace = Base.pace =>
           \A e \in ToSet(Base.exceptions) :
             LET id == IF e.index = NoIndex THEN ExceptionId(e.key) ELSE IndexedId(e.index)
             IN /\ IsDisabled(p.item, id) = e.disabled
                /\ \A g \in DOMAIN e.groups :
                     \/ ExtractOccurrence(p.item, id)[g] = e.groups[g]
                     \/ g = "power_restrictions"
                        /\ e.groups["path_and_schedule"] = p.item.fields["path_and_schedule"]]_vars
  BY DEF ExceptionsKept, Survives, NamedBy
<1> QED
  BY <1>1, <1>2, ExceptionsSound, PTL DEF Spec, ExceptionsSurvive
=============================================================================
