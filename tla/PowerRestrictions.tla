------------------------- MODULE PowerRestrictions --------------------------
(***************************************************************************)
(* The power restrictions of a train being edited: the reducers on the     *)
(* store (powerRestrictionReducer, which also adds and removes steps of    *)
(* the path) and the selector above them, where the user edits, cuts,      *)
(* merges, deletes and resizes the ranges that formatPowerRestrictions     *)
(* shows.                                                                  *)
(*                                                                         *)
(* A restriction goes from one path step to another and refers to them by  *)
(* id. Positions are in units of two metres or more on a path of Length    *)
(* units. The code turns millimetres into metres to show a range and back  *)
(* to find its steps; the positions of the model are those, nearly all     *)
(* whole millimetres, for which mToMm(mmToM(p)) is p again in doubles.     *)
(***************************************************************************)
EXTENDS Integers, FiniteSets, Arrays

CONSTANTS
  Length,        \* length of the path
  Vias,          \* sets of positions: the vias a path may have
  ChangePoints,  \* positions where the electrification changes
  Code,          \* codes of power restrictions
  MaxEdits       \* bound: what the user does

ASSUME PowerRestrictionsAssumption ==
  /\ Length \in Nat \ {0} /\ Vias \subseteq SUBSET (1..Length - 1)
  /\ ChangePoints \subseteq 1..Length - 1 /\ MaxEdits \in Nat

VARIABLES
  steps,    \* pathSteps: [id, pos, pr], pr for isFromPowerRestriction
  restr,    \* powerRestriction: [from, to, value], ids of steps
  custom,   \* customRanges: [begin, end, value]
  edits

powerVars == <<steps, restr, custom, edits>>

Position == 0..Length
Empty == "NO_POWER_RESTRICTION"
Range3(b, e, v) == [begin |-> b, end |-> e, value |-> v]

\* Origin, vias and destination; the ids are new.
PowerInit ==
  \E V \in Vias :
    LET at == Ascending({0, Length} \cup V)
    IN  /\ steps = [i \in DOMAIN at |-> [id |-> i, pos |-> at[i], pr |-> FALSE]]
        /\ restr = <<>> /\ custom = <<>> /\ edits = 0

Ids(s) == {s[i].id : i \in DOMAIN s}
StepOf(s, id) == s[CHOOSE i \in DOMAIN s : s[i].id = id]
PosOf(s, id) == StepOf(s, id).pos

\* uuidV4: ids that neither a step nor a restriction has.
InUse == Ids(steps) \cup {restr[i].from : i \in DOMAIN restr} \cup {restr[i].to : i \in DOMAIN restr}
Unused == 1..Cardinality(InUse) + 2 \ InUse
NewId == CHOOSE n \in Unused : \A m \in Unused : n <= m
OtherNewId == CHOOSE n \in Unused \ {NewId} : TRUE

-----------------------------------------------------------------------------
(* Helpers of the store.                                                   *)

CanRemovePathStep(step, rs) == \A i \in DOMAIN rs : step.id \notin {rs[i].from, rs[i].to}

\* Fault: a step that a restriction starts from is removed.
CanRemovePathStep_ToOnly(step, rs) == \A i \in DOMAIN rs : step.id # rs[i].to

\* Fault: a step is kept for the restrictions that end at it only.
CleanPathSteps_ToOnly(s, rs) ==
  Kept(s, {i \in DOMAIN s : i \in {1, Len(s)} \/ ~s[i].pr \/ ~CanRemovePathStep_ToOnly(s[i], rs)})

\* Steps that were added for a restriction go when no restriction uses them.
\* (Arrival times, stops and margins of such a step are not modelled.)
CleanPathSteps(s, rs) ==
  Kept(s, {i \in DOMAIN s : i \in {1, Len(s)} \/ ~s[i].pr \/ ~CanRemovePathStep(s[i], rs)})

\* The first step after a position, 0 when there is none.
IndexAfter(s, pos) == SelectInSeq(s, LAMBDA step : step.pos > pos)

\* Fault: after the first step that is further.
AddPathStep_After(s, new) ==
  IF new.id \in Ids(s) THEN s ELSE AddElementAtIndex(s, IndexAfter(s, new.pos), new)

\* splice(-1, ...): before the last step when no step is further.
AddPathStep(s, new) ==
  IF new.id \in Ids(s) THEN s ELSE AddElementAtIndex(s, IndexAfter(s, new.pos) - 1, new)

IsRangeCovered(s, r, min, max) == min < PosOf(s, r.from) /\ PosOf(s, r.to) < max

NoRestriction == [from |-> 0, to |-> 0, value |-> Empty]

\* The covered restrictions go; the first one now ends, or the second one
\* starts, at the new step.
UpdateRestrictions(rs, covered, first, second, new) ==
  LET moved(r) ==
        IF new # 0 /\ r.to = first.to THEN [r EXCEPT !.to = new]
        ELSE IF new # 0 /\ r.from = second.from THEN [r EXCEPT !.from = new] ELSE r
      kept == Kept(rs, {i \in DOMAIN rs : \A c \in covered : rs[i].from # c.from \/ rs[i].to # c.to})
  IN  [i \in DOMAIN kept |-> moved(kept[i])]

-----------------------------------------------------------------------------
(* The reducers.                                                           *)

\* Neither starts nor ends where the given range does.
Disjoint(rs, from, to) == Kept(rs, {i \in DOMAIN rs : rs[i].from # from /\ rs[i].to # to})

UpsertPowerRestrictionRanges(from, to, code) ==
  LET s == AddPathStep(AddPathStep(steps, from), to)
      rs == Append(Disjoint(restr, from.id, to.id), [from |-> from.id, to |-> to.id, value |-> code])
  IN  /\ steps' = s
      /\ restr' = SortBy(rs, [i \in DOMAIN rs |-> PosOf(s, rs[i].from)])

\* Only a range from the step before the cut is split, and its second part ends
\* at the step after the cut.
CutPowerRestrictionRanges(cutAt) ==
  LET i == IndexAfter(steps, cutAt.pos)
      prev == steps[i - 1]
      split(r) == IF r.from = prev.id
                  THEN <<[r EXCEPT !.to = cutAt.id], [from |-> cutAt.id, to |-> steps[i].id, value |-> r.value]>>
                  ELSE <<r>>
  IN  IF i = 0 THEN UNCHANGED <<steps, restr>>
      ELSE /\ steps' = InsertAt(steps, i, cutAt)
           /\ restr' = Flat([j \in DOMAIN restr |-> split(restr[j])])

MergePowerRestrictionRanges(from, prevTo, newTo) ==
  LET first == \E i \in DOMAIN restr : restr[i].from = from.id
      merged(r) == r.from = from.id /\ r.to = prevTo.id
      kept == Kept(restr, {i \in DOMAIN restr :
                merged(restr[i]) \/ (restr[i].from # prevTo.id /\ restr[i].to # newTo.id)})
      rs == IF first THEN [i \in DOMAIN kept |-> IF merged(kept[i]) THEN [kept[i] EXCEPT !.to = newTo.id]
                                                 ELSE kept[i]]
            ELSE Disjoint(restr, prevTo.id, newTo.id)
      s == IF first THEN AddPathStep(steps, newTo) ELSE steps
  IN  restr' = rs /\ steps' = CleanPathSteps(s, rs)

DeletePowerRestrictionRanges(from, to) ==
  LET rs == Disjoint(restr, from.id, to.id)
  IN  restr' = rs /\ steps' = CleanPathSteps(steps, rs)

Covered(min, max) == {r \in Range(restr) : IsRangeCovered(steps, r, min, max)}

\* resizeSegmentBeginInput: [begin, end] is what the resized range covers.
ResizeSegmentBeginInput(first, second, end, new) ==
  LET rs == UpdateRestrictions(restr, Covered(new.pos, end), first, second, new.id)
  IN  restr' = rs /\ steps' = CleanPathSteps(AddPathStep(steps, new), rs)

ResizeSegmentEndInput(first, second, begin, new) ==
  LET rs == UpdateRestrictions(restr, Covered(begin, new.pos), first, second, new.id)
  IN  restr' = rs /\ steps' = CleanPathSteps(AddPathStep(steps, new), rs)

CleanPowerRestrictionsCoveredByANewRange(begin, end) ==
  LET rs == UpdateRestrictions(restr, Covered(begin, end), NoRestriction, NoRestriction, 0)
  IN  restr' = rs /\ steps' = CleanPathSteps(steps, rs)

-----------------------------------------------------------------------------
(* The ranges shown.                                                       *)

\* Empty ranges from one point to the next.
AddEmptyRanges(from, to, points) ==
  LET p == Ascending({from, to} \cup {c \in points : from < c /\ c < to})
  IN  [i \in 1..Len(p) - 1 |-> Range3(p[i], p[i + 1], Empty)]

\* The custom ranges, and empty ranges in the gaps before and after them.
FillWithNoPowerRestrictions(begin, end) ==
  LET mine == Kept(custom, {i \in DOMAIN custom : begin <= custom[i].begin /\ custom[i].end <= end})
      prevEnd(i) == IF i = 1 THEN begin ELSE mine[i - 1].end
      gap(from, to) == IF from < to THEN AddEmptyRanges(from, to, {c \in ChangePoints : begin < c /\ c < end})
                       ELSE <<>>
  IN  Flat([i \in 1..Len(mine) + 1 |-> IF i <= Len(mine) THEN Append(gap(prevEnd(i), mine[i].begin), mine[i])
                                       ELSE gap(prevEnd(i), end)])

\* What the editor shows: the restrictions, and other ranges before and after
\* them. (It throws when a restriction refers to no step.)
FormatPowerRestrictions ==
  LET prevEnd(i) == IF i = 1 THEN 0 ELSE PosOf(steps, restr[i - 1].to)
      fill(from, to) == IF from < to THEN FillWithNoPowerRestrictions(from, to) ELSE <<>>
      shown(r) == Range3(PosOf(steps, r.from), PosOf(steps, r.to), r.value)
  IN  Flat([i \in 1..Len(restr) + 1 |->
             IF i <= Len(restr)
             THEN Append(fill(prevEnd(i), PosOf(steps, restr[i].from)), shown(restr[i]))
             ELSE fill(prevEnd(i), Length)])

-----------------------------------------------------------------------------
(* The selector.                                                           *)

HasStep(pos) == \E i \in DOMAIN steps : steps[i].pos = pos
GetPathStep(pos) == steps[SelectInSeq(steps, LAMBDA s : s.pos = pos)]
NewStep(id, pos) == [id |-> id, pos |-> pos, pr |-> TRUE]
GetOrCreatePathStepAtPosition(id, pos) == IF HasStep(pos) THEN GetPathStep(pos) ELSE NewStep(id, pos)

\* Neither begins nor ends where the range does.
CustomWithout(begin, end) ==
  Kept(custom, {i \in DOMAIN custom : custom[i].begin # begin /\ custom[i].end # end})

SortByBegin(ranges) == SortBy(ranges, [i \in DOMAIN ranges |-> ranges[i].begin])

\* The value of a range is chosen.
EditPowerRestrictionRanges(ranges, i, value) ==
  LET range == ranges[i]
      from == GetOrCreatePathStepAtPosition(NewId, range.begin)
      to == GetOrCreatePathStepAtPosition(OtherNewId, range.end)
  IN  IF value # Empty
      THEN /\ UpsertPowerRestrictionRanges(from, to, value)
           /\ custom' = CustomWithout(range.begin, range.end)
      ELSE /\ DeletePowerRestrictionRanges(from, to)
           /\ custom' = SortByBegin(Append(custom, [range EXCEPT !.value = Empty]))

\* cutRange: a cut in an empty range makes two custom ranges of it.
CutRange(ranges, pos) ==
  LET inside == SelectInSeq(ranges, LAMBDA r : r.begin < pos /\ pos < r.end)
      cut == ranges[inside]
  IN  IF Len(ranges) = 1
      THEN <<Range3(0, pos, ranges[1].value), Range3(pos, Length, ranges[1].value)>>
      ELSE SortByBegin(Kept(custom, {i \in DOMAIN custom :
                               custom[i].begin # cut.begin \/ custom[i].end # cut.end})
                       \o <<Range3(cut.begin, pos, Empty), Range3(pos, cut.end, Empty)>>)

\* cutRange throws: the end of the path, or a boundary between ranges.
CannotCut(ranges, pos) ==
  \/ pos >= Length
  \/ Len(ranges) # 1 /\ \A i \in DOMAIN ranges : ~(ranges[i].begin < pos /\ pos < ranges[i].end)

CutPowerRestrictionRange(ranges, pos) ==
  LET hit == SelectInSeq(ranges, LAMBDA r : r.begin <= pos /\ pos <= r.end)
  IN  IF hit = 0 \/ ranges[hit].value = Empty
      THEN /\ ~CannotCut(ranges, pos)
           /\ custom' = CutRange(ranges, pos) /\ UNCHANGED <<steps, restr>>
      ELSE CutPowerRestrictionRanges(NewStep(NewId, pos)) /\ UNCHANGED custom

\* The range is merged with the next one.
MergePowerRestrictionRange(ranges, i) ==
  LET from == ranges[i].begin  prevTo == ranges[i].end  newTo == ranges[i + 1].end
      kept == Kept(custom, {j \in DOMAIN custom : custom[j].begin = from \/ custom[j].begin # newTo})
  IN  /\ i < Len(ranges)
      /\ IF ~HasStep(from) /\ HasStep(prevTo) /\ HasStep(newTo)
         THEN DeletePowerRestrictionRanges(GetPathStep(prevTo), GetPathStep(newTo))
         ELSE IF HasStep(from) /\ HasStep(prevTo)
         THEN MergePowerRestrictionRanges(GetPathStep(from), GetPathStep(prevTo),
                                          GetOrCreatePathStepAtPosition(NewId, newTo))
         ELSE UNCHANGED <<steps, restr>>
      /\ custom' = [j \in DOMAIN kept |-> IF kept[j].begin = from THEN [kept[j] EXCEPT !.end = newTo]
                                          ELSE kept[j]]

DeletePowerRestrictionRange(ranges, i) ==
  LET from == ranges[i].begin  to == ranges[i].end
      filled == {j \in DOMAIN ranges : ranges[j].value # Empty}
  IN  IF HasStep(from) /\ HasStep(to)
      THEN /\ DeletePowerRestrictionRanges(GetPathStep(from), GetPathStep(to))
           /\ custom' = IF Len(ranges) = 3 /\ \E j \in filled : filled = {j} THEN <<>> ELSE custom
      ELSE /\ custom' = IF Len(ranges) = 2 /\ filled = {} THEN <<>> ELSE CustomWithout(from, to)
           /\ UNCHANGED <<steps, restr>>

NoRange == Range3(-1, -1, "undefined")

\* The two ranges whose common boundary moves to pos.
GetRangesToResize(ranges, i, pos, context) ==
  LET shortened == ranges[i].begin <= pos /\ pos <= ranges[i].end
      hit == SelectInSeq(ranges, LAMBDA r : r.begin <= pos /\ pos <= r.end)
      nth(j) == IF j \in DOMAIN ranges THEN ranges[j] ELSE NoRange
      other(j) == IF shortened THEN nth(j) ELSE nth(hit)
  IN  IF context = "begin" THEN [first |-> other(i - 1), second |-> ranges[i]]
      ELSE [first |-> ranges[i], second |-> other(i + 1)]

\* The custom ranges once the boundary has moved. (Ranges elsewhere are kept only
\* when they are after the second and before the first, that is, never.)
CleanCustomRanges(first, second, pos) ==
  LET resize(c) == IF c = first THEN [c EXCEPT !.end = pos]
                   ELSE IF c = second THEN [c EXCEPT !.begin = pos] ELSE c
      kept == Kept(custom, {j \in DOMAIN custom :
                \/ custom[j] \in {first, second}
                \/ second.end <= custom[j].begin /\ custom[j].end <= first.begin})
      resized == [j \in DOMAIN kept |-> resize(kept[j])]
      new(range, begin, end) ==
        IF range \in Range(custom) THEN <<>> ELSE <<Range3(begin, end, Empty)>>
  IN  IF first = NoRange \/ second = NoRange
      THEN IF custom = <<>> THEN <<Range3(0, pos, Empty), Range3(pos, Length, Empty)>>
           ELSE IF first.end = Length THEN Append(custom, Range3(pos, Length, Empty))
           ELSE <<Range3(0, pos, Empty)>> \o custom
      ELSE IF first.value # Empty \/ second.value # Empty THEN resized
      ELSE SortByBegin(resized \o new(first, first.begin, pos) \o new(second, pos, second.end))

\* getRestrictionsToResize
RestrictionOf(range) ==
  LET i == SelectInSeq(restr, LAMBDA r : r.from = GetPathStep(range.begin).id
                                         /\ r.to = GetPathStep(range.end).id)
  IN  IF range = NoRange \/ ~HasStep(range.begin) \/ ~HasStep(range.end) THEN NoRestriction
      ELSE IF i = 0 THEN NoRestriction ELSE restr[i]

\* A boundary of range i is typed in. (The form refuses a last range of no width.)
ResizeSegments(ranges, i, context, pos) ==
  LET both == GetRangesToResize(ranges, i, pos, context)
      first == both.first  second == both.second
      step == GetOrCreatePathStepAtPosition(NewId, pos)
  IN  /\ IF context = "begin" THEN pos <= ranges[i].end /\ pos # ranges[i].begin
                              ELSE ranges[i].begin <= pos /\ pos # ranges[i].end
      /\ ~(i = Len(ranges) /\ pos = IF context = "begin" THEN ranges[i].end ELSE ranges[i].begin)
      /\ custom' = IF Empty \in {first.value, second.value} THEN CleanCustomRanges(first, second, pos)
                   ELSE custom
      /\ IF {first.value, second.value} \subseteq {Empty, NoRange.value}
         THEN CleanPowerRestrictionsCoveredByANewRange(
                IF first = NoRange THEN 0 ELSE first.begin,
                IF second = NoRange THEN Length ELSE second.end)
         ELSE IF context = "begin"
         THEN ResizeSegmentBeginInput(RestrictionOf(first), RestrictionOf(second), second.end, step)
         ELSE ResizeSegmentEndInput(RestrictionOf(first), RestrictionOf(second), first.begin, step)

\* The selector is rendered with the ranges of the moment.
PowerNext ==
  LET ranges == FormatPowerRestrictions IN
  /\ edits < MaxEdits /\ edits' = edits + 1
  /\ \/ \E i \in DOMAIN ranges, value \in Code \cup {Empty} : EditPowerRestrictionRanges(ranges, i, value)
     \/ \E pos \in Position : CutPowerRestrictionRange(ranges, pos)
     \/ \E i \in DOMAIN ranges : MergePowerRestrictionRange(ranges, i)
     \/ \E i \in DOMAIN ranges : DeletePowerRestrictionRange(ranges, i)
     \/ \E i \in DOMAIN ranges, context \in {"begin", "end"}, pos \in Position :
          ResizeSegments(ranges, i, context, pos)

PowerSpec == PowerInit /\ [][PowerNext]_powerVars

-----------------------------------------------------------------------------
(* Properties.                                                             *)

\* Every restriction starts and ends at steps of the path, or
\* formatPowerRestrictions throws ("Impossible to locate the path step").
RestrictionsHaveSteps ==
  \A i \in DOMAIN restr : {restr[i].from, restr[i].to} \subseteq Ids(steps)

\* The path is travelled forward from its origin to its destination, whatever
\* steps were added and removed for the restrictions.
StepsInOrder ==
  /\ \A i \in 1..Len(steps) - 1 : steps[i].pos <= steps[i + 1].pos
  /\ steps[1].pos = 0 /\ Last(steps).pos = Length
=============================================================================
