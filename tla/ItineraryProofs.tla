--------------------------- MODULE ItineraryProofs ----------------------------
(***************************************************************************)
(* Proofs, for any line, trains, edits, failures and overlap of the        *)
(* launches, that nothing outdated is shown unless something outdated was  *)
(* used: the path is the one of the present itinerary, every step is found *)
(* on it, and power restrictions refer to steps of it.                     *)
(***************************************************************************)
EXTENDS Itinerary, ArrayProofs

Location  == Line \cup {Unknown}
AnyStock  == Stock \cup {NoStock}
Step      == [id : Nat, loc : Location, pos : Int, bad : BOOLEAN]
Renders   == [stock : AnyStock, tag : Tag, ready : BOOLEAN]
Matching  == {"match missing", "match error", "match relaxed", "match invalid"}
Found     == {"props", "match relaxed", "props relaxed"}
Underway  == Matching \cup Found \cup {"stock", "path"}
Launch    == [pc : Underway, steps : Seq(Step), stock : AnyStock, tag : Tag, from : Renders]

Statuses  == {"initial", "missing", "running", "done", "error"}
Shown     == [ops : Seq(Line), stock : AnyStock, tag : Tag \cup {"none"}]

\* The types of what a launch writes, and of the rest.
PathType ==
  /\ steps \in Seq(Step) /\ restr \subseteq Nat /\ IsFiniteSet(restr)
  /\ status \in Statuses /\ props \in Shown
  /\ launches \in [1..MaxLaunches -> {NoLaunch, Lost} \cup Launch]
SettingsType ==
  /\ stock \in AnyStock /\ tag \in Tag /\ ready \in BOOLEAN
  /\ turn \in 0..MaxLaunches /\ modal \in Seq(Line)
  /\ byStock \in Renders /\ byTag \in Renders
  /\ failures \in Nat /\ stale \in BOOLEAN
TypeInv == PathType /\ SettingsType

\* The invalid steps of an array are its unknown points: all of them, once core
\* has told them. Only null has no id.
Sane(ss) ==
  /\ \A i \in DOMAIN ss : ss[i].bad => ss[i].loc = Unknown
  /\ \A i \in DOMAIN ss : ss[i].id = 0 => ss[i] = Missing
  /\ \A i, j \in DOMAIN ss : ss[i].bad /\ ss[j].loc = Unknown => ss[j].bad \/ ss[j] = Missing

\* A launch under way has all its steps and was made by a render whose worker
\* was ready; past core's answer, a path was found.
LaunchSane(l) ==
  /\ Sane(l.steps) /\ Missing \notin Range(l.steps) /\ l.from.ready
  /\ l.pc \in Found => /\ Unknown \notin Range(Locs(Valid(l.steps)))
                       /\ HasPath(Locs(Valid(l.steps)))
  /\ l.pc = "match invalid" => Unknown \in Range(Locs(Valid(l.steps)))

\* The steps are on the operational points ops of their path.
Fits(ss, ops) ==
  /\ Missing \notin Range(ss)
  /\ Valid(ss) # <<>> /\ ops = Ops(Locs(Valid(ss)))
  /\ \A i \in DOMAIN ss : ss[i].bad => ss[i].pos = NoPos
  /\ \A i \in DOMAIN ss : ~ss[i].bad => ss[i].pos + 1 \in DOMAIN ops /\ ops[ss[i].pos + 1] = ss[i].loc

\* The last launch works for the present itinerary, and shows nothing before it ends.
LaunchCurrent(l) ==
  /\ props = NoProps /\ status # "done"
  /\ restr \subseteq Ids(l.steps) /\ l.stock = stock /\ l.tag = tag

\* What is shown is what the present itinerary gives.
PathShown == props.stock = stock /\ props.tag = tag /\ Fits(steps, props.ops)

\* The worker stays ready once it is: no callback is ahead of it.
NotAhead == (byStock.ready => ready) /\ (byTag.ready => ready)

\* While nothing outdated was used, launches, path, status and restrictions agree.
Fresh ==
  /\ \A n \in 1..MaxLaunches : n = turn /\ launches[n] \in Launch => LaunchCurrent(launches[n])
  /\ props # NoProps => PathShown
  /\ status = "done" => props # NoProps
  /\ restr \subseteq Ids(steps)

Coherent ==
  /\ Sane(steps)
  /\ \A n \in 1..MaxLaunches : launches[n] \in Launch => ready /\ LaunchSane(launches[n])
  /\ status = "done" => ready
  /\ ~stale => Fresh

\* The inductive invariant.
IInv == TypeInv /\ NotAhead /\ Coherent

-----------------------------------------------------------------------------
(* Paths.                                                                  *)

ValidAt(ss) == {i \in DOMAIN ss : ~ss[i].bad}
ValidLocs(ss) == Locs(Valid(ss))

LEMMA LocsOfValid ==
  ASSUME NEW ss \in Seq(Step)
  PROVE  /\ Cardinality(ValidAt(ss)) \in Nat
         /\ Valid(ss) \in Seq(Step) /\ Len(Valid(ss)) = Cardinality(ValidAt(ss))
         /\ ValidLocs(ss) \in Seq(Location) /\ Len(ValidLocs(ss)) = Cardinality(ValidAt(ss))
         /\ DOMAIN ValidLocs(ss) = 1..Cardinality(ValidAt(ss))
         /\ \A k \in 1..Cardinality(ValidAt(ss)) :
              \E i \in ValidAt(ss) : /\ Rank(ValidAt(ss), i) = k
                                     /\ Valid(ss)[k] = ss[i] /\ ValidLocs(ss)[k] = ss[i].loc
         /\ \A i \in ValidAt(ss) : /\ Rank(ValidAt(ss), i) \in 1..Cardinality(ValidAt(ss))
                                   /\ ValidLocs(ss)[Rank(ValidAt(ss), i)] = ss[i].loc
<1> DEFINE I == ValidAt(ss)
           v == Valid(ss)
<1>1. I \subseteq DOMAIN ss /\ v = Kept(ss, I)
  BY DEF ValidAt, Valid
<1> HIDE DEF I, v
<1>2. /\ Cardinality(I) \in Nat
      /\ v \in Seq(Step) /\ Len(v) = Cardinality(I)
      /\ \A k \in 1..Cardinality(I) : \E i \in I : Rank(I, i) = k /\ v[k] = ss[i]
      /\ \A i \in I : Rank(I, i) \in 1..Cardinality(I) /\ v[Rank(I, i)] = ss[i]
  BY <1>1, KeptElements
<1> DEFINE w == Locs(v)
<1>3. DOMAIN v = 1..Cardinality(I) /\ \A k \in 1..Cardinality(I) : v[k].loc \in Location
  <2>1. DOMAIN v = 1..Cardinality(I) /\ \A k \in DOMAIN v : v[k] \in Step
    BY <1>2
  <2>2. \A s \in Step : s.loc \in Location
    BY DEF Step
  <2> QED
    BY <2>1, <2>2
<1>4. w \in [1..Cardinality(I) -> Location] /\ \A k \in 1..Cardinality(I) : w[k] = v[k].loc
  BY <1>3 DEF Locs
<1> HIDE DEF w
<1>5. w \in Seq(Location) /\ Len(w) = Cardinality(I) /\ DOMAIN w = 1..Cardinality(I)
  BY <1>2, <1>4
<1>6. /\ \A k \in 1..Cardinality(I) : \E i \in I : Rank(I, i) = k /\ v[k] = ss[i] /\ w[k] = ss[i].loc
      /\ \A i \in I : Rank(I, i) \in 1..Cardinality(I) /\ w[Rank(I, i)] = ss[i].loc
  BY <1>2, <1>4
<1> QED
  BY <1>2, <1>5, <1>6 DEF w, v, I, ValidLocs

\* Positions do not count.
LEMMA SameLocs ==
  ASSUME NEW ss \in Seq(Step), NEW tt \in Seq(Step), Len(tt) = Len(ss),
         \A i \in DOMAIN ss : tt[i].loc = ss[i].loc /\ tt[i].bad = ss[i].bad
  PROVE  ValidLocs(tt) = ValidLocs(ss)
<1> DEFINE I == ValidAt(ss)
           c(k) == CHOOSE i \in I : Rank(I, i) = k
<1>1. ValidAt(tt) = I /\ I \subseteq DOMAIN ss /\ I \subseteq 1..Len(ss) /\ Len(ss) \in Nat
  BY DEF ValidAt
<1>2. \A k \in 1..Cardinality(I) : c(k) \in I
  BY <1>1, RankNumbers
<1>3. Valid(ss) = Kept(ss, I) /\ Valid(tt) = Kept(tt, I)
  BY <1>1 DEF Valid, ValidAt
<1> HIDE DEF I
<1>4. /\ Valid(ss) = [k \in 1..Cardinality(I) |-> ss[c(k)]]
      /\ Valid(tt) = [k \in 1..Cardinality(I) |-> tt[c(k)]]
  BY <1>3 DEF Kept, Rank
<1> HIDE DEF c
<1>5. \A k \in 1..Cardinality(I) : tt[c(k)].loc = ss[c(k)].loc
  BY <1>1, <1>2
<1> QED
  BY <1>4, <1>5 DEF ValidLocs, Locs

\* The ends of the path are the first and the last valid step.
LEMMA EndLocs ==
  ASSUME NEW ss \in Seq(Step), NEW a \in ValidAt(ss), NEW b \in ValidAt(ss),
         \A i \in ValidAt(ss) : a <= i /\ i <= b
  PROVE  /\ Len(ValidLocs(ss)) \in Nat \ {0}
         /\ ValidLocs(ss)[1] = ss[a].loc /\ ValidLocs(ss)[Len(ValidLocs(ss))] = ss[b].loc
<1> DEFINE I == ValidAt(ss)
           w == ValidLocs(ss)
           c == Cardinality(I)
<1>1. /\ c \in Nat /\ Len(w) = c
      /\ \A i \in I : Rank(I, i) \in 1..c /\ w[Rank(I, i)] = ss[i].loc
  BY LocsOfValid
<1>2. I \subseteq 1..Len(ss) /\ Len(ss) \in Nat /\ a \in I /\ b \in I /\ \A i \in I : a <= i /\ i <= b
  BY DEF ValidAt
<1> HIDE DEF I, w
<1>3. /\ \A i, j \in I : i < j => Rank(I, i) < Rank(I, j)
      /\ \A k \in 1..c : \E i \in I : Rank(I, i) = k
  BY <1>2, RankNumbers
<1> HIDE DEF c
<1>4. c >= 1 /\ Rank(I, a) \in 1..c /\ Rank(I, b) \in 1..c
  BY <1>1, <1>2
<1>5. PICK i \in I, j \in I : Rank(I, i) = 1 /\ Rank(I, j) = c
  BY <1>1, <1>3, <1>4
<1>6. a \in Nat /\ b \in Nat /\ i \in Nat /\ j \in Nat /\ a <= i /\ j <= b
  BY <1>2
<1>7. i = a
  <2>1. a < i => Rank(I, a) < 1
    BY <1>2, <1>3, <1>5
  <2>2. ~(a < i)
    BY <1>4, <2>1
  <2> QED
    BY <1>6, <2>2
<1>8. j = b
  <2>1. j < b => c < Rank(I, b)
    BY <1>2, <1>3, <1>5
  <2>2. ~(j < b)
    BY <1>1, <1>4, <2>1
  <2> QED
    BY <1>6, <2>2
<1>9. w[1] = ss[a].loc /\ w[c] = ss[b].loc /\ c \in Nat \ {0}
  BY <1>1, <1>4, <1>5, <1>7, <1>8
<1> QED
  BY <1>1, <1>9 DEF w

\* Each point of a path is one of its operational points, at its position.
LEMMA OpsOfPath ==
  ASSUME NEW locs \in Seq(Line), HasPath(locs)
  PROVE  /\ Ops(locs) \in Seq(Line) /\ Ops(locs) # <<>>
         /\ \A k \in DOMAIN locs : /\ PathItemPositions(locs)[k] \in Nat
                                   /\ PathItemPositions(locs)[k] + 1 \in DOMAIN Ops(locs)
                                   /\ Ops(locs)[PathItemPositions(locs)[k] + 1] = locs[k]
<1> DEFINE n == Len(locs)
           from == locs[1]
           to == locs[n]
           d == Distance(from, to)
           at(i) == IF from < to THEN from + i - 1 ELSE from - i + 1
           ops == Ops(locs)
           p == PathItemPositions(locs)
<1>1. n \in Nat /\ n >= 2 /\ DOMAIN locs = 1..n
  BY DEF HasPath
<1>2. locs \in [1..n -> Int] /\ \A k \in 1..n : locs[k] \in 1..LineLength
  BY ItineraryAssumption DEF Line
<1>3. ops = [i \in 1..d + 1 |-> at(i)] /\ p = [k \in 1..n |-> Distance(from, locs[k])]
  BY <1>1 DEF Ops, PathItemPositions, Last
<1>4. from \in 1..LineLength /\ to \in 1..LineLength /\ LineLength \in Nat
  BY <1>1, <1>2, ItineraryAssumption
<1>5. \/ \A i, j \in 1..n : i < j => locs[i] < locs[j]
      \/ \A i, j \in 1..n : i < j => locs[j] < locs[i]
  <2>1. CASE \A i \in 1..n - 1 : locs[i] < locs[i + 1]
    <3> HIDE DEF n
    <3> QED
      BY <1>1, <1>2, <2>1, Increasing
  <2>2. CASE \A i \in 1..n - 1 : locs[i] > locs[i + 1]
    <3> DEFINE f == [i \in 1..n |-> 0 - locs[i]]
    <3>1. f \in [1..n -> Int]
      BY <1>2
    <3>2. \A i \in 1..n - 1 : i \in 1..n /\ i + 1 \in 1..n
      BY <1>1
    <3>3. \A i \in 1..n - 1 : f[i] < f[i + 1]
      BY <1>2, <2>2, <3>2
    <3> HIDE DEF f, n
    <3>4. \A i, j \in 1..n : i < j => f[i] < f[j]
      BY <1>1, <3>1, <3>3, Increasing
    <3>5. \A i \in 1..n : f[i] = 0 - locs[i]
      BY DEF f
    <3> QED
      BY <1>2, <3>4, <3>5
  <2> QED
    BY <2>1, <2>2 DEF HasPath
<1> HIDE DEF n, ops, p
<1>6. \A k \in 1..n : (from <= locs[k] /\ locs[k] <= to /\ from < to)
                      \/ (to <= locs[k] /\ locs[k] <= from /\ ~(from < to))
  <2> SUFFICES ASSUME NEW k \in 1..n
               PROVE  (from <= locs[k] /\ locs[k] <= to /\ from < to)
                      \/ (to <= locs[k] /\ locs[k] <= from /\ ~(from < to))
    OBVIOUS
  <2>1. 1 \in 1..n /\ n \in 1..n /\ 1 < n /\ (k = 1 \/ 1 < k) /\ (k = n \/ k < n)
    BY <1>1
  <2>2. from \in Int /\ to \in Int /\ locs[k] \in Int
    BY <1>2, <1>4
  <2> QED
    BY <1>5, <2>1, <2>2
<1> HIDE DEF from, to
<1>7. d \in Nat /\ \A i \in 1..d + 1 : at(i) \in Line
  <2>1. d = IF from <= to THEN to - from ELSE from - to
    BY DEF Distance
  <2> HIDE DEF d
  <2> QED
    BY <1>4, <2>1 DEF Line
<1>8. \A k \in 1..n : LET q == Distance(from, locs[k])
                      IN  q \in Nat /\ q + 1 \in 1..d + 1 /\ at(q + 1) = locs[k]
  <2> SUFFICES ASSUME NEW k \in 1..n
               PROVE  LET q == Distance(from, locs[k])
                      IN  q \in Nat /\ q + 1 \in 1..d + 1 /\ at(q + 1) = locs[k]
    OBVIOUS
  <2>1. from \in Int /\ to \in Int /\ locs[k] \in Int
    BY <1>2, <1>4
  <2>2. PICK x \in Int : x = locs[k]
    BY <2>1
  <2>3. (from <= x /\ x <= to /\ from < to) \/ (to <= x /\ x <= from /\ ~(from < to))
    BY <1>6, <2>2
  <2> DEFINE q == Distance(from, x)
  <2>4. /\ q = IF from <= x THEN x - from ELSE from - x
        /\ d = IF from <= to THEN to - from ELSE from - to
    BY DEF Distance
  <2> HIDE DEF q, d
  <2>5. q \in Nat /\ q + 1 \in 1..d + 1
    BY <2>1, <2>3, <2>4
  <2>6. at(q + 1) = x
    BY <2>1, <2>3, <2>4
  <2> QED
    BY <2>2, <2>5, <2>6 DEF q
<1> HIDE DEF d, at
<1>9. ops \in [1..d + 1 -> Line] /\ DOMAIN ops = 1..d + 1
  BY <1>3, <1>7
<1>10. ops \in Seq(Line) /\ Len(ops) = d + 1
  BY <1>7, <1>9
<1>11. \A k \in 1..n : p[k] \in Nat /\ p[k] + 1 \in 1..d + 1 /\ ops[p[k] + 1] = locs[k]
  BY <1>3, <1>8
<1>12. ops # <<>>
  BY <1>7, <1>10
<1> QED
  BY <1>1, <1>9, <1>10, <1>11, <1>12 DEF ops, p

-----------------------------------------------------------------------------
(* Arrays of steps.                                                        *)

\* A point of the line that was clicked, or chosen in the window.
Plain(s) == s \in Step /\ s.loc \in Line /\ ~s.bad /\ s.id # 0

LEMMA MissingIsAStep == Missing \in Step /\ Missing.loc = Unknown /\ ~Missing.bad /\ Missing.id = 0
  BY DEF Missing, Step, Location, Unknown, NoPos

\* An array made of steps of a sane one, new points and null is sane.
LEMMA SaneFrom ==
  ASSUME NEW ss \in Seq(Step), Sane(ss), NEW S, \A s \in S : Plain(s), NEW tt \in Seq(Step),
         \A i \in DOMAIN tt : tt[i] \in S \/ tt[i] = Missing \/ \E j \in DOMAIN ss : tt[i] = ss[j]
  PROVE  Sane(tt)
<1>1. \A s \in S : s.loc # Unknown /\ ~s.bad /\ s.id # 0
  BY ItineraryAssumption DEF Plain, Line, Unknown
<1>2. \A i \in DOMAIN tt : tt[i].bad => tt[i].loc = Unknown /\ \E j \in DOMAIN ss : tt[i] = ss[j]
  BY <1>1, MissingIsAStep DEF Sane
<1>3. \A i \in DOMAIN tt : tt[i].id = 0 => tt[i] = Missing
  BY <1>1, MissingIsAStep DEF Sane
<1>4. ASSUME NEW i \in DOMAIN tt, NEW j \in DOMAIN tt, tt[i].bad, tt[j].loc = Unknown, tt[j] # Missing
      PROVE  tt[j].bad
  <2>1. PICK k \in DOMAIN ss : tt[i] = ss[k]
    BY <1>2, <1>4
  <2>2. PICK l \in DOMAIN ss : tt[j] = ss[l]
    BY <1>1, <1>4
  <2> QED
    BY <1>4, <2>1, <2>2 DEF Sane
<1> QED
  BY <1>2, <1>3, <1>4 DEF Sane

\* The launches' arrays: the operations of the list, the map and the window.
LEMMA EditedArrays ==
  ASSUME NEW ss \in Seq(Step), Sane(ss), NEW new, Plain(new)
  PROVE  /\ \A i \in -1..Len(ss) : /\ AddElementAtIndex(ss, i, new) \in Seq(Step)
                                   /\ Sane(AddElementAtIndex(ss, i, new))
         /\ Append(ss, new) \in Seq(Step) /\ Sane(Append(ss, new))
         /\ \A i \in DOMAIN ss : \A s \in {Missing, new} :
              [ss EXCEPT ![i] = s] \in Seq(Step) /\ Sane([ss EXCEPT ![i] = s])
         /\ \A i \in 1..Len(ss) : RemoveAt(ss, i) \in Seq(Step) /\ Sane(RemoveAt(ss, i))
         /\ Reverse(ss) \in Seq(Step) /\ Sane(Reverse(ss))
         /\ <<new>> \in Seq(Step) /\ Sane(<<new>>)
         /\ <<Missing, Missing>> \in Seq(Step) /\ Sane(<<Missing, Missing>>)
         /\ ss # <<>> => <<ss[1], ss[Len(ss)]>> \in Seq(Step) /\ Sane(<<ss[1], ss[Len(ss)]>>)
         /\ \A I \in SUBSET DOMAIN ss : Kept(ss, I) \in Seq(Step) /\ Sane(Kept(ss, I))
<1>0. /\ Len(ss) \in Nat /\ DOMAIN ss = 1..Len(ss) /\ \A i \in DOMAIN ss : ss[i] \in Step
      /\ new \in Step /\ Missing \in Step
  BY MissingIsAStep DEF Plain
<1>1. \A tt \in Seq(Step) :
        (\A i \in DOMAIN tt : tt[i] = new \/ tt[i] = Missing \/ \E j \in DOMAIN ss : tt[i] = ss[j])
        => Sane(tt)
  <2> SUFFICES ASSUME NEW tt \in Seq(Step),
                      \A i \in DOMAIN tt :
                        tt[i] = new \/ tt[i] = Missing \/ \E j \in DOMAIN ss : tt[i] = ss[j]
               PROVE  Sane(tt)
    OBVIOUS
  <2> DEFINE S == {new}
  <2>1. \A s \in S : Plain(s)
    OBVIOUS
  <2>2. \A i \in DOMAIN tt : tt[i] \in S \/ tt[i] = Missing \/ \E j \in DOMAIN ss : tt[i] = ss[j]
    OBVIOUS
  <2> HIDE DEF S
  <2> QED
    BY <2>1, <2>2, SaneFrom
<1>2. ASSUME NEW i \in -1..Len(ss)
      PROVE  /\ AddElementAtIndex(ss, i, new) \in Seq(Step)
             /\ Sane(AddElementAtIndex(ss, i, new))
  <2>1. PICK m \in 1..Len(ss) + 1 : AddElementAtIndex(ss, i, new) = InsertAt(ss, m, new)
    BY Added
  <2> DEFINE tt == InsertAt(ss, m, new)
  <2>2. /\ tt \in Seq(Step) /\ Len(tt) = Len(ss) + 1
        /\ \A j \in 1..Len(ss) + 1 : tt[j] = IF j < m THEN ss[j] ELSE IF j = m THEN new ELSE ss[j - 1]
    <3>1. tt \in Seq(Step) /\ IsInsertion(tt, ss, m, new)
      BY <1>0, Inserted
    <3> QED
      BY <3>1 DEF IsInsertion
  <2> HIDE DEF tt
  <2>3. DOMAIN tt = 1..Len(ss) + 1
    BY <2>2
  <2>4. \A j \in DOMAIN tt : tt[j] = new \/ \E k \in DOMAIN ss : tt[j] = ss[k]
    <3> SUFFICES ASSUME NEW j \in 1..Len(ss) + 1
                 PROVE  tt[j] = new \/ \E k \in DOMAIN ss : tt[j] = ss[k]
      BY <2>3
    <3>1. CASE j < m
      BY <1>0, <2>2, <3>1
    <3>2. CASE j = m
      BY <1>0, <2>2, <3>2
    <3>3. CASE j > m
      <4>1. j - 1 \in DOMAIN ss /\ tt[j] = ss[j - 1]
        BY <1>0, <2>2, <3>3
      <4> QED
        BY <4>1
    <3> QED
      BY <1>0, <3>1, <3>2, <3>3
  <2>5. Sane(tt)
    BY <1>1, <2>2, <2>4
  <2> QED
    BY <2>1, <2>2, <2>5 DEF tt
<1>3. Append(ss, new) \in Seq(Step) /\ Sane(Append(ss, new))
  <2> DEFINE tt == Append(ss, new)
  <2>1. tt \in Seq(Step) /\ \A i \in DOMAIN tt : tt[i] = new \/ \E j \in DOMAIN ss : tt[i] = ss[j]
    BY <1>0
  <2> HIDE DEF tt
  <2> QED
    BY <1>1, <2>1 DEF tt
<1>4. ASSUME NEW i \in DOMAIN ss, NEW s \in {Missing, new}
      PROVE  [ss EXCEPT ![i] = s] \in Seq(Step) /\ Sane([ss EXCEPT ![i] = s])
  <2> DEFINE tt == [ss EXCEPT ![i] = s]
  <2>1. tt \in Seq(Step)
    BY <1>0
  <2>2. \A j \in DOMAIN tt : tt[j] = s \/ \E k \in DOMAIN ss : tt[j] = ss[k]
    BY <1>0
  <2> HIDE DEF tt
  <2> QED
    BY <1>1, <2>1, <2>2 DEF tt
<1>5. ASSUME NEW i \in 1..Len(ss)
      PROVE  RemoveAt(ss, i) \in Seq(Step) /\ Sane(RemoveAt(ss, i))
  <2> DEFINE p == SubSeq(ss, 1, i - 1)
             q == SubSeq(ss, i + 1, Len(ss))
             tt == p \o q
  <2>1. p \in Seq(Step) /\ \A j \in DOMAIN p : \E k \in DOMAIN ss : p[j] = ss[k]
    BY <1>0
  <2>2. q \in Seq(Step) /\ \A j \in DOMAIN q : \E k \in DOMAIN ss : q[j] = ss[k]
    BY <1>0
  <2> HIDE DEF p, q
  <2>3. /\ tt \in Seq(Step) /\ Len(tt) = Len(p) + Len(q)
        /\ \A j \in 1..Len(p) + Len(q) : tt[j] = IF j <= Len(p) THEN p[j] ELSE q[j - Len(p)]
    BY <2>1, <2>2, ConcatProperties
  <2> HIDE DEF tt
  <2>4. \A j \in DOMAIN tt : \E k \in DOMAIN ss : tt[j] = ss[k]
    <3>1. Len(p) \in Nat /\ Len(q) \in Nat /\ DOMAIN p = 1..Len(p) /\ DOMAIN q = 1..Len(q)
      BY <2>1, <2>2
    <3>2. DOMAIN tt = 1..Len(p) + Len(q)
      BY <2>3
    <3> SUFFICES ASSUME NEW j \in 1..Len(p) + Len(q) PROVE \E k \in DOMAIN ss : tt[j] = ss[k]
      BY <3>2
    <3>3. (j <= Len(p) => j \in 1..Len(p)) /\ (~(j <= Len(p)) => j - Len(p) \in 1..Len(q))
      BY <3>1
    <3>4. CASE j <= Len(p)
      BY <2>1, <2>3, <3>1, <3>3, <3>4
    <3>5. CASE ~(j <= Len(p))
      <4>1. tt[j] = q[j - Len(p)] /\ j - Len(p) \in DOMAIN q
        BY <2>3, <3>1, <3>3, <3>5
      <4> QED
        BY <2>2, <4>1
    <3> QED
      BY <3>4, <3>5
  <2> QED
    BY <1>1, <2>3, <2>4 DEF RemoveAt, tt, p, q
<1>6. Reverse(ss) \in Seq(Step) /\ Sane(Reverse(ss))
  <2> DEFINE tt == [i \in 1..Len(ss) |-> ss[(Len(ss) - i) + 1]]
  <2>1. \A i \in 1..Len(ss) : (Len(ss) - i) + 1 \in DOMAIN ss
    BY <1>0
  <2>2. tt \in Seq(Step) /\ DOMAIN tt = 1..Len(ss)
    BY <1>0, <2>1
  <2>3. \A j \in 1..Len(ss) : tt[j] = ss[(Len(ss) - j) + 1]
    OBVIOUS
  <2> HIDE DEF tt
  <2>4. \A j \in DOMAIN tt : \E k \in DOMAIN ss : tt[j] = ss[k]
    BY <2>1, <2>2, <2>3
  <2> QED
    BY <1>1, <2>2, <2>4 DEF Reverse, tt
<1>7. <<new>> \in Seq(Step) /\ Sane(<<new>>)
  <2> DEFINE tt == <<new>>
  <2>1. tt \in Seq(Step) /\ \A j \in DOMAIN tt : tt[j] = new
    BY <1>0
  <2> HIDE DEF tt
  <2> QED
    BY <1>1, <2>1 DEF tt
<1>8. <<Missing, Missing>> \in Seq(Step) /\ Sane(<<Missing, Missing>>)
  <2> DEFINE tt == <<Missing, Missing>>
  <2>1. tt \in Seq(Step) /\ \A j \in DOMAIN tt : tt[j] = Missing
    BY <1>0
  <2> HIDE DEF tt
  <2> QED
    BY <1>1, <2>1 DEF tt
<1>9. ASSUME ss # <<>>
      PROVE  <<ss[1], ss[Len(ss)]>> \in Seq(Step) /\ Sane(<<ss[1], ss[Len(ss)]>>)
  <2>1. 1 \in DOMAIN ss /\ Len(ss) \in DOMAIN ss
    BY <1>0, <1>9
  <2> DEFINE tt == <<ss[1], ss[Len(ss)]>>
  <2>2. tt \in Seq(Step) /\ \A j \in DOMAIN tt : tt[j] = ss[1] \/ tt[j] = ss[Len(ss)]
    BY <1>0, <2>1
  <2> HIDE DEF tt
  <2> QED
    BY <1>1, <2>1, <2>2 DEF tt
<1>10. ASSUME NEW I \in SUBSET DOMAIN ss
       PROVE  Kept(ss, I) \in Seq(Step) /\ Sane(Kept(ss, I))
  <2> DEFINE tt == Kept(ss, I)
  <2>1. /\ tt \in Seq(Step) /\ Len(tt) = Cardinality(I)
        /\ \A k \in 1..Cardinality(I) : \E i \in I : tt[k] = ss[i]
    BY KeptElements
  <2> HIDE DEF tt
  <2>2. \A k \in DOMAIN tt : \E i \in DOMAIN ss : tt[k] = ss[i]
    BY <2>1
  <2> QED
    BY <1>1, <2>1, <2>2 DEF tt
<1> QED
  BY <1>2, <1>3, <1>4, <1>5, <1>6, <1>7, <1>8, <1>9, <1>10

-----------------------------------------------------------------------------
(* What an answer makes of the steps of its launch.                        *)

LEMMA StepFields ==
  \A s \in Step : /\ s.id \in Nat /\ s.loc \in Location /\ s.pos \in Int /\ s.bad \in BOOLEAN
                  /\ \A p \in Int : [s EXCEPT !.pos = p]
                       = [id |-> s.id, loc |-> s.loc, pos |-> p, bad |-> s.bad]
                  /\ \A b \in BOOLEAN : [s EXCEPT !.bad = b]
                       = [id |-> s.id, loc |-> s.loc, pos |-> s.pos, bad |-> b]
  BY DEF Step

\* Core's positions go to the steps they are of: the steps fit their path.
LEMMA Populated ==
  ASSUME NEW ss \in Seq(Step), Sane(ss), Missing \notin Range(ss),
         Unknown \notin Range(ValidLocs(ss)), HasPath(ValidLocs(ss))
  PROVE  /\ PopulateSteps(ss) \in Seq(Step) /\ Sane(PopulateSteps(ss))
         /\ Ids(PopulateSteps(ss)) = Ids(ss)
         /\ Ops(ValidLocs(ss)) \in Seq(Line) /\ Ops(ValidLocs(ss)) # <<>>
         /\ Fits(PopulateSteps(ss), Ops(ValidLocs(ss)))
<1> DEFINE I == ValidAt(ss)
           c == Cardinality(I)
           w == ValidLocs(ss)
           at == PathItemPositions(w)
           ops == Ops(w)
           p(i) == IF ss[i].bad THEN NoPos ELSE at[Rank(I, i)]
           tt == PopulateSteps(ss)
<1>1. /\ Len(ss) \in Nat /\ DOMAIN ss = 1..Len(ss) /\ \A i \in DOMAIN ss : ss[i] \in Step
      /\ I \subseteq DOMAIN ss /\ \A i \in DOMAIN ss : i \in I <=> ~ss[i].bad
  BY DEF ValidAt
<1>2. /\ c \in Nat /\ w \in Seq(Location) /\ Len(w) = c /\ DOMAIN w = 1..c
      /\ \A i \in I : Rank(I, i) \in 1..c /\ w[Rank(I, i)] = ss[i].loc
  BY LocsOfValid
<1>3. tt = [i \in DOMAIN ss |-> [ss[i] EXCEPT !.pos = p(i)]]
  <2>1. \A i \in DOMAIN ss : {j \in 1..i : ~ss[j].bad} = I \cap 1..i
    BY <1>1
  <2>2. \A i \in DOMAIN ss : Cardinality({j \in 1..i : ~ss[j].bad}) = Rank(I, i)
    BY <2>1 DEF Rank
  <2> QED
    BY <2>2 DEF PopulateSteps, ValidLocs
<1>4. w \in Seq(Line) /\ HasPath(w)
  <2> HIDE DEF w
  <2>1. Unknown \notin Range(w)
    BY DEF w
  <2>2. \A k \in 1..c : w[k] \in Line
    BY <1>2, <2>1 DEF Range, Location
  <2> QED
    BY <1>2, <2>2 DEF w
<1> HIDE DEF I, w, tt
<1>5. /\ ops \in Seq(Line) /\ ops # <<>>
      /\ \A k \in 1..c : at[k] \in Nat /\ at[k] + 1 \in DOMAIN ops /\ ops[at[k] + 1] = w[k]
  BY <1>2, <1>4, OpsOfPath
<1> HIDE DEF c, at, ops
<1>6. \A i \in DOMAIN ss : p(i) \in Int
  BY <1>1, <1>2, <1>5 DEF NoPos
<1>7. \A i \in DOMAIN ss : tt[i] = [id |-> ss[i].id, loc |-> ss[i].loc, pos |-> p(i), bad |-> ss[i].bad]
  BY <1>1, <1>3, <1>6, StepFields
<1>8. \A i \in DOMAIN ss : tt[i].id = ss[i].id /\ tt[i].loc = ss[i].loc /\ tt[i].pos = p(i)
                           /\ tt[i].bad = ss[i].bad /\ tt[i] \in Step
  <2> SUFFICES ASSUME NEW i \in DOMAIN ss
               PROVE  /\ tt[i].id = ss[i].id /\ tt[i].loc = ss[i].loc /\ tt[i].pos = p(i)
                      /\ tt[i].bad = ss[i].bad /\ tt[i] \in Step
    OBVIOUS
  <2>1. ss[i].id \in Nat /\ ss[i].loc \in Location /\ ss[i].bad \in BOOLEAN
    BY <1>1, StepFields
  <2>2. PICK q \in Int : q = p(i)
    BY <1>6
  <2>3. tt[i] = [id |-> ss[i].id, loc |-> ss[i].loc, pos |-> q, bad |-> ss[i].bad]
    BY <1>7, <2>2
  <2> QED
    BY <2>1, <2>2, <2>3 DEF Step
<1>9. tt \in [1..Len(ss) -> Step] /\ DOMAIN tt = DOMAIN ss
  BY <1>1, <1>3, <1>8
<1>10. tt \in Seq(Step) /\ Len(tt) = Len(ss)
  BY <1>1, <1>9
<1>11. \A i \in DOMAIN ss : tt[i].id # 0
  BY <1>8 DEF Sane, Range
<1>12. Sane(tt) /\ Missing \notin Range(tt) /\ Ids(tt) = Ids(ss)
  BY <1>8, <1>9, <1>11, MissingIsAStep DEF Sane, Range, Ids
<1>13. ValidLocs(tt) = w
  BY <1>8, <1>10, SameLocs DEF w
<1>14. Valid(tt) # <<>>
  <2>1. Len(w) >= 2
    BY <1>4 DEF HasPath
  <2>2. Len(Valid(tt)) = Len(w)
    BY <1>10, <1>13, LocsOfValid
  <2> QED
    BY <2>1, <2>2
<1>15. \A i \in DOMAIN tt : tt[i].bad => tt[i].pos = NoPos
  BY <1>8, <1>9
<1>16. \A i \in DOMAIN tt : ~tt[i].bad => tt[i].pos + 1 \in DOMAIN ops /\ ops[tt[i].pos + 1] = tt[i].loc
  <2> SUFFICES ASSUME NEW i \in DOMAIN ss, ~ss[i].bad
               PROVE  tt[i].pos + 1 \in DOMAIN ops /\ ops[tt[i].pos + 1] = tt[i].loc
    BY <1>8, <1>9
  <2>1. i \in I /\ tt[i].pos = at[Rank(I, i)] /\ tt[i].loc = w[Rank(I, i)] /\ Rank(I, i) \in 1..c
    BY <1>1, <1>2, <1>8
  <2> QED
    BY <1>5, <2>1
<1>17. Fits(tt, ops)
  BY <1>12, <1>13, <1>14, <1>15, <1>16 DEF Fits, ValidLocs, ops
<1> QED
  BY <1>5, <1>10, <1>12, <1>17 DEF tt, ops, w

\* Before core has told the unknown points, every step is valid, so the indices
\* it gives are the ones of the array.
LEMMA Marked ==
  ASSUME NEW ss \in Seq(Step), Sane(ss), Missing \notin Range(ss), Unknown \in Range(ValidLocs(ss))
  PROVE  /\ MarkInvalid(ss) \in Seq(Step) /\ Sane(MarkInvalid(ss))
         /\ Missing \notin Range(MarkInvalid(ss))
<1> DEFINE I == ValidAt(ss)
           c == Cardinality(I)
           w == ValidLocs(ss)
           items == {k \in DOMAIN Valid(ss) : Valid(ss)[k].loc = Unknown}
           tt == MarkInvalid(ss)
<1>1. Len(ss) \in Nat /\ DOMAIN ss = 1..Len(ss) /\ \A i \in DOMAIN ss : ss[i] \in Step
  OBVIOUS
<1>2. /\ c \in Nat /\ DOMAIN w = 1..c /\ DOMAIN Valid(ss) = 1..c
      /\ \A k \in 1..c : \E i \in I : Rank(I, i) = k /\ Valid(ss)[k] = ss[i] /\ w[k] = ss[i].loc
  BY LocsOfValid
<1>3. PICK j \in I : ss[j].loc = Unknown
  BY <1>2 DEF Range
<1>4. j \in DOMAIN ss /\ ~ss[j].bad /\ ss[j] # Missing
  BY <1>3 DEF ValidAt, Range
<1>5. \A i \in DOMAIN ss : ~ss[i].bad
  BY <1>3, <1>4 DEF Sane
<1>6. I = 1..Len(ss)
  BY <1>1, <1>5 DEF ValidAt
<1>7. c = Len(ss) /\ \A i \in I : Rank(I, i) = i
  <2>1. \A i \in I : I \cap 1..i = 1..i /\ i \in Nat /\ i >= 1
    BY <1>1, <1>6
  <2>2. \A i \in I : Cardinality(1..i) = i
    BY <2>1, FS_Interval
  <2>3. Cardinality(1..Len(ss)) = Len(ss)
    BY <1>1, FS_Interval
  <2> QED
    BY <1>6, <2>1, <2>2, <2>3 DEF Rank
<1>8. \A k \in 1..Len(ss) : Valid(ss)[k] = ss[k]
  BY <1>2, <1>7
<1>9. items = {k \in DOMAIN ss : ss[k].loc = Unknown}
  BY <1>1, <1>2, <1>7, <1>8
<1>10. tt = [i \in DOMAIN ss |-> [ss[i] EXCEPT !.bad = (i \in items)]]
  BY DEF MarkInvalid
<1> HIDE DEF items, tt
<1>12. \A i \in DOMAIN ss : /\ tt[i] \in Step /\ tt[i].id = ss[i].id /\ tt[i].loc = ss[i].loc
                            /\ tt[i].bad <=> ss[i].loc = Unknown
  <2> SUFFICES ASSUME NEW i \in DOMAIN ss
               PROVE  /\ tt[i] \in Step /\ tt[i].id = ss[i].id /\ tt[i].loc = ss[i].loc
                      /\ tt[i].bad <=> ss[i].loc = Unknown
    OBVIOUS
  <2>1. ss[i] \in Step /\ ss[i].id \in Nat /\ ss[i].loc \in Location /\ ss[i].pos \in Int
    BY <1>1, StepFields
  <2>2. PICK b \in BOOLEAN : b = (i \in items)
    BY (i \in items) \in BOOLEAN, Zenon
  <2>3. tt[i] = [ss[i] EXCEPT !.bad = b]
    BY <1>10, <2>2
  <2>4. tt[i] = [id |-> ss[i].id, loc |-> ss[i].loc, pos |-> ss[i].pos, bad |-> b]
    BY <2>1, <2>3, StepFields
  <2>5. b <=> ss[i].loc = Unknown
    BY <1>9, <2>2
  <2> QED
    BY <2>1, <2>4, <2>5 DEF Step
<1>13. tt \in [1..Len(ss) -> Step] /\ DOMAIN tt = DOMAIN ss
  BY <1>1, <1>10, <1>12
<1>14. tt \in Seq(Step)
  BY <1>1, <1>13
<1>15. \A i \in DOMAIN ss : tt[i].id # 0
  BY <1>12 DEF Sane, Range
<1>16. Sane(tt) /\ Missing \notin Range(tt)
  BY <1>12, <1>13, <1>15, MissingIsAStep DEF Sane, Range
<1> QED
  BY <1>14, <1>16 DEF tt

\* Points typed in, which have their ids and no position yet.
LEMMA Typewritten ==
  ASSUME NEW locs \in Seq(Location), NEW ids, \A i \in 1..Len(locs) : ids[i] \in Nat \ {0}
  PROVE  /\ FromLocs(locs, ids) \in Seq(Step) /\ Sane(FromLocs(locs, ids))
         /\ Len(FromLocs(locs, ids)) = Len(locs)
         /\ \A i \in 1..Len(locs) : FromLocs(locs, ids)[i].id = ids[i]
<1> DEFINE tt == FromLocs(locs, ids)
<1>1. Len(locs) \in Nat /\ DOMAIN locs = 1..Len(locs) /\ \A i \in 1..Len(locs) : locs[i] \in Location
  OBVIOUS
<1>2. tt = [i \in 1..Len(locs) |-> [id |-> ids[i], loc |-> locs[i], pos |-> NoPos, bad |-> FALSE]]
  BY <1>1 DEF FromLocs
<1> HIDE DEF tt
<1>3. \A i \in 1..Len(locs) : tt[i] \in Step /\ tt[i].id = ids[i] /\ ~tt[i].bad
  BY <1>1, <1>2 DEF Step, NoPos
<1>4. tt \in [1..Len(locs) -> Step]
  BY <1>2, <1>3
<1>5. tt \in Seq(Step) /\ Len(tt) = Len(locs) /\ DOMAIN tt = 1..Len(locs)
  BY <1>1, <1>4
<1>6. Sane(tt)
  BY <1>3, <1>5 DEF Sane
<1> QED
  BY <1>3, <1>5, <1>6 DEF tt

-----------------------------------------------------------------------------
(* New steps.                                                              *)

LEMMA IdsFinite ==
  ASSUME NEW ss \in Seq(Step)
  PROVE  IsFiniteSet(Ids(ss))
<1> DEFINE D == DOMAIN ss
           T == {ss[i].id : i \in D}
           f == [i \in D |-> ss[i].id]
<1>1. Len(ss) \in Nat /\ D = 1..Len(ss)
  OBVIOUS
<1>2. IsFiniteSet(D)
  BY <1>1, FS_Interval
<1>3. f \in Surjection(D, T)
  BY DEF Surjection
<1> HIDE DEF D, f, T
<1>4. IsFiniteSet(T)
  BY <1>2, <1>3, FS_Surjection
<1>5. IsFiniteSet(T \ {0})
  BY <1>4, FS_Difference
<1> QED
  BY <1>5 DEF Ids, T, D

LEMMA InUseFinite ==
  ASSUME TypeInv
  PROVE  IsFiniteSet(InUse)
<1> DEFINE D == 1..MaxLaunches
           F(n) == IF At(n, {"none", "lost"}) THEN {} ELSE Ids(launches[n].steps)
           T == {F(n) : n \in D}
           f == [n \in D |-> F(n)]
<1>1. IsFiniteSet(D) /\ DOMAIN launches = D
  BY ItineraryAssumption, FS_Interval DEF TypeInv, PathType
<1>2. \A n \in D : IsFiniteSet(F(n))
  <2> SUFFICES ASSUME NEW n \in D PROVE IsFiniteSet(F(n))
    OBVIOUS
  <2>1. CASE At(n, {"none", "lost"})
    BY <2>1, FS_EmptySet
  <2>2. CASE ~At(n, {"none", "lost"})
    <3>1. launches[n] \in {NoLaunch, Lost} \cup Launch
      BY DEF TypeInv, PathType
    <3>2. launches[n] \in Launch
      BY <2>2, <3>1 DEF At, NoLaunch, Lost
    <3>3. launches[n].steps \in Seq(Step)
      BY <3>2 DEF Launch
    <3> QED
      BY <2>2, <3>3, IdsFinite
  <2> QED
    BY <2>1, <2>2
<1> HIDE DEF F, D
<1>3. f \in Surjection(D, T)
  BY DEF Surjection
<1>4. \A U \in T : IsFiniteSet(U)
  BY <1>2
<1> HIDE DEF f, T
<1>5. IsFiniteSet(T)
  BY <1>1, <1>3, FS_Surjection
<1>6. IsFiniteSet(UNION T)
  BY <1>4, <1>5, FS_UNION
<1>7. IsFiniteSet(Ids(steps)) /\ IsFiniteSet(restr)
  BY IdsFinite DEF TypeInv, PathType
<1>8. IsFiniteSet(Ids(steps) \cup restr)
  BY <1>7, FS_Union
<1>9. IsFiniteSet((Ids(steps) \cup restr) \cup UNION T)
  BY <1>6, <1>8, FS_Union
<1> QED
  BY <1>1, <1>9 DEF InUse, T, F

\* There are ids for all new steps.
LEMMA IdsGiven ==
  ASSUME TypeInv, NEW count \in Nat
  PROVE  \A i \in 1..count : NewIds(count)[i] \in Nat \ {0}
<1>0. IsFiniteSet(InUse) /\ Cardinality(InUse) \in Nat
  BY InUseFinite, FS_CardinalityType
<1>1. PICK m \in Nat : m = Cardinality(InUse) + count
  BY <1>0
<1> DEFINE M == 1..m
           S == M \ InUse
           D == 1..Cardinality(S)
<1>2. IsFiniteSet(M) /\ Cardinality(M) = m
  BY FS_Interval
<1>6. S \subseteq Nat \ {0}
  OBVIOUS
<1> HIDE DEF M
<1>3. IsFiniteSet(S) /\ Cardinality(S) = Cardinality(M) - Cardinality(M \cap InUse)
  BY <1>2, FS_Difference
<1>4. /\ Cardinality(M \cap InUse) \in Nat
      /\ Cardinality(M \cap InUse) <= Cardinality(InUse)
  BY <1>0, FS_Intersection, FS_CardinalityType
<1> HIDE DEF S
<1>5. Cardinality(S) \in Nat /\ Cardinality(S) >= count
  BY <1>0, <1>1, <1>2, <1>3, <1>4
<1>7. \E f : f \in [D -> S] /\ IsInjective(f)
  <2>1. PICK f : f \in Bijection(D, S)
    BY <1>3, FS_CardinalityType DEF ExistsBijection
  <2> QED
    BY <2>1 DEF Bijection, Injection, IsInjective
<1>8. SetToSeq(S) \in [D -> S]
  BY <1>7 DEF SetToSeq
<1>9. NewIds(count) = SetToSeq(S)
  BY <1>1 DEF NewIds, S, M
<1>10. \A i \in 1..count : i \in D
  BY <1>5
<1> QED
  BY <1>6, <1>8, <1>9, <1>10

LEMMA IdGiven ==
  ASSUME TypeInv
  PROVE  NewId \in Nat \ {0}
  BY IdsGiven DEF NewId

LEMMA ClickedIsPlain ==
  ASSUME TypeInv, NEW loc \in Line
  PROVE  Plain(NewStep(loc))
<1>1. NewId \in Nat \ {0}
  BY IdGiven
<1> QED
  BY <1>1, ItineraryAssumption DEF Plain, NewStep, Step, Location, NoPos

-----------------------------------------------------------------------------
(* A via chosen in the window.                                             *)

Via(id, loc, pos) == [id |-> id, loc |-> loc, pos |-> pos, bad |-> FALSE]

\* A step at the point is replaced.
Replaces(ss, tt, loc, pos) ==
  \E k \in DOMAIN ss : ss[k].loc = loc /\ tt = [ss EXCEPT ![k] = Via(ss[k].id, loc, pos)]

\* Without one, the via is inserted; before the first step that is as far, unless
\* that is the origin.
AsFar(s, pos) == s.pos # NoPos /\ s.pos >= pos
Inserts(ss, tt, loc, pos, id) ==
  \E m \in 1..Len(ss) + 1 :
    /\ tt = InsertAt(ss, m, Via(id, loc, pos))
    /\ \A i \in DOMAIN ss : AsFar(ss[i], pos) =>
         \/ 1 \in DOMAIN ss /\ AsFar(ss[1], pos)
         \/ m <= i /\ m \in DOMAIN ss /\ AsFar(ss[m], pos)

\* Where upsertPathStep replaces or inserts.
LEMMA UpsertCases ==
  ASSUME NEW ss \in Seq(Step), NEW loc, NEW pos \in Int
  PROVE  \/ Replaces(ss, upsertPathStep(ss, loc, pos), loc, pos)
         \/ Inserts(ss, upsertPathStep(ss, loc, pos), loc, pos, NewId)
<1> DEFINE A == {i \in 1..Len(ss) : ss[i].loc = loc}
           B == {i \in 1..Len(ss) : ss[i].pos # NoPos /\ ss[i].pos >= pos}
           same == IF A # {} THEN Min(A) ELSE 0
           index == IF B # {} THEN Min(B) ELSE 0
           at == IF index = 1 THEN 1 ELSE index - 1
           new(id) == Via(id, loc, pos)
<1>1. upsertPathStep(ss, loc, pos) =
        IF same # 0 THEN [ss EXCEPT ![same] = new(ss[same].id)] ELSE AddElementAtIndex(ss, at, new(NewId))
  BY DEF upsertPathStep, SelectInSeq, Via
<1>2. Len(ss) \in Nat /\ DOMAIN ss = 1..Len(ss) /\ A \subseteq Nat /\ B \subseteq Nat
      /\ A \subseteq 1..Len(ss) /\ B \subseteq 1..Len(ss)
  OBVIOUS
<1>3. A # {} => same \in A /\ same # 0
  <2> HIDE DEF A
  <2>1. A # {} => Min(A) \in A
    BY <1>2, MinOf
  <2>2. CASE A # {}
    <3>1. same = Min(A)
      BY <2>2
    <3>2. Min(A) \in 1..Len(ss)
      BY <1>2, <2>1, <2>2
    <3> QED
      BY <2>1, <2>2, <3>1, <3>2
  <2> QED
    BY <2>2
<1>4. /\ B # {} => index \in B /\ \A i \in B : index <= i
      /\ B = {} => index = 0
  <2> HIDE DEF B
  <2>1. B # {} => Min(B) \in B /\ \A i \in B : Min(B) <= i
    BY <1>2, MinOf
  <2>2. CASE B # {}
    <3>1. index = Min(B)
      BY <2>2
    <3> QED
      BY <2>1, <2>2, <3>1
  <2> QED
    BY <2>2
<1>5. CASE A # {}
  <2>1. same \in DOMAIN ss /\ ss[same].loc = loc /\ same # 0
    BY <1>2, <1>3, <1>5
  <2> HIDE DEF same
  <2> QED
    BY <1>1, <2>1 DEF Replaces
<1>6. CASE A = {}
  <2>1. same = 0
    BY <1>6
  <2> HIDE DEF same, index
  <2>2. upsertPathStep(ss, loc, pos) = AddElementAtIndex(ss, at, new(NewId))
    BY <1>1, <2>1
  <2>3. CASE B = {}
    <3>1. at = -1 /\ \A i \in DOMAIN ss : ~AsFar(ss[i], pos)
      BY <1>2, <1>4, <2>3 DEF AsFar
    <3>2. -1 \in -1..Len(ss)
      BY <1>2
    <3>3. PICK m \in 1..Len(ss) + 1 : AddElementAtIndex(ss, -1, new(NewId)) = InsertAt(ss, m, new(NewId))
      BY <3>2, Added
    <3> QED
      BY <2>2, <3>1, <3>3 DEF Inserts
  <2>4. CASE B # {} /\ index = 1
    <3>1. 1 \in DOMAIN ss /\ AsFar(ss[1], pos) /\ at = 1 /\ 1 \in -1..Len(ss)
      BY <1>2, <1>4, <2>4 DEF AsFar
    <3>2. PICK m \in 1..Len(ss) + 1 : AddElementAtIndex(ss, 1, new(NewId)) = InsertAt(ss, m, new(NewId))
      BY <3>1, Added
    <3> QED
      BY <2>2, <3>1, <3>2 DEF Inserts
  <2>5. CASE B # {} /\ index # 1
    <3>1. /\ index \in DOMAIN ss /\ index \in 1..Len(ss) + 1 /\ AsFar(ss[index], pos)
          /\ \A i \in DOMAIN ss : AsFar(ss[i], pos) => index <= i
      BY <1>2, <1>4, <2>5 DEF AsFar
    <3>2. at = index - 1 /\ at >= 0 /\ at + 1 = index
      BY <1>2, <2>5, <3>1
    <3>3. upsertPathStep(ss, loc, pos) = InsertAt(ss, index, new(NewId))
      BY <2>2, <3>2 DEF AddElementAtIndex
    <3> QED
      BY <3>1, <3>3 DEF Inserts
  <2> QED
    BY <2>3, <2>4, <2>5
<1> QED
  BY <1>5, <1>6

\* The array stays well formed and keeps its ids, whatever is shown.
LEMMA Upserted ==
  ASSUME NEW ss \in Seq(Step), Sane(ss), NEW loc \in Line, NEW pos \in Int, NewId \in Nat \ {0}
  PROVE  /\ upsertPathStep(ss, loc, pos) \in Seq(Step) /\ Sane(upsertPathStep(ss, loc, pos))
         /\ Ids(ss) \subseteq Ids(upsertPathStep(ss, loc, pos))
<1> DEFINE tt == upsertPathStep(ss, loc, pos)
<1>0. Len(ss) \in Nat /\ DOMAIN ss = 1..Len(ss) /\ \A i \in DOMAIN ss : ss[i] \in Step
  OBVIOUS
<1>1. CASE Replaces(ss, tt, loc, pos)
  <2>1. PICK k \in DOMAIN ss : ss[k].loc = loc /\ tt = [ss EXCEPT ![k] = Via(ss[k].id, loc, pos)]
    BY <1>1 DEF Replaces
  <2> DEFINE v == Via(ss[k].id, loc, pos)
             S == {v}
  <2>2. loc # Unknown /\ ss[k] # Missing /\ ss[k].id \in Nat /\ ss[k].id # 0
    BY <1>0, <2>1, ItineraryAssumption, MissingIsAStep, StepFields DEF Line, Unknown, Sane
  <2>3. Plain(v) /\ v.id = ss[k].id
    BY <2>2 DEF Plain, Via, Step, Location
  <2> HIDE DEF v, tt
  <2>4. /\ tt \in Seq(Step) /\ DOMAIN tt = DOMAIN ss
        /\ \A i \in DOMAIN ss : tt[i] = IF i = k THEN v ELSE ss[i]
    BY <1>0, <2>1, <2>3 DEF v, Plain
  <2>5. /\ \A s \in S : Plain(s)
        /\ \A i \in DOMAIN tt : tt[i] \in S \/ tt[i] = Missing \/ \E j \in DOMAIN ss : tt[i] = ss[j]
    BY <2>3, <2>4
  <2> HIDE DEF S
  <2>6. Sane(tt)
    BY <2>4, <2>5, SaneFrom
  <2>7. \A i \in DOMAIN ss : tt[i].id = ss[i].id
    BY <2>3, <2>4
  <2> QED
    BY <2>4, <2>6, <2>7 DEF tt, Ids
<1>2. CASE Inserts(ss, tt, loc, pos, NewId)
  <2>1. PICK m \in 1..Len(ss) + 1 : tt = InsertAt(ss, m, Via(NewId, loc, pos))
    BY <1>2 DEF Inserts
  <2> DEFINE v == Via(NewId, loc, pos)
             S == {v}
  <2>2. Plain(v) /\ v \in Step
    BY DEF Plain, Via, Step, Location
  <2> HIDE DEF v, tt
  <2>3. /\ tt \in Seq(Step) /\ Len(tt) = Len(ss) + 1
        /\ \A j \in 1..Len(ss) + 1 : tt[j] = IF j < m THEN ss[j] ELSE IF j = m THEN v ELSE ss[j - 1]
    <3>1. tt \in Seq(Step) /\ IsInsertion(tt, ss, m, v)
      BY <2>1, <2>2, Inserted DEF v
    <3> QED
      BY <3>1 DEF IsInsertion
  <2>4. DOMAIN tt = 1..Len(ss) + 1
    BY <2>3
  <2>5. \A j \in DOMAIN tt : tt[j] \in S \/ tt[j] = Missing \/ \E i \in DOMAIN ss : tt[j] = ss[i]
    <3> SUFFICES ASSUME NEW j \in 1..Len(ss) + 1
                 PROVE  tt[j] = v \/ \E i \in DOMAIN ss : tt[j] = ss[i]
      BY <2>4
    <3>1. (j < m => j \in DOMAIN ss) /\ (~(j < m) /\ j # m => j - 1 \in DOMAIN ss)
      BY <1>0
    <3> QED
      BY <2>3, <3>1
  <2>6. \A s \in S : Plain(s)
    BY <2>2
  <2> HIDE DEF S
  <2>7. Sane(tt)
    BY <2>3, <2>5, <2>6, SaneFrom
  <2>8. \A i \in DOMAIN ss : \E j \in DOMAIN tt : tt[j] = ss[i]
    <3> SUFFICES ASSUME NEW i \in DOMAIN ss PROVE \E j \in DOMAIN tt : tt[j] = ss[i]
      OBVIOUS
    <3>1. CASE i < m
      BY <1>0, <2>3, <2>4, <3>1
    <3>2. CASE ~(i < m)
      <4>1. i + 1 \in 1..Len(ss) + 1 /\ ~(i + 1 < m) /\ i + 1 # m /\ i + 1 - 1 = i
        BY <1>0, <3>2
      <4>2. tt[i + 1] = ss[i]
        BY <2>3, <4>1
      <4> QED
        BY <2>4, <4>1, <4>2
    <3> QED
      BY <3>1, <3>2
  <2> QED
    BY <2>3, <2>7, <2>8 DEF tt, Ids
<1> QED
  BY <1>1, <1>2, UpsertCases

\* The first and the last valid step, where the path starts and ends.
LEMMA EndsOfPath ==
  ASSUME NEW ss \in Seq(Step), NEW ops, Fits(ss, ops)
  PROVE  \E a, b \in ValidAt(ss) :
           /\ \A i \in ValidAt(ss) : a <= i /\ i <= b
           /\ ops = Ops(ValidLocs(ss))
           /\ ss[a].pos = 0 /\ ss[b].pos + 1 = Len(ops) /\ DOMAIN ops = 1..Len(ops) /\ Len(ops) \in Nat
<1> DEFINE I == ValidAt(ss)
<1>1. Len(ss) \in Nat /\ I \subseteq 1..Len(ss) /\ I \subseteq DOMAIN ss /\ I \subseteq Nat
  BY DEF ValidAt
<1>2. I # {}
  <2>1. Len(Valid(ss)) = Cardinality(I) /\ Valid(ss) \in Seq(Step)
    BY LocsOfValid
  <2>2. Cardinality(I) # 0
    BY <2>1 DEF Fits
  <2> QED
    BY <2>2, FS_EmptySet
<1> HIDE DEF I
<1>3. PICK a \in I : \A i \in I : a <= i
  BY <1>1, <1>2, LeastOf
<1>4. PICK b \in I : \A i \in I : i <= b
  BY <1>1, <1>2, GreatestOf
<1>5. ValidLocs(ss)[1] = ss[a].loc /\ ValidLocs(ss)[Len(ValidLocs(ss))] = ss[b].loc
  BY <1>3, <1>4, EndLocs DEF I
<1> DEFINE from == ss[a].loc
           to == ss[b].loc
           d == Distance(from, to)
<1>6. ops = [i \in 1..d + 1 |-> IF from < to THEN from + i - 1 ELSE from - i + 1]
  BY <1>5 DEF Fits, Ops, ValidLocs, Last
<1>7. from \in Int /\ to \in Int /\ ss[a].pos \in Int /\ ss[b].pos \in Int
  <2>1. ss[a] \in Step /\ ss[b] \in Step
    BY <1>1
  <2>2. \A x \in Location : x \in Int
    BY ItineraryAssumption DEF Location, Line, Unknown
  <2> QED
    BY <2>1, <2>2, StepFields
<1>8. ~ss[a].bad /\ ~ss[b].bad /\ a \in DOMAIN ss /\ b \in DOMAIN ss
  BY DEF I, ValidAt
<1>9. /\ ss[a].pos + 1 \in DOMAIN ops /\ ops[ss[a].pos + 1] = from
      /\ ss[b].pos + 1 \in DOMAIN ops /\ ops[ss[b].pos + 1] = to
  BY <1>8 DEF Fits
<1> HIDE DEF from, to
<1>10. d = IF from <= to THEN to - from ELSE from - to
  BY DEF Distance
<1> HIDE DEF d
<1>11. d \in Nat /\ DOMAIN ops = 1..d + 1 /\ Len(ops) = d + 1
  BY <1>6, <1>7, <1>10
<1>12. \A i \in 1..d + 1 : ops[i] = IF from < to THEN from + i - 1 ELSE from - i + 1
  BY <1>6
<1>13. PICK x \in Int, y \in Int : x = ss[a].pos + 1 /\ y = ss[b].pos + 1
  BY <1>7
<1>14. /\ x \in 1..d + 1 /\ from = IF from < to THEN from + x - 1 ELSE from - x + 1
       /\ y \in 1..d + 1 /\ to = IF from < to THEN from + y - 1 ELSE from - y + 1
  BY <1>9, <1>11, <1>12, <1>13
<1>15. x = 1 /\ y = d + 1
  BY <1>7, <1>10, <1>11, <1>14
<1>16. ss[a].pos = 0 /\ ss[b].pos + 1 = Len(ops) /\ Len(ops) \in Nat
  <2>1. ss[a].pos + 1 = 1 /\ ss[b].pos + 1 = d + 1
    BY <1>13, <1>15
  <2>2. \A z \in Int : z + 1 = 1 => z = 0
    OBVIOUS
  <2> QED
    BY <1>7, <1>11, <2>1, <2>2
<1>17. ops = Ops(ValidLocs(ss))
  BY DEF Fits, ValidLocs
<1> QED
  BY <1>3, <1>4, <1>11, <1>16, <1>17 DEF I

\* A via of the path being shown: the path is the same, as the comment says.
LEMMA UpsertFits ==
  ASSUME NEW ss \in Seq(Step), Sane(ss), NEW ops \in Seq(Line), Fits(ss, ops), NEW pos \in Nat \ {0},
         pos + 1 \in DOMAIN ops, NewId \in Nat \ {0}
  PROVE  Fits(upsertPathStep(ss, ops[pos + 1], pos), ops)
<1> DEFINE loc == ops[pos + 1]
           tt == upsertPathStep(ss, loc, pos)
<1>0. Len(ss) \in Nat /\ DOMAIN ss = 1..Len(ss) /\ (\A i \in DOMAIN ss : ss[i] \in Step) /\ loc \in Line
  OBVIOUS
<1>1. loc # Unknown
  BY <1>0, ItineraryAssumption DEF Line, Unknown
<1> HIDE DEF loc
<1>2. /\ tt \in Seq(Step) /\ Sane(tt)
      /\ Replaces(ss, tt, loc, pos) \/ Inserts(ss, tt, loc, pos, NewId)
  <2>1. pos \in Int
    OBVIOUS
  <2> QED
    BY <1>0, <2>1, Upserted, UpsertCases
<1> HIDE DEF tt
<1>3. \A id : Via(id, loc, pos).loc = loc /\ Via(id, loc, pos).pos = pos /\ ~Via(id, loc, pos).bad
              /\ Via(id, loc, pos) # Missing
  BY <1>1, MissingIsAStep DEF Via
<1>4. pos + 1 \in DOMAIN ops /\ ops[pos + 1] = loc
  BY DEF loc
<1>5. CASE Replaces(ss, tt, loc, pos)
  <2>1. PICK k \in DOMAIN ss : ss[k].loc = loc /\ tt = [ss EXCEPT ![k] = Via(ss[k].id, loc, pos)]
    BY <1>5 DEF Replaces
  <2> DEFINE v == Via(ss[k].id, loc, pos)
  <2>2. DOMAIN tt = DOMAIN ss /\ \A i \in DOMAIN ss : tt[i] = IF i = k THEN v ELSE ss[i]
    BY <2>1
  <2>3. v.loc = loc /\ v.pos = pos /\ ~v.bad /\ v # Missing
    BY <1>3
  <2> HIDE DEF v
  <2>4. ss[k].bad = FALSE /\ v.bad = FALSE
    BY <1>0, <1>1, <2>1, <2>3, StepFields DEF Sane, Via, v
  <2>5. \A i \in DOMAIN ss : tt[i].loc = ss[i].loc /\ tt[i].bad = ss[i].bad
    BY <2>1, <2>2, <2>3, <2>4
  <2>6. Len(tt) = Len(ss)
    BY <1>0, <1>2, <2>2
  <2>7. ValidLocs(tt) = ValidLocs(ss)
    BY <1>2, <2>5, <2>6, SameLocs
  <2>8. Missing \notin Range(tt)
    BY <2>2, <2>3 DEF Fits, Range
  <2>9. Valid(tt) # <<>> /\ ops = Ops(Locs(Valid(tt)))
    <3>1. Len(Valid(tt)) = Len(Valid(ss)) /\ Valid(ss) \in Seq(Step)
      BY <1>2, <2>7, LocsOfValid
    <3>2. Len(Valid(ss)) # 0
      BY <3>1 DEF Fits
    <3> QED
      BY <2>7, <3>1, <3>2 DEF Fits, ValidLocs
  <2>10. \A i \in DOMAIN tt : tt[i].bad => tt[i].pos = NoPos
    BY <2>2, <2>3 DEF Fits
  <2>11. \A i \in DOMAIN tt : ~tt[i].bad => tt[i].pos + 1 \in DOMAIN ops /\ ops[tt[i].pos + 1] = tt[i].loc
    BY <1>4, <2>2, <2>3 DEF Fits
  <2> QED
    BY <2>8, <2>9, <2>10, <2>11 DEF Fits, tt, loc
<1>6. CASE Inserts(ss, tt, loc, pos, NewId)
  <2>1. PICK m \in 1..Len(ss) + 1 :
          /\ tt = InsertAt(ss, m, Via(NewId, loc, pos))
          /\ \A i \in DOMAIN ss : AsFar(ss[i], pos) =>
               \/ 1 \in DOMAIN ss /\ AsFar(ss[1], pos)
               \/ m <= i /\ m \in DOMAIN ss /\ AsFar(ss[m], pos)
    BY <1>6 DEF Inserts
  <2> DEFINE v == Via(NewId, loc, pos)
             I == ValidAt(ss)
             J == ValidAt(tt)
  <2>2. v.loc = loc /\ v.pos = pos /\ ~v.bad /\ v # Missing /\ v \in Step
    BY <1>0, <1>3 DEF Via, Step, Location
  <2> HIDE DEF v
  <2>3. /\ tt \in Seq(Step) /\ Len(tt) = Len(ss) + 1
        /\ \A j \in 1..Len(ss) + 1 : tt[j] = IF j < m THEN ss[j] ELSE IF j = m THEN v ELSE ss[j - 1]
    <3>1. tt = InsertAt(ss, m, v) /\ v \in Step
      BY <2>1, <2>2 DEF v
    <3> HIDE DEF tt
    <3> QED
      <4>1. tt \in Seq(Step) /\ IsInsertion(tt, ss, m, v)
        BY <3>1, Inserted
      <4> QED
        BY <4>1 DEF IsInsertion
  <2>4. DOMAIN tt = 1..Len(ss) + 1 /\ m \in DOMAIN tt /\ tt[m] = v
    BY <1>0, <2>3
  <2>5. \A j \in DOMAIN tt : j # m => \E i \in DOMAIN ss : tt[j] = ss[i] /\ i = IF j < m THEN j ELSE j - 1
    <3> SUFFICES ASSUME NEW j \in 1..Len(ss) + 1, j # m
                 PROVE  \E i \in DOMAIN ss : tt[j] = ss[i] /\ i = IF j < m THEN j ELSE j - 1
      BY <2>4
    <3>1. CASE j < m
      BY <1>0, <2>3, <3>1
    <3>2. CASE ~(j < m)
      <4>1. j - 1 \in DOMAIN ss /\ tt[j] = ss[j - 1]
        BY <1>0, <2>3, <3>2
      <4> QED
        BY <3>2, <4>1
    <3> QED
      BY <3>1, <3>2
  <2>6. PICK a \in I, b \in I :
          /\ \A i \in I : a <= i /\ i <= b
          /\ ops = Ops(ValidLocs(ss))
          /\ ss[a].pos = 0 /\ ss[b].pos + 1 = Len(ops) /\ DOMAIN ops = 1..Len(ops) /\ Len(ops) \in Nat
    BY EndsOfPath
  <2>7. /\ \A i \in I : i \in DOMAIN ss /\ ~ss[i].bad /\ ss[i].pos \in Int
        /\ \A i \in DOMAIN ss : i \notin I => ss[i].pos = NoPos
        /\ \A i \in I : i \in Nat
    BY <1>0, StepFields DEF ValidAt, Fits
  <2> HIDE DEF I
  <2>8. a < m /\ m <= b
    <3>1. AsFar(ss[b], pos)
      <4>1. PICK x \in Int : x = ss[b].pos
        BY <2>7
      <4>2. x + 1 = Len(ops) /\ pos + 1 <= Len(ops)
        BY <2>6, <4>1
      <4> QED
        BY <2>6, <4>1, <4>2 DEF AsFar, NoPos
    <3>2. ~(1 \in DOMAIN ss /\ AsFar(ss[1], pos))
      <4> SUFFICES ASSUME 1 \in DOMAIN ss, ss[1].pos # NoPos, ss[1].pos >= pos PROVE FALSE
        BY DEF AsFar
      <4>1. 1 \in I
        BY <2>7
      <4>2. a = 1
        BY <1>0, <2>6, <2>7, <4>1
      <4> QED
        BY <2>6, <4>2
    <3>3. m <= b /\ m \in DOMAIN ss /\ ss[m].pos # NoPos /\ ss[m].pos >= pos
      BY <2>1, <2>7, <3>1, <3>2 DEF AsFar
    <3>4. m \in I /\ m # a
      BY <2>6, <2>7, <3>3
    <3> QED
      BY <2>6, <2>7, <3>3, <3>4
  <2>9. tt[a] = ss[a] /\ tt[b + 1] = ss[b] /\ a \in J /\ b + 1 \in J
    <3>1. a \in 1..Len(ss) + 1 /\ a < m /\ b + 1 \in 1..Len(ss) + 1 /\ ~(b + 1 < m) /\ b + 1 # m
          /\ b + 1 - 1 = b
      BY <1>0, <2>7, <2>8
    <3>2. tt[a] = ss[a] /\ tt[b + 1] = ss[b]
      BY <2>3, <3>1
    <3> QED
      BY <2>4, <2>7, <3>1, <3>2 DEF ValidAt
  <2>10. \A j \in J : a <= j /\ j <= b + 1
    <3> SUFFICES ASSUME NEW j \in J PROVE a <= j /\ j <= b + 1
      OBVIOUS
    <3>0. j \in DOMAIN tt /\ ~tt[j].bad /\ j \in Nat
      BY <2>4 DEF ValidAt
    <3>1. CASE j = m
      BY <1>0, <2>7, <2>8, <3>1
    <3>2. CASE j # m
      <4>1. PICK i \in DOMAIN ss : tt[j] = ss[i] /\ i = IF j < m THEN j ELSE j - 1
        BY <2>5, <3>0, <3>2
      <4>2. i \in I
        BY <3>0, <4>1 DEF I, ValidAt
      <4>3. a <= i /\ i <= b /\ i \in Nat /\ a \in Nat /\ b \in Nat /\ (j = i \/ j = i + 1)
        BY <1>0, <2>6, <2>7, <3>0, <4>1, <4>2
      <4> QED
        BY <4>3
    <3> QED
      BY <3>1, <3>2
  <2> HIDE DEF J
  <2>11. /\ Len(ValidLocs(tt)) \in Nat \ {0}
         /\ ValidLocs(tt)[1] = ss[a].loc /\ ValidLocs(tt)[Len(ValidLocs(tt))] = ss[b].loc
    BY <2>3, <2>9, <2>10, EndLocs DEF J
  <2>12. ValidLocs(ss)[1] = ss[a].loc /\ ValidLocs(ss)[Len(ValidLocs(ss))] = ss[b].loc
    BY <2>6, EndLocs DEF I
  <2>13. ops = Ops(Locs(Valid(tt)))
    <3>1. Ops(ValidLocs(ss)) = Ops(ValidLocs(tt))
      BY <2>11, <2>12 DEF Ops, Last
    <3> QED
      BY <2>6, <3>1 DEF ValidLocs
  <2>14. Valid(tt) # <<>>
    <3>1. Len(Valid(tt)) = Len(ValidLocs(tt))
      BY <2>3, LocsOfValid
    <3> QED
      BY <2>11, <3>1
  <2>15. Missing \notin Range(tt)
    <3>1. \A j \in DOMAIN tt : tt[j] # Missing
      BY <2>2, <2>4, <2>5 DEF Fits, Range
    <3> QED
      BY <3>1 DEF Range
  <2>16. \A j \in DOMAIN tt : tt[j].bad => tt[j].pos = NoPos
    BY <2>2, <2>4, <2>5 DEF Fits
  <2>17. \A j \in DOMAIN tt : ~tt[j].bad => tt[j].pos + 1 \in DOMAIN ops /\ ops[tt[j].pos + 1] = tt[j].loc
    BY <1>4, <2>2, <2>4, <2>5 DEF Fits
  <2> QED
    BY <2>13, <2>14, <2>15, <2>16, <2>17 DEF Fits, tt, loc
<1> QED
  BY <1>2, <1>5, <1>6

-----------------------------------------------------------------------------
(* Launches.                                                               *)

LEMMA NotLaunches == NoLaunch \notin Launch /\ Lost \notin Launch
<1>1. \A l \in Launch : l.pc \in Underway
  BY DEF Launch
<1>2. NoLaunch.pc \notin Underway /\ Lost.pc \notin Underway
  BY DEF NoLaunch, Lost, Underway, Matching, Found
<1> QED
  BY <1>1, <1>2

LEMMA LaunchFields ==
  \A l \in Launch : /\ l.pc \in Underway /\ l.steps \in Seq(Step) /\ l.stock \in AnyStock
                    /\ l.tag \in Tag /\ l.from \in Renders
                    /\ l.from.stock \in AnyStock /\ l.from.tag \in Tag /\ l.from.ready \in BOOLEAN
<1>1. \A l \in Launch : /\ l.pc \in Underway /\ l.steps \in Seq(Step) /\ l.stock \in AnyStock
                        /\ l.tag \in Tag /\ l.from \in Renders
  BY DEF Launch
<1>2. \A f \in Renders : f.stock \in AnyStock /\ f.tag \in Tag /\ f.ready \in BOOLEAN
  BY DEF Renders
<1> QED
  BY <1>1, <1>2

\* A launch that is under way has more than a pc.
LEMMA IsUnderway ==
  ASSUME PathType, NEW n \in 1..MaxLaunches, NEW pcs, At(n, pcs), pcs \subseteq Underway
  PROVE  launches[n] \in Launch /\ launches[n].pc \in pcs
<1>1. launches[n] \in {NoLaunch, Lost} \cup Launch
  BY DEF PathType
<1>2. NoLaunch.pc \notin Underway /\ Lost.pc \notin Underway
  BY DEF NoLaunch, Lost, Underway, Matching, Found
<1> QED
  BY <1>1, <1>2 DEF At

LEMMA LaunchSet ==
  ASSUME PathType, NEW n \in 1..MaxLaunches, NEW l \in {NoLaunch, Lost} \cup Launch,
         launches' = [launches EXCEPT ![n] = l]
  PROVE  /\ launches' \in [1..MaxLaunches -> {NoLaunch, Lost} \cup Launch]
         /\ launches'[n] = l /\ \A m \in 1..MaxLaunches : m # n => launches'[m] = launches[m]
  BY DEF PathType

LEMMA Continued ==
  ASSUME PathType, NEW n \in 1..MaxLaunches, launches[n] \in Launch, NEW pc \in Underway, Continue(n, pc)
  PROVE  \E l \in Launch :
           /\ launches' = [launches EXCEPT ![n] = l]
           /\ l.pc = pc /\ l.steps = launches[n].steps /\ l.stock = launches[n].stock
           /\ l.tag = launches[n].tag /\ l.from = launches[n].from
<1> DEFINE l == [pc |-> pc, steps |-> launches[n].steps, stock |-> launches[n].stock,
                 tag |-> launches[n].tag, from |-> launches[n].from]
<1>1. l \in Launch
  BY DEF Launch
<1>2. [launches[n] EXCEPT !.pc = pc] = l
  BY DEF Launch
<1>3. launches' = [launches EXCEPT ![n] = [launches[n] EXCEPT !.pc = pc]]
  BY DEF Continue
<1> QED
  BY <1>1, <1>2, <1>3

\* The launches that are under way after a step that changes one.
LEMMA LaunchesSane ==
  ASSUME IInv, NEW n \in 1..MaxLaunches, NEW l \in {NoLaunch, Lost} \cup Launch,
         launches' = [launches EXCEPT ![n] = l], ready => ready',
         l \in Launch => ready' /\ LaunchSane(l)
  PROVE  \A m \in 1..MaxLaunches : launches'[m] \in Launch => ready' /\ LaunchSane(launches'[m])
<1>1. /\ launches'[n] = l /\ \A m \in 1..MaxLaunches : m # n => launches'[m] = launches[m]
  BY LaunchSet DEF IInv, TypeInv
<1>2. \A m \in 1..MaxLaunches : launches[m] \in Launch => ready /\ LaunchSane(launches[m])
  BY DEF IInv, Coherent
<1> QED
  BY <1>1, <1>2

LEMMA NothingShown == NoProps \in Shown /\ NoProps.ops = <<>>
  BY DEF NoProps, Shown, AnyStock

\* A launch, the first or the one that invalid items start again. What it closes
\* over is current, or the step is marked as stale.
LEMMA BeginPreserves ==
  ASSUME IInv, NEW n \in 1..MaxLaunches, NEW ss \in Seq(Step), Sane(ss),
         NEW st \in AnyStock, NEW tg \in Tag, NEW from \in Renders, NEW isInit \in BOOLEAN,
         Begin(n, ss, st, tg, from, isInit), isInit => ss = steps,
         from.ready => ready', ready => ready', ready' \in BOOLEAN,
         ~stale' => n = turn', ~stale' => st = stock', ~stale' => tg = tag',
         ~stale' => from.ready = ready', ~stale' /\ isInit => ~stale
  PROVE  PathType' /\ Coherent'
<1>0. PathType /\ SettingsType /\ Coherent
  BY DEF IInv, TypeInv
<1>1. /\ steps' = ss /\ restr' \subseteq Nat /\ IsFiniteSet(restr')
      /\ restr' \subseteq restr /\ (~isInit => restr' = {})
  BY <1>0, FS_EmptySet DEF Begin, replaceItinerary, PathType
<1>2. props' = NoProps /\ NoProps \in Shown
  BY NothingShown DEF Begin
<1>3. ~stale' => restr' \subseteq Ids(ss)
  <2>1. CASE isInit
    BY <1>0, <1>1, <2>1 DEF Coherent, Fresh
  <2>2. CASE ~isInit
    BY <1>1, <2>2
  <2> QED
    BY <2>1, <2>2
<1> DEFINE rec == [pc |-> IF st = NoStock THEN "match missing" ELSE "stock",
                   steps |-> ss, stock |-> st, tag |-> tg, from |-> from]
<1>4. PICK l \in {NoLaunch, Lost} \cup Launch :
        /\ launches' = [launches EXCEPT ![n] = l]
        /\ status' \in Statuses
        /\ l \in Launch => /\ Missing \notin Range(ss) /\ from.ready /\ l = rec
        /\ status' = "done" => ~from.ready /\ status = "done"
  <2>1. CASE Missing \in Range(ss) \/ ~from.ready
    <3>1. /\ launches' = [launches EXCEPT ![n] = NoLaunch]
          /\ status' = "missing" \/ (~from.ready /\ status' = status)
      BY <2>1 DEF Begin
    <3>2. status' \in Statuses /\ (status' = "done" => ~from.ready /\ status = "done")
      BY <1>0, <3>1 DEF PathType, Statuses
    <3> QED
      BY <3>1, <3>2, NotLaunches
  <2>2. CASE Missing \notin Range(ss) /\ from.ready
    <3>1. /\ launches' = [launches EXCEPT ![n] = rec]
          /\ status' \in {"missing", "running"}
      BY <2>2 DEF Begin
    <3>2. rec \in Launch
      BY DEF Launch, Underway, Matching
    <3>3. status' \in Statuses /\ status' # "done"
      BY <3>1 DEF Statuses
    <3> HIDE DEF rec
    <3> QED
      BY <2>2, <3>1, <3>2, <3>3
  <2> QED
    BY <2>1, <2>2
<1>5. l \in Launch => LaunchSane(l) /\ ready' /\ l.steps = ss /\ l.stock = st /\ l.tag = tg
  <2> SUFFICES ASSUME l \in Launch
               PROVE  LaunchSane(l) /\ ready' /\ l.steps = ss /\ l.stock = st /\ l.tag = tg
    OBVIOUS
  <2>1. /\ l.steps = ss /\ l.stock = st /\ l.tag = tg /\ l.from = from
        /\ l.pc \in {"match missing", "stock"}
    <3>1. l = rec
      BY <1>4
    <3>2. /\ rec.steps = ss /\ rec.stock = st /\ rec.tag = tg /\ rec.from = from
          /\ rec.pc \in {"match missing", "stock"}
      OBVIOUS
    <3> HIDE DEF rec
    <3> QED
      BY <3>1, <3>2
  <2>2. l.pc \notin Found /\ l.pc # "match invalid"
    BY <2>1 DEF Found
  <2> QED
    BY <1>4, <2>1, <2>2 DEF LaunchSane
<1> HIDE DEF rec
<1>6. /\ launches' \in [1..MaxLaunches -> {NoLaunch, Lost} \cup Launch]
      /\ launches'[n] = l
  BY <1>0, <1>4, LaunchSet
<1>7. \A m \in 1..MaxLaunches : launches'[m] \in Launch => ready' /\ LaunchSane(launches'[m])
  BY <1>4, <1>5, LaunchesSane
<1>8. status' = "done" => ready'
  BY <1>0, <1>4 DEF Coherent
<1>9. ~stale' => Fresh'
  <2> SUFFICES ASSUME ~stale' PROVE Fresh'
    OBVIOUS
  <2>1. status' # "done"
    <3>1. ~from.ready => ~ready
      BY <1>0 DEF SettingsType
    <3> QED
      BY <1>0, <1>4, <3>1 DEF Coherent
  <2>2. \A m \in 1..MaxLaunches :
          m = turn' /\ launches'[m] \in Launch => LaunchCurrent(launches[m])'
    <3> SUFFICES ASSUME l \in Launch PROVE LaunchCurrent(l)'
      BY <1>6
    <3> QED
      BY <1>2, <1>3, <1>5, <2>1 DEF LaunchCurrent
  <2> QED
    BY <1>1, <1>2, <1>3, <2>1, <2>2 DEF Fresh
<1>10. PathType'
  BY <1>1, <1>2, <1>4, <1>6 DEF PathType
<1> QED
  BY <1>1, <1>7, <1>8, <1>9, <1>10 DEF Coherent

LEMMA CallbacksRenewed ==
  ASSUME IInv, NEW isNew \in BOOLEAN, NEW st \in AnyStock, NEW tg \in Tag, NEW rd \in BOOLEAN,
         Callbacks(isNew, st, tg, rd), rd => ready', ready => ready'
  PROVE  byStock' \in Renders /\ byTag' \in Renders /\ NotAhead'
<1>1. Rendered(st, tg, rd) \in Renders /\ Rendered(st, tg, rd).ready = rd
  BY DEF Rendered, Renders
<1>2. byStock' \in {byStock, Rendered(st, tg, rd)} /\ byTag' \in {byTag, Rendered(st, tg, rd)}
  BY DEF Callbacks
<1>3. byStock \in Renders /\ byTag \in Renders /\ NotAhead
  BY DEF IInv, TypeInv, SettingsType
<1>4. (byStock'.ready => ready') /\ (byTag'.ready => ready')
  BY <1>1, <1>2, <1>3 DEF NotAhead
<1> QED
  BY <1>1, <1>2, <1>3, <1>4 DEF NotAhead

\* An edit that launches with a sane array keeps the invariant.
LEMMA LaunchPreserves ==
  ASSUME IInv, NEW ss \in Seq(Step), Sane(ss), LaunchPathfinding(ss), modal' = modal
  PROVE  IInv'
<1>1. SettingsType
  BY DEF IInv, TypeInv
<1>2. /\ stock' = stock /\ tag' = tag /\ ready' = ready /\ failures' = failures /\ stale' = FALSE
      /\ turn' = turn + 1 /\ turn < MaxLaunches
      /\ Begin(turn', ss, stock, tag, Current, FALSE) /\ Callbacks(TRUE, stock, tag, ready)
  BY DEF LaunchPathfinding
<1>3. turn' \in 1..MaxLaunches /\ turn' \in 0..MaxLaunches
  BY <1>1, <1>2, ItineraryAssumption DEF SettingsType
<1>4. stock \in AnyStock /\ tag \in Tag /\ ready \in BOOLEAN
  BY <1>1 DEF SettingsType
<1>5. Current \in Renders /\ Current.ready = ready
  BY <1>4 DEF Current, Rendered, Renders
<1>6. PathType' /\ Coherent'
  BY <1>2, <1>3, <1>4, <1>5, BeginPreserves
<1>7. byStock' \in Renders /\ byTag' \in Renders /\ NotAhead'
  BY <1>2, <1>4, CallbacksRenewed
<1>8. SettingsType'
  BY <1>1, <1>2, <1>3, <1>7 DEF SettingsType
<1> QED
  BY <1>6, <1>7, <1>8 DEF IInv, TypeInv

-----------------------------------------------------------------------------
(* The invariant holds initially.                                          *)

LEMMA InitEstablishes == Init => IInv
<1> SUFFICES ASSUME Init PROVE IInv
  OBVIOUS
<1>1. PICK train \in Trains, rd \in BOOLEAN, r \in BOOLEAN :
       /\ stock = train.stock /\ tag = train.tag /\ ready = rd
       /\ steps = IF train.path = <<>> THEN <<Missing, Missing>>
                  ELSE FromLocs(train.path, [i \in DOMAIN train.path |-> i])
       /\ restr = IF r /\ train.path # <<>> THEN {1, Len(train.path)} ELSE {}
  BY DEF Init
<1>2. train.stock \in AnyStock /\ train.tag \in Tag /\ train.path \in Seq(Location)
  BY ItineraryAssumption DEF AnyStock, Location
<1>3. /\ steps \in Seq(Step) /\ Sane(steps)
      /\ restr \subseteq Nat /\ IsFiniteSet(restr) /\ restr \subseteq Ids(steps)
  <2>1. CASE train.path = <<>>
    <3>1. <<Missing, Missing>> \in Seq(Step)
      BY MissingIsAStep
    <3>2. Sane(<<Missing, Missing>>)
      BY MissingIsAStep DEF Sane
    <3> QED
      BY <1>1, <2>1, <3>1, <3>2, FS_EmptySet
  <2>2. CASE train.path # <<>>
    <3> DEFINE ids == [i \in DOMAIN train.path |-> i]
    <3>0. PICK m \in Nat \ {0} : m = Len(train.path)
      BY <1>2, <2>2
    <3>1. \A i \in 1..Len(train.path) : ids[i] = i /\ ids[i] \in Nat \ {0}
      BY <1>2
    <3>2. steps = FromLocs(train.path, ids)
      BY <1>1, <2>2
    <3> HIDE DEF ids
    <3>3. /\ steps \in Seq(Step) /\ Sane(steps) /\ Len(steps) = m
          /\ \A i \in 1..m : steps[i].id = i
      BY <1>2, <3>0, <3>1, <3>2, Typewritten
    <3>4. restr \subseteq {1, m}
      BY <1>1, <3>0
    <3>5. {1, m} \subseteq Nat /\ IsFiniteSet({1, m})
      <4>1. IsFiniteSet({1}) /\ IsFiniteSet({m}) /\ {1, m} = {1} \cup {m}
        BY FS_Singleton
      <4>2. {1, m} \subseteq Nat
        OBVIOUS
      <4>3. IsFiniteSet({1} \cup {m})
        BY <4>1, FS_Union
      <4> QED
        BY <4>1, <4>2, <4>3
    <3>6. {1, m} \subseteq Ids(steps)
      <4>1. 1 \in 1..m /\ m \in 1..m /\ DOMAIN steps = 1..m
        BY <3>3
      <4> QED
        BY <3>3, <4>1 DEF Ids
    <3> QED
      BY <3>3, <3>4, <3>5, <3>6, FS_Subset
  <2> QED
    BY <2>1, <2>2
<1>4. /\ status = "initial" /\ props = NoProps /\ modal = <<>> /\ turn = 0 /\ failures = 0
      /\ stale = FALSE /\ byStock = Rendered(stock, tag, ready) /\ byTag = byStock
      /\ launches = [n \in 1..MaxLaunches |-> NoLaunch]
  BY DEF Init
<1>5. PathType
  BY <1>3, <1>4, NothingShown DEF PathType, Statuses
<1>6. stock \in AnyStock /\ tag \in Tag /\ ready \in BOOLEAN
  BY <1>1, <1>2
<1>7. byStock \in Renders /\ byTag \in Renders /\ NotAhead
  BY <1>4, <1>6 DEF Rendered, Renders, NotAhead
<1>8. SettingsType
  <2>1. turn \in 0..MaxLaunches /\ failures \in Nat
    BY <1>4, ItineraryAssumption
  <2>2. modal \in Seq(Line) /\ stale \in BOOLEAN
    <3>1. <<>> \in Seq(Line) /\ FALSE \in BOOLEAN
      OBVIOUS
    <3>2. modal = <<>> /\ stale = FALSE
      BY <1>4
    <3> QED
      BY <3>1, <3>2
  <2> QED
    BY <1>6, <1>7, <2>1, <2>2 DEF SettingsType
<1>9. \A n \in 1..MaxLaunches : launches[n] \notin Launch
  BY <1>4, NotLaunches
<1>10. Coherent
  BY <1>3, <1>4, <1>9 DEF Coherent, Fresh
<1> QED
  BY <1>5, <1>7, <1>8, <1>10 DEF IInv, TypeInv

-----------------------------------------------------------------------------
(* Answers and failures keep the invariant.                                *)

LEMMA SettingsKept ==
  ASSUME IInv, UNCHANGED Settings, failures' \in Nat, stale' \in BOOLEAN,
         \/ UNCHANGED <<byStock, byTag>>
         \/ \E isNew \in BOOLEAN : Callbacks(isNew, stock, tag, ready)
  PROVE  SettingsType' /\ NotAhead'
<1>1. SettingsType /\ NotAhead
  BY DEF IInv, TypeInv
<1>2. stock' = stock /\ tag' = tag /\ ready' = ready /\ turn' = turn /\ modal' = modal
  BY DEF Settings
<1>3. byStock' \in Renders /\ byTag' \in Renders /\ NotAhead'
  <2>1. CASE UNCHANGED <<byStock, byTag>>
    BY <1>1, <1>2, <2>1 DEF SettingsType, NotAhead
  <2>2. CASE \E isNew \in BOOLEAN : Callbacks(isNew, stock, tag, ready)
    <3>1. stock \in AnyStock /\ tag \in Tag /\ ready \in BOOLEAN
      BY <1>1 DEF SettingsType
    <3> QED
      BY <1>2, <2>2, <3>1, CallbacksRenewed
  <2> QED
    BY <2>1, <2>2
<1>4. SettingsType'
  BY <1>1, <1>2, <1>3 DEF SettingsType
<1> QED
  BY <1>3, <1>4

\* A launch that goes on or ends without a path. It may store its own steps.
LEMMA Proceeds ==
  ASSUME IInv, NEW n \in 1..MaxLaunches, launches[n] \in Launch,
         NEW l \in {NoLaunch, Lost} \cup Launch, launches' = [launches EXCEPT ![n] = l],
         l \in Launch => LaunchSane(l),
         l \in Launch => /\ l.steps = launches[n].steps
                         /\ l.stock = launches[n].stock /\ l.tag = launches[n].tag,
         UNCHANGED Settings, restr' = restr, props' = props,
         steps' \in {steps, launches[n].steps},
         status' \in {status, "missing", "running", "error"}, stale => stale',
         ~stale' => n = turn \/ (steps' = steps /\ status' = status)
  PROVE  PathType' /\ Coherent'
<1>0. PathType /\ SettingsType /\ Coherent
  BY DEF IInv, TypeInv
<1>1. stock' = stock /\ tag' = tag /\ ready' = ready /\ turn' = turn
  BY DEF Settings
<1>2. LaunchSane(launches[n]) /\ ready
  BY <1>0 DEF Coherent
<1>3. steps' \in Seq(Step) /\ Sane(steps')
  BY <1>0, <1>2, LaunchFields DEF LaunchSane, Coherent, PathType
<1>4. status' \in Statuses
  BY <1>0 DEF PathType, Statuses
<1>5. /\ launches' \in [1..MaxLaunches -> {NoLaunch, Lost} \cup Launch]
      /\ launches'[n] = l /\ \A m \in 1..MaxLaunches : m # n => launches'[m] = launches[m]
  BY <1>0, LaunchSet
<1>6. PathType'
  BY <1>0, <1>3, <1>4, <1>5 DEF PathType
<1>7. \A m \in 1..MaxLaunches : launches'[m] \in Launch => ready' /\ LaunchSane(launches'[m])
  BY <1>1, <1>2, LaunchesSane
<1>8. status' = "done" => ready'
  BY <1>1, <1>2
<1>9. ~stale' => Fresh'
  <2> SUFFICES ASSUME ~stale' PROVE Fresh'
    OBVIOUS
  <2>0. Fresh
    BY <1>0 DEF Coherent
  <2>1. CASE n = turn
    <3>1. LaunchCurrent(launches[n])
      BY <2>0, <2>1 DEF Fresh
    <3>2. props' = NoProps /\ status' # "done"
      BY <3>1 DEF LaunchCurrent
    <3>3. restr' \subseteq Ids(steps')
      BY <2>0, <3>1 DEF Fresh, LaunchCurrent
    <3>4. l \in Launch => LaunchCurrent(l)'
      BY <1>1, <3>1, <3>2 DEF LaunchCurrent
    <3>5. \A m \in 1..MaxLaunches :
            m = turn' /\ launches'[m] \in Launch => LaunchCurrent(launches[m])'
      BY <1>1, <1>5, <2>1, <3>4
    <3> QED
      BY <3>2, <3>3, <3>5 DEF Fresh
  <2>2. CASE n # turn
    <3>1. steps' = steps /\ status' = status
      BY <2>2
    <3>2. \A m \in 1..MaxLaunches :
            m = turn' /\ launches'[m] \in Launch => LaunchCurrent(launches[m])'
      <4> SUFFICES ASSUME NEW m \in 1..MaxLaunches, m = turn', launches'[m] \in Launch
                   PROVE  LaunchCurrent(launches[m])'
        OBVIOUS
      <4>1. launches'[m] = launches[m] /\ m = turn
        BY <1>1, <1>5, <2>2
      <4>2. LaunchCurrent(launches[m])
        BY <2>0, <4>1 DEF Fresh
      <4> QED
        BY <1>1, <3>1, <4>1, <4>2 DEF LaunchCurrent
    <3>3. props' # NoProps => PathShown'
      BY <1>1, <2>0, <3>1 DEF Fresh, PathShown
    <3> QED
      BY <2>0, <3>1, <3>2, <3>3 DEF Fresh
  <2> QED
    BY <2>1, <2>2
<1> QED
  BY <1>3, <1>6, <1>7, <1>8, <1>9 DEF Coherent

LEMMA StockAnsweredPreserves ==
  ASSUME IInv, NEW n \in 1..MaxLaunches, StockAnswered(n)
  PROVE  IInv'
<1>0. PathType /\ SettingsType /\ Coherent
  BY DEF IInv, TypeInv
<1>1. launches[n] \in Launch
  BY <1>0, IsUnderway DEF StockAnswered, Underway
<1>2. PICK pc \in {"match missing", "path"} :
        /\ Continue(n, pc)
        /\ (status' = "missing" /\ stale' = (stale \/ Outdated(n))) \/ UNCHANGED <<status, stale>>
  BY DEF StockAnswered
<1>3. pc \in Underway /\ pc \notin Found /\ pc # "match invalid"
  BY DEF Underway, Matching, Found
<1>4. PICK l \in Launch :
        /\ launches' = [launches EXCEPT ![n] = l]
        /\ l.pc = pc /\ l.steps = launches[n].steps /\ l.stock = launches[n].stock
        /\ l.tag = launches[n].tag /\ l.from = launches[n].from
  BY <1>0, <1>1, <1>2, <1>3, Continued
<1>5. LaunchSane(l)
  BY <1>0, <1>1, <1>3, <1>4 DEF Coherent, LaunchSane
<1>6. /\ UNCHANGED Settings /\ failures' = failures
      /\ steps' = steps /\ restr' = restr /\ props' = props /\ UNCHANGED <<byStock, byTag>>
  BY DEF StockAnswered, Path
<1>7. PathType' /\ Coherent'
  <2>1. /\ status' \in {status, "missing", "running", "error"} /\ (stale => stale')
        /\ ~stale' => n = turn \/ (steps' = steps /\ status' = status)
    <3>1. CASE status' = "missing" /\ stale' = (stale \/ Outdated(n))
      BY <3>1 DEF Outdated
    <3>2. CASE UNCHANGED <<status, stale>>
      BY <1>6, <3>2
    <3> QED
      BY <1>2, <3>1, <3>2
  <2> QED
    BY <1>1, <1>4, <1>5, <1>6, <2>1, Proceeds
<1>8. SettingsType' /\ NotAhead'
  BY <1>0, <1>2, <1>6, SettingsKept DEF SettingsType
<1> QED
  BY <1>7, <1>8 DEF IInv, TypeInv

LEMMA StockFailedPreserves ==
  ASSUME IInv, NEW n \in 1..MaxLaunches, StockFailed(n)
  PROVE  IInv'
<1>0. PathType /\ SettingsType /\ Coherent
  BY DEF IInv, TypeInv
<1>1. launches[n] \in Launch
  BY <1>0, IsUnderway DEF StockFailed, Underway
<1>2. /\ UNCHANGED Settings /\ failures' = failures + 1 /\ status' = status /\ stale' = stale
      /\ steps' = steps /\ restr' = restr /\ props' = props /\ UNCHANGED <<byStock, byTag>>
      /\ launches' = [launches EXCEPT ![n] = Lost]
  BY DEF StockFailed, Path
<1>3. PathType' /\ Coherent'
  BY <1>1, <1>2, NotLaunches, Proceeds
<1>4. failures' \in Nat /\ stale' \in BOOLEAN
  BY <1>0, <1>2 DEF SettingsType
<1>5. SettingsType' /\ NotAhead'
  BY <1>2, <1>4, SettingsKept
<1> QED
  BY <1>3, <1>5 DEF IInv, TypeInv

LEMMA RequestFailedPreserves ==
  ASSUME IInv, NEW n \in 1..MaxLaunches, RequestFailed(n)
  PROVE  IInv'
<1>0. PathType /\ SettingsType /\ Coherent
  BY DEF IInv, TypeInv
<1>1. launches[n] \in Launch
  BY <1>0, IsUnderway DEF RequestFailed, Underway, Found
<1>2. /\ UNCHANGED Settings /\ failures' = failures + 1 /\ status' = "error"
      /\ stale' = (stale \/ Outdated(n))
      /\ steps' = steps /\ restr' = restr /\ props' = props /\ UNCHANGED <<byStock, byTag>>
      /\ launches' = [launches EXCEPT ![n] = NoLaunch]
  BY DEF RequestFailed, Path, End
<1>3. PathType' /\ Coherent'
  BY <1>1, <1>2, NotLaunches, Proceeds DEF Outdated
<1>4. failures' \in Nat /\ stale' \in BOOLEAN
  BY <1>0, <1>2 DEF SettingsType
<1>5. SettingsType' /\ NotAhead'
  BY <1>2, <1>4, SettingsKept
<1> QED
  BY <1>3, <1>5 DEF IInv, TypeInv

LEMMA PathAnsweredPreserves ==
  ASSUME IInv, NEW n \in 1..MaxLaunches, PathAnswered(n)
  PROVE  IInv'
<1>0. PathType /\ SettingsType /\ Coherent
  BY DEF IInv, TypeInv
<1>1. launches[n] \in Launch
  BY <1>0, IsUnderway DEF PathAnswered, Underway
<1> DEFINE locs == Locs(Valid(launches[n].steps))
<1>2. PICK pc \in {"match invalid", "match error", "props", "match relaxed"} :
        /\ Continue(n, pc)
        /\ pc = "match invalid" => Unknown \in Range(locs)
        /\ pc \in {"props", "match relaxed"} => Unknown \notin Range(locs) /\ HasPath(locs)
  BY DEF PathAnswered
<1>3. pc \in Underway /\ (pc \in Found => pc \in {"props", "match relaxed"})
  BY DEF Underway, Matching, Found
<1>4. PICK l \in Launch :
        /\ launches' = [launches EXCEPT ![n] = l]
        /\ l.pc = pc /\ l.steps = launches[n].steps /\ l.stock = launches[n].stock
        /\ l.tag = launches[n].tag /\ l.from = launches[n].from
  BY <1>0, <1>1, <1>2, <1>3, Continued
<1>5. LaunchSane(l)
  BY <1>0, <1>1, <1>2, <1>3, <1>4 DEF Coherent, LaunchSane
<1>6. /\ UNCHANGED Settings /\ failures' = failures /\ status' = status /\ stale' = stale
      /\ steps' = steps /\ restr' = restr /\ props' = props /\ UNCHANGED <<byStock, byTag>>
  BY DEF PathAnswered, Path
<1>7. PathType' /\ Coherent'
  BY <1>1, <1>4, <1>5, <1>6, Proceeds
<1>8. SettingsType' /\ NotAhead'
  BY <1>0, <1>6, SettingsKept DEF SettingsType
<1> QED
  BY <1>7, <1>8 DEF IInv, TypeInv

\* The path is stored with the steps, in their present state or marked as stale.
LEMMA PropsAnsweredPreserves ==
  ASSUME IInv, NEW n \in 1..MaxLaunches, PropsAnswered(n)
  PROVE  IInv'
<1>0. PathType /\ SettingsType /\ Coherent
  BY DEF IInv, TypeInv
<1>1. launches[n] \in Launch /\ launches[n].pc \in Found
  BY <1>0, IsUnderway DEF PropsAnswered, Underway, Found
<1> DEFINE l == launches[n]
           ss == PopulateSteps(l.steps)
           ops == Ops(ValidLocs(l.steps))
<1>2. /\ UNCHANGED Settings /\ failures' = failures /\ restr' = restr
      /\ stale' = (stale \/ Outdated(n)) /\ Callbacks(TRUE, stock, tag, ready)
      /\ launches' = [launches EXCEPT ![n] = NoLaunch]
      /\ steps' = ss /\ status' \in {"done", "error"}
      /\ props' = [ops |-> ops, stock |-> l.stock, tag |-> l.tag]
  BY DEF PropsAnswered, End, ValidLocs
<1>3. LaunchSane(l) /\ ready
  BY <1>0, <1>1 DEF Coherent
<1>4. /\ l.steps \in Seq(Step) /\ Sane(l.steps) /\ Missing \notin Range(l.steps)
      /\ Unknown \notin Range(ValidLocs(l.steps)) /\ HasPath(ValidLocs(l.steps))
      /\ l.stock \in AnyStock /\ l.tag \in Tag
  BY <1>1, <1>3, LaunchFields DEF LaunchSane, ValidLocs
<1> HIDE DEF l
<1>5. /\ ss \in Seq(Step) /\ Sane(ss) /\ Ids(ss) = Ids(l.steps)
      /\ ops \in Seq(Line) /\ ops # <<>> /\ Fits(ss, ops)
  BY <1>4, Populated
<1> HIDE DEF ss, ops
<1>6. /\ props' \in Shown /\ props'.ops = ops /\ props'.stock = l.stock /\ props'.tag = l.tag
      /\ props' # NoProps
  BY <1>2, <1>4, <1>5, NothingShown DEF Shown
<1>7. /\ launches' \in [1..MaxLaunches -> {NoLaunch, Lost} \cup Launch]
      /\ launches'[n] = NoLaunch
  BY <1>0, <1>2, LaunchSet
<1>8. stock' = stock /\ tag' = tag /\ ready' = ready /\ turn' = turn
  BY <1>2 DEF Settings
<1>9. \A m \in 1..MaxLaunches : launches'[m] \in Launch => ready' /\ LaunchSane(launches'[m])
  BY <1>2, <1>8, NotLaunches, LaunchesSane
<1>10. ~stale' => Fresh'
  <2> SUFFICES ASSUME ~stale' PROVE Fresh'
    OBVIOUS
  <2>1. ~stale /\ n = turn
    BY <1>2 DEF Outdated
  <2>2. LaunchCurrent(l)
    BY <1>0, <1>1, <2>1 DEF Coherent, Fresh, l
  <2>3. restr' \subseteq Ids(steps') /\ PathShown'
    BY <1>2, <1>5, <1>6, <1>8, <2>2 DEF LaunchCurrent, PathShown
  <2>4. \A m \in 1..MaxLaunches : m = turn' => launches'[m] \notin Launch
    BY <1>7, <1>8, <2>1, NotLaunches
  <2> QED
    BY <1>6, <2>3, <2>4 DEF Fresh
<1>11. PathType'
  <2>1. status' \in Statuses
    BY <1>2 DEF Statuses
  <2> QED
    BY <1>0, <1>2, <1>5, <1>6, <1>7, <2>1 DEF PathType
<1>12. Coherent'
  BY <1>2, <1>3, <1>5, <1>8, <1>9, <1>10 DEF Coherent
<1>13. failures' \in Nat /\ stale' \in BOOLEAN
  BY <1>0, <1>2 DEF SettingsType
<1>14. SettingsType' /\ NotAhead'
  BY <1>2, <1>13, SettingsKept
<1> QED
  BY <1>11, <1>12, <1>14 DEF IInv, TypeInv

\* Invalid items start the launch again; else its own steps are stored, or nothing.
LEMMA MatchedPreserves ==
  ASSUME IInv, NEW n \in 1..MaxLaunches, Matched(n)
  PROVE  IInv'
<1>0. PathType /\ SettingsType /\ Coherent
  BY DEF IInv, TypeInv
<1>1. launches[n] \in Launch /\ launches[n].pc \in Matching
  BY <1>0, IsUnderway DEF Matched, Underway, Matching
<1> DEFINE l == launches[n]
<1>2. PICK ok \in BOOLEAN :
        /\ failures' = IF ok THEN failures ELSE failures + 1
        /\ Callbacks(ok \/ l.pc = "match invalid", stock, tag, ready)
        /\ UNCHANGED Settings
        /\ IF l.pc = "match invalid"
           THEN /\ Begin(n, MarkInvalid(l.steps), l.from.stock, l.from.tag, l.from, FALSE)
                /\ stale' = (stale \/ Outdated(n) \/ l.from # Rendered(stock, tag, ready))
           ELSE /\ steps' = IF ok THEN l.steps ELSE steps
                /\ IF l.pc = "match relaxed" THEN Continue(n, "props relaxed") ELSE End(n)
                /\ status' = IF l.pc = "match error" THEN "error" ELSE status
                /\ stale' = (stale \/ (Outdated(n) /\ (ok \/ l.pc = "match error")))
                /\ UNCHANGED <<restr, props>>
  BY DEF Matched
<1>3. LaunchSane(l) /\ ready
  BY <1>0, <1>1 DEF Coherent
<1>4. stock' = stock /\ tag' = tag /\ ready' = ready /\ turn' = turn
  BY <1>2 DEF Settings
<1>5. PathType' /\ Coherent'
  <2>1. CASE l.pc = "match invalid"
    <3>1. /\ Begin(n, MarkInvalid(l.steps), l.from.stock, l.from.tag, l.from, FALSE)
          /\ stale' = (stale \/ Outdated(n) \/ l.from # Rendered(stock, tag, ready))
      BY <1>2, <2>1
    <3>2. /\ l.steps \in Seq(Step) /\ Sane(l.steps) /\ Missing \notin Range(l.steps)
          /\ Unknown \in Range(ValidLocs(l.steps))
      BY <1>1, <1>3, <2>1, LaunchFields DEF LaunchSane, ValidLocs
    <3>3. l.from \in Renders /\ l.from.stock \in AnyStock /\ l.from.tag \in Tag /\ l.from.ready
      BY <1>1, <1>3, LaunchFields DEF LaunchSane
    <3> HIDE DEF l
    <3>4. MarkInvalid(l.steps) \in Seq(Step) /\ Sane(MarkInvalid(l.steps))
      BY <3>2, Marked
    <3>5. ~stale' => /\ n = turn' /\ l.from.stock = stock' /\ l.from.tag = tag'
                     /\ l.from.ready = ready'
      <4>1. ~stale' => n = turn /\ l.from = Rendered(stock, tag, ready)
        BY <3>1, Zenon DEF Outdated
      <4>2. /\ Rendered(stock, tag, ready).stock = stock /\ Rendered(stock, tag, ready).tag = tag
            /\ Rendered(stock, tag, ready).ready = ready
        BY DEF Rendered
      <4> QED
        BY <1>4, <4>1, <4>2
    <3>6. ready' \in BOOLEAN /\ ready'
      BY <1>0, <1>3, <1>4 DEF SettingsType
    <3> QED
      BY <3>1, <3>3, <3>4, <3>5, <3>6, BeginPreserves
  <2>2. CASE l.pc # "match invalid"
    <3>1. /\ steps' = IF ok THEN l.steps ELSE steps
          /\ IF l.pc = "match relaxed" THEN Continue(n, "props relaxed") ELSE End(n)
          /\ status' = IF l.pc = "match error" THEN "error" ELSE status
          /\ stale' = (stale \/ (Outdated(n) /\ (ok \/ l.pc = "match error")))
          /\ restr' = restr /\ props' = props
      BY <1>2, <2>2
    <3>2. /\ steps' \in {steps, l.steps} /\ status' \in {status, "missing", "running", "error"}
          /\ stale => stale'
          /\ ~stale' => n = turn \/ (steps' = steps /\ status' = status)
      BY <3>1 DEF Outdated
    <3>3. PICK k \in {NoLaunch, Lost} \cup Launch :
            /\ launches' = [launches EXCEPT ![n] = k]
            /\ k \in Launch => /\ k.pc = "props relaxed" /\ l.pc = "match relaxed"
                               /\ k.steps = l.steps /\ k.stock = l.stock
                               /\ k.tag = l.tag /\ k.from = l.from
      <4>1. CASE l.pc = "match relaxed"
        <5>1. "props relaxed" \in Underway
          BY DEF Underway, Found
        <5>2. PICK pc \in Underway : pc = "props relaxed"
          BY <5>1
        <5>3. Continue(n, pc)
          BY <3>1, <4>1, <5>2, Zenon
        <5>4. PICK k \in Launch :
                /\ launches' = [launches EXCEPT ![n] = k]
                /\ k.pc = pc /\ k.steps = launches[n].steps /\ k.stock = launches[n].stock
                /\ k.tag = launches[n].tag /\ k.from = launches[n].from
          BY <1>0, <1>1, <5>3, Continued
        <5> QED
          BY <4>1, <5>2, <5>4
      <4>2. CASE l.pc # "match relaxed"
        BY <3>1, <4>2, NotLaunches DEF End
      <4> QED
        BY <4>1, <4>2
    <3>4. k \in Launch => LaunchSane(k)
      <4>1. "match relaxed" \in Found /\ "props relaxed" # "match invalid"
        BY DEF Found
      <4> QED
        BY <1>3, <3>3, <4>1 DEF LaunchSane
    <3>5. k \in Launch => k.steps = l.steps /\ k.stock = l.stock /\ k.tag = l.tag
      BY <3>3
    <3> QED
      BY <1>1, <1>2, <3>1, <3>2, <3>3, <3>4, <3>5, Proceeds
  <2> QED
    BY <2>1, <2>2
<1>6. failures' \in Nat /\ stale' \in BOOLEAN
  <2>1. failures' \in Nat
    <3>1. failures' = failures \/ failures' = failures + 1
      BY <1>2, Zenon
    <3> QED
      BY <1>0, <3>1 DEF SettingsType
  <2>2. \/ stale' = (stale \/ Outdated(n) \/ l.from # Rendered(stock, tag, ready))
        \/ stale' = (stale \/ (Outdated(n) /\ (ok \/ l.pc = "match error")))
    BY <1>2, Zenon
  <2>3. stale' \in BOOLEAN
    BY <2>2, Zenon
  <2> QED
    BY <2>1, <2>3
<1>7. SettingsType' /\ NotAhead'
  <2>1. (ok \/ l.pc = "match invalid") \in BOOLEAN
    OBVIOUS
  <2>2. \E isNew \in BOOLEAN : Callbacks(isNew, stock, tag, ready)
    BY <1>2, <2>1
  <2> QED
    BY <1>2, <1>6, <2>2, SettingsKept
<1> QED
  BY <1>5, <1>7 DEF IInv, TypeInv

-----------------------------------------------------------------------------
(* Edits keep the invariant.                                               *)

LEMMA WorkerReadyPreserves ==
  ASSUME IInv, WorkerReady
  PROVE  IInv'
<1>0. PathType /\ SettingsType /\ NotAhead /\ Coherent
  BY DEF IInv, TypeInv
<1> DEFINE from == Rendered(stock, tag, TRUE)
<1>1. /\ stock' = stock /\ tag' = tag /\ ready' = TRUE /\ turn' = turn + 1 /\ turn < MaxLaunches
      /\ byStock' = byStock /\ byTag' = byTag /\ modal' = modal /\ failures' = failures
      /\ stale' = stale /\ Begin(turn', steps, stock, tag, from, TRUE)
  BY DEF WorkerReady
<1>2. turn' \in 1..MaxLaunches /\ turn' \in 0..MaxLaunches
  BY <1>0, <1>1, ItineraryAssumption DEF SettingsType
<1>3. /\ stock \in AnyStock /\ tag \in Tag /\ from \in Renders /\ from.ready = TRUE
      /\ steps \in Seq(Step) /\ Sane(steps)
  BY <1>0 DEF SettingsType, PathType, Coherent, Rendered, Renders
<1> HIDE DEF from
<1>4. PathType' /\ Coherent'
  BY <1>1, <1>2, <1>3, BeginPreserves
<1>5. SettingsType' /\ NotAhead'
  BY <1>0, <1>1, <1>2 DEF SettingsType, NotAhead
<1> QED
  BY <1>4, <1>5 DEF IInv, TypeInv

\* The rolling stock is new, the rest is what the callback closes over.
LEMMA SelectRollingStockPreserves ==
  ASSUME IInv, NEW st \in Stock, onSelectRollingStock(st)
  PROVE  IInv'
<1>0. PathType /\ SettingsType /\ NotAhead /\ Coherent
  BY DEF IInv, TypeInv
<1>1. /\ stock' = st /\ tag' = tag /\ ready' = ready /\ turn' = turn + 1 /\ turn < MaxLaunches
      /\ modal' = modal /\ failures' = failures /\ Callbacks(FALSE, st, tag, ready)
      /\ stale' = (byStock.tag # tag \/ byStock.ready # ready)
      /\ Begin(turn', steps, st, byStock.tag, byStock, FALSE)
  BY DEF onSelectRollingStock
<1>2. turn' \in 1..MaxLaunches /\ turn' \in 0..MaxLaunches
  BY <1>0, <1>1, ItineraryAssumption DEF SettingsType
<1>3. /\ st \in AnyStock /\ tag \in Tag /\ ready \in BOOLEAN /\ byStock \in Renders
      /\ steps \in Seq(Step) /\ Sane(steps)
  BY <1>0 DEF SettingsType, PathType, Coherent, AnyStock
<1>4. byStock.tag \in Tag
  BY <1>3 DEF Renders
<1>5. ~stale' => byStock.tag = tag' /\ byStock.ready = ready'
  BY <1>1
<1>6. PathType' /\ Coherent'
  BY <1>0, <1>1, <1>2, <1>3, <1>4, <1>5, BeginPreserves DEF NotAhead
<1>7. byStock' \in Renders /\ byTag' \in Renders /\ NotAhead'
  BY <1>1, <1>3, CallbacksRenewed
<1>8. stale' \in BOOLEAN
  BY <1>1
<1>9. SettingsType'
  BY <1>0, <1>1, <1>2, <1>3, <1>7, <1>8 DEF SettingsType
<1> QED
  BY <1>6, <1>7, <1>9 DEF IInv, TypeInv

LEMMA SelectSpeedLimitTagPreserves ==
  ASSUME IInv, NEW tg \in Tag, onSelectSpeedLimitTag(tg)
  PROVE  IInv'
<1>0. PathType /\ SettingsType /\ NotAhead /\ Coherent
  BY DEF IInv, TypeInv
<1>1. /\ stock' = stock /\ tag' = tg /\ ready' = ready /\ turn' = turn + 1 /\ turn < MaxLaunches
      /\ modal' = modal /\ failures' = failures /\ byStock' = byStock /\ byTag' = byTag
      /\ stale' = (byTag.ready # ready)
      /\ Begin(turn', steps, stock, tg, byTag, FALSE)
  BY DEF onSelectSpeedLimitTag
<1>2. turn' \in 1..MaxLaunches /\ turn' \in 0..MaxLaunches
  BY <1>0, <1>1, ItineraryAssumption DEF SettingsType
<1>3. /\ stock \in AnyStock /\ ready \in BOOLEAN /\ byTag \in Renders
      /\ steps \in Seq(Step) /\ Sane(steps)
  BY <1>0 DEF SettingsType, PathType, Coherent
<1>4. ~stale' => byTag.ready = ready'
  BY <1>1
<1>5. PathType' /\ Coherent'
  BY <1>0, <1>1, <1>2, <1>3, <1>4, BeginPreserves DEF NotAhead
<1>6. stale' \in BOOLEAN
  BY <1>1
<1>7. SettingsType' /\ NotAhead'
  BY <1>0, <1>1, <1>2, <1>6 DEF SettingsType, NotAhead
<1> QED
  BY <1>5, <1>7 DEF IInv, TypeInv

\* The via from the map is put at an index of the array, or before its last step.
LEMMA ViaFromMap ==
  ASSUME NEW ss \in Seq(Step), Sane(ss), NEW new, Plain(new)
  PROVE  insertViaFromMap(ss, new) \in Seq(Step) /\ Sane(insertViaFromMap(ss, new))
<1> DEFINE I == {i \in 1..Len(ss) : ss[i].pos > 0 /\ ss[i].pos >= Project(new.loc)}
           k == IF Len(ss) > 2 THEN IF I # {} THEN Min(I) ELSE 0 ELSE 0
<1>1. insertViaFromMap(ss, new) = AddElementAtIndex(ss, k - 1, new)
  BY DEF insertViaFromMap, SelectInSeq
<1>2. I \subseteq Nat /\ I \subseteq 1..Len(ss)
  OBVIOUS
<1> HIDE DEF I
<1>3. I # {} => Min(I) \in 1..Len(ss)
  BY <1>2, MinOf
<1>4. Len(ss) \in Nat
  OBVIOUS
<1>5. k \in 0..Len(ss)
  BY <1>3, <1>4
<1> HIDE DEF k
<1>6. k - 1 \in -1..Len(ss)
  BY <1>4, <1>5
<1> QED
  BY <1>1, <1>6, EditedArrays

LEMMA ClickPreserves ==
  ASSUME IInv, NEW pointType, NEW loc \in Line, setPointIti(pointType, loc)
  PROVE  IInv'
<1>0. TypeInv /\ steps \in Seq(Step) /\ Sane(steps)
  BY DEF IInv, TypeInv, PathType, Coherent
<1> DEFINE new == NewStep(loc)
           n == Len(steps)
<1>1. Plain(new)
  BY <1>0, ClickedIsPlain
<1>2. PICK tt : /\ LaunchPathfinding(tt) /\ modal' = modal
                /\ \/ tt = ReplaceElementAtIndex(steps, 1, new)
                   \/ tt = ReplaceElementAtIndex(steps, n, new)
                   \/ tt = Append(steps, new)
                   \/ tt = insertViaFromMap(steps, new)
                   \/ tt = AddElementAtIndex(steps, n - 1, new)
  <2> DEFINE tt == CASE pointType = "origin" -> ReplaceElementAtIndex(steps, 1, new)
                     [] pointType = "destination" /\ ~(n = 1) -> ReplaceElementAtIndex(steps, n, new)
                     [] n = 1 -> Append(steps, new)
                     [] props # NoProps -> insertViaFromMap(steps, new)
                     [] OTHER -> AddElementAtIndex(steps, n - 1, new)
  <2>1. LaunchPathfinding(tt) /\ modal' = modal
    BY DEF setPointIti
  <2>2. \/ tt = ReplaceElementAtIndex(steps, 1, new)
        \/ tt = ReplaceElementAtIndex(steps, n, new)
        \/ tt = Append(steps, new)
        \/ tt = insertViaFromMap(steps, new)
        \/ tt = AddElementAtIndex(steps, n - 1, new)
    <3> HIDE DEF new
    <3> QED
      OBVIOUS
  <2> HIDE DEF tt
  <2> QED
    BY <2>1, <2>2
<1> HIDE DEF new
<1>3. n \in Nat /\ n - 1 \in -1..n /\ (steps # <<>> => 1 \in DOMAIN steps /\ n \in DOMAIN steps)
  BY <1>0
<1>4. tt \in Seq(Step) /\ Sane(tt)
  <2>1. \A i \in {1, n} : /\ ReplaceElementAtIndex(steps, i, new) \in Seq(Step)
                          /\ Sane(ReplaceElementAtIndex(steps, i, new))
    <3> SUFFICES ASSUME NEW i \in {1, n}
                 PROVE  /\ ReplaceElementAtIndex(steps, i, new) \in Seq(Step)
                        /\ Sane(ReplaceElementAtIndex(steps, i, new))
      OBVIOUS
    <3>1. CASE steps = <<>>
      <4>1. ReplaceElementAtIndex(steps, i, new) = <<new>>
        BY <3>1 DEF ReplaceElementAtIndex
      <4> QED
        BY <1>0, <1>1, <4>1, EditedArrays
    <3>2. CASE steps # <<>>
      <4>1. ReplaceElementAtIndex(steps, i, new) = [steps EXCEPT ![i] = new] /\ i \in DOMAIN steps
        BY <1>3, <3>2 DEF ReplaceElementAtIndex
      <4>2. \A j \in DOMAIN steps : \A s \in {Missing, new} :
              [steps EXCEPT ![j] = s] \in Seq(Step) /\ Sane([steps EXCEPT ![j] = s])
        BY <1>0, <1>1, EditedArrays, Zenon
      <4>3. [steps EXCEPT ![i] = new] \in Seq(Step) /\ Sane([steps EXCEPT ![i] = new])
        <5>1. i \in DOMAIN steps /\ new \in {Missing, new}
          BY <4>1
        <5> QED
          BY <4>2, <5>1, Zenon
      <4> QED
        BY <4>1, <4>3
    <3> QED
      BY <3>1, <3>2
  <2>2. Append(steps, new) \in Seq(Step) /\ Sane(Append(steps, new))
    BY <1>0, <1>1, EditedArrays
  <2>3. insertViaFromMap(steps, new) \in Seq(Step) /\ Sane(insertViaFromMap(steps, new))
    BY <1>0, <1>1, ViaFromMap
  <2>4. /\ AddElementAtIndex(steps, n - 1, new) \in Seq(Step)
        /\ Sane(AddElementAtIndex(steps, n - 1, new))
    BY <1>0, <1>1, <1>3, EditedArrays
  <2> HIDE DEF n
  <2> QED
    BY <1>2, <2>1, <2>2, <2>3, <2>4
<1> QED
  BY <1>2, <1>4, LaunchPreserves

\* The buttons of the list of steps.
LEMMA ButtonsPreserve ==
  ASSUME IInv, \/ RemoveOrigin \/ RemoveDestination \/ inverseOD \/ resetPathfinding
               \/ DeleteVias \/ \E i \in DOMAIN steps : RemoveVia(i)
  PROVE  IInv'
<1>0. steps \in Seq(Step) /\ Sane(steps)
  BY DEF IInv, TypeInv, PathType, Coherent
<1>1. \A new : Plain(new) =>
        /\ \A i \in DOMAIN steps :
             [steps EXCEPT ![i] = Missing] \in Seq(Step) /\ Sane([steps EXCEPT ![i] = Missing])
        /\ \A i \in 1..Len(steps) : RemoveAt(steps, i) \in Seq(Step) /\ Sane(RemoveAt(steps, i))
        /\ Reverse(steps) \in Seq(Step) /\ Sane(Reverse(steps))
        /\ <<Missing, Missing>> \in Seq(Step) /\ Sane(<<Missing, Missing>>)
        /\ steps # <<>> => /\ <<steps[1], steps[Len(steps)]>> \in Seq(Step)
                           /\ Sane(<<steps[1], steps[Len(steps)]>>)
  BY <1>0, EditedArrays, Zenon
<1>2. \E new : Plain(new)
  <2>1. 1 \in Line /\ TypeInv
    BY ItineraryAssumption DEF Line, IInv
  <2> QED
    BY <2>1, ClickedIsPlain
<1>3. \A i \in DOMAIN steps :
        [steps EXCEPT ![i] = Missing] \in Seq(Step) /\ Sane([steps EXCEPT ![i] = Missing])
  BY <1>1, <1>2, Zenon
<1>4. Len(steps) \in Nat /\ DOMAIN steps = 1..Len(steps)
  BY <1>0
<1>5. CASE RemoveOrigin
  <2>1. 1 \in DOMAIN steps
    BY <1>0, <1>4, <1>5 DEF RemoveOrigin, HasOrigin
  <2>2. LaunchPathfinding([steps EXCEPT ![1] = Missing]) /\ modal' = modal
    BY <1>5 DEF RemoveOrigin
  <2> QED
    BY <1>3, <2>1, <2>2, LaunchPreserves
<1>6. CASE RemoveDestination
  <2>1. Len(steps) \in DOMAIN steps
    BY <1>0, <1>4, <1>6 DEF RemoveDestination, HasDestination
  <2>2. LaunchPathfinding([steps EXCEPT ![Len(steps)] = Missing]) /\ modal' = modal
    BY <1>6 DEF RemoveDestination
  <2> QED
    BY <1>3, <2>1, <2>2, LaunchPreserves
<1>7. CASE inverseOD
  <2>1. LaunchPathfinding(Reverse(steps)) /\ modal' = modal
    BY <1>7 DEF inverseOD
  <2>2. Reverse(steps) \in Seq(Step) /\ Sane(Reverse(steps))
    BY <1>1, <1>2, Zenon
  <2> QED
    BY <2>1, <2>2, LaunchPreserves
<1>8. CASE resetPathfinding
  <2>1. LaunchPathfinding(<<Missing, Missing>>) /\ modal' = modal
    BY <1>8 DEF resetPathfinding
  <2>2. <<Missing, Missing>> \in Seq(Step) /\ Sane(<<Missing, Missing>>)
    BY <1>1, <1>2, Zenon
  <2> QED
    BY <2>1, <2>2, LaunchPreserves
<1>9. CASE DeleteVias
  <2>1. LaunchPathfinding(<<steps[1], steps[Len(steps)]>>) /\ modal' = modal /\ steps # <<>>
    BY <1>9 DEF DeleteVias, Last
  <2>2. /\ <<steps[1], steps[Len(steps)]>> \in Seq(Step)
        /\ Sane(<<steps[1], steps[Len(steps)]>>)
    BY <1>1, <1>2, <2>1, Zenon
  <2> QED
    BY <2>1, <2>2, LaunchPreserves
<1>10. CASE \E i \in DOMAIN steps : RemoveVia(i)
  <2>1. PICK i \in DOMAIN steps : LaunchPathfinding(RemoveAt(steps, i)) /\ modal' = modal
    BY <1>10 DEF RemoveVia
  <2>2. RemoveAt(steps, i) \in Seq(Step) /\ Sane(RemoveAt(steps, i))
    <3>1. i \in 1..Len(steps)
      BY <1>4
    <3> QED
      BY <1>1, <1>2, <3>1, Zenon
  <2> QED
    BY <2>1, <2>2, LaunchPreserves
<1> QED
  BY <1>5, <1>6, <1>7, <1>8, <1>9, <1>10

LEMMA SubmitPreserves ==
  ASSUME IInv, NEW locs \in Typed, handleSubmit(locs)
  PROVE  IInv'
<1>1. locs \in Seq(Location) /\ Len(locs) \in Nat
  BY ItineraryAssumption DEF Location
<1>2. \A i \in 1..Len(locs) : NewIds(Len(locs))[i] \in Nat \ {0}
  BY <1>1, IdsGiven DEF IInv
<1> DEFINE tt == FromLocs(locs, NewIds(Len(locs)))
<1>3. tt \in Seq(Step) /\ Sane(tt)
  BY <1>1, <1>2, Typewritten
<1>4. LaunchPathfinding(tt) /\ modal' = modal
  BY DEF handleSubmit
<1> HIDE DEF tt
<1> QED
  BY <1>3, <1>4, LaunchPreserves

LEMMA RemoveSuggestedViaPreserves ==
  ASSUME IInv, NEW pos, RemoveSuggestedVia(pos)
  PROVE  IInv'
<1>0. steps \in Seq(Step) /\ Sane(steps)
  BY DEF IInv, TypeInv, PathType, Coherent
<1>1. PICK new : Plain(new)
  <2>1. 1 \in Line /\ TypeInv
    BY ItineraryAssumption DEF Line, IInv
  <2> QED
    BY <2>1, ClickedIsPlain
<1> DEFINE I == {i \in DOMAIN steps : steps[i].loc # modal[pos + 1]}
<1>2. LaunchPathfinding(Kept(steps, I)) /\ modal' = modal
  BY DEF RemoveSuggestedVia
<1>3. I \in SUBSET DOMAIN steps
  OBVIOUS
<1> HIDE DEF I
<1>4. Kept(steps, I) \in Seq(Step) /\ Sane(Kept(steps, I))
  BY <1>0, <1>1, <1>3, EditedArrays
<1> QED
  BY <1>2, <1>4, LaunchPreserves

LEMMA WindowPreserves ==
  ASSUME IInv, OpenModal \/ CloseModal
  PROVE  IInv'
<1>0. PathType /\ SettingsType /\ NotAhead /\ Coherent
  BY DEF IInv, TypeInv
<1>1. /\ UNCHANGED <<steps, restr, stock, tag, ready, status, props, launches, turn, byStock, byTag,
                     failures, stale>>
      /\ modal' \in {props.ops, <<>>}
  BY DEF OpenModal, CloseModal
<1>2. modal' \in Seq(Line)
  <2>1. props.ops \in Seq(Line) /\ <<>> \in Seq(Line)
    BY <1>0 DEF PathType, Shown
  <2> QED
    BY <1>1, <2>1
<1>3. SettingsType' /\ NotAhead'
  BY <1>0, <1>1, <1>2 DEF SettingsType, NotAhead
<1>4. PathType'
  BY <1>0, <1>1 DEF PathType
<1>5. Coherent'
  BY <1>0, <1>1 DEF Coherent, Fresh, PathShown, LaunchCurrent
<1> QED
  BY <1>3, <1>4, <1>5 DEF IInv, TypeInv

\* The via is on the path that is shown, unless the window is older than it.
LEMMA AddSuggestedViaPreserves ==
  ASSUME IInv, NEW pos \in 1..LineLength, AddSuggestedVia(pos)
  PROVE  IInv'
<1>0. PathType /\ SettingsType /\ NotAhead /\ Coherent /\ TypeInv
  BY DEF IInv, TypeInv
<1> DEFINE tt == upsertPathStep(steps, modal[pos + 1], pos)
<1>1. /\ UNCHANGED <<restr, stock, tag, ready, status, props, launches, turn, modal, failures>>
      /\ steps' = tt /\ Callbacks(TRUE, stock, tag, ready)
      /\ stale' = (stale \/ props.ops # modal) /\ pos + 1 \in DOMAIN modal
  BY DEF AddSuggestedVia, Offered
<1>2. pos \in Nat \ {0} /\ pos \in Int
  BY ItineraryAssumption
<1>3. /\ steps \in Seq(Step) /\ Sane(steps) /\ modal[pos + 1] \in Line /\ NewId \in Nat \ {0}
      /\ props.ops \in Seq(Line)
  BY <1>0, <1>1, IdGiven DEF PathType, SettingsType, Coherent, Shown
<1>4. tt \in Seq(Step) /\ Sane(tt) /\ Ids(steps) \subseteq Ids(tt)
  BY <1>2, <1>3, Upserted
<1>5. ~stale' => Fresh'
  <2> SUFFICES ASSUME ~stale' PROVE Fresh'
    OBVIOUS
  <2>1. ~stale /\ props.ops = modal
    BY <1>1, Zenon
  <2>2. Fresh
    BY <1>0, <2>1 DEF Coherent
  <2>3. props # NoProps
    BY <1>1, <2>1, NothingShown
  <2>4. PathShown
    BY <2>2, <2>3 DEF Fresh
  <2>5. Fits(tt, props.ops)
    BY <1>1, <1>2, <1>3, <2>1, <2>4, UpsertFits DEF PathShown
  <2> HIDE DEF tt
  <2>6. PathShown'
    BY <1>1, <2>4, <2>5 DEF PathShown
  <2>7. \A m \in 1..MaxLaunches : m = turn' => launches'[m] \notin Launch
    BY <1>1, <2>2, <2>3 DEF Fresh, LaunchCurrent
  <2>8. restr' \subseteq Ids(steps')
    BY <1>1, <1>4, <2>2 DEF Fresh
  <2> QED
    BY <1>1, <2>3, <2>6, <2>7, <2>8 DEF Fresh
<1> HIDE DEF tt
<1>6. PathType'
  BY <1>0, <1>1, <1>4 DEF PathType
<1>7. Coherent'
  BY <1>0, <1>1, <1>4, <1>5 DEF Coherent
<1>8. SettingsType' /\ NotAhead'
  <2>1. UNCHANGED Settings
    BY <1>1 DEF Settings
  <2>2. failures' \in Nat /\ stale' \in BOOLEAN
    BY <1>0, <1>1 DEF SettingsType
  <2> QED
    BY <1>1, <2>1, <2>2, SettingsKept
<1> QED
  BY <1>6, <1>7, <1>8 DEF IInv, TypeInv

\* A restriction is set on steps of the path shown, which all have an id.
LEMMA SetRestrictionPreserves ==
  ASSUME IInv, SetRestriction
  PROVE  IInv'
<1>0. PathType /\ SettingsType /\ NotAhead /\ Coherent
  BY DEF IInv, TypeInv
<1>1. /\ UNCHANGED <<steps, stock, tag, ready, status, props, launches, turn, byStock, byTag, modal,
                     failures, stale>>
      /\ props # NoProps
  BY DEF SetRestriction
<1>2. steps \in Seq(Step) /\ Sane(steps)
  BY <1>0 DEF PathType, Coherent
<1>3. PICK i \in 1..Len(Valid(steps)) - 1 : restr' = {Valid(steps)[i].id, Valid(steps)[i + 1].id}
  BY DEF SetRestriction
<1> DEFINE V == ValidAt(steps)
<1>4. /\ Len(Valid(steps)) = Cardinality(V) /\ Cardinality(V) \in Nat
      /\ \A k \in 1..Cardinality(V) : \E j \in V : Valid(steps)[k] = steps[j]
  BY <1>2, LocsOfValid
<1>5. V \subseteq DOMAIN steps
  BY DEF ValidAt
<1> HIDE DEF V
<1>6. i \in 1..Cardinality(V) /\ i + 1 \in 1..Cardinality(V)
  BY <1>4
<1>7. PICK a \in DOMAIN steps, b \in DOMAIN steps : restr' = {steps[a].id, steps[b].id}
  <2>1. PICK a \in V : Valid(steps)[i] = steps[a]
    BY <1>4, <1>6
  <2>2. PICK b \in V : Valid(steps)[i + 1] = steps[b]
    BY <1>4, <1>6
  <2> QED
    BY <1>3, <1>5, <2>1, <2>2
<1>8. steps[a].id \in Nat /\ steps[b].id \in Nat
  BY <1>2, StepFields
<1>9. restr' \subseteq Nat /\ IsFiniteSet(restr')
  <2>1. IsFiniteSet({steps[a].id}) /\ IsFiniteSet({steps[b].id})
    BY FS_Singleton
  <2>2. restr' = {steps[a].id} \cup {steps[b].id}
    BY <1>7
  <2>3. IsFiniteSet(restr')
    BY <2>1, <2>2, FS_Union
  <2> QED
    BY <1>7, <1>8, <2>3
<1>10. ~stale' => Fresh'
  <2> SUFFICES ASSUME ~stale' PROVE Fresh'
    OBVIOUS
  <2>1. Fresh
    BY <1>0, <1>1 DEF Coherent
  <2>2. PathShown
    BY <1>1, <2>1 DEF Fresh
  <2>3. Missing \notin Range(steps)
    BY <2>2 DEF PathShown, Fits
  <2>4. steps[a].id # 0 /\ steps[b].id # 0
    BY <1>2, <2>3 DEF Sane, Range
  <2>5. restr' \subseteq Ids(steps)
    BY <1>7, <2>4 DEF Ids
  <2>6. \A m \in 1..MaxLaunches : m = turn' => launches'[m] \notin Launch
    BY <1>1, <2>1 DEF Fresh, LaunchCurrent
  <2>7. PathShown'
    BY <1>1, <2>2 DEF PathShown
  <2> QED
    BY <1>1, <2>5, <2>6, <2>7 DEF Fresh
<1>11. PathType'
  BY <1>0, <1>1, <1>9 DEF PathType
<1>12. Coherent'
  BY <1>0, <1>1, <1>10 DEF Coherent
<1>13. SettingsType' /\ NotAhead'
  BY <1>0, <1>1 DEF SettingsType, NotAhead
<1> QED
  BY <1>11, <1>12, <1>13 DEF IInv, TypeInv

-----------------------------------------------------------------------------
(* The theorems.                                                           *)

LEMMA EditPreserves ==
  ASSUME IInv, Edit
  PROVE  IInv'
<1>1. Clicked \subseteq Line
  BY ItineraryAssumption
<1>2. CASE ClickOrigin \/ ClickDestination \/ ClickVia
  BY <1>1, <1>2, ClickPreserves DEF ClickOrigin, ClickDestination, ClickVia
<1>3. CASE \/ RemoveOrigin \/ RemoveDestination \/ inverseOD \/ resetPathfinding
           \/ DeleteVias \/ \E i \in DOMAIN steps : RemoveVia(i)
  BY <1>3, ButtonsPreserve
<1>4. CASE \E locs \in Typed : handleSubmit(locs)
  BY <1>4, SubmitPreserves
<1>5. CASE \E st \in Stock : onSelectRollingStock(st)
  BY <1>5, SelectRollingStockPreserves
<1>6. CASE \E tg \in Tag : onSelectSpeedLimitTag(tg)
  BY <1>6, SelectSpeedLimitTagPreserves
<1>7. CASE OpenModal \/ CloseModal
  BY <1>7, WindowPreserves
<1>8. CASE \E pos \in 1..LineLength : AddSuggestedVia(pos) \/ RemoveSuggestedVia(pos)
  BY <1>8, AddSuggestedViaPreserves, RemoveSuggestedViaPreserves
<1>9. CASE SetRestriction
  BY <1>9, SetRestrictionPreserves
<1> QED
  BY <1>2, <1>3, <1>4, <1>5, <1>6, <1>7, <1>8, <1>9 DEF Edit

LEMMA NextPreserves ==
  ASSUME IInv, [Next]_vars
  PROVE  IInv'
<1>1. CASE Edit
  BY <1>1, EditPreserves
<1>2. CASE WorkerReady
  BY <1>2, WorkerReadyPreserves
<1>3. CASE \E n \in DOMAIN launches : Respond(n) \/ StockFailed(n)
  <2>1. DOMAIN launches = 1..MaxLaunches
    BY DEF IInv, TypeInv, PathType
  <2>2. PICK n \in 1..MaxLaunches : Respond(n) \/ StockFailed(n)
    BY <1>3, <2>1
  <2> QED
    BY <2>2, StockAnsweredPreserves, PathAnsweredPreserves, PropsAnsweredPreserves,
       MatchedPreserves, RequestFailedPreserves, StockFailedPreserves DEF Respond
<1>4. CASE UNCHANGED vars
  <2>1. PathType' /\ SettingsType' /\ NotAhead'
    BY <1>4 DEF vars, IInv, TypeInv, PathType, SettingsType, NotAhead
  <2>2. Coherent'
    BY <1>4 DEF vars, IInv, Coherent, Fresh, PathShown, LaunchCurrent
  <2> QED
    BY <2>1, <2>2 DEF IInv, TypeInv
<1> QED
  BY <1>1, <1>2, <1>3, <1>4 DEF Next

\* The inductive invariant holds in every behaviour of the itinerary: launches
\* under way, path, status, restrictions and callbacks agree.
THEOREM Invariance == Spec => []IInv
<1>1. Init => IInv
  BY InitEstablishes
<1>2. IInv /\ [Next]_vars => IInv'
  BY NextPreserves
<1> QED
  BY <1>1, <1>2, PTL DEF Spec

\* However many launches overlap, fail or are started again, and whatever is
\* edited in between: unless something outdated was used, every valid step is
\* found at its position among the operational points of the path, so that
\* upsertPathStepsInOPs does not throw.
THEOREM StepsAreFound == Spec => []StepsFoundInOPs
<1>1. IInv => StepsFoundInOPs
  <2> SUFFICES ASSUME IInv, ~stale, props # NoProps, NEW i \in DOMAIN steps, ~steps[i].bad
               PROVE  /\ steps[i].pos + 1 \in DOMAIN props.ops
                      /\ props.ops[steps[i].pos + 1] = steps[i].loc
    BY DEF StepsFoundInOPs
  <2> QED
    BY DEF IInv, Coherent, Fresh, PathShown, Fits
<1> QED
  BY <1>1, Invariance, PTL

\* Unless something outdated was used, the path shown is the one of the present
\* steps, rolling stock and tag, and the status says "done" only with a path.
THEOREM ThePathIsCurrent == Spec => []PathIsCurrent
<1>1. IInv => PathIsCurrent
  BY DEF IInv, Coherent, Fresh, PathShown, Fits, PathIsCurrent
<1> QED
  BY <1>1, Invariance, PTL

\* Unless something outdated was used, power restrictions refer to steps of the
\* itinerary: replaceItinerary drops them, and a launch that does not, the one
\* of the worker status, keeps the steps.
THEOREM RestrictionsAreOnPath == Spec => []RestrictionsStayOnPath
<1>1. IInv => RestrictionsStayOnPath
  BY DEF IInv, Coherent, Fresh, RestrictionsStayOnPath
<1> QED
  BY <1>1, Invariance, PTL
=============================================================================
