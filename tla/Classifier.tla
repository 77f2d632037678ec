----------------------------- MODULE Classifier -----------------------------
(***************************************************************************)
(* How Core turns the stored facts of a period into a timeline and its     *)
(* totals (BuildWithPassive and Calculate in                               *)
(* internal/classifier/classifier.go, BuildDay in                          *)
(* internal/reporting/reporting.go).                                       *)
(*                                                                         *)
(* The facts cut the period at every instant where one of them starts,     *)
(* ends or expires; each piece is classified by the facts that are the     *)
(* latest fresh ones at its middle, and equal neighbours are joined.       *)
(*                                                                         *)
(* Times are even numbers, so that the middle of a piece is a whole number *)
(* and the odd numbers are the instants between.  Titles are part of       *)
(* "app"; a detector's evidence is "work", "idle" or "unavailable".        *)
(* Reports.tla builds the reports of days and weeks on these operators.    *)
(***************************************************************************)
EXTENDS Integers, Sequences, FiniteSets, SequencesExt, FiniteSetsExt

CONSTANTS
  None,              \* no such fact
  Freshness,         \* Options.EvidenceFreshness
  AFKGrace,          \* Options.AFKGrace
  AutoEnd,           \* Options.AutoEnd
  LockApps,          \* Options.LockApps
  Statuses,          \* what an AFK event may say
  Second             \* one second

Times == {t \in Int : t % 2 = 0}

ASSUME DurationsAssumption ==
  /\ {Freshness, AFKGrace, AutoEnd, Second} \subseteq Times
  /\ 0 <= AFKGrace /\ 0 <= AutoEnd
  /\ 0 < Second /\ Second <= Freshness

ASSUME StatusesAssumption == {"afk", "not-afk", "active"} \subseteq Statuses

(* Core accepts no fact that ends before it starts.                         *)
Timed(e) == e.start \in Times /\ e.end \in Times /\ e.start <= e.end

WindowEvent == {e \in [start : Times, end : Times, app : STRING, locked : BOOLEAN] : Timed(e)}
AFKEvent == {e \in [start : Times, end : Times, status : Statuses] : Timed(e)}

ASSUME NoneAssumption == None \notin WindowEvent \cup AFKEvent \cup STRING

(* The facts of a period: windows, AFK events and contexts in the order of  *)
(* the store, and a set of browser events.                                  *)
IsEvidence(f) ==
  /\ f.windows \in Seq(WindowEvent)
  /\ f.afks \in Seq(AFKEvent)
  /\ f.contexts \in Seq(Range(f.contexts))
  /\ \A e \in Range(f.contexts) \cup f.passive : Timed(e)

-----------------------------------------------------------------------------
(* Order.                                                                   *)

(* The elements of a finite set in the order that before, a set of pairs,   *)
(* puts them in.                                                            *)
InOrder(S, before) ==
  LET places == {<<Cardinality({y \in S : <<y, x>> \in before}) + 1, x>> : x \in S}
  IN [k \in 1 .. Cardinality(S) |-> CHOOSE x \in S : <<k, x>> \in places]

(* The numbers of a finite set, in order.                                   *)
Ascending(S) == InOrder(S, {p \in S \X S : p[1] < p[2]})

(* The order that a stable sort by start, or by start and end, gives the    *)
(* places of a sequence.                                                    *)
ByStart(events) ==
  {p \in (DOMAIN events) \X (DOMAIN events) :
     LET e == events[p[1]]
         f == events[p[2]]
     IN e.start < f.start \/ (e.start = f.start /\ p[1] < p[2])}

ByStartAndEnd(events) ==
  {p \in (DOMAIN events) \X (DOMAIN events) :
     LET e == events[p[1]]
         f == events[p[2]]
     IN \/ e.start < f.start
        \/ e.start = f.start /\ (e.end < f.end \/ (e.end = f.end /\ p[1] < p[2]))}

Arranged(events, before) ==
  LET places == InOrder(DOMAIN events, before) IN [k \in DOMAIN places |-> events[places[k]]]

Sorted(events) == Arranged(events, ByStartAndEnd(events))

(* The blocks that a sequence of some length is cut into before its heads.  *)
Blocks(length, heads) ==
  LET first == Ascending(heads) IN
  [k \in DOMAIN first |->
     [first |-> first[k],
      last |-> IF k = Len(first) THEN length ELSE first[k + 1] - 1]]

-----------------------------------------------------------------------------
(* Selecting evidence.                                                      *)

(* Variant: evidence never expires.                                         *)
EligibleForever(e, t) == e.start <= e.end /\ e.start <= t

(* evidenceEligible, with EvidenceFreshAt: fresh through end + freshness.   *)
Eligible(e, t) == e.start <= e.end /\ e.start <= t /\ t <= e.end + Freshness

(* findWindow, findAFK, findContext on sorted events: the last eligible.    *)
Find(events, t) ==
  LET eligible == {i \in DOMAIN events : Eligible(events[i], t)} IN
  IF eligible = {} THEN None ELSE events[Max(eligible)]

(* Events of one status in a row are one event: from the first one's start  *)
(* to the latest end.                                                       *)
Merged(events, blocks) ==
  [k \in DOMAIN blocks |->
     [events[blocks[k].first] EXCEPT
        !.end = Max({events[i].end : i \in blocks[k].first .. blocks[k].last})]]

(* Variant: equal neighbours are merged across any gap.                     *)
MergeAnyGap(afks) ==
  LET events == Arranged(afks, ByStart(afks))
      joins(i) == i > 1 /\ events[i - 1].status = events[i].status
  IN Merged(events, Blocks(Len(events), {i \in DOMAIN events : ~joins(i)}))

(* An event joins its predecessors of one status, unless it starts after    *)
(* all their ends by more than the freshness, or a second if that is more.  *)
(* (A predecessor beyond such a gap is out of reach anyway.)                *)
Joins(events, i) ==
  \E j \in 1 .. i - 1 :
    /\ \A k \in j .. i : events[k].status = events[i].status
    /\ events[i].start <= events[j].end + Max({Freshness, Second})

(* mergeAFK                                                                 *)
MergeAFK(afks) ==
  LET events == Arranged(afks, ByStart(afks))
  IN Merged(events, Blocks(Len(events), {i \in DOMAIN events : ~Joins(events, i)}))

(* findPassiveEvidence: per detector its latest eligible event.             *)
LatestPassive(eligible) ==
  LET latest(id) == CHOOSE e \in eligible :
                      /\ e.id = id
                      /\ \A f \in eligible : f.id = id =>
                           f.start < e.start \/ (f.start = e.start /\ f.end <= e.end)
  IN [id \in {e.id : e \in eligible} |-> latest(id).evidence]

FindPassive(events, t) == LatestPassive({e \in events : Eligible(e, t)})

Prepared(f) ==
  [windows |-> Sorted(f.windows), afks |-> Sorted(MergeAFK(f.afks)),
   contexts |-> Sorted(f.contexts), passive |-> f.passive]

-----------------------------------------------------------------------------
(* Classifying.                                                             *)

Locked(w) == w.locked \/ w.app \in LockApps

InOffice(c) == c # None /\ c.location = "OFFICE" /\ c.evidence \in {"confirmed", "stale"}
Active(a) == a # None /\ a.status \in {"not-afk", "active"}
Away(a) == a # None /\ a.status = "afk"

(* What the rules of classify make of the selected evidence.                *)
State(w, a, c, passive, t) ==
  IF w = None THEN "UNTRACKED"
  ELSE IF Locked(w) THEN "BREAK"
  ELSE IF \/ InOffice(c)
          \/ Active(a)
          \/ Away(a) /\ (t - a.start <= AFKGrace \/ \E id \in DOMAIN passive : passive[id] = "work")
       THEN "WORKING"
  ELSE IF Away(a) THEN "BREAK" ELSE "UNTRACKED"

(* classify, but for the bounds of the segment.                             *)
Classify(p, t) ==
  LET w == Find(p.windows, t)
      a == Find(p.afks, t)
      c == Find(p.contexts, t)
      browser == FindPassive(p.passive, t)
      stored == IF c = None THEN <<>> ELSE c.passive
      passive == [id \in DOMAIN browser \cup DOMAIN stored |->
                    IF id \in DOMAIN browser THEN browser[id] ELSE stored[id]]
      degraded == c = None \/ \E id \in DOMAIN browser : browser[id] = "unavailable"
  IN [state |-> State(w, a, c, passive, t),
      location |-> IF c = None THEN "REMOTE" ELSE c.location,
      evidence |-> IF c = None THEN "fallback" ELSE c.evidence,
      health |-> IF degraded THEN "degraded" ELSE c.health,
      app |-> IF w = None THEN None ELSE w.app,
      passive |-> passive]

(* The instants at which a fact starts, ends or is no longer fresh.         *)
Edges(p) ==
  UNION {{e.start, e.end, e.end + Freshness} :
           e \in Range(p.windows) \cup Range(p.afks) \cup Range(p.contexts) \cup p.passive}

GraceEnds(p) == {a.start + AFKGrace : a \in {e \in Range(p.afks) : e.status = "afk"}}

(* Variant: the end of the grace period is no boundary.                     *)
BoundariesWithoutGrace(p, from, to) ==
  {from, to} \cup {t \in Edges(p) : from <= t /\ t <= to}

(* Where the classification may change.                                     *)
Boundaries(p, from, to) ==
  {from, to} \cup {t \in Edges(p) \cup GraceEnds(p) : from <= t /\ t <= to}

(* coalesce: a segment that says what its predecessor says extends it.      *)
Coalesce(segments) ==
  LET blocks == Blocks(Len(segments),
                       {i \in DOMAIN segments : i = 1 \/ segments[i].says # segments[i - 1].says})
  IN IF segments = <<>> THEN <<>>
     ELSE [k \in DOMAIN blocks |->
             [segments[blocks[k].first] EXCEPT !.end = segments[blocks[k].last].end]]

Build(f, from, to) ==
  LET p == Prepared(f)
      cuts == Ascending(Boundaries(p, from, to))
  IN Coalesce([i \in 1 .. Len(cuts) - 1 |->
                 [start |-> cuts[i], end |-> cuts[i + 1],
                  says |-> Classify(p, cuts[i] + (cuts[i + 1] - cuts[i]) \div 2)]])

-----------------------------------------------------------------------------
(* Totals.                                                                  *)

States == {"WORKING", "BREAK", "UNTRACKED"}

(* The sum of a sequence of numbers.                                        *)
SumOf(numbers) ==
  LET sum[i \in 0 .. Len(numbers)] == IF i = 0 THEN 0 ELSE sum[i - 1] + numbers[i]
  IN sum[Len(numbers)]

(* How much of a segment lies between two instants.                         *)
Overlap(s, left, right) == Max({0, Min({s.end, right}) - Max({s.start, left})})

(* The time of the counted segments between two instants.                   *)
Spent(segments, counted, left, right) ==
  SumOf([i \in DOMAIN segments |->
           IF i \in counted THEN Overlap(segments[i], left, right) ELSE 0])

In(segments, state) == {i \in DOMAIN segments : segments[i].says.state = state}
Working(segments) == In(segments, "WORKING")

(* The time the segments spend in a state between two instants.             *)
Total(segments, state, left, right) == Spent(segments, In(segments, state), left, right)

Totals(segments, left, right) == [state \in States |-> Total(segments, state, left, right)]

(* Variant: the day ends AutoEnd before the report does.                    *)
AutoEndedEarly(segments, to) ==
  IF AutoEnd > 0 /\ to - segments[Max(Working(segments))].end >= AutoEnd
  THEN to - AutoEnd - Second ELSE to

(* The end of the day: the last work, once nothing followed for AutoEnd.    *)
EffectiveEnd(segments, to) ==
  IF AutoEnd > 0 /\ to - segments[Max(Working(segments))].end >= AutoEnd
  THEN segments[Max(Working(segments))].end ELSE to

Calculate(segments, to) ==
  LET coverage == Totals(segments, IF segments = <<>> THEN to ELSE segments[1].start, to)
      state == IF segments = <<>> THEN "UNTRACKED" ELSE Last(segments).says.state
  IN IF Working(segments) = {}
     THEN [start |-> None, end |-> to, coverage |-> coverage,
           totals |-> [s \in States |-> 0], state |-> state]
     ELSE LET first == segments[Min(Working(segments))].start
              last == EffectiveEnd(segments, to)
          IN [start |-> first, end |-> last, coverage |-> coverage,
              totals |-> Totals(segments, first, last), state |-> state]

=============================================================================
