------------------------------ MODULE Reports ------------------------------
(***************************************************************************)
(* The reports of Core: the reporting day and week of an instant           *)
(* (ReportingPeriod in internal/core/config.go), the day, status and week  *)
(* reports of Engine (internal/core/engine.go, internal/reporting), and    *)
(* the evaluation of work against targets (internal/workpolicy/static.go). *)
(*                                                                         *)
(* An instant is a number, calendar day k runs from k * DayLength and day  *)
(* 0 is a Monday; all days are equally long, so a change of the clocks is  *)
(* left out.  A reporting day starts DayBoundary into its calendar day.    *)
(***************************************************************************)
EXTENDS Classifier

CONSTANTS
  Absent,         \* a field a stored context does not have
  Cases,          \* what Core may be asked: [facts, now]
  Arrivals,       \* the facts an Ingest may bring while a week is reported
  MaxIngests,     \* bound: the number of such Ingests
  DayLength,
  DayBoundary,
  WorkdaysPerWeek,
  DailyMinimum,
  DailyTarget,
  WorkApp         \* an application to work in: not the lock screen

Stored == INSTANCE StoredContext

ASSUME CalendarAssumption ==
  /\ DayLength \in Times /\ DayBoundary \in Times
  /\ DayBoundary \in 0 .. DayLength - 1
ASSUME TargetsAssumption ==
  /\ {DailyMinimum, DailyTarget} \subseteq Times
  /\ 0 < DailyMinimum /\ DailyMinimum <= DailyTarget
  /\ WorkdaysPerWeek \in 1 .. 7
ASSUME WorkAssumption == WorkApp \in STRING \ LockApps

VARIABLES
  facts,     \* the persisted state, as far as reports read it
  ingests,   \* how often it was changed
  now,       \* the time of the requests
  today,     \* the answer of /api/v1/reports/today with its status, None before
  snapshots, \* what Engine.Week read of the store so far, for one day after the other
  week       \* the answer of /api/v1/reports/week, None before

vars == <<facts, ingests, now, today, snapshots, week>>

-----------------------------------------------------------------------------
(* The calendar.                                                            *)

Weekday(t) == (t \div DayLength) % 7

(* ReportingPeriod: where the reporting day of an instant starts.           *)
ReportingDay(t) ==
  LET start == (t \div DayLength) * DayLength + DayBoundary IN
  IF t < start THEN start - DayLength ELSE start

-----------------------------------------------------------------------------
(* Evaluating work.                                                         *)

(* Evaluate of a StaticEvaluator, for the targets of days days.             *)
Evaluate(days, working) ==
  LET minimum == DailyMinimum * days
      target == DailyTarget * days
  IN [working |-> working,
      band |-> IF working > target THEN "OVERTIME"
               ELSE IF working >= minimum THEN "STANDARD" ELSE "BELOW_THRESHOLD",
      minimumRemaining |-> Max({0, minimum - working}),
      targetRemaining |-> Max({0, target - working}),
      overtime |-> Max({0, working - target})]

-----------------------------------------------------------------------------
(* Day reports.                                                             *)

(* Usage: per application the time in each state between two instants.      *)
Usage(segments, left, right) ==
  LET of(app) == {i \in DOMAIN segments : segments[i].says.app = app}
      apps == {s.says.app : s \in {x \in Range(segments) : x.end > left /\ x.start < right}} \ {None}
  IN [app \in apps |->
        [state \in States |-> Spent(segments, of(app) \cap In(segments, state), left, right)]]

(* Variant: the estimate starts at the end of the day's work.               *)
FinishAfterWork(calculated, evaluation, end) == calculated.end + evaluation.targetRemaining

(* finalizeDay: when the target is reached if work goes on from now.        *)
EstimatedFinish(calculated, evaluation, end) == end + evaluation.targetRemaining

(* BuildDay with finalizeDay.                                               *)
BuildDay(segments, end, live) ==
  LET calculated == Calculate(segments, end)
      worked == {i \in Working(segments) : segments[i].start < calculated.end}
      evaluation == Evaluate(1, calculated.totals["WORKING"])
  IN [timeline |-> segments,
      start |-> calculated.start,
      end |-> calculated.end,
      coverage |-> calculated.coverage,
      totals |-> calculated.totals,
      state |-> calculated.state,
      finalState |-> IF live THEN None ELSE calculated.state,
      evaluation |-> evaluation,
      finish |-> IF live /\ evaluation.targetRemaining > 0
                 THEN EstimatedFinish(calculated, evaluation, end) ELSE None,
      firstWork |-> IF worked = {} THEN None ELSE Min({segments[i].start : i \in worked}),
      lastWork |-> IF worked = {} THEN None
                   ELSE Max({Min({segments[i].end, calculated.end}) : i \in worked}),
      usage |-> IF worked = {} THEN <<>> ELSE Usage(segments, calculated.start, calculated.end)]

(* What Engine.day reads from the store, for the classifier.                *)
Evidence(f) ==
  [windows |-> f.windows, afks |-> f.afks, passive |-> f.passive,
   contexts |-> [i \in DOMAIN f.stored |->
                   Stored!ParseContext(f.stored[i].start, f.stored[i].end, f.stored[i].data)]
                \o [i \in DOMAIN f.host |-> Stored!HostContext(f.host[i])]]

(* What the store holds.                                                    *)
IsFacts(f) ==
  /\ f.windows \in Seq(WindowEvent)
  /\ f.afks \in Seq(AFKEvent)
  /\ f.stored \in Seq(Range(f.stored))
  /\ f.host \in Seq(Range(f.host))
  /\ \A e \in Range(f.stored) \cup f.passive : Timed(e)
  /\ \A e \in Range(f.host) : e.at \in Times

ASSUME CasesAssumption ==
  /\ \A c \in Cases : c.now \in Times /\ IsFacts(c.facts)
  /\ \A a \in Arrivals : IsFacts(a)
  /\ MaxIngests \in Nat

(* Store.Ingest, as far as reports see it: there are more facts.            *)
Ingested(f, a) ==
  [windows |-> f.windows \o a.windows, afks |-> f.afks \o a.afks,
   stored |-> f.stored \o a.stored, host |-> f.host \o a.host,
   passive |-> f.passive \cup a.passive]

(* Engine.day                                                               *)
Day(f, start, end, live) == BuildDay(Build(Evidence(f), start, end), end, live)

(* Engine.Today                                                             *)
Today(f, t) == Day(f, ReportingDay(t), t, TRUE)

(* StatusFromDayReport                                                      *)
Status(report, t) ==
  [state |-> report.state, totals |-> report.totals,
   remaining |-> report.evaluation.targetRemaining,
   finish |-> IF report.evaluation.targetRemaining > 0
              THEN t + report.evaluation.targetRemaining ELSE None,
   says |-> IF report.timeline = <<>> THEN None ELSE Last(report.timeline).says]

-----------------------------------------------------------------------------
(* Week reports.                                                            *)

Monday(t) == ReportingDay(t) - Weekday(ReportingDay(t)) * DayLength

(* The starts of the days of the week so far.                               *)
DayStarts(t) ==
  [i \in 1 .. Weekday(ReportingDay(t)) + 1 |-> Monday(t) + (i - 1) * DayLength]

(* Variant: the present day is as long as the others.                       *)
DayEndWhole(start, t) == start + DayLength

(* Engine.Week: a past day is whole, the present one ends now.              *)
DayEnd(start, t) == IF start = ReportingDay(t) THEN t ELSE start + DayLength

(* The number of workdays that the calendar of the period's end has seen.   *)
ElapsedWorkdays(t) == Min({Weekday(t) + 1, WorkdaysPerWeek})

(* SummarizeWeek; the average itself is a quotient of two of its fields.    *)
SummarizeWeek(reports, t) ==
  LET sum(state) == SumOf([i \in DOMAIN reports |-> reports[i].totals[state]])
      covered(state) == SumOf([i \in DOMAIN reports |-> reports[i].coverage[state]])
  IN [start |-> Monday(t), end |-> t, days |-> reports,
      totals |-> [s \in States |-> sum(s)],
      coverage |-> [s \in States |-> covered(s)],
      denominator |-> ElapsedWorkdays(t),
      evaluation |-> Evaluate(WorkdaysPerWeek, sum("WORKING"))]

(* ApplyWeekToDateEvaluation                                                *)
WeekToDate(reports) ==
  [i \in DOMAIN reports |->
     Evaluate(WorkdaysPerWeek, SumOf([j \in 1 .. i |-> reports[j].totals["WORKING"]]))]

(* Engine.Week, from the snapshot of the store it took for each of the days. *)
WeekDay(f, start, t) == Day(f, start, DayEnd(start, t), start = ReportingDay(t))
Week(s, t) ==
  LET starts == DayStarts(t)
      reports == [i \in DOMAIN starts |-> WeekDay(s[i], starts[i], t)]
  IN [summary |-> SummarizeWeek(reports, t), weekToDate |-> WeekToDate(reports)]

-----------------------------------------------------------------------------
Init ==
  /\ \E c \in Cases : facts = c.facts /\ now = c.now
  /\ ingests = 0
  /\ today = None
  /\ snapshots = <<>> /\ week = None

(* handleToday, handleStatus                                                *)
HandleToday ==
  /\ today = None
  /\ today' = LET report == Today(facts, now)
              IN [report |-> report, status |-> Status(report, now)]
  /\ UNCHANGED <<facts, ingests, now, snapshots, week>>

(* handleWeek takes a snapshot for each day, and answers after the last.    *)
ReportPastDay ==
  /\ week = None /\ Len(snapshots) < Len(DayStarts(now)) - 1
  /\ snapshots' = Append(snapshots, facts)
  /\ UNCHANGED <<facts, ingests, now, today, week>>
HandleWeek ==
  /\ week = None /\ Len(snapshots) = Len(DayStarts(now)) - 1
  /\ snapshots' = Append(snapshots, facts)
  /\ week' = Week(snapshots', now)
  /\ UNCHANGED <<facts, ingests, now, today>>

(* An Ingest meanwhile.  (One before or after is another case.)  What was   *)
(* said of today is the answer of a request that is over.                   *)
Ingest ==
  /\ snapshots # <<>> /\ week = None
  /\ ingests < MaxIngests /\ ingests' = ingests + 1
  /\ \E a \in Arrivals : facts' = Ingested(facts, a)
  /\ today' = None
  /\ UNCHANGED <<now, snapshots, week>>

Next == HandleToday \/ ReportPastDay \/ HandleWeek \/ Ingest

Spec == Init /\ [][Next]_vars
-----------------------------------------------------------------------------
(* The day.                                                                 *)

From == ReportingDay(now)
Between == {t \in From .. now : t % 2 = 1}
SegmentAt(t) == CHOOSE s \in Range(today.report.timeline) : s.start < t /\ t < s.end

(* The timeline of BuildWithPassive covers the reporting day so far without *)
(* gap or overlap, and neighbours differ.                                   *)
TimelineCoversPeriod ==
  today # None =>
    LET segments == today.report.timeline IN
    IF From = now THEN segments = <<>>
    ELSE /\ segments[1].start = From /\ segments[Len(segments)].end = now
         /\ \A i \in DOMAIN segments : segments[i].start < segments[i].end
         /\ \A i \in 1 .. Len(segments) - 1 :
              /\ segments[i].end = segments[i + 1].start
              /\ segments[i].says # segments[i + 1].says

(* Classifying a piece at its middle is right for all of it: no evidence    *)
(* starts to count, expires, is superseded or runs out of grace inside one. *)
(* The status, which shows the last segment, shows the present then.        *)
EveryInstantIsClassified ==
  today # None =>
    /\ \A t \in Between : SegmentAt(t).says = Classify(Prepared(Evidence(facts)), t)
    /\ today.status.says =
         IF From = now THEN None ELSE Classify(Prepared(Evidence(facts)), now - 1)

(* The timeline is what the evidence says, instant by instant.              *)
TimelineIsExact == TimelineCoversPeriod /\ EveryInstantIsClassified

(* The facts that had started by an instant.                                *)
Kept(s, places) ==
  LET kept == Ascending(places) IN [k \in DOMAIN kept |-> s[kept[k]]]

Started(f, t) ==
  LET kept(s) == Kept(s, {i \in DOMAIN s : s[i].start <= t}) IN
  [windows |-> kept(f.windows), afks |-> kept(f.afks), stored |-> kept(f.stored),
   host |-> Kept(f.host, {i \in DOMAIN f.host : f.host[i].at <= t}),
   passive |-> {e \in f.passive : e.start <= t}]

(* No two AFK events that start together differ in status.  The order of    *)
(* such events is that of the ends of what they are merged into, which      *)
(* later facts may change, and the past with it.                            *)
AFKIsUnambiguous(f) ==
  \A a, b \in Range(f.afks) : a.start = b.start => a.status = b.status

(* What the facts said at an instant is what the report says of it later:   *)
(* facts that start after the instant never change it.                      *)
TodaysPastIsSettled ==
  today # None /\ AFKIsUnambiguous(facts) => \A t \in Between :
    SegmentAt(t).says.state = Classify(Prepared(Evidence(Started(facts, t))), t).state

(* Nothing counts as work without fresh evidence: "Evidence remains fresh   *)
(* through the inclusive expiry boundary and becomes stale only after       *)
(* eventEnd+freshness" (internal/model/model.go), for the stored events     *)
(* themselves, whatever they are merged into.                               *)
WorkHasFreshEvidence ==
  today # None => \A t \in Between : SegmentAt(t).says.state = "WORKING" =>
    /\ \E w \in Range(facts.windows) : Eligible(w, t) /\ ~Locked(w)
    /\ \/ \E c \in Range(Evidence(facts).contexts) : Eligible(c, t) /\ InOffice(c)
       \/ \E a \in Range(facts.afks) : Eligible(a, t)

InAll(totals) == totals["WORKING"] + totals["BREAK"] + totals["UNTRACKED"]

(* The totals account for the period: coverage is all of it, the day's      *)
(* totals are all of the day from first work to its end, and trimming the   *)
(* day, before its first work or after AutoEnd, never trims work.           *)
TotalsAccountForThePeriod ==
  today # None =>
    LET report == today.report
    IN /\ InAll(report.coverage) = now - From
       /\ report.start # None => InAll(report.totals) = report.end - report.start
       /\ report.totals["WORKING"] = report.coverage["WORKING"]

(* Usage explains the day: all of its work is some application's, no more   *)
(* of the other states is than the day has, and the work lies between the   *)
(* first and the last work the report names.                                *)
UsageExplainsTheDay ==
  today # None =>
    LET report == today.report
        apps == SetToSeq(DOMAIN report.usage)
        used(state) == SumOf([k \in DOMAIN apps |-> report.usage[apps[k]][state]])
    IN /\ used("WORKING") = report.totals["WORKING"]
       /\ \A state \in {"BREAK", "UNTRACKED"} : used(state) <= report.totals[state]
       /\ \A s \in Range(report.timeline) : s.says.state = "WORKING" =>
            s.start >= report.firstWork /\ s.end <= report.lastWork

(* The report's figures agree with each other and with the timeline.        *)
TotalsAddUp == TotalsAccountForThePeriod /\ UsageExplainsTheDay

(* The user works without a break from now on.                              *)
Continued(f, t, until) ==
  [f EXCEPT !.windows = Append(@, [start |-> t, end |-> until, app |-> WorkApp, locked |-> FALSE]),
            !.afks = Append(@, [status |-> "not-afk", start |-> t, end |-> until])]

Observed(f, t) ==
  /\ \A e \in Range(f.windows) \cup Range(f.afks) \cup Range(f.stored) \cup f.passive : e.end <= t
  /\ \A e \in Range(f.host) : e.at <= t

(* The estimated finish, which "assumes no additional breaks" (status.go),  *)
(* is true: who works on until then has reached the target then and not     *)
(* before, whatever the day was so far, also after its automatic end.       *)
EstimateIsReached ==
  today # None /\ today.report.finish # None /\ Observed(facts, now) /\ AFKIsUnambiguous(facts)
    /\ today.report.finish < From + DayLength =>
      LET remaining(t) == Today(Continued(facts, now, t), t).evaluation.targetRemaining IN
      /\ today.status.finish = today.report.finish
      /\ remaining(today.report.finish) = 0
      /\ today.report.finish - 2 > now => remaining(today.report.finish - 2) > 0

-----------------------------------------------------------------------------
(* The week.                                                                *)

(* A day that is over is reported the same for the rest of the week: what   *)
(* is observed after it changes nothing of its report.                      *)
PastDaysAreSettled ==
  week # None => \A i \in 1 .. Len(week.summary.days) - 1 :
    AFKIsUnambiguous(snapshots[i]) =>
      LET start == DayStarts(now)[i]
          end == start + DayLength
      IN week.summary.days[i] = Day(Started(snapshots[i], end - 1), start, end, FALSE)

(* The past is settled, within the day and within the week.                 *)
PastIsSettled == TodaysPastIsSettled /\ PastDaysAreSettled

(* What was ingested between the snapshots for the days of the week is no   *)
(* history of the days reported by then.                                    *)
NoLateHistory ==
  \A i \in DOMAIN snapshots :
    \/ snapshots[i] = Last(snapshots)
    \/ /\ AFKIsUnambiguous(snapshots[i]) /\ AFKIsUnambiguous(Last(snapshots))
       /\ LET end == DayEnd(DayStarts(now)[i], now)
          IN Started(snapshots[i], end - 1) = Started(Last(snapshots), end - 1)

(* The days of the week are one timeline from Monday to now that is cut at  *)
(* the day boundaries: no work is lost, counted twice or changed by a cut,  *)
(* and each day is evaluated by the work of the week up to its end.  Each   *)
(* day has a snapshot of its own: observations that arrive meanwhile must   *)
(* not be history of a day already reported (a backlog that is; then the    *)
(* week is of different facts, but its coverage is still all of it and its  *)
(* evaluations still are those of its days).                                *)
WeekIsOneTimeline ==
  week # None =>
    LET whole == Build(Evidence(Last(snapshots)), Monday(now), now)
        dayEnd(i) == Min({now, Monday(now) + i * DayLength})
    IN /\ InAll(week.summary.coverage) = now - Monday(now)
       /\ Last(week.weekToDate) = week.summary.evaluation
       /\ NoLateHistory => \A i \in DOMAIN week.summary.days :
            week.weekToDate[i].working = Total(whole, "WORKING", Monday(now), dayEnd(i))

(* The average is "across %d elapsed workday(s)"                            *)
(* (cmd/worktracker/main.go): the days of the report, at most a week's      *)
(* workdays.                                                                *)
AverageCountsTheReportedDays ==
  week # None => week.summary.denominator = Min({Len(week.summary.days), WorkdaysPerWeek})
=============================================================================
