# Verification of WorkChronicle

TLA+ models of WorkChronicle (`src/`), the TLC runs that check them on small
instances, and TLAPS proofs that hold for every value of the constants.
`PROJECT.json` lists the runs, the code lines each definition stands for, the
hazards, the findings and the theorems.

## The system

WorkChronicle observes what a user does on a Windows machine and reports how
long they worked. A **host agent** runs in the user's session. It samples the
foreground window, the idle time and the lock state, or forwards what
ActivityWatch recorded, and sends normalized facts to **Core**, an HTTP service
that may run in Docker. Core stores the facts, classifies them into a timeline,
and reports days and weeks. A browser extension sends page states to a receiver
in the agent. The older **worktracker** is one process with a tray icon: its
collector writes the context of the work (network, player) into ActivityWatch.

| Component | State it keeps | Operations | What makes it correct | Modules |
|---|---|---|---|---|
| Core store (`internal/core/store.go`, `server.go`) | the facts and diagnostics in memory, `state.json` | ingest, persist, snapshot, open | acknowledged facts survive, deliveries commute but for reports of one key that differ | `CoreStore`, `ObservationLog` |
| Protocol (`internal/coreprotocol`) | - | validate a batch | identity of facts | `Observations` |
| Session monitor (`internal/nativewatcher/session*.go`, `reader_windows.go`) | the last lock state, whether a notification gave it | notification, fallback, read | the state is true once settled, a lock is lifted | `SessionMonitor` |
| Native watcher (`watcher.go`, `startNativeLoop`) | two open intervals, the last poll | sample, send | stored time was observed | `NativeAcquisition` |
| ActivityWatch forwarding (`hostagent/agent.go`) | the end of the last query | query and send | nothing recorded is missed | `ActivityWatchForwarding` |
| Acquisition diagnostics, parity, health (`hostagent/acquisition.go`, `parity.go`, `core/diagnostics.go`) | one record with two writers, Core's copy | update, compare, merge, judge | healthy means observed, and recovers | `Acquisition` |
| Classifier (`internal/classifier`) | - | build, calculate | every instant is classified by its own evidence | `Classifier` |
| Stored contexts (`classifier/context.go`, `internal/appstate`) | - | decode two schema versions | a report reads what was written | `StoredContext` |
| Reports, work policy, reporting period (`core/engine.go`, `internal/reporting`, `internal/workpolicy`) | - | today, status, week | totals add up, the past is settled, days are one timeline | `Reports` |
| Browser extension and receiver (`browser-extension/src`, `internal/browsercontext`) | page states of the tabs, last sent observations | page messages, tab events, heartbeats, POST | what Core holds of a tab is true once settled, playing media stays represented | `BrowserContext` |
| Legacy collector, location detector, player (`internal/tracker`, `internal/location`, `internal/appstate`, `internal/activitywatch`) | bounded queue, last confirmed location | poll, flush, retry, locate | order, loss only at overflow, evidence that is what was seen | `Collector`, `CollectorRun` |
| Processes, tray (`cmd/worktracker`, `internal/tray`, `mutex_windows.go`) | the mutex, three threads, window messages | enter, refresh, exit | one collector, an orderly and truthful end | `Application` |
| Scheduled task (`internal/windows/task.go`) | the task | install, roll back, uninstall | it says what is so, and spares what it did not make | `TaskInstall` |
| Configuration, logging, other commands, Python prototype, validation scripts | - | - | - | see "Not modelled" |

They interact by HTTP (agent to Core, browser to agent, agent and collector to
ActivityWatch), by shared state under a mutex (session state, store,
diagnostics, tray view), by Windows messages (session notifications, the tray's
window) and by Go contexts that end each other.

Hard to get right, and what the modules are for: a crash or a failing file step
between the steps of a persist; batches that are retried, duplicated or
reordered; a slow probe that meets a notification; samples that are missed,
delayed by a slow send, or separated by sleep; outages of two servers that
overlap; a queue that overflows while what it gives up may have been taken; two
loops that overwrite each other's diagnostics; messages of two pages and POSTs of one
millisecond that nothing orders; an ingest between the days of a week; threads that post to a window
before it is there and wait for each other when one of them fails; and the many
boundaries at which a classification may change.

## Modules

**`Observations`** is the algebra of the store: facts with their merge key, the
time retention looks at and the rest of their contents; `Merge` (`merge` with the
key and choose functions of each stream), `Prune` (`pruneLocked`),
`MergeAcquisition`. Streams come in two kinds: intervals, where the longer report
wins, and point observations, where the incoming one does. `BatchesAssumption`
says what one host can send: a batch names an observation once; an interval that is
reported again has the same contents or another end; and the reports of a point
observation have one time, which is in its key, but may say different things, because
`onUpdated` builds two observations of a tab in one millisecond and posts both
(`background.js:117-125`). It rests on the key functions, which leave only the end and
the lock flag out of a window's key. A host that breaks it (two agents, a stored context
that changes under a fixed start and end) is outside the model. `IsViewOf` says what a
set of batches means: one report of every observation it retains, the longest of an
interval, any of a point observation.

**`CoreStore`** is the store behind `handleObservations`. A goroutine per
request goes through received, merged, created, written, committed; the steps
from merged on hold the mutex (`lock`). `mem` is `Store.state`, `disk` is
`state.json`, `tmp` the temporary file. `PersistFails` is any error return of
`persistLocked`, `Crash` the death of the process between two steps, `OpenStore`
the next start. The rename is taken as durable: the model's crash is of the
process, not of the machine (the directory is not synced after the rename).
`log` in a state of the store and `acked` are history: which batches the state was built
from and which were answered 202. Readers take the read lock and see `mem`; they
change nothing and are not actions.

**`ObservationLog`** is what the store promises: a growing set of durable
batches, acknowledgements for durable batches only, and a view with one report of every
observation the set retains. It is a function of the set but for point observations that
were reported in different ways (`Ambiguous`), where a step may choose. `CoreStore` implements it under `durable <- Saved.log`,
`view <- Retained(Saved.facts, Saved.log)`. The view speaks of what every durable
batch retains, because an old batch that arrives late prunes with its own,
earlier cutoff and can bring an expired fact back until the next batch.

**`SessionMonitor`** joins the window thread (`Dispatch`, `LoopEnds`) and the
sampling goroutine (`Snapshot`, `Probe`, `Fallback`: the three steps of
`SessionLocked`, between which anything may happen). Windows is external:
`SessionChange` locks or unlocks and posts the message, the probe may fail for no
reason, and access to the input desktop is denied only while locked.

**`NativeAcquisition`** is the loop of `startNativeLoop` with
`Watcher.Observe`. The ticker's channel holds one tick, so a sample taken after a
slow `Send` carries the time of the first tick of the wait. `Delivered` is any
successful attempt of `Send`, `Lost` its giving up. Facts are built and merged as
Core does (`Core!Merge` of `Observations`). `history` remembers the samples and is
what the properties compare Core's facts with. The readings of one sample are one
step: the code takes them within milliseconds, between two ticks.

**`ActivityWatchForwarding`** is `Agent.Run`'s query loop: `Tick`, which the ticker's
channel holds while a `Send` lasts, `InitialQuery`, `Poll` with its lookback up to its
tick, `Restart`. One instant stands for the events that cover it. ActivityWatch is
external and records an instant at most `MaxDelay` late, with `MaxDelay <= Lookback`. The
first query of a process reaches back to the start of the reporting week it starts in
(`StartsWeekOf`). `delivered`, `offered` and `exposed` are history: the last query Core
was sent, what that could have found, and what was left out of reach. The code lets
`lastQuery` advance past an unanswered query (`Skip`), and when that goes further than
the lookback reaches, instants may be skipped (`LeftBehind`); a restart reaches them
again if they are of this week. The properties say that this is the only way.
`Forward` is both servers answering, `ForwardNothing` either of them not.

**`Acquisition`** is `acquisitionState`: the record that the main loop
(`SampleMain`, `QueryFails`, `updateActivityWatch`) and the native loop (`SampleNative`,
`updateNative`) write under a mutex, and that each takes a `Snapshot` of and
sends with its batch. A loop takes a tick (`Take`) that its ticker may have held for as
long as its last `Send` took: the time it stamps rows, comparison and batch with is any
between the tick before and now. Between the three steps of one loop the other may take its
own, and the batches may arrive in either order, twice, or not at all. `Ingest` is
the merge in `Store.Ingest`; `BrowserBatch` is a batch of the browser receiver, which
carries no record but advances `lastIngest`. Core starts without a record
(`NoDiagnostics`), which it takes for a healthy one. `Healthy` is `acquisitionHealth`
and `handleHealth`, an operator of the state because it is computed when it is asked
for. `recorded` (up to when ActivityWatch recorded) and `seen` (the tick at which a
native source was last read) are the truth the properties compare with. Core's clock is
the machine's: the two run on one host.

**`Classifier`** is the pure part: `Prepared`, `Find`, `MergeAFK`, `Classify`,
`Boundaries`, `Build`, `Calculate`. Times are even, so that the odd numbers are the
instants between and every middle is whole. Loops over slices are written so that
they can be reasoned about: sorting is the enumeration of the places of a slice in an
order (`InOrder`, `Arranged`), `mergeAFK` and `coalesce` cut a slice into `Blocks`
before the elements that do not join, and sums are a recursive function (`SumOf`).
`Timed`, `WindowEvent`, `AFKEvent` say what Core's validation lets in: no fact ends
before it starts, and an AFK event has any status (`Statuses`). **`StoredContext`** decodes contexts:
`ParseContext` for those of ActivityWatch in both schema versions, `HostContext` for
those the agent observed. **`Reports`** joins them: the reporting day and week of
an instant, `Day`, `Today`, `Week`, `SummarizeWeek`, `Evaluate`, `Usage` and the
status. Its state is what Core stores and the answers of its two report handlers. The
week's takes a snapshot of the store for each of its days (`ReportPastDay`, and
`HandleWeek` for the last), between which `Ingest` may add facts.
`mergeAFK` sorts by start only, with `sort.Slice`, which keeps no order of ties:
`ByStart` is the stable order, and the run takes the events in every order, so every
order of a tie is among its inputs. Where the order of a tie matters to a property
about two reports, `AFKIsUnambiguous` excludes it (see "Met while modelling").
`WorkApp` is the application that `EstimateIsReached` lets the user go on working in.

**`BrowserContext`** is the way from a page to Core. `Emit` and the farewell and
greeting in `Commit` and `Close` are `content.js`; `OnPageState`, `OnClosing`,
`OnUpdated`, `OnRemoved` and `UpdateTabs` are the handlers of `background.js`,
which `Handle` runs on the next event; `Heartbeat` is its interval, `Restart` its
reload. `ObservationFor`, `ShouldSend` and `Send` are `core.js`; `Post` is the
request with the receiver's validation (`Refused`) and the hand-over to Core. The browser
is external: one ordered queue of events (`inbox`), in which a page's farewell comes
before the tab's event, is lost, or comes at any time after the next page has said its
hello (`goodbye`, `LateFarewell`), because nothing orders the messages of two renderers.
It deletes whatever entry the tab has by then (`background.js:102-104`). A POST takes
effect when it is sent or never, because Core orders the observations of a tab by
`observed_at`. Of those of one millisecond (`background.js:35`) Core keeps the one that
arrives last (`store.go:238-244`), whichever handlers made them: one that is beaten by an
earlier one counts as one that never arrived, which `Reachability` may decide of any; of
the two that `onUpdated` builds, `OnUpdated` keeps either. `report` holds `lastSent` and
the observation Core is known to have, none when the last was lost or beaten. `exposed`
is history: the background was made to forget a page that has not spoken since. Titles,
domains, audibility and the debounce of the page's timer are left out. Taken for granted
of the browser: ordinary messages of a page arrive before its tab has another, and those
of a closed tab that come after its removal are dropped.

**`Collector`** is `Collector.Run`, one goroutine. `pc` is where it is: the first
requests (`list`, `create`, `createBrowser`), `listen`, the select (`idle`), and
`flush` and `heartbeat` after a poll. Every attempt of a request is a step of its
own (`Client.do`: `Retry` on anything but 2xx and 4xx), so ActivityWatch may fail, lose its
bucket or come back, and the context may end, between any two. A first request that the
context ends makes `Run` return a wrapped error (`interrupted`), the select returns the
context's own (`canceled`). A request that
failed may have been taken (`MayStore`). `Observe` is the location detector,
`Player` the player's, `Data` what is written of both. History: `missing` is what
ActivityWatch has not got and the queue did not give up, `overflow` the last it did,
`truth` what the network and the player really said.

**`CollectorRun`** is what the process around it expects of `Run`: a reason for
every end (`StartFails`, `Interrupted`, `Breaks`, `Finish`), and an end when the context is done. `Collector` implements it and
`Application` is built from it, so neither needs the other's state.

**`Application`** is the process: `Enter`, `Refuse` and `Killed` with the mutex of
`AcquireMutex`; the main thread through `runCollector` and `nativeUI.Run` (`main`);
the collector's goroutine (the actions of `CollectorRun`, then `CollectorDone`);
and the one that refreshes the tray (`Answers`, `Posts`). Windows is external: its
message queue is `refreshMsg`, `closeMsg`, `quitMsg`, and posted messages arrive; the
shell may refuse to add the icon, which ends the window, or to modify it, which nobody
notices (`DispatchRefresh`: the icon is "stale").
One copy of the threads' state is enough because one process is inside at a time,
which is itself checked (`OneProcessInside`): a second one inside would violate it
at once. **`TaskInstall`** is `installTask` and `UninstallTask` command by
command; `Application` composes the two, because the task starts processes
(`TaskStarts`, `RunSucceeds`).

`MCCoreStore`, `MCNativeAcquisition` and `MCReports` give the constants their
values for TLC; `MCHostAgent` runs `SessionMonitor` and `ActivityWatchForwarding`
together, two parts of the agent that share no variable and no call: what holds of
either while the other rests holds of both, so that one moves in each behaviour. Operators marked "Variant" are plausible mistakes: replacing the
definition below them must break a property.

## Runs

| Run | Checks | Bounds |
|---|---|---|
| `core_store` | types, `Converges`, `AckedIsDurable`, `DurableFactsSurvive`, `LastObservationKept`, `ImplementsLog`, `RequestsAnswered` | 2 requests at a time, 3 batches, one tab reported in 2 ways |
| `host_agent` | types of both parts, `SettledStateIsTrue`, `NotificationsPrevail`, `LockIsLifted`, `NoHole`, `CatchesUp` | `MaxChanges` 5 lock changes; `MaxNow` 6, `Lookback` 2, `MaxDelay` 1, weeks that start at 0 and 3 |
| `session_no_window` | violation: a startup lock is for ever without a monitor | 3 lock changes |
| `native_acquisition` | `StoredTimeWasObserved`, `IntervalsAreSound` (types, `StoredIntervalsAreDisjoint`) | `MaxSamples` 3, `MaxNow` 6, `MaxGap` 2, one clock step |
| `acquisition` | `HealthyMeansObserved`, `ComparedEventsAreRecent`, `SourcesRecover` | shadow mode, one native source, `MaxNow` 2, `Freshness` and `Tolerance` 0 |
| `reports` | `TimelineIsExact`, `PastIsSettled`, `WorkHasFreshEvidence`, `TotalsAddUp`, `EstimateIsReached`, `WeekIsOneTimeline` | up to 3 AFK, 2 window, 2 context, 2 browser events; days of 12, boundary at 2; one ingest between two days of a week |
| `reports_average` | violation: the weekly average before the day boundary | the same |
| `browser_context` | types, `MemoryIsTrue`, `MediaBelongsToItsUrl`, `CorePlaysOnlyWhatPlays`, `MediaStaysRepresented` | one tab, 2 URLs (one refused), `MaxInbox` 2, one late farewell on its way |
| `browser_context_forgets` | violation: a page that survives a load that ended is not represented | one tab, one URL |
| `collector` | `QueueIsFaithful` (types, order, nothing lost), `EvidenceIsHonest`, `QueueDrains`, `ImplementsRun` | `MaxNow` 3, `QueueSize` 2, `Retries` 1, `StaleFor` 1 |
| `application` | `OneCollector` (types, `OneProcessInside`), `IconIsCurrent`, `ReturnIsOrderly`, `InstallTellsTheTruth`, `ExistingTaskIsUntouched`, `ExitIsReached` | 2 processes, one task |
| `application_exit` | violation: Exit during the collector's first requests ends with exit code 2 | one process |

What they show. The store forgets nothing it acknowledged, whatever fails between
its steps, and does not depend on the order or number of deliveries, but for which of two
different reports of one tab and millisecond it keeps. A settled session
state is the true one, and no stored interval covers time that was not sampled.
Forwarding skips an instant only after an outage that the model names. Once Core has a
record its health is never better than the truth, though two loops overwrite each other's
news, and a source that can be read is shown as it is again and again. The timeline is right at every instant although only the
middles of pieces are classified, later facts change nothing, and week, day, usage
and estimate agree. The collector's queue keeps its order over every mixture of
failures, and what it writes of the location and the player is what a report reads.
One process collects, the icon shows the latest view even if that came before the
window, unless the shell refused it, every exit is reached, and its code hides no failure.

Why the bounds are enough. The store's three batches contain every relation two
batches can have (grow, repeat, expire exactly at and beyond the cutoff, diagnostics
lost and absent, a tab that one millisecond reports in two ways and then in the first
again), and two requests are all that can meet at one mutex in
different steps. Three samples make an interval, its extension and its break or
its revival; `Sleep` is one more than `MaxGap`. Five lock changes allow a full
lock and unlock before, during and after a probe. Seven instants let an outage
outlast the lookback before and across the start of a week, and a restart come after it,
and a tick is held while another passes. With a freshness and a tolerance of 0 every
observation of the acquisition is stale an instant later, and every tick that waited is
too old, so two instants (0 is no time) contain a fresh, a stale and a repeated one;
the native rows are updated alike, so one stands for three. In the
reports, three AFK events are what merging can get wrong beyond two, evidence starts
before, at, inside and after the period's ends and expires within it, and weeks are
asked for before, at and after a day boundary and on a weekend. The extension keeps
the state of each tab apart, so one tab beside others that are activated meets every
order of events, and an inbox that is allowed two events and may grow to four holds a
navigation's farewell, event and greeting behind a heartbeat, or the late farewell of a
former page between them. A queue of two
overflows while it holds an older element, one retry separates the first attempt from
the last, and three intervals are more than the staleness. Two processes are all that
a mutex tells apart; the proof covers any number.

Deadlock is checked but where a bound ends the behaviour: `NativeAcquisition` stops
after its samples, `Reports` after its two answers.

**Fairness.** `CoreStore`: a goroutine that can run does; a goroutine that waits
for the mutex gets it (Go hands a contended mutex over in order, hence strong
fairness of `Ingest`). `SessionMonitor`: the window thread dispatches what is
queued while its loop runs, and the ticker keeps calling `SessionLocked`; nothing is
assumed of the user, the probe, or the loop's survival. `ActivityWatchForwarding`:
time passes, ActivityWatch records, the ticker ticks and the loop polls; servers owe
nothing, and `CatchesUp` speaks of behaviours in which they come back. (In `host_agent`
each is asked of the part that moves.) `BrowserContext`: the
event loop handles events, the background's interval and a page's timers fire
(strong only because `MaxInbox` may block them, which a browser does not); nothing
is assumed of the user, the pages, the receiver or restarts. `Acquisition`: both
tickers tick, snapshots are taken, and of the batches of either loop that are sent
again and again some arrive (strong, because the agent may restart in between);
`SourcesRecover` speaks of agents that are not restarted for ever, and asks for a row
that is current again and again, not for good: a batch that comes late sets the other
loop's rows back until the next one. That the model's clock stands still at `MaxNow`
does not help it: within an instant samples and batches go on and pass each other. `Collector`:
requests end (the HTTP client has a timeout), tickers tick, and `select` takes a
ready case at random, so the end of the context is taken at last though ticks compete
with it (strong). `Application`: its threads run, posted messages are dispatched,
requests of a status end, and the refreshing goroutine's `select` takes the end of
its context at last (strong). Nothing is assumed of kills, signals, the menu or the
installer.

## Proofs

Each theorem holds for all values of the constants that satisfy the named
assumptions of the modules.

- **`CoreStoreProofs`**: types, convergence of memory and disk, durability of
  acknowledged batches, survival of durable facts, the keeping of last-observation
  times, and the refinement of `ObservationLog`. The invariant adds to the types that the holder of the mutex is
  the one goroutine between merged and written, that `tmp` is the state in memory
  once it is written, that a request past its merge is in the log of `mem` and a
  committed one in the log of the disk, that memory's log contains the disk's, and that every fact in a
  state is a fact of its log (so that `BatchesAssumption` applies to it). Convergence itself is a lemma
  about `Ingested`: merging one more batch turns a view of a log into one of the longer
  log, whatever the order; a view is one report of each observation, so it is determined
  wherever the reports agree.
- **`NativeWatcherProofs`**, about two modules. `SessionMonitor`: types,
  `SettledStateIsTrue`, `NotificationsPrevail`. The state may only lag by the queue:
  its last element is the present, and before the first notification a positive probe
  is still valid. (Its definitions are named `MonitorInit`, `MonitorNext`, ..., so that
  one module can extend both.) `NativeAcquisition`: `StoredTimeWasObserved` and
  `IntervalsAreSound`.
  The property speaks of Core only; the invariant says of every fact, in Core or in
  flight, that it is a run of samples (`Observed`), and of each open interval that it
  is one up to the last sample (`Seen`, `AllObserved`). For disjointness it adds, as
  long as the clock was not set back, that what is known ended by the tick that waits
  (`Chronology`), and that a fact ended before the open interval of its stream or is
  that interval (`BeforeOpen`, `AllApart`); and that no key is stored twice (`Unique`).
- **`ActivityWatchForwardingProofs`**: types and `NoHole`, for any weeks. What the
  lookback of the next query leaves behind is exposed (`LookbackSuffices`), and what was
  recorded after the last delivered query is recent (`LateIsRecent`), because
  ActivityWatch is at most `MaxDelay` late (`RecordedInTime`) and ticks are in order
  (`TickIsLater`).
- **`AcquisitionProofs`**: types, `HealthyMeansObserved` and
  `ComparedEventsAreRecent`. `AllWitnessed`: every
  row of the agent, of a batch under way and of Core tells of an observation that
  took place. That this is so of all three makes order, repetition and loss of
  deliveries irrelevant. `TicksAreInOrder`: a source was read at no later tick than the
  one its loop took last. For the comparison, `RowsAreLast`: a connected native row
  is the last reading's. The types of this module are proved only.
- **`CollectorProofs`**: `QueueIsFaithful`, `EvidenceIsHonest`, and that every step
  is a step of `CollectorRun` or none (`RefinesRun`; the fairness that `ImplementsRun`
  also asks for is checked by TLC). `InOrder` adds that all the queue knows is older
  than the tick that waits; `DetectorIsTrue` and `LocationIsTrue` tie the detector
  to the last answer and what it was worth at the last check.
- **`BrowserContextProofs`**: types, `MemoryIsTrue`, `MediaBelongsToItsUrl`,
  `CorePlaysOnlyWhatPlays`. What the memory is says little while events are on their
  way, so the invariant speaks of where they lead: handled one by one (`Step`,
  `Follows`) they turn the entry of each tab into what its page told last, and on the
  way media stays with its URL (`WillBeKnown`); nothing comes after a tab's removal
  (`ClosedAreGone`); and what Core is known to have is the last POST's, and what plays in it is in
  the entry (`CoreFollows`). A step of the browser appends to the way
  (`FollowsConcat`), one of the background script takes its first part
  (`FollowsTail`).
- **`ApplicationProofs`**: `OneCollector`, `IconIsCurrent`, `ReturnIsOrderly`,
  `InstallTellsTheTruth`, `ExistingTaskIsUntouched`, for any number of processes.
  `ThreadsFit` relates where the main thread is to what the others can be doing,
  `EndsHaveACause` says that whatever ends a process goes back to a request or a
  failure (so that a cancelled context is never the only reason for exit code 0),
  `IconFollows` that an old icon always has a refresh on its way or is one that the shell
  refused to modify.

- **`ReportsProofs`**: all six invariants of the run `reports`, for any stored facts,
  times, durations, targets and length of the day. Reports keep no state, so the
  inductive invariant (`IsAnswered`, theorem `ReportsAreComputed`) only says that an
  answer is computed from facts of the store, a day of a week each from its own snapshot;
  the rest is about the algorithms, for every input:
  - *The timeline.* Sorting permutes, and merging AFK events makes an event fresh only
    where one of them is (`MergedIsAsFresh`). Between two boundaries no edge of the
    evidence lies, so what is found and classified is the same at all instants
    (`ClassifyIsConstant`), and `coalesce` makes of the pieces what `IsTimeline` says:
    gapless, without equal neighbours, right at every instant (`CoalesceFacts`,
    `BuildFacts`). That is `TimelineIsExact`, and with what `State` asks of the
    evidence `WorkHasFreshEvidence`.
  - *Sums.* Between two times lie half as many odd numbers as there is time. `Time(K, l,
    r)` counts those of a set of instants `K`, and a sum over segments is such a count
    (`SpentIs`), so that totals, usage and days are cardinalities that split at a time
    and join over disjoint sets (`TimeSplit`, `TimePlus`): `TotalsAddUp` and
    `WeekIsOneTimeline`, where a day of an earlier snapshot is that of the last one because
    nothing ingested since had started by its end (`NoLateHistory`).
  - *The settled past.* Facts that had started by an instant come first in every
    sorted sequence, in the order they have without the others (`ArrangedPrefix`), a
    merged AFK event that is fresh starts and says what it does without them
    (`SameAFK`), so nothing that starts later is selected or changes what is
    (`Settled`). For a day that is over, two timelines of one period whose instants say
    the same are equal (`TimelineIsDetermined`): `PastIsSettled`.
  - *The estimate.* Facts of work that goes on change nothing before them
    (`ContinuedBefore`), and are what is selected after (`ContinuedAfter`), so the
    day's work grows with the time: `EstimateIsReached`.

  Assumed are `DurationsAssumption` (times are even, a freshness of at least a second),
  `StatusesAssumption`, `NoneAssumption`, `CalendarAssumption` (the day boundary lies
  in the day), `TargetsAssumption`, `WorkAssumption` (there is an application that is not
  the lock screen) and `CasesAssumption` (what is stored passed the validation).

Only model-checked: liveness (`RequestsAnswered`, `LockIsLifted`, `CatchesUp`,
`MediaStaysRepresented`, `SourcesRecover`, `QueueDrains`, the fairness in
`ImplementsRun`, `ExitIsReached`), because the prover handles neither fairness nor
ENABLED. Induction over data is out of its reach as well; what `ReportsProofs` needs of
sums it gets from the least counterexample (`NatMin`, `SumIs`), which exists without
the induction rule. Every other property of a passing run is a theorem.

## Findings

Each is the counterexample of a run.

1. Without the session monitor a startup lock is never lifted
   (`reader_windows.go:114`, run `session_no_window`).
2. A tab that starts to load and keeps its page is forgotten until its page
   changes (`background.js:116`), though playing media is to stay represented
   (run `browser_context_forgets`).
3. Before the day boundary the weekly average divides by a calendar day that the
   report does not have, or by one of seven (`reporting.go:240`, run `reports_average`).
4. Exit of the tray menu, which "exits the collector cleanly" (`README.md:153-155` of the
   repository), ends with "Collector stopped" and exit code 2 while the collector makes
   its first requests: the wrapped cancellation counts as a failure (`main.go:164`, run
   `application_exit`).

Met while modelling, and part of the models as the code has it, without a run:

- A batch refused with 503 stays visible to reports until a restart (`store.go:107`).
- A buffered tick is older than the sample it stamps, so an interval may reach into a
  gap by as much as the `Send` before it took (`agent.go:212`).
- Merging AFK events within a second outlives a freshness of less than a second
  (`classifier.go:228`); the models take a freshness of at least a second.
- Two AFK events that start together but differ in status (the store's key includes
  the status, `store.go:203-208`) are ordered by `sort.Slice` first, which keeps no order
  of ties (`classifier.go:224`), and by the ends of what they are merged into then, so a
  later event can change the past: after afk 0-4 and not-afk 0-2, a not-afk 4-6 makes
  the second one 0-6, and it is selected from 0 on. `PastIsSettled` and
  `EstimateIsReached` exclude such facts (`AFKIsUnambiguous`).
- Core compares with the last native result whatever its age (`acquisition.go:87`).
- What an outage exposed is reached by a restart of the same reporting week only: an
  outage on Friday and a restart on Monday leave a hole for good (`agent.go:101-104`).
- Of two different observations of one tab and millisecond Core keeps the one that
  arrives last, so that a terminal one may be covered by the one before it, or a retry
  may bring that back (`background.js:35`, `store.go:243`).
- The closing message of a former page that comes after the hello of the next one makes
  the background script forget the new page until it speaks (`background.js:102-104`).
- A lost terminal observation is not repeated (`background.js:101`): Core holds the tab
  for playing until the evidence is no longer fresh.
- Before the first record of an agent, nil diagnostics count as healthy
  (`diagnostics.go:44-46`): a browser batch alone makes Core say so.
- A batch of the main loop that comes late sets the native rows back to what they were
  at its snapshot, until the native loop's next batch (`store.go:110-127`).
- A comparison measures by the tick its loop took, which is as old as the `Send` before
  it (`parity.go:63`): by the clock, what it calls comparable may be older than the
  tolerance by as much.
- A backlog that is ingested between two days of a week's report gives a week that is of
  no single moment (`engine.go:29-35, 61`).
- The icon keeps an old view for a refresh interval when the shell refuses to modify it
  (`native_windows.go:218-220`).
- A failed registration deletes the task of its name that it finds, also one that
  the user registered in the same moment (`task.go:62`); `TaskInstall` lets the user
  act only between two commands.

## Not modelled

- *Reading, formatting and drawing*: configuration parsing, logs, local health files,
  the reports and the doctor of `worktracker`, the dashboard, the tray's popup, icons
  and folders. They keep no state that another part relies on.
- *Wiring*: the mains of the agent and of Core.
- *Reports from ActivityWatch* (`reporting.Service`): builds the same reports as
  `Engine` from other queries.
- *`normalizePersistedSources`*: a migration of old files, once at start.
- *Forwarding*: `Discover`, invalid events, `populateAFKTiming`; sizes of batches
  against the 16 MB Core accepts. *Parity*: what a comparison says when it is
  comparable, the browsers' health. *Session monitor*: `Close`, whose end rests on a
  posted message as the tray's does.
- *Collector*: what its browser server stores, and that it takes the text "409" in an
  error for the status (`client.go:148`).
- *Browser*: titles, domains, audibility, the kind of media, the debounce timer, the
  receiver's start and end.
- *Calendar*: changes of the clocks; all days of `Reports` are equally long.
- *Python prototype and validation scripts*: not part of the running system.

## Plan

What is left, in this order:

1. One host agent composed of `NativeAcquisition`, `Acquisition` and `CoreStore`: an
   observation that Core calls healthy is among its facts.
2. The session monitor's `Close` and the receiver's shutdown, with the agent's end.
