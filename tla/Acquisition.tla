---------------------------- MODULE Acquisition ----------------------------
(***************************************************************************)
(* The diagnostics of the acquisition: the record both loops of the host   *)
(* agent write (internal/hostagent/acquisition.go, parity.go), that each   *)
(* of them sends with every batch (agent.go), that Core merges (store.go)  *)
(* and judges by its own clock when it is asked for its health             *)
(* (internal/core/diagnostics.go, server.go).                              *)
(*                                                                         *)
(* At a tick a loop updates the record, takes a snapshot of it, and sends; *)
(* the other loop may do the same in between, and its batch may arrive     *)
(* first.  A tick that fires while its loop is sending waits in the        *)
(* ticker's channel and is an old time when the loop takes it.  The        *)
(* browser receiver sends batches too, which carry no record.  The three   *)
(* native rows are updated alike, by one sample: NativeSources tells which *)
(* of them the instance has.  Time 0 stands for no time.                   *)
(***************************************************************************)
EXTENDS Integers

CONSTANTS
  Mode,          \* config.AcquisitionMode
  NativeSources, \* a subset of {"native_foreground", "native_afk", "native_session"}
  Freshness,     \* Config.AgentStale
  Tolerance,     \* acquisitionState.tolerance
  NoDiagnostics, \* a nil *AcquisitionDiagnostics
  MaxNow         \* bound: the clock; it stands still there
ASSUME AcquisitionAssumption ==
  /\ Mode \in {"activitywatch", "shadow", "native"} /\ "activitywatch" \notin NativeSources
  /\ Freshness \in Nat /\ Tolerance \in Nat /\ MaxNow \in Nat \ {0}

Times == 0 .. MaxNow
Sources == {"activitywatch"} \cup NativeSources
UsesActivityWatch == Mode \in {"activitywatch", "shadow"}
UsesNative == Mode \in {"shadow", "native"}
Enabled == (IF UsesActivityWatch THEN {"activitywatch"} ELSE {})
           \cup (IF UsesNative THEN NativeSources ELSE {})
Loops == {"main"} \cup (IF UsesNative THEN {"native"} ELSE {})

VARIABLES
  now,           \* the clock of the machine
  recorded,      \* up to when the watchers of ActivityWatch recorded
  readable,      \* the native sources that can be read
  rows,          \* acquisitionState.diagnostics: per source whether it is connected, and its
                 \* last observation.  The newest event of ActivityWatch (window, afk) and
                 \* the native result are those the rows tell of.
  tick,          \* per loop: the tick it took last, the time its samples and batch are of
  place,         \* per loop: it "waits", "sampled" or "sends"
  batch,         \* per loop: the record it sends
  core,          \* Core's Acquisition
  lastIngest,    \* Core's LastIngest
  seen           \* history: per native source the tick at which it was last read
world == <<now, recorded, readable>>
stored == <<core, lastIngest>>
vars == <<world, rows, tick, place, batch, stored, seen>>

Row(connected, last) == [connected |-> connected, last |-> last]
Rows == [s \in Sources |-> Row(FALSE, 0)]

(* compareSources at a tick: the newest event of ActivityWatch must be      *)
(* recent; of the native result, the last there was, all parts must have    *)
(* been read.  An event that ended after the tick may have begun after it   *)
(* too, and is passed over then.                                            *)
(* Variant: whatever events there are.                                      *)
ComparableAnyAge(events, natives, at) ==
  events.last # 0 /\ \A s \in NativeSources : natives[s].connected
Comparable(events, natives, at) ==
  /\ events.last # 0 /\ at <= events.last + Tolerance
  /\ \A s \in NativeSources : natives[s].connected

Init ==
  /\ now = 1 /\ recorded \in 0 .. now
  /\ readable \in SUBSET NativeSources /\ rows = Rows
  /\ tick = [l \in Loops |-> now]
  /\ place = [l \in Loops |-> "waits"] /\ batch = [l \in Loops |-> Rows]
  /\ core = NoDiagnostics /\ lastIngest = 0
  /\ seen = [s \in NativeSources |-> 0]

----------------------------------------------------------------------------
(* updateActivityWatch: the end of the newest event found, or 0 where there *)
(* is none.  A query that fails leaves the last observation as it was.      *)
(* Variant: a query that was answered is an observation.                    *)
RowAtQuery(found) == Row(TRUE, now)
ActivityWatchRow(found) == Row(TRUE, IF found # 0 THEN found ELSE rows["activitywatch"].last)
Answered(found) == rows' = [rows EXCEPT !["activitywatch"] = ActivityWatchRow(found)]
Unanswered == rows' = [rows EXCEPT !["activitywatch"].connected = FALSE]
(* updateNative, applyComponent: what is read has the time of the tick, what *)
(* cannot be read keeps its time.                                           *)
(* Variant: a row that was lost is not connected again.                     *)
NativeRowOnce(s, at) == Row(rows[s].connected \/ rows[s].last = 0, at)
NativeRow(s, at) == Row(TRUE, at)
UpdateNative(at) ==
  rows' = [s \in Sources |-> IF s \notin NativeSources THEN rows[s]
                             ELSE IF s \in readable THEN NativeRow(s, at)
                             ELSE [rows[s] EXCEPT !.connected = FALSE]]

(* A loop takes a tick.  Its ticker may have held it for as long as the     *)
(* loop was sending, but it is no older than the one taken before.          *)
Take(l, at) ==
  /\ place[l] = "waits" /\ at \in tick[l] .. now
  /\ place' = [place EXCEPT ![l] = "sampled"] /\ tick' = [tick EXCEPT ![l] = at]
  /\ UNCHANGED <<world, batch, stored>>

(* The end of the newest event a query up to a tick finds.  It may be later *)
(* than the tick, or cut there, and events that ended before the time the   *)
(* query asks about are not found.                                          *)
Found(at) ==
  IF recorded > at THEN at .. recorded
  ELSE {recorded} \cup (IF recorded + Freshness < at THEN {0} ELSE {})

(* Either loop at a tick.  The main loop of a mode without ActivityWatch     *)
(* leaves the record alone.                                                 *)
QueryFails(at) ==
  UsesActivityWatch /\ Take("main", at) /\ Unanswered /\ UNCHANGED seen
SampleMain(at) ==
  /\ Take("main", at) /\ UNCHANGED seen
  /\ IF UsesActivityWatch THEN \E found \in Found(at) : Answered(found) ELSE UNCHANGED rows
SampleNative(at) ==
  /\ UsesNative /\ Take("native", at) /\ UpdateNative(at)
  /\ seen' = [s \in NativeSources |-> IF s \in readable THEN at ELSE seen[s]]
Snapshot(l) ==
  /\ place[l] = "sampled" /\ place' = [place EXCEPT ![l] = "sends"]
  /\ batch' = [batch EXCEPT ![l] = rows]
  /\ UNCHANGED <<world, rows, tick, stored, seen>>

(* Store.Ingest with mergeAcquisition.                                      *)
Merged(old, new) == Row(new.connected, IF new.last = 0 THEN old.last ELSE new.last)
Advance(at) == lastIngest' = IF at > lastIngest THEN at ELSE lastIngest
Ingest(l) ==
  /\ core' = IF core = NoDiagnostics THEN batch[l]
             ELSE [s \in Sources |-> Merged(core[s], batch[l][s])]
  /\ Advance(tick[l])
Rest(l) == place' = [place EXCEPT ![l] = "waits"] /\ batch' = [batch EXCEPT ![l] = Rows]
(* Client.Send: it is taken and answered, taken and sent again, or given up. *)
Sent(l) ==
  place[l] = "sends" /\ Ingest(l) /\ Rest(l) /\ UNCHANGED <<world, rows, tick, seen>>
SentUnanswered(l) ==
  place[l] = "sends" /\ Ingest(l) /\ UNCHANGED <<world, rows, tick, place, batch, seen>>
GivenUp(l) ==
  /\ place[l] = "sends" /\ Rest(l)
  /\ UNCHANGED <<world, rows, tick, stored, seen>>
(* browserForwardStore.Save: a batch without a record, sent some time ago.  *)
BrowserBatch ==
  /\ \E at \in 1 .. now : Advance(at)
  /\ UNCHANGED <<world, rows, tick, place, batch, core, seen>>

(* What happens to them.                                                    *)
Elapse ==
  /\ now < MaxNow /\ now' = now + 1
  /\ UNCHANGED <<recorded, readable, rows, tick, place, batch, stored, seen>>
WorldChanges ==
  /\ \/ recorded' = now /\ UNCHANGED readable
     \/ readable' \in SUBSET NativeSources /\ UNCHANGED recorded
  /\ UNCHANGED <<now, rows, tick, place, batch, stored, seen>>
AgentRestarts ==
  /\ rows' = Rows /\ tick' = [l \in Loops |-> now]
  /\ place' = [l \in Loops |-> "waits"] /\ batch' = [l \in Loops |-> Rows]
  /\ UNCHANGED <<world, stored, seen>>

Samples(at) == QueryFails(at) \/ SampleMain(at) \/ SampleNative(at)
Next ==
  \/ \E at \in Times : Samples(at)
  \/ BrowserBatch \/ Elapse \/ WorldChanges \/ AgentRestarts
  \/ \E l \in Loops : Snapshot(l) \/ Sent(l) \/ GivenUp(l) \/ SentUnanswered(l)
Spec == Init /\ [][Next]_vars
(* Both tickers tick and both loops go on, and Core is reached again and    *)
(* again, by either loop, as a server that is up is.                        *)
Fairness ==
  /\ \A l \in Loops : WF_vars(\E at \in Times : Samples(at) /\ Take(l, at))
  /\ \A l \in Loops : WF_vars(Snapshot(l)) /\ SF_vars(Sent(l))
FairSpec == Spec /\ Fairness

----------------------------------------------------------------------------
(* acquisitionHealth and handleHealth.  Core takes no record for a good one.*)
Stale(row) == row.last # 0 /\ row.connected /\ (now - row.last > Freshness \/ now < row.last)
RowIsGood(s) == core[s].connected /\ ~Stale(core[s])
AcquisitionHealthy == core # NoDiagnostics => \A s \in Enabled : RowIsGood(s)
AgentConnected == lastIngest # 0 /\ now - lastIngest <= Freshness
Healthy == AgentConnected /\ AcquisitionHealthy

(* The values of the variables.                                             *)
Diagnostics == [Sources -> [connected : BOOLEAN, last : Times]]
TypeOK ==
  /\ now \in Times \ {0} /\ recorded \in 0 .. now /\ readable \subseteq NativeSources
  /\ seen \in [NativeSources -> 0 .. now]
  /\ rows \in Diagnostics /\ core \in Diagnostics \cup {NoDiagnostics} /\ lastIngest \in 0 .. now
  /\ tick \in [Loops -> 1 .. now]
  /\ place \in [Loops -> {"waits", "sampled", "sends"}]
  /\ batch \in [Loops -> Diagnostics]

(* Whatever arrives late, twice or from an agent that was restarted: once a *)
(* record of an agent was taken, Core calls itself healthy only if every    *)
(* source it relies on was truly observed within the freshness, or (for a   *)
(* native source) read at a tick within it.  (ActivityWatch may answer and  *)
(* never have had an event: Core then relies on the connection.  Before the *)
(* first record Core takes any batch for health: a browser's is enough.)    *)
HealthyMeansObserved ==
  Healthy /\ core # NoDiagnostics =>
    /\ \A s \in NativeSources \cap Enabled : seen[s] # 0 /\ now - seen[s] <= Freshness
    /\ UsesActivityWatch => core["activitywatch"].last = 0 \/ now - recorded <= Freshness

(* A comparison that calls itself comparable is of what had been recorded   *)
(* within the tolerance of the time it is stamped with, its loop's tick,    *)
(* and of native sources that were all read when they were last sampled,    *)
(* whichever loop compares and whatever it did not find.  (How old the tick *)
(* is by then, and how long ago the native sample was, is not asked:        *)
(* compareSources takes both as they are.)                                  *)
Compares(at) ==
  Mode = "shadow" /\ Samples(at) /\ Comparable(rows'["activitywatch"], rows', at)
ComparedEventsAreRecent ==
  [][\A at \in Times : Compares(at) =>
       /\ at - recorded <= Tolerance
       /\ \A s \in NativeSources : seen'[s] # 0 /\ seen'[s] = rows'[s].last]_vars

(* An agent that is restarted for ever sends nothing but first snapshots.   *)
RestartsCease == <>[][~AgentRestarts]_vars

(* "Confirm native rows continue updating independently" and "component     *)
(* timestamps recover" (docs/BUILDING.md, steps 6 and 5): a source that can *)
(* be read for good, whatever befell it before and whatever the others do,  *)
(* is again and again connected in Core, with the newest observation of it  *)
(* that the agent has.  Not for good: the batches of either loop carry rows *)
(* as old as their snapshot, and one that comes late sets the others back   *)
(* until the next one.                                                      *)
QueriesAnswered == <>[][\A at \in Times : ~QueryFails(at)]_vars
Delivers(s) ==
  IF s = "activitywatch" THEN QueriesAnswered /\ <>[](recorded = now) ELSE <>[](s \in readable)
Current(s) == core # NoDiagnostics /\ core[s].connected /\ core[s] = rows[s]
SourcesRecover ==
  RestartsCease => \A s \in Enabled : Delivers(s) => []<>Current(s)
=============================================================================
