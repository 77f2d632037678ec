------------------------- MODULE AcquisitionProofs -------------------------
(***************************************************************************)
(* Proofs about Acquisition, for every mode, every freshness and tolerance *)
(* and any native sources: the types, and that Core calls itself healthy   *)
(* only on true observations.                                              *)
(***************************************************************************)
EXTENDS Acquisition, TLAPS

(* A row tells of an observation that took place, by when ActivityWatch     *)
(* recorded and a native source was seen: its time is not a later one, and  *)
(* a native source that is connected has a time.                            *)
Witnessed(record, until, read) ==
  /\ record["activitywatch"].last <= until
  /\ \A s \in NativeSources :
       record[s].last <= read[s] /\ (record[s].connected => record[s].last # 0)

(* The rows of the agent, of the batches under way and of Core are such     *)
(* rows, so that neither the order nor the number of deliveries matters.    *)
AllWitnessed ==
  /\ Witnessed(rows, recorded, seen)
  /\ core # NoDiagnostics => Witnessed(core, recorded, seen)
  /\ \A l \in Loops : Witnessed(batch[l], recorded, seen)

(* The native loop's ticks come in their order.                             *)
TicksAreInOrder == UsesNative => \A s \in NativeSources : seen[s] <= tick["native"]
Inv == TypeOK /\ AllWitnessed /\ TicksAreInOrder

-----------------------------------------------------------------------------
(* The record of an agent that has just started.                            *)
LEMMA FirstRows ==
  ASSUME NEW until \in Nat, NEW read \in [NativeSources -> Nat]
  PROVE  Rows \in Diagnostics /\ Witnessed(Rows, until, read)
BY AcquisitionAssumption DEF Rows, Row, Diagnostics, Sources, Times, Witnessed

(* What was witnessed stays so.                                             *)
LEMMA StaysWitnessed ==
  ASSUME NEW record \in Diagnostics, NEW until \in Nat, NEW later \in Nat, until <= later,
         NEW read \in [NativeSources -> Nat], NEW again \in [NativeSources -> Nat],
         \A s \in NativeSources : read[s] <= again[s],
         Witnessed(record, until, read)
  PROVE  Witnessed(record, later, again)
BY AcquisitionAssumption DEF Witnessed, Diagnostics, Sources, Times

LEMMA InvInit == Init => Inv
<1> SUFFICES ASSUME Init
             PROVE  Inv
  OBVIOUS
<1> USE AcquisitionAssumption DEF Init, Times
<1>1. now = 1 /\ recorded \in 0 .. now /\ 0 \in 0 .. now
  OBVIOUS
<1>2. seen \in [NativeSources -> 0 .. now] /\ seen \in [NativeSources -> Nat]
  BY <1>1
<1>3. Rows \in Diagnostics /\ Witnessed(Rows, recorded, seen)
  BY <1>1, <1>2, FirstRows
<1>4. batch \in [Loops -> Diagnostics] /\ \A l \in Loops : batch[l] = Rows
  BY <1>3
<1>5. /\ place \in [Loops -> {"waits", "sampled", "sends"}] /\ readable \subseteq NativeSources
      /\ tick \in [Loops -> 1 .. now] /\ TicksAreInOrder
  BY <1>1 DEF TicksAreInOrder, Loops
<1>6. TypeOK
  BY <1>1, <1>2, <1>3, <1>4, <1>5 DEF TypeOK
<1>7. AllWitnessed
  BY <1>3, <1>4 DEF AllWitnessed
<1>8. QED
  BY <1>5, <1>6, <1>7 DEF Inv

-----------------------------------------------------------------------------
(* The clock advances.                                                      *)
LEMMA InvElapse == Inv /\ Elapse => Inv'
<1> SUFFICES ASSUME Inv, Elapse
             PROVE  Inv'
  OBVIOUS
<1> USE AcquisitionAssumption DEF Inv, Elapse, stored
<1>1. now' \in Times \ {0} /\ 0 .. now \subseteq 0 .. now' /\ 1 .. now \subseteq 1 .. now'
  BY DEF TypeOK, Times
<1>2. TypeOK'
  BY <1>1 DEF TypeOK, Diagnostics, Times, Sources, Loops, UsesNative
<1>3. AllWitnessed' /\ TicksAreInOrder'
  BY DEF AllWitnessed, Witnessed, TicksAreInOrder, Loops, UsesNative
<1>4. QED
  BY <1>2, <1>3

(* ActivityWatch records, or what can be read changes.                      *)
LEMMA InvWorldChanges == Inv /\ WorldChanges => Inv'
<1> SUFFICES ASSUME Inv, WorldChanges
             PROVE  Inv'
  OBVIOUS
<1> USE AcquisitionAssumption DEF Inv, WorldChanges, stored
<1>1. recorded' \in 0 .. now /\ recorded <= recorded' /\ recorded \in Nat /\ recorded' \in Nat
      /\ seen \in [NativeSources -> Nat] /\ \A s \in NativeSources : seen[s] <= seen[s]
  BY DEF TypeOK, Times
<1>2. TypeOK'
  BY <1>1 DEF TypeOK, Diagnostics, Loops, UsesNative
<1>3. AllWitnessed'
  <2>1. \A record \in Diagnostics :
          Witnessed(record, recorded, seen) => Witnessed(record, recorded', seen)
    BY <1>1, StaysWitnessed
  <2>2. batch \in [Loops -> Diagnostics] /\ rows \in Diagnostics
        /\ core \in Diagnostics \cup {NoDiagnostics}
    BY DEF TypeOK
  <2>3. QED
    BY <2>1, <2>2 DEF AllWitnessed
<1>4. QED
  BY <1>2, <1>3 DEF TicksAreInOrder, Loops, UsesNative

(* A query tells of what was recorded; no answer leaves what was known.     *)
LEMMA ActivityWatchRowIsTrue ==
  ASSUME Inv, NEW found \in 0 .. recorded
  PROVE  /\ ActivityWatchRow(found) \in [connected : BOOLEAN, last : Times]
         /\ ActivityWatchRow(found).last <= recorded
BY AcquisitionAssumption
DEF Inv, TypeOK, AllWitnessed, ActivityWatchRow, Row, Diagnostics, Witnessed, Sources, Times

(* What a query may find was recorded.                                      *)
LEMMA FoundWasRecorded ==
  ASSUME Inv, NEW at \in 0 .. now
  PROVE  Found(at) \subseteq 0 .. recorded
BY AcquisitionAssumption DEF Inv, TypeOK, Times, Found

(* A tick of a loop, whatever it wrote.                                     *)
LEMMA InvSample ==
  ASSUME Inv, NEW l \in Loops, NEW at, Take(l, at), rows' \in Diagnostics,
         seen' \in [NativeSources -> 0 .. now], \A s \in NativeSources : seen[s] <= seen'[s],
         l = "native" \/ UNCHANGED seen,
         l = "native" => \A s \in NativeSources : seen'[s] <= at,
         Witnessed(rows', recorded, seen')
  PROVE  Inv'
<1> USE AcquisitionAssumption DEF Take, world, stored, Times
<1>1. recorded \in Nat /\ recorded <= recorded /\ seen \in [NativeSources -> Nat]
      /\ seen' \in [NativeSources -> Nat] /\ at \in 1 .. now
  BY DEF Inv, TypeOK
<1>2. \A record \in Diagnostics : Witnessed(record, recorded, seen) => Witnessed(record, recorded, seen')
  BY <1>1, StaysWitnessed
<1>3. TypeOK'
  BY <1>1 DEF Inv, TypeOK, Diagnostics, Sources, Loops, UsesNative
<1>4. AllWitnessed'
  BY <1>2 DEF Inv, TypeOK, AllWitnessed
<1>5. TicksAreInOrder'
  BY <1>1 DEF Inv, TypeOK, TicksAreInOrder, Loops, UsesNative
<1>6. QED
  BY <1>3, <1>4, <1>5 DEF Inv

(* A tick of the main loop leaves the native rows, whatever the query did.  *)
LEMMA MainLeavesNative ==
  ASSUME Inv, NEW at, QueryFails(at) \/ SampleMain(at)
  PROVE  /\ UNCHANGED seen /\ \A s \in NativeSources : rows'[s] = rows[s]
         /\ rows' \in Diagnostics /\ Witnessed(rows', recorded, seen)
<1> USE AcquisitionAssumption DEF Inv, TypeOK, AllWitnessed
<1>1. at \in 0 .. now
  BY DEF QueryFails, SampleMain, Take, Loops
<1>2. CASE QueryFails(at)
  BY <1>2 DEF QueryFails, Unanswered, Diagnostics, Witnessed, Sources
<1>3. CASE SampleMain(at)
  <2>1. CASE UsesActivityWatch
    <3>1. PICK found \in 0 .. recorded : rows' = [rows EXCEPT !["activitywatch"] = ActivityWatchRow(found)]
      BY <1>1, <1>3, <2>1, FoundWasRecorded DEF SampleMain, Answered
    <3>2. QED
      BY <1>3, <3>1, ActivityWatchRowIsTrue DEF SampleMain, Diagnostics, Witnessed, Sources
  <2>2. CASE ~UsesActivityWatch
    BY <1>3, <2>2 DEF SampleMain
  <2>3. QED
    BY <2>1, <2>2
<1>4. QED
  BY <1>2, <1>3

LEMMA InvMain == ASSUME Inv, NEW at, QueryFails(at) \/ SampleMain(at) PROVE Inv'
<1>1. Take("main", at) /\ "main" \in Loops
  BY DEF QueryFails, SampleMain, Loops
<1>2. UNCHANGED seen /\ rows' \in Diagnostics /\ Witnessed(rows', recorded, seen')
  BY MainLeavesNative
<1>3. seen' \in [NativeSources -> 0 .. now] /\ \A s \in NativeSources : seen[s] <= seen'[s]
  BY <1>2, AcquisitionAssumption DEF Inv, TypeOK, Times
<1>4. QED
  BY <1>1, <1>2, <1>3, InvSample

LEMMA InvSampleNative == ASSUME Inv, NEW at, SampleNative(at) PROVE Inv'
<1> USE AcquisitionAssumption DEF Inv, TypeOK, AllWitnessed, SampleNative, Times
<1>1. "native" \in Loops /\ Take("native", at) /\ at \in 1 .. now
      /\ \A s \in NativeSources : seen[s] <= at
  BY DEF Take, Loops, TicksAreInOrder
<1>2. seen' \in [NativeSources -> 0 .. now] /\ \A s \in NativeSources : seen[s] <= seen'[s] /\ seen'[s] <= at
  BY <1>1
<1>3. rows' \in Diagnostics
  <2> DEFINE new(s) == IF s \notin NativeSources THEN rows[s]
                       ELSE IF s \in readable THEN NativeRow(s, at)
                       ELSE [rows[s] EXCEPT !.connected = FALSE]
  <2>1. \A s \in Sources : rows[s] \in [connected : BOOLEAN, last : Times]
    BY DEF Diagnostics
  <2>2. \A s : NativeRow(s, at) \in [connected : BOOLEAN, last : Times]
    BY <1>1 DEF NativeRow, Row
  <2>3. \A s \in Sources : new(s) \in [connected : BOOLEAN, last : Times]
    BY <2>1, <2>2
  <2>4. rows' = [s \in Sources |-> new(s)]
    BY DEF UpdateNative
  <2>5. QED
    BY <2>3, <2>4 DEF Diagnostics
<1>4. Witnessed(rows', recorded, seen')
  BY <1>1, <1>2 DEF UpdateNative, NativeRow, Row, Diagnostics, Sources, Witnessed
<1>5. QED
  BY <1>1, <1>2, <1>3, <1>4, InvSample

(* The steps of sending pass on what was witnessed.                         *)
LEMMA InvSnapshot == ASSUME Inv, NEW l \in Loops, Snapshot(l) PROVE Inv'
<1> USE DEF Inv, Snapshot, world, stored
<1>1. batch' \in [Loops -> Diagnostics] /\ \A k \in Loops : batch'[k] \in {rows, batch[k]}
  BY DEF TypeOK
<1>2. TypeOK'
  BY <1>1 DEF TypeOK, Diagnostics, Loops, UsesNative
<1>3. AllWitnessed' /\ TicksAreInOrder'
  BY <1>1 DEF AllWitnessed, TicksAreInOrder, Loops, UsesNative
<1>4. QED
  BY <1>2, <1>3

LEMMA IngestIsTrue ==
  ASSUME Inv, NEW l \in Loops, Ingest(l)
  PROVE  core' \in Diagnostics /\ lastIngest' \in 0 .. now /\ Witnessed(core', recorded, seen)
<1> USE AcquisitionAssumption DEF Inv, TypeOK, AllWitnessed, Ingest, Times
<1>1. lastIngest' \in 0 .. now
  BY DEF Advance
<1>2. CASE core = NoDiagnostics
  BY <1>1, <1>2
<1>3. CASE core # NoDiagnostics
  <2>1. core' = [s \in Sources |-> Merged(core[s], batch[l][s])] /\ core \in Diagnostics
    BY <1>3
  <2>2. \A s \in Sources : Merged(core[s], batch[l][s]) \in [connected : BOOLEAN, last : Times]
    BY <2>1 DEF Merged, Row, Diagnostics
  <2>3. Witnessed(core', recorded, seen)
    BY <1>3, <2>1 DEF Merged, Row, Diagnostics, Sources, Witnessed
  <2>4. QED
    BY <1>1, <2>1, <2>2, <2>3 DEF Diagnostics
<1>4. QED
  BY <1>2, <1>3

LEMMA RestIsTrue ==
  ASSUME Inv, NEW l \in Loops, Rest(l)
  PROVE  /\ place' \in [Loops -> {"waits", "sampled", "sends"}]
         /\ batch' \in [Loops -> Diagnostics]
         /\ \A k \in Loops : Witnessed(batch'[k], recorded, seen)
<1> USE AcquisitionAssumption DEF Inv, TypeOK, Rest, Times
<1>1. recorded \in Nat /\ seen \in [NativeSources -> Nat]
  OBVIOUS
<1>2. Rows \in Diagnostics /\ Witnessed(Rows, recorded, seen)
  BY <1>1, FirstRows
<1>3. QED
  BY <1>1, <1>2 DEF AllWitnessed

LEMMA InvSent ==
  ASSUME Inv, NEW l \in Loops, Sent(l) \/ SentUnanswered(l) \/ GivenUp(l)
  PROVE  Inv'
<1>1. UNCHANGED <<world, rows, tick, seen>>
      /\ (Ingest(l) \/ UNCHANGED stored) /\ (Rest(l) \/ UNCHANGED <<place, batch>>)
  BY DEF Sent, SentUnanswered, GivenUp
<1>2. /\ core' \in Diagnostics \cup {NoDiagnostics} /\ lastIngest' \in 0 .. now
      /\ core' # NoDiagnostics => Witnessed(core', recorded, seen)
  BY <1>1, IngestIsTrue DEF Inv, TypeOK, AllWitnessed, stored
<1>3. /\ place' \in [Loops -> {"waits", "sampled", "sends"}]
      /\ batch' \in [Loops -> Diagnostics]
      /\ \A k \in Loops : Witnessed(batch'[k], recorded, seen)
  BY <1>1, RestIsTrue DEF Inv, TypeOK, AllWitnessed
<1>4. TypeOK'
  BY <1>1, <1>2, <1>3 DEF Inv, TypeOK, world, Diagnostics, Loops, UsesNative
<1>5. AllWitnessed' /\ TicksAreInOrder'
  BY <1>1, <1>2, <1>3 DEF Inv, AllWitnessed, TicksAreInOrder, world, Loops, UsesNative
<1>6. QED
  BY <1>4, <1>5 DEF Inv

(* A batch of the browser receiver changes no row.                          *)
LEMMA InvBrowserBatch == Inv /\ BrowserBatch => Inv'
BY AcquisitionAssumption
DEF Inv, TypeOK, BrowserBatch, Advance, world, Times, AllWitnessed, TicksAreInOrder,
    Diagnostics, Loops, UsesNative

LEMMA InvAgentRestarts == Inv /\ AgentRestarts => Inv'
<1> SUFFICES ASSUME Inv, AgentRestarts
             PROVE  Inv'
  OBVIOUS
<1> USE AcquisitionAssumption DEF Inv, AgentRestarts, world, stored
<1>1. recorded \in Nat /\ seen \in [NativeSources -> Nat] /\ now \in 1 .. now
  BY DEF TypeOK, Times
<1>2. Rows \in Diagnostics /\ Witnessed(Rows, recorded, seen)
  BY <1>1, FirstRows
<1>3. TypeOK'
  BY <1>1, <1>2 DEF TypeOK, Diagnostics, Loops, UsesNative
<1>4. AllWitnessed'
  BY <1>2 DEF AllWitnessed
<1>5. TicksAreInOrder'
  BY <1>1 DEF TypeOK, TicksAreInOrder, Loops, UsesNative, Times
<1>6. QED
  BY <1>3, <1>4, <1>5

-----------------------------------------------------------------------------
LEMMA InvNext == Inv /\ [Next]_vars => Inv'
<1> SUFFICES ASSUME Inv, [Next]_vars
             PROVE  Inv'
  OBVIOUS
<1>1. CASE \E at \in Times : Samples(at)
  BY <1>1, InvMain, InvSampleNative DEF Samples
<1>2. CASE Elapse
  BY <1>2, InvElapse
<1>3. CASE WorldChanges
  BY <1>3, InvWorldChanges
<1>4. CASE AgentRestarts
  BY <1>4, InvAgentRestarts
<1>5. CASE \E l \in Loops : Snapshot(l) \/ Sent(l) \/ GivenUp(l) \/ SentUnanswered(l)
  BY <1>5, InvSnapshot, InvSent
<1>6. CASE BrowserBatch
  BY <1>6, InvBrowserBatch
<1>7. CASE UNCHANGED vars
  BY <1>7 DEF vars, world, stored, Inv, TypeOK, AllWitnessed, TicksAreInOrder, Diagnostics, Loops, UsesNative
<1>8. QED
  BY <1>1, <1>2, <1>3, <1>4, <1>5, <1>6, <1>7 DEF Next

(* The types, and that every row tells of an observation that took place.   *)
THEOREM RowsAreWitnessed == Spec => []Inv
<1>1. QED
  BY InvInit, InvNext, PTL DEF Spec

(* The variables keep their values, for every mode and every source.        *)
THEOREM TypeCorrect == Spec => []TypeOK
<1>1. Inv => TypeOK
  BY DEF Inv
<1>2. QED
  BY <1>1, RowsAreWitnessed, PTL

(* Once it took a record, Core calls itself healthy only if every source it *)
(* relies on was truly observed within the freshness, however the batches   *)
(* of the two loops are delayed, repeated and lost and however old their    *)
(* ticks are (/health, the acquisition diagnostics).                        *)
THEOREM HealthyIsTrue == Spec => []HealthyMeansObserved
<1>1. Inv => HealthyMeansObserved
  <2> SUFFICES ASSUME Inv, Healthy, core # NoDiagnostics
               PROVE  /\ \A s \in NativeSources \cap Enabled : seen[s] # 0 /\ now - seen[s] <= Freshness
                      /\ UsesActivityWatch =>
                           core["activitywatch"].last = 0 \/ now - recorded <= Freshness
    BY DEF HealthyMeansObserved
  <2> USE AcquisitionAssumption
      DEF Inv, TypeOK, AllWitnessed, Witnessed, Healthy, AcquisitionHealthy, RowIsGood, Stale, Times, Diagnostics, Sources
  <2>1. ASSUME NEW s \in NativeSources \cap Enabled
        PROVE  seen[s] # 0 /\ now - seen[s] <= Freshness
    BY <2>1
  <2>2. ASSUME UsesActivityWatch
        PROVE  core["activitywatch"].last = 0 \/ now - recorded <= Freshness
    BY <2>2 DEF Enabled
  <2>3. QED
    BY <2>1, <2>2
<1>2. QED
  BY <1>1, RowsAreWitnessed, PTL

-----------------------------------------------------------------------------
(* A native row that is connected is that of the last reading.              *)
RowsAreLast == \A s \in NativeSources : rows[s].connected => rows[s].last = seen[s]

(* A sample of the native sources is their last reading.                    *)
LEMMA NativeRowsAreRead ==
  ASSUME Inv, RowsAreLast, NEW at, SampleNative(at)
  PROVE  RowsAreLast'
BY AcquisitionAssumption
DEF SampleNative, UpdateNative, NativeRow, Row, RowsAreLast, Inv, TypeOK, Diagnostics, Sources

LEMMA RowsAreLastInductive == Inv /\ RowsAreLast /\ [Next]_vars => RowsAreLast'
<1> SUFFICES ASSUME Inv, RowsAreLast, [Next]_vars
             PROVE  RowsAreLast'
  OBVIOUS
<1>1. CASE \E at \in Times : Samples(at)
  BY <1>1, MainLeavesNative, NativeRowsAreRead DEF Samples, RowsAreLast
<1>2. CASE AgentRestarts
  BY <1>2 DEF AgentRestarts, RowsAreLast, Rows, Row, Sources
<1>3. CASE UNCHANGED <<rows, seen>>
  BY <1>3 DEF RowsAreLast
<1>4. QED
  BY <1>1, <1>2, <1>3
  DEF Next, BrowserBatch, Elapse, WorldChanges, Snapshot, Sent, GivenUp, SentUnanswered, vars

(* A comparison that calls itself comparable is of what ActivityWatch       *)
(* recorded within the tolerance of its tick, however old that is, and of   *)
(* native sources that were all read when they were last sampled            *)
(* (compareSources in parity.go).                                           *)
THEOREM ComparisonsAreRecent == Spec => ComparedEventsAreRecent
<1>1. Init => RowsAreLast
  BY DEF Init, RowsAreLast, Rows, Row, Sources
<1>2. Spec => []RowsAreLast
  BY <1>1, RowsAreLastInductive, RowsAreWitnessed, PTL DEF Spec
<1>3. ASSUME Inv, Inv', RowsAreLast', NEW at \in Times, Compares(at)
      PROVE  /\ at - recorded <= Tolerance
             /\ \A s \in NativeSources : seen'[s] # 0 /\ seen'[s] = rows'[s].last
  <2>1. Comparable(rows'["activitywatch"], rows', at) /\ UNCHANGED recorded
    BY <1>3 DEF Compares, Samples, QueryFails, SampleMain, SampleNative, Take, world
  <2>2. rows'["activitywatch"].last <= recorded /\ rows'["activitywatch"].last \in Nat
        /\ at \in Nat /\ recorded \in Nat
    BY <1>3, <2>1, AcquisitionAssumption
    DEF Inv, AllWitnessed, Witnessed, TypeOK, Diagnostics, Sources, Times
  <2>3. at - recorded <= Tolerance
    BY <2>1, <2>2, AcquisitionAssumption DEF Comparable
  <2>4. \A s \in NativeSources : rows'[s].connected /\ rows'[s].last # 0
    BY <1>3, <2>1 DEF Comparable, Inv, AllWitnessed, Witnessed
  <2>5. QED
    BY <1>3, <2>3, <2>4 DEF RowsAreLast
<1>4. (Inv /\ Inv' /\ RowsAreLast') =>
        [\A at \in Times : Compares(at) =>
           /\ at - recorded <= Tolerance
           /\ \A s \in NativeSources : seen'[s] # 0 /\ seen'[s] = rows'[s].last]_vars
  BY <1>3
<1>5. QED
  BY <1>2, <1>4, RowsAreWitnessed, PTL DEF ComparedEventsAreRecent
=============================================================================
