---------------------------- MODULE Observations ----------------------------
(***************************************************************************)
(* The normalized observations of package coreprotocol, and the algebra    *)
(* Core's store applies to them: merge a batch by key, prune by retention. *)
(*                                                                         *)
(* A fact is a record [stream, key, end, data].  "key" is the string the   *)
(* stream's merge function builds (start time, executable, title, source   *)
(* for windows; start, status, source for AFK; observation time and source *)
(* for browser and session facts), "end" is the time retention looks at    *)
(* (End, or ObservedAt for point observations), and "data" is what the key *)
(* does not cover (the lock flag, a stored payload, a location).  Times    *)
(* are natural numbers; 0 is Go's zero time.                               *)
(***************************************************************************)
EXTENDS Naturals

CONSTANTS
  ExtendStreams,   \* windows, afk, stored_context, shadow_windows, shadow_afk
  ReplaceStreams,  \* host_context, browser, sessions
  Keys,            \* the identity of an observation within its stream
  Data,            \* what an observation carries beside its key and end
  Sources,         \* the acquisition components of AcquisitionDiagnostics
  NoAcquisition,   \* a nil *AcquisitionDiagnostics
  Batches,         \* the batches the host may offer, all past NormalizeAndValidate
  Retention        \* WORKCHRONICLE_RETENTION, in ticks

Streams == ExtendStreams \cup ReplaceStreams
Time == Nat
Fact == [end : Time, stream : Streams, key : Keys, data : Data]

SourceHealth == [connected : BOOLEAN, last : Time]  \* last = 0: nil LastObservation
Acquisition == [Sources -> SourceHealth] \cup {NoAcquisition}
Batch == [sentAt : Time \ {0}, facts : SUBSET Fact, acquisition : Acquisition]

(* Two facts are the same observation when the merge keys coincide.         *)
Same(f, g) == f.stream = g.stream /\ f.key = g.key

ASSUME RetentionAssumption == Retention \in Nat \ {0}

ASSUME StreamsAssumption ==
  /\ ExtendStreams \cap ReplaceStreams = {}
  /\ NoAcquisition \notin [Sources -> SourceHealth]

(* One host produces the batches, and the single-instance mutex keeps it    *)
(* one: a batch names an observation once, and an interval that is reported *)
(* again has grown or is the same.  The time of a point observation is in   *)
(* its key, but two reports under one key may say different things: one     *)
(* handler of the browser script builds two observations of a tab in one    *)
(* millisecond and posts both, and nothing orders the two POSTs.            *)
ASSUME BatchesAssumption ==
  /\ Batches \subseteq Batch
  /\ \A b \in Batches : \A f, g \in b.facts : Same(f, g) => f = g
  /\ \A b, c \in Batches : \A f \in b.facts, g \in c.facts :
       Same(f, g) => \/ f = g
                     \/ f.stream \in ExtendStreams /\ f.end # g.end
                     \/ f.stream \in ReplaceStreams /\ f.end = g.end

-----------------------------------------------------------------------------
(* Variant: the incoming report always replaces the stored one.             *)
IncomingWins(new, old) == new.stream \in Streams

(* The choose function of each stream: an interval is replaced by a longer  *)
(* one, a point observation by the incoming one.                            *)
Wins(new, old) == new.stream \in ReplaceStreams \/ new.end > old.end

(* merge: existing items, replaced or kept by choose, and the new keys.     *)
Merge(existing, incoming) ==
  {f \in existing : \A g \in incoming : Same(g, f) => ~Wins(g, f)}
    \cup {g \in incoming : \A f \in existing : Same(g, f) => Wins(g, f)}

(* pruneLocked: keep what does not end before sentAt - retention.           *)
Fresh(f, sentAt) == f.end + Retention >= sentAt

(* Variant: what ends exactly at the cutoff is dropped too.                 *)
PruneAtCutoff(facts, sentAt) == {f \in facts : f.end + Retention > sentAt}

Prune(facts, sentAt) == {f \in facts : Fresh(f, sentAt)}

(* Variant: the incoming record is taken as it is.                          *)
ReplaceAcquisition(existing, incoming) ==
  IF incoming = NoAcquisition THEN existing ELSE incoming

(* mergeAcquisition: the incoming record, except that a source without an   *)
(* observation keeps the time of the last one it had.                       *)
MergeAcquisition(existing, incoming) ==
  IF incoming = NoAcquisition THEN existing
  ELSE [s \in Sources |->
         [connected |-> incoming[s].connected,
          last |-> IF incoming[s].last = 0 /\ existing # NoAcquisition
                     THEN existing[s].last
                     ELSE incoming[s].last]]

-----------------------------------------------------------------------------
(* What a set of batches says, whatever the order they came in: of every    *)
(* observation the longest reports, as long as the newest batch retains     *)
(* them.  An interval has one longest report; a point observation has as    *)
(* many as were made of it.                                                 *)
FactsOf(log) == UNION {b.facts : b \in log}

Longest(log) ==
  {f \in FactsOf(log) : \A g \in FactsOf(log) : Same(g, f) => g.end <= f.end}

Retained(facts, log) == {f \in facts : \A b \in log : Fresh(f, b.sentAt)}

Newest(log) == Retained(Longest(log), log)

(* A view of the log: one report of every observation it retains.           *)
IsViewOf(view, log) ==
  /\ view \subseteq Newest(log)
  /\ \A f \in Newest(log) : \E g \in view : Same(f, g)
  /\ \A f, g \in view : Same(f, g) => f = g

(* The log itself says different things of one observation.                 *)
Ambiguous(f, log) == \E g \in Newest(log) : Same(f, g) /\ f # g
=============================================================================
