----------------------------- MODULE Collector -----------------------------
(***************************************************************************)
(* The legacy collector: Collector.Run in internal/tracker/collector.go    *)
(* with the client it sends through (internal/activitywatch/client.go),    *)
(* the location detector (internal/location/location.go) and the player    *)
(* detector (internal/appstate/vlc.go).                                    *)
(*                                                                         *)
(* One goroutine does everything in turn.  It is between two selects in    *)
(* "idle"; a request it has made is answered, refused or repeated by a     *)
(* step of its own, so that ActivityWatch may come or go, and the context  *)
(* may be cancelled, between any two of them.                              *)
(*                                                                         *)
(* An observation that waits in the queue, or that ActivityWatch has, is   *)
(* represented by its time: nothing looks into it before a report does.    *)
(* Only the observation at hand carries its data.                          *)
(***************************************************************************)
EXTENDS Naturals, Sequences, SequencesExt, StoredContext

CONSTANTS
  MaxNow,        \* bound: the clock, in poll intervals; it stands still there
  QueueSize,     \* config.ContextQueueSize
  Retries,       \* Client.Retries
  StaleFor       \* Detector.StaleFor
ASSUME CollectorAssumption ==
  MaxNow \in Nat /\ QueueSize \in Nat \ {0} /\ Retries \in Nat /\ StaleFor \in Nat

Times == 0 .. MaxNow
None == MaxNow + 1
Buckets == {"context", "browser"}
Errors == {"none", "startup", "interrupted", "listen", "browser", "canceled"}

VARIABLES
  now,           \* the clock
  aw,            \* ActivityWatch: "up", "failing" (takes it, or not, and says 5xx) or "down"
  exists,        \* the buckets ActivityWatch has
  cancelled,     \* ctx is done
  pc,            \* where Run is
  attempt,       \* attempt in Client.do
  listed,        \* buckets, as Run read them
  tick,          \* poll.C: the time of a tick that waits, or None
  loc,           \* loc, the location Run goes by
  last,          \* Detector.last
  sample,        \* e, the observation at hand
  queue,         \* Collector.queue
  error,         \* what Run returned
  missing,       \* history: what this process observed, ActivityWatch has not, and
                 \* the queue did not give up
  overflow,      \* history: the latest observation the queue gave up, or None
  truth          \* history: whether the last check of the network had an answer,
                 \* the last gateway seen, whether it was recent at that check,
                 \* and what the player said for the sample
env == <<aw, exists>>
detector == <<loc, last>>
history == <<missing, overflow, truth>>
vars == <<now, env, cancelled, pc, attempt, listed, tick, detector, sample,
          queue, error, history>>

Nowhere == [location |-> "REMOTE", evidence |-> "fallback", health |-> "degraded", at |-> 0]
NoSample == [at |-> 0, data |-> Absent]
Unseen == [answered |-> FALSE, seen |-> None, recent |-> FALSE, location |-> "REMOTE", player |-> Absent]

----------------------------------------------------------------------------
(* Detector.Observe.  A gateway is "office", "other" (which an empty        *)
(* address is as well) or "none", when the fingerprint cannot be read.      *)
Fingerprint(gateway) ==
  [location |-> IF gateway = "office" THEN "OFFICE" ELSE "REMOTE",
   evidence |-> "confirmed", health |-> "healthy", at |-> now]
Located(gateway) ==
  IF gateway # "none" THEN Fingerprint(gateway)
  ELSE IF last # Nowhere /\ now <= last.at + StaleFor
       THEN [last EXCEPT !.evidence = "stale", !.health = "degraded"]
       ELSE [Nowhere EXCEPT !.at = now]
(* Variant: what is reported is remembered, stale or not.                   *)
RememberedReported(gateway) == Located(gateway)
Remembered(gateway) == IF gateway # "none" THEN Fingerprint(gateway) ELSE last
Observe(gateway) ==
  /\ loc' = Located(gateway)
  /\ last' = Remembered(gateway)
  /\ truth' = IF gateway = "none"
              THEN [truth EXCEPT !.answered = FALSE, !.recent = @ /\ now <= truth.seen + StaleFor]
              ELSE [truth EXCEPT !.answered = TRUE, !.recent = TRUE, !.seen = now,
                                 !.location = IF gateway = "office" THEN "OFFICE" ELSE "REMOTE"]

(* VLCDetector.Observe and Registry.Observe, then appData.                  *)
Player(answer) ==
  IF answer \in PlayerStates THEN [state |-> answer, available |-> TRUE]
  ELSE [state |-> "unavailable", available |-> FALSE]
AppData(observation) ==
  [available |-> observation.available, passive |-> DeriveEvidence(observation) = "work"]
Data(observation) ==
  [version |-> 1, location |-> loc.location, evidence |-> loc.evidence,
   network |-> loc.health, apps |-> [id \in {"vlc"} |-> AppData(observation)]]

----------------------------------------------------------------------------
(* Client.do: 2xx ends a request, a 4xx status fails it at once, anything   *)
(* else is tried again, until the attempts are used up or ctx is done.      *)
Answered(bucket) == ~cancelled /\ aw = "up" /\ bucket \in exists
Failed(bucket) ==
  \/ ~cancelled /\ aw = "up" /\ bucket \notin exists
  \/ ~cancelled /\ aw # "up" /\ attempt = Retries
  \/ cancelled
(* A request that failed may have been taken all the same.                  *)
MayStore(at) ==
  \/ UNCHANGED missing
  \/ aw # "down" /\ "context" \in exists /\ missing' = missing \ {at}

Init ==
  /\ now = 0 /\ aw \in {"up", "down"} /\ exists \in SUBSET Buckets
  /\ cancelled = FALSE /\ pc = "list" /\ attempt = 0 /\ listed = {}
  /\ tick = None /\ loc = Nowhere /\ last = Nowhere
  /\ sample = NoSample /\ queue = <<>> /\ error = "none"
  /\ missing = {} /\ overflow = None /\ truth = Unseen

Idle == UNCHANGED <<now, env, cancelled, tick, detector, sample, queue, history>>
Ends(reason) == pc' = "ended" /\ error' = reason /\ attempt' = 0
Moves(to) == pc' = to /\ attempt' = 0 /\ UNCHANGED error

(* The first requests: Buckets, and CreateBucket for what is missing (that  *)
(* it exists by now, 409, is as good), then the listener.                   *)
Following(step) == CASE step = "list" -> "create" [] step = "create" -> "createBrowser"
                     [] step = "createBrowser" -> "listen"
Needs(step) ==
  \/ step = "list"
  \/ step = "create" /\ "context" \notin listed
  \/ step = "createBrowser" /\ "browser" \notin listed
StartRequest ==
  /\ pc \in {"list", "create", "createBrowser"} /\ Needs(pc)
  /\ \/ /\ ~cancelled /\ aw = "up" /\ Moves(Following(pc))
        /\ listed' = IF pc = "list" THEN exists ELSE listed
        /\ exists' = exists \cup (IF pc = "create" THEN {"context"}
                                  ELSE IF pc = "createBrowser" THEN {"browser"} ELSE {})
     \/ /\ \/ cancelled /\ Ends("interrupted")
           \/ aw # "up" /\ (cancelled \/ attempt = Retries) /\ Ends("startup")
        /\ UNCHANGED <<listed, exists>>
  /\ UNCHANGED <<now, aw, cancelled, tick, detector, sample, queue, history>>
StartSkip == pc \in {"create", "createBrowser"} /\ ~Needs(pc) /\ Moves(Following(pc)) /\ Idle /\ UNCHANGED listed
(* The port is taken, or the loop begins with a first look at the network.  *)
ListenFails == pc = "listen" /\ Ends("listen") /\ Idle /\ UNCHANGED listed
Listen(gateway) ==
  /\ pc = "listen" /\ Moves("idle") /\ Observe(gateway) /\ listed' = {}
  /\ UNCHANGED <<now, env, cancelled, tick, sample, queue, missing, overflow>>

(* A request that is tried again.                                           *)
Retry ==
  /\ pc \in {"list", "create", "createBrowser", "flush", "heartbeat"}
  /\ pc \in {"create", "createBrowser"} => Needs(pc)
  /\ ~cancelled /\ aw # "up" /\ attempt < Retries
  /\ attempt' = attempt + 1
  /\ IF pc \in {"flush", "heartbeat"}
     THEN MayStore(IF pc = "flush" THEN Head(queue) ELSE sample.at) ELSE UNCHANGED missing
  /\ UNCHANGED <<now, env, cancelled, pc, listed, tick, detector, sample, queue, error, overflow, truth>>

----------------------------------------------------------------------------
(* The select of Run.                                                       *)
(* Variant: it ends when nothing waits any more.                            *)
DoneWhenDrained ==
  pc = "idle" /\ cancelled /\ queue = <<>> /\ Ends("canceled") /\ Idle /\ UNCHANGED listed
Done == pc = "idle" /\ cancelled /\ Ends("canceled") /\ Idle /\ UNCHANGED listed
BrowserServerFails == pc = "idle" /\ Ends("browser") /\ Idle /\ UNCHANGED listed
(* networkTick: any time, the interval is a matter of configuration.        *)
Locate(gateway) ==
  /\ pc = "idle" /\ Observe(gateway)
  /\ UNCHANGED <<now, env, cancelled, pc, attempt, listed, tick, sample, queue, error,
                 missing, overflow>>
(* Variant: what waits is sent when the next observation has failed.        *)
FlushNever == "heartbeat"
FlushFirst == IF queue = <<>> THEN "heartbeat" ELSE "flush"
Poll(player) ==
  /\ pc = "idle" /\ tick # None /\ tick' = None
  /\ sample' = [at |-> tick, data |-> Data(Player(player))]
  /\ missing' = missing \cup {tick}
  /\ truth' = [truth EXCEPT !.player = player]
  /\ Moves(FlushFirst)
  /\ UNCHANGED <<now, env, cancelled, listed, detector, queue, overflow>>

(* flush: the oldest first, until one fails.                                *)
FlushSent ==
  /\ pc = "flush" /\ Answered("context")
  /\ missing' = missing \ {Head(queue)} /\ queue' = Tail(queue)
  /\ Moves(IF Tail(queue) = <<>> THEN "heartbeat" ELSE "flush")
  /\ UNCHANGED <<now, env, cancelled, listed, tick, detector, sample, overflow, truth>>
(* Variant: taken from the queue before it is sent.                         *)
FlushPopped ==
  /\ pc = "flush" /\ Failed("context") /\ MayStore(Head(queue)) /\ Moves("heartbeat")
  /\ queue' = Tail(queue)
  /\ UNCHANGED <<now, env, cancelled, listed, tick, detector, sample, overflow, truth>>
FlushFails ==
  /\ pc = "flush" /\ Failed("context") /\ MayStore(Head(queue)) /\ Moves("heartbeat")
  /\ UNCHANGED <<now, env, cancelled, listed, tick, detector, sample, queue, overflow, truth>>
Rests == Moves("idle") /\ sample' = NoSample /\ truth' = [truth EXCEPT !.player = Absent]
HeartbeatSent ==
  /\ pc = "heartbeat" /\ Answered("context")
  /\ missing' = missing \ {sample.at} /\ Rests
  /\ UNCHANGED <<now, env, cancelled, listed, tick, detector, queue, overflow>>
(* enqueue: the oldest makes room.                                          *)
Full == Len(queue) >= QueueSize
Enqueued(at) == Append(IF Full THEN Tail(queue) ELSE queue, at)
HeartbeatFails ==
  /\ pc = "heartbeat" /\ Failed("context") /\ Rests /\ queue' = Enqueued(sample.at)
  /\ \E taken \in SUBSET {sample.at} :
       /\ taken # {} => aw # "down" /\ "context" \in exists
       /\ missing' = missing \ (taken \cup IF Full THEN {Head(queue)} ELSE {})
  /\ overflow' = IF Full THEN Head(queue) ELSE overflow
  /\ UNCHANGED <<now, env, cancelled, listed, tick, detector>>

----------------------------------------------------------------------------
(* What happens around it.                                                  *)
Elapse ==
  /\ now' = IF now < MaxNow THEN now + 1 ELSE now
  /\ tick' = IF tick = None /\ pc \notin {"list", "create", "createBrowser", "listen", "ended"}
             THEN now' ELSE tick
  /\ UNCHANGED <<env, cancelled, pc, attempt, listed, detector, sample, queue, error, history>>
ServerChanges ==
  /\ \/ aw' \in {"up", "failing", "down"} /\ UNCHANGED exists
     \/ exists' = exists \ {"context"} /\ UNCHANGED aw
  /\ UNCHANGED <<now, cancelled, pc, attempt, listed, tick, detector, sample, queue, error, history>>
Cancel ==
  /\ pc # "ended" /\ cancelled' = TRUE
  /\ UNCHANGED <<now, env, pc, attempt, listed, tick, detector, sample, queue, error, history>>
(* The task starts it again, or the user does.                              *)
Restart ==
  /\ pc = "ended"
  /\ pc' = "list" /\ attempt' = 0 /\ listed' = {} /\ cancelled' = FALSE /\ error' = "none"
  /\ tick' = None /\ loc' = Nowhere /\ last' = Nowhere
  /\ sample' = NoSample /\ queue' = <<>> /\ missing' = {} /\ overflow' = None /\ truth' = Unseen
  /\ UNCHANGED <<now, env>>

----------------------------------------------------------------------------
(* A command or a request whose context is done has no answer.              *)
Gateways == IF cancelled THEN {"none"} ELSE {"none", "office", "other"}
PlayerAnswers == IF cancelled THEN {"unreachable"} ELSE {"paused", "playing", "unreachable"}
Requests == StartRequest \/ StartSkip \/ Retry \/ FlushSent \/ FlushFails \/ HeartbeatSent \/ HeartbeatFails
Starts == ListenFails \/ (\E gateway \in Gateways : Listen(gateway))
Locates == \E gateway \in Gateways : Locate(gateway)
Polls == \E player \in PlayerAnswers : Poll(player)
Next ==
  \/ Requests \/ Starts \/ Locates \/ Polls \/ Done \/ BrowserServerFails
  \/ Elapse \/ ServerChanges \/ Cancel \/ Restart
Spec == Init /\ [][Next]_vars

(* Every request ends (the HTTP client has a timeout), tickers tick, and    *)
(* select picks a ready case at random, so a case that is ready at every    *)
(* turn is taken at last.                                                   *)
Fairness ==
  /\ WF_vars(Requests) /\ WF_vars(Starts) /\ WF_vars(Polls) /\ WF_vars(Elapse) /\ SF_vars(Done)
FairSpec == Spec /\ Fairness

----------------------------------------------------------------------------
(* The values of the variables.                                             *)
Results == [location : Locations, evidence : Evidences, health : {"healthy", "degraded"}, at : Times]
TypeOK ==
  /\ now \in Times /\ tick \in Times \cup {None} /\ (tick # None => tick <= now)
  /\ aw \in {"up", "failing", "down"} /\ exists \subseteq Buckets
  /\ cancelled \in BOOLEAN /\ attempt \in 0 .. Retries /\ error \in Errors
  /\ pc \in {"list", "create", "createBrowser", "listen", "idle", "flush", "heartbeat", "ended"}
  /\ loc \in Results /\ last \in Results /\ last.evidence # "stale"
  /\ queue \in Seq(Times) /\ Len(queue) <= QueueSize /\ (pc = "flush" => queue # <<>>)
  /\ sample.at \in Times /\ missing \subseteq Times /\ overflow \in Times \cup {None}

(* Whatever fails in between, the queue keeps the observations in the order *)
(* of time, none of them is older than one that was given up, and the one   *)
(* at hand is the newest.  (At the bound MaxNow the clock stands still.)    *)
QueueIsOrdered ==
  /\ \A i, j \in DOMAIN queue : i < j => queue[i] <= queue[j]
  /\ overflow # None => \A i \in DOMAIN queue : overflow <= queue[i]
  /\ pc \in {"flush", "heartbeat"} => \A i \in DOMAIN queue : queue[i] <= sample.at

(* While the process lives, an observation is in ActivityWatch, waits, is   *)
(* at hand, or was the oldest of a full queue.                              *)
NothingIsLost ==
  missing \subseteq ToSet(queue) \cup (IF pc \in {"flush", "heartbeat"} THEN {sample.at} ELSE {})

(* The queue is bounded, ordered and complete.                              *)
QueueIsFaithful == TypeOK /\ QueueIsOrdered /\ NothingIsLost

(* What is written about the location is what was seen of the network, as   *)
(* it was known at the last check: confirmed when that check had an answer, *)
(* stale when the last answer was recent enough by then, else a fallback.   *)
(* And a report reads from it what was written.                             *)
EvidenceIsHonest ==
  pc \in {"flush", "heartbeat"} =>
    LET read == ParseContext(sample.at, sample.at, sample.data)
    IN /\ read.evidence = IF truth.answered THEN "confirmed" ELSE IF truth.recent THEN "stale" ELSE "fallback"
       /\ read.location = IF truth.recent THEN truth.location ELSE "REMOTE"
       /\ read.passive["vlc"] = CASE truth.player = "playing" -> "work"
                                  [] truth.player = "paused" -> "idle"
                                  [] OTHER -> "unavailable"
       /\ read.health = "healthy" <=> truth.answered /\ truth.player # "unreachable"

(* Once ActivityWatch stays, with the bucket, and the collector runs, what  *)
(* waits is delivered.                                                      *)
Undisturbed == aw = "up" /\ "context" \in exists /\ ~cancelled /\ pc # "ended"
QueueDrains == <>[]Undisturbed => []<>(queue = <<>>)

(* Run does what the process around it expects: it never ends its loop but  *)
(* for a reason, and it returns when its context is done, whatever          *)
(* ActivityWatch does meanwhile.                                            *)
Run == INSTANCE CollectorRun WITH
  phase <- CASE pc \in {"list", "create", "createBrowser", "listen"} -> "starting"
             [] pc = "ended" -> "ended"
             [] OTHER -> "running",
  done <- cancelled,
  result <- IF error \in {"none", "canceled", "interrupted"} THEN error ELSE "failed"
ImplementsRun == Run!RunSpec
=============================================================================
