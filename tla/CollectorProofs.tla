-------------------------- MODULE CollectorProofs --------------------------
(***************************************************************************)
(* Proofs about Collector, for every queue size, number of retries and     *)
(* staleness: the queue stays bounded, ordered and complete.               *)
(***************************************************************************)
EXTENDS Collector, TLAPS

Sends == {"flush", "heartbeat"}

(* What was observed is older than the tick that waits.                     *)
Past(t) == t <= now /\ (tick # None => t <= tick)

(* The times in the queue, the one that was given up last, and the one at   *)
(* hand are past and in this order.                                         *)
InOrder ==
  /\ QueueIsOrdered
  /\ \A i \in DOMAIN queue : Past(queue[i])
  /\ overflow # None => Past(overflow)
  /\ pc \in Sends => Past(sample.at) /\ (overflow # None => overflow <= sample.at)

QueueInv == TypeOK /\ InOrder /\ NothingIsLost

(* What the detector remembers is the last answer, what Run goes by is what *)
(* that answer is worth at the last check, and the observation at hand says *)
(* it.  An answer that was not recent does not become so again.             *)
PlayerSays == {"paused", "playing", "unreachable"}
Truths == [answered : BOOLEAN, seen : Times \cup {None}, recent : BOOLEAN,
           location : Locations, player : PlayerSays \cup {Absent}]
Answer == [location |-> truth.location, evidence |-> "confirmed", health |-> "healthy", at |-> truth.seen]
DetectorIsTrue ==
  /\ truth \in Truths
  /\ (truth.answered => truth.recent) /\ (truth.recent => truth.seen # None)
  /\ truth.seen # None => truth.seen <= now /\ (truth.recent \/ now > truth.seen + StaleFor)
  /\ last = IF truth.seen = None THEN Nowhere ELSE Answer
LocationIsTrue ==
  /\ loc.evidence = IF truth.answered THEN "confirmed" ELSE IF truth.recent THEN "stale" ELSE "fallback"
  /\ loc.location = IF truth.recent THEN truth.location ELSE "REMOTE"
  /\ loc.health = IF truth.answered THEN "healthy" ELSE "degraded"
EvidenceInv ==
  /\ DetectorIsTrue
  /\ pc \in {"idle", "flush", "heartbeat"} => LocationIsTrue
  /\ pc \in Sends => truth.player \in PlayerSays /\ sample.data = Data(Player(truth.player))

-----------------------------------------------------------------------------
LEMMA TailOfTimes ==
  ASSUME NEW q \in Seq(Times), q # <<>>
  PROVE  /\ Head(q) = q[1] /\ Tail(q) \in Seq(Times) /\ Len(Tail(q)) = Len(q) - 1
         /\ 1 \in DOMAIN q /\ DOMAIN q = 1 .. Len(q) /\ q[1] \in Times /\ Len(q) \in Nat
         /\ \A i \in DOMAIN Tail(q) : i + 1 \in DOMAIN q /\ Tail(q)[i] = q[i + 1]
         /\ ToSet(q) \subseteq {Head(q)} \cup ToSet(Tail(q))
<1>1. /\ Head(q) = q[1] /\ Tail(q) \in Seq(Times) /\ Len(Tail(q)) = Len(q) - 1
      /\ 1 \in DOMAIN q /\ DOMAIN q = 1 .. Len(q) /\ q[1] \in Times /\ Len(q) \in Nat
  OBVIOUS
<1>2. \A i \in 1 .. Len(q) - 1 : Tail(q)[i] = q[i + 1]
  OBVIOUS
<1>3. \A i \in DOMAIN Tail(q) : i + 1 \in DOMAIN q /\ Tail(q)[i] = q[i + 1]
  BY <1>1, <1>2
<1>4. ASSUME NEW i \in 1 .. Len(q), i # 1
      PROVE  q[i] \in ToSet(Tail(q))
  <2>1. i - 1 \in DOMAIN Tail(q) /\ Tail(q)[i - 1] = q[i]
    BY <1>1, <1>2, <1>4
  <2>2. QED
    BY <2>1 DEF ToSet
<1>5. QED
  BY <1>1, <1>3, <1>4 DEF ToSet

LEMMA AppendOfTimes ==
  ASSUME NEW q \in Seq(Times), NEW t \in Times
  PROVE  /\ Append(q, t) \in Seq(Times) /\ Len(Append(q, t)) = Len(q) + 1
         /\ \A i \in DOMAIN Append(q, t) :
              IF i \in DOMAIN q THEN Append(q, t)[i] = q[i] ELSE i > Len(q) /\ Append(q, t)[i] = t
         /\ DOMAIN q = 1 .. Len(q) /\ DOMAIN Append(q, t) = 1 .. Len(q) + 1
         /\ ToSet(Append(q, t)) = ToSet(q) \cup {t}
<1>1. /\ Append(q, t) \in Seq(Times) /\ Len(Append(q, t)) = Len(q) + 1
      /\ DOMAIN q = 1 .. Len(q) /\ DOMAIN Append(q, t) = 1 .. Len(q) + 1 /\ Len(q) \in Nat
  OBVIOUS
<1>2. \A i \in 1 .. Len(q) : Append(q, t)[i] = q[i]
  OBVIOUS
<1>3. Append(q, t)[Len(q) + 1] = t
  OBVIOUS
<1>4. ToSet(Append(q, t)) = ToSet(q) \cup {t}
  <2>1. ToSet(q) \subseteq ToSet(Append(q, t))
    BY <1>1, <1>2 DEF ToSet
  <2>2. t \in ToSet(Append(q, t))
    BY <1>1, <1>3 DEF ToSet
  <2>3. ToSet(Append(q, t)) \subseteq ToSet(q) \cup {t}
    BY <1>1, <1>2, <1>3 DEF ToSet
  <2>4. QED
    BY <2>1, <2>2, <2>3
<1>5. QED
  BY <1>1, <1>2, <1>3, <1>4

(* What the detector makes of an answer or of none.                         *)
LEMMA ObserveType ==
  ASSUME TypeOK, NEW gateway \in {"none", "office", "other"}, Observe(gateway)
  PROVE  loc' \in Results /\ last' \in Results /\ last'.evidence # "stale"
BY CollectorAssumption
DEF TypeOK, Observe, Located, Remembered, Fingerprint, Nowhere, Results, Locations, Evidences, Times

LEMMA TypeInit == Init => TypeOK
<1> SUFFICES ASSUME Init
             PROVE  TypeOK
  OBVIOUS
<1> USE CollectorAssumption DEF Init
<1>1. queue \in Seq(Times) /\ Len(queue) = 0 /\ 0 \in Times
  BY DEF Times
<1>2. loc \in Results /\ last \in Results /\ last.evidence # "stale"
  BY <1>1 DEF Nowhere, Results, Locations, Evidences
<1>3. attempt \in 0 .. Retries /\ tick = None /\ overflow \in Times \cup {None} /\ sample.at \in Times
  BY <1>1 DEF NoSample
<1>4. now \in Times /\ aw \in {"up", "failing", "down"} /\ exists \subseteq Buckets /\ error \in Errors
      /\ pc = "list" /\ cancelled = FALSE /\ missing = {} /\ Len(queue) <= QueueSize
  BY <1>1 DEF Errors
<1> HIDE CollectorAssumption DEF Init
<1>5. QED
  BY <1>1, <1>2, <1>3, <1>4 DEF TypeOK

(* The requests before the loop, and what ends Run.                         *)
LEMMA TypeStart ==
  TypeOK /\ (StartRequest \/ StartSkip \/ ListenFails \/ Done \/ BrowserServerFails) => TypeOK'
<1> SUFFICES ASSUME TypeOK, StartRequest \/ StartSkip \/ ListenFails \/ Done \/ BrowserServerFails
             PROVE  TypeOK'
  OBVIOUS
<1> USE CollectorAssumption DEF TypeOK, env, detector, history
<1>1. CASE StartRequest
  <2>1. exists' \subseteq Buckets /\ attempt' = 0
    BY <1>1 DEF StartRequest, Moves, Ends, Buckets
  <2>2. error' \in Errors /\ pc' \in {"create", "createBrowser", "listen", "ended"}
    BY <1>1 DEF StartRequest, Moves, Ends, Following, Errors
  <2>3. QED
    BY <1>1, <2>1, <2>2 DEF StartRequest
<1>2. CASE StartSkip
  BY <1>2 DEF StartSkip, Following, Moves, Idle
<1>3. CASE ListenFails \/ Done \/ BrowserServerFails
  BY <1>3 DEF ListenFails, Done, BrowserServerFails, Ends, Idle, Errors
<1>4. QED
  BY <1>1, <1>2, <1>3

(* The looks at the network.                                                *)
LEMMA TypeLocate ==
  ASSUME TypeOK, NEW gateway \in Gateways, Listen(gateway) \/ Locate(gateway)
  PROVE  TypeOK'
<1>1. gateway \in {"none", "office", "other"} /\ Observe(gateway)
  BY DEF Gateways, Listen, Locate
<1>2. loc' \in Results /\ last' \in Results /\ last'.evidence # "stale"
  BY <1>1, ObserveType
<1>3. QED
  BY <1>2, CollectorAssumption DEF TypeOK, Listen, Locate, Moves, env

LEMMA TypeRetry == TypeOK /\ Retry => TypeOK'
BY CollectorAssumption DEF TypeOK, Retry, MayStore, env, detector

LEMMA TypePoll == ASSUME TypeOK, NEW player \in PlayerAnswers, Poll(player) PROVE TypeOK'
<1>1. tick \in Times /\ sample'.at = tick /\ tick' = None
  BY DEF TypeOK, Poll
<1>2. QED
  BY <1>1, CollectorAssumption DEF TypeOK, Poll, FlushFirst, Moves, env, detector

LEMMA TypeFlush == TypeOK /\ (FlushSent \/ FlushFails) => TypeOK'
<1> SUFFICES ASSUME TypeOK, FlushSent \/ FlushFails
             PROVE  TypeOK'
  OBVIOUS
<1>1. queue # <<>> /\ queue \in Seq(Times)
  BY DEF TypeOK, FlushSent, FlushFails
<1>2. Head(queue) \in Times /\ Tail(queue) \in Seq(Times) /\ Len(Tail(queue)) <= QueueSize
  BY <1>1, TailOfTimes, CollectorAssumption DEF TypeOK
<1>3. QED
  BY <1>1, <1>2, CollectorAssumption
  DEF TypeOK, FlushSent, FlushFails, MayStore, Moves, env, detector, history

LEMMA TypeHeartbeat == TypeOK /\ (HeartbeatSent \/ HeartbeatFails) => TypeOK'
<1> SUFFICES ASSUME TypeOK, HeartbeatSent \/ HeartbeatFails
             PROVE  TypeOK'
  OBVIOUS
<1>1. 0 \in Times /\ sample'.at = 0
  BY CollectorAssumption DEF HeartbeatSent, HeartbeatFails, Rests, NoSample, Times
<1>2. CASE HeartbeatSent
  BY <1>1, <1>2, CollectorAssumption DEF TypeOK, HeartbeatSent, Rests, Moves, env, detector
<1>3. CASE HeartbeatFails
  <2>1. CASE Full
    <3>1. queue # <<>> /\ queue \in Seq(Times) /\ Len(queue) = QueueSize
      BY <2>1, CollectorAssumption DEF TypeOK, Full
    <3>2. /\ Head(queue) \in Times /\ Tail(queue) \in Seq(Times)
          /\ Len(Tail(queue)) = QueueSize - 1
      BY <3>1, TailOfTimes
    <3>3. queue' \in Seq(Times) /\ Len(queue') = QueueSize
      BY <1>3, <2>1, <3>2, AppendOfTimes, CollectorAssumption DEF TypeOK, HeartbeatFails, Enqueued
    <3>4. QED
      BY <1>1, <1>3, <2>1, <3>2, <3>3, CollectorAssumption
      DEF TypeOK, HeartbeatFails, Rests, Moves, env, detector
  <2>2. CASE ~Full
    <3>1. queue' \in Seq(Times) /\ Len(queue') = Len(queue) + 1 /\ Len(queue') <= QueueSize
      BY <1>3, <2>2, AppendOfTimes, CollectorAssumption DEF TypeOK, HeartbeatFails, Enqueued, Full
    <3>2. QED
      BY <1>1, <1>3, <2>2, <3>1, CollectorAssumption
      DEF TypeOK, HeartbeatFails, Rests, Moves, env, detector
  <2>3. QED
    BY <2>1, <2>2
<1>4. QED
  BY <1>2, <1>3

LEMMA TypeAround == TypeOK /\ (Elapse \/ ServerChanges \/ Cancel \/ Restart) => TypeOK'
<1> SUFFICES ASSUME TypeOK, Elapse \/ ServerChanges \/ Cancel \/ Restart
             PROVE  TypeOK'
  OBVIOUS
<1> USE CollectorAssumption DEF TypeOK
<1>1. CASE Elapse
  BY <1>1 DEF Elapse, Times, None, env, detector, history
<1>2. CASE ServerChanges \/ Cancel
  BY <1>2 DEF ServerChanges, Cancel, env, detector, history
<1>3. CASE Restart
  <2>1. queue' \in Seq(Times) /\ Len(queue') = 0 /\ sample'.at \in Times
    BY <1>3 DEF Restart, NoSample, Times
  <2>2. loc' \in Results /\ last' \in Results /\ last'.evidence # "stale"
    BY <1>3 DEF Restart, Nowhere, Results, Locations, Evidences, Times
  <2>3. attempt' \in 0 .. Retries /\ tick' = None /\ overflow' \in Times \cup {None}
    BY <1>3 DEF Restart
  <2>4. pc' = "list" /\ error' \in Errors /\ cancelled' = FALSE /\ missing' = {} /\ UNCHANGED <<now, env>>
    BY <1>3 DEF Restart, Errors
  <2> HIDE CollectorAssumption DEF TypeOK
  <2>5. now' \in Times /\ aw' \in {"up", "failing", "down"} /\ exists' \subseteq Buckets
    BY <2>4 DEF TypeOK, env
  <2>6. Len(queue') <= QueueSize
    BY <2>1, CollectorAssumption
  <2>7. QED
    BY <2>1, <2>2, <2>3, <2>4, <2>5, <2>6 DEF TypeOK
<1>4. QED
  BY <1>1, <1>2, <1>3

LEMMA TypeNext == TypeOK /\ [Next]_vars => TypeOK'
<1> SUFFICES ASSUME TypeOK, [Next]_vars
             PROVE  TypeOK'
  OBVIOUS
<1>1. CASE Requests
  BY <1>1, TypeStart, TypeRetry, TypeFlush, TypeHeartbeat DEF Requests
<1>2. CASE Starts
  BY <1>2, TypeStart, TypeLocate DEF Starts
<1>3. CASE Locates
  BY <1>3, TypeLocate DEF Locates
<1>4. CASE Polls
  BY <1>4, TypePoll DEF Polls
<1>5. CASE Done \/ BrowserServerFails
  BY <1>5, TypeStart
<1>6. CASE Elapse \/ ServerChanges \/ Cancel \/ Restart
  BY <1>6, TypeAround
<1>7. CASE UNCHANGED vars
  BY <1>7 DEF TypeOK, vars, env, detector, history
<1>8. QED
  BY <1>1, <1>2, <1>3, <1>4, <1>5, <1>6, <1>7 DEF Next

-----------------------------------------------------------------------------
(* A step that leaves the queue, the clock and the observation at hand.     *)
LEMMA QueueStays ==
  ASSUME InOrder, NothingIsLost, UNCHANGED <<now, tick, queue, overflow, sample>>,
         missing' \subseteq missing, pc' \in Sends <=> pc \in Sends
  PROVE  InOrder' /\ NothingIsLost'
BY DEF InOrder, NothingIsLost, QueueIsOrdered, Past, Sends, ToSet

(* The clock advances, and the ticker with it.                              *)
LEMMA QueueElapses ==
  ASSUME TypeOK, InOrder, NothingIsLost, Elapse
  PROVE  InOrder' /\ NothingIsLost'
<1>1. now <= now' /\ now \in Nat /\ now' \in Nat
      /\ (tick' = tick \/ (tick = None /\ tick' = now'))
  BY CollectorAssumption DEF TypeOK, Elapse, Times
<1>2. \A t \in Times : Past(t) => Past(t)'
  BY <1>1, CollectorAssumption DEF Past, Times
<1>3. \A i \in DOMAIN queue : queue[i] \in Times
  BY DEF TypeOK
<1>4. UNCHANGED <<pc, queue, overflow, sample, missing>>
  BY DEF Elapse, history
<1>5. InOrder'
  BY <1>2, <1>3, <1>4 DEF TypeOK, InOrder, QueueIsOrdered, Sends
<1>6. NothingIsLost'
  BY <1>4 DEF NothingIsLost, Sends, ToSet
<1>7. QED
  BY <1>5, <1>6

(* The tick is later than what waits.                                       *)
LEMMA QueuePolls ==
  ASSUME TypeOK, InOrder, NothingIsLost, NEW player \in PlayerAnswers, Poll(player)
  PROVE  InOrder' /\ NothingIsLost'
<1>1. /\ tick \in Times /\ tick <= now /\ tick' = None /\ sample'.at = tick
      /\ pc = "idle" /\ pc' \in Sends
      /\ missing' = missing \cup {tick} /\ UNCHANGED <<now, queue, overflow>>
  BY DEF TypeOK, Poll, FlushFirst, Moves, Sends
<1>2. InOrder'
  <2>1. tick # None
    BY <1>1, CollectorAssumption DEF Times, None
  <2>2. (\A i \in DOMAIN queue : queue[i] <= tick /\ queue[i] <= now)
        /\ (overflow # None => overflow <= tick /\ overflow <= now)
    BY <2>1 DEF InOrder, Past
  <2>3. QED
    BY <1>1, <2>2 DEF InOrder, QueueIsOrdered, Past, Sends
<1>3. NothingIsLost'
  BY <1>1 DEF NothingIsLost, Sends, ToSet
<1>4. QED
  BY <1>2, <1>3

(* The oldest is sent, or is kept.                                          *)
LEMMA QueueFlushes ==
  ASSUME TypeOK, InOrder, NothingIsLost, FlushSent \/ FlushFails
  PROVE  InOrder' /\ NothingIsLost'
<1>1. queue \in Seq(Times) /\ queue # <<>> /\ pc \in Sends /\ pc' \in Sends
      /\ UNCHANGED <<now, tick, overflow, sample>>
  BY DEF TypeOK, FlushSent, FlushFails, Moves, Sends, history
<1>2. CASE FlushFails
  BY <1>1, <1>2, QueueStays DEF FlushFails, MayStore
<1>3. CASE FlushSent
  <2>1. queue' = Tail(queue) /\ missing' = missing \ {Head(queue)}
    BY <1>3 DEF FlushSent
  <2>2. \A i \in DOMAIN queue' : i + 1 \in DOMAIN queue /\ queue'[i] = queue[i + 1]
    BY <1>1, <2>1, TailOfTimes
  <2>3. \A i \in DOMAIN queue' : i \in Int
    BY <1>1, <2>1, TailOfTimes
  <2>4. InOrder'
    BY <1>1, <2>2, <2>3 DEF InOrder, QueueIsOrdered, Past, Sends
  <2>5. missing' \subseteq ToSet(queue') \cup {sample'.at}
    BY <1>1, <2>1, TailOfTimes DEF NothingIsLost, Sends
  <2>6. QED
    BY <1>1, <2>4, <2>5 DEF NothingIsLost, Sends
<1>4. QED
  BY <1>2, <1>3

(* What was at hand is sent, or goes to the end of the queue, where the     *)
(* oldest makes room for it.                                                *)
LEMMA QueueGrows ==
  ASSUME TypeOK, InOrder, NothingIsLost, HeartbeatSent \/ HeartbeatFails
  PROVE  InOrder' /\ NothingIsLost'
<1>1. /\ pc = "heartbeat" /\ pc' = "idle" /\ UNCHANGED <<now, tick>> /\ sample.at \in Times
      /\ queue \in Seq(Times) /\ missing \subseteq ToSet(queue) \cup {sample.at}
  BY DEF TypeOK, NothingIsLost, HeartbeatSent, HeartbeatFails, Rests, Moves
<1>2. CASE HeartbeatSent
  <2>1. missing' \subseteq missing \ {sample.at} /\ UNCHANGED <<queue, overflow>>
    BY <1>2 DEF HeartbeatSent
  <2>2. QED
    BY <1>1, <2>1 DEF InOrder, QueueIsOrdered, NothingIsLost, Past, Sends
<1>3. CASE HeartbeatFails /\ ~Full
  <2>1. queue' = Append(queue, sample.at) /\ missing' \subseteq missing /\ overflow' = overflow
    BY <1>3 DEF HeartbeatFails, Enqueued
  <2>2. \A i \in DOMAIN queue' :
          i \in Int /\ IF i \in DOMAIN queue THEN queue'[i] = queue[i] ELSE i > Len(queue) /\ queue'[i] = sample.at
    BY <1>1, <2>1, AppendOfTimes
  <2>3. \A i \in DOMAIN queue : i <= Len(queue) /\ queue[i] \in Times /\ queue[i] <= sample.at
    BY <1>1 DEF InOrder, QueueIsOrdered
  <2>4. \A i, j \in DOMAIN queue' : i < j => queue'[i] <= queue'[j]
    BY <1>1, <2>2, <2>3 DEF InOrder, QueueIsOrdered, Times
  <2>5. InOrder'
    BY <1>1, <2>1, <2>2, <2>4 DEF InOrder, QueueIsOrdered, Past, Sends
  <2>6. NothingIsLost'
    BY <1>1, <2>1, AppendOfTimes DEF NothingIsLost
  <2>7. QED
    BY <2>5, <2>6
<1>4. CASE HeartbeatFails /\ Full
  <2> DEFINE kept == Tail(queue)
  <2>1. queue # <<>> /\ queue' = Append(kept, sample.at) /\ overflow' = Head(queue)
        /\ missing' \subseteq missing \ {Head(queue)}
    BY <1>1, <1>4, CollectorAssumption DEF HeartbeatFails, Enqueued, Full
  <2>2. /\ Head(queue) = queue[1] /\ queue[1] \in Times /\ 1 \in DOMAIN queue /\ kept \in Seq(Times)
        /\ ToSet(queue) \subseteq {Head(queue)} \cup ToSet(kept)
        /\ \A i \in DOMAIN kept : i + 1 \in DOMAIN queue /\ kept[i] = queue[i + 1] /\ i \in Nat \ {0}
    BY <1>1, <2>1, TailOfTimes
  <2>3. \A i \in DOMAIN kept : /\ kept[i] \in Times /\ queue[1] <= kept[i] /\ kept[i] <= sample.at
                                /\ Past(kept[i]) /\ i <= Len(kept)
    <3>1. TAKE i \in DOMAIN kept
    <3>2. 1 < i + 1 /\ i + 1 \in DOMAIN queue /\ kept[i] = queue[i + 1]
      BY <2>2
    <3>3. queue[1] <= queue[i + 1] /\ queue[i + 1] <= sample.at /\ Past(queue[i + 1])
      BY <1>1, <2>2, <3>2 DEF InOrder, QueueIsOrdered
    <3>4. QED
      BY <2>2, <3>2, <3>3
  <2>4. \A i, j \in DOMAIN kept : i < j => kept[i] <= kept[j]
    BY <2>2 DEF InOrder, QueueIsOrdered
  <2> HIDE DEF kept
  <2>5. \A i \in DOMAIN queue' :
          i \in Int /\ IF i \in DOMAIN kept THEN queue'[i] = kept[i] ELSE i > Len(kept) /\ queue'[i] = sample.at
    BY <1>1, <2>1, <2>2, AppendOfTimes
  <2>6. \A i, j \in DOMAIN queue' : i < j => queue'[i] <= queue'[j]
    BY <1>1, <2>3, <2>4, <2>5 DEF Times
  <2>7. queue[1] <= sample.at /\ Past(queue[1]) /\ Past(sample.at)
    BY <1>1, <2>2 DEF InOrder, QueueIsOrdered, Sends
  <2>8. \A i \in DOMAIN queue' : Past(queue'[i]) /\ queue[1] <= queue'[i]
    BY <2>3, <2>5, <2>7
  <2>9. InOrder'
    BY <1>1, <2>1, <2>2, <2>6, <2>7, <2>8 DEF InOrder, QueueIsOrdered, Past, Sends
  <2>10. NothingIsLost'
    BY <1>1, <2>1, <2>2, AppendOfTimes DEF NothingIsLost
  <2>11. QED
    BY <2>9, <2>10
<1>5. QED
  BY <1>2, <1>3, <1>4

LEMMA QueueInit == Init => QueueInv
BY TypeInit DEF Init, QueueInv, InOrder, QueueIsOrdered, NothingIsLost, Sends, ToSet

LEMMA QueueNext == QueueInv /\ [Next]_vars => QueueInv'
<1> SUFFICES ASSUME QueueInv, [Next]_vars
             PROVE  InOrder' /\ NothingIsLost'
  BY TypeNext DEF QueueInv
<1> USE DEF QueueInv
<1>1. CASE StartRequest \/ StartSkip \/ Retry \/ Starts \/ Locates \/ Done \/ BrowserServerFails
  <2>1. UNCHANGED <<now, tick, queue, overflow, sample>> /\ missing' \subseteq missing
    BY <1>1 DEF StartRequest, StartSkip, Retry, MayStore, Starts, ListenFails, Listen, Locates, Locate,
                Observe, Done, BrowserServerFails, Idle, history
  <2>2. pc' \in Sends <=> pc \in Sends
    BY <1>1 DEF StartRequest, StartSkip, Following, Retry, Starts, ListenFails, Listen, Locates, Locate,
                Done, BrowserServerFails, Ends, Moves, Sends
  <2>3. QED
    BY <2>1, <2>2, QueueStays
<1>2. CASE FlushSent \/ FlushFails
  BY <1>2, QueueFlushes
<1>3. CASE HeartbeatSent \/ HeartbeatFails
  BY <1>3, QueueGrows
<1>4. CASE Polls
  BY <1>4, QueuePolls DEF Polls
<1>5. CASE Elapse
  BY <1>5, QueueElapses
<1>6. CASE ServerChanges \/ Cancel \/ UNCHANGED vars
  BY <1>6, QueueStays DEF ServerChanges, Cancel, vars, history
<1>7. CASE Restart
  BY <1>7 DEF Restart, InOrder, QueueIsOrdered, NothingIsLost, Sends, ToSet
<1>8. QED
  BY <1>1, <1>2, <1>3, <1>4, <1>5, <1>6, <1>7 DEF Next, Requests

THEOREM QueueStaysInv == Spec => []QueueInv
BY QueueInit, QueueNext, PTL DEF Spec

(* The queue of the collector keeps its bound, the order of the             *)
(* observations, and every observation that ActivityWatch has not got,      *)
(* whatever fails, for every size of the queue (enqueue, flush).            *)
THEOREM QueueIsAlwaysFaithful == Spec => []QueueIsFaithful
<1>1. QueueInv => QueueIsFaithful
  BY DEF QueueInv, InOrder, QueueIsFaithful
<1>2. QED
  BY <1>1, QueueStaysInv, PTL

-----------------------------------------------------------------------------
(* One look at the network.                                                 *)
LEMMA LooksTruly ==
  ASSUME TypeOK, DetectorIsTrue, NEW gateway \in {"none", "office", "other"}, Observe(gateway),
         now' = now
  PROVE  DetectorIsTrue' /\ LocationIsTrue' /\ truth'.player = truth.player
<1> USE CollectorAssumption
<1>1. now \in Nat /\ StaleFor \in Nat /\ now # None
  BY DEF TypeOK, Times, None
<1>2. CASE gateway = "none"
  <2>1. /\ last' = last /\ truth' = [truth EXCEPT !.answered = FALSE,
                                      !.recent = truth.recent /\ now <= truth.seen + StaleFor]
        /\ loc' = IF last # Nowhere /\ now <= last.at + StaleFor
                   THEN [last EXCEPT !.evidence = "stale", !.health = "degraded"]
                   ELSE [Nowhere EXCEPT !.at = now]
    BY <1>2 DEF Observe, Located, Remembered
  <2>2. /\ truth'.answered = FALSE /\ truth'.seen = truth.seen /\ truth'.location = truth.location
        /\ truth'.player = truth.player /\ truth' \in Truths
        /\ truth'.recent = (truth.recent /\ now <= truth.seen + StaleFor)
    BY <2>1 DEF DetectorIsTrue, Truths
  <2>3. DetectorIsTrue'
    BY <1>1, <2>1, <2>2 DEF DetectorIsTrue, Answer, Truths, Times, None
  <2>4. LocationIsTrue'
    <3>1. CASE truth.seen = None
      BY <2>1, <2>2, <3>1 DEF DetectorIsTrue, LocationIsTrue, Nowhere
    <3>2. CASE truth.seen # None
      <4>1. truth.seen \in Nat /\ last = Answer /\ last # Nowhere
        BY <3>2 DEF DetectorIsTrue, Answer, Nowhere, Truths, Times
      <4>2. truth'.recent <=> now <= last.at + StaleFor
        <5>1. last.at = truth.seen /\ truth.recent \in BOOLEAN
          BY <4>1 DEF DetectorIsTrue, Answer, Truths
        <5>2. now <= truth.seen + StaleFor => truth.recent
          BY <1>1, <3>2, <4>1 DEF DetectorIsTrue
        <5>3. QED
          BY <2>2, <5>1, <5>2
      <4>3. QED
        BY <2>1, <2>2, <4>1, <4>2 DEF LocationIsTrue, Answer, Nowhere
    <3>3. QED
      BY <3>1, <3>2
  <2>5. QED
    BY <2>2, <2>3, <2>4
<1>3. CASE gateway # "none"
  <2>1. /\ last' = Fingerprint(gateway) /\ loc' = Fingerprint(gateway)
        /\ truth' = [truth EXCEPT !.answered = TRUE, !.recent = TRUE, !.seen = now,
                                  !.location = IF gateway = "office" THEN "OFFICE" ELSE "REMOTE"]
    BY <1>3 DEF Observe, Located, Remembered
  <2>2. /\ truth'.answered = TRUE /\ truth'.recent = TRUE /\ truth'.seen = now
        /\ truth'.location = IF gateway = "office" THEN "OFFICE" ELSE "REMOTE"
        /\ truth'.player = truth.player /\ truth' \in Truths
    BY <2>1 DEF DetectorIsTrue, Truths, TypeOK, Locations
  <2>3. QED
    BY <1>1, <2>1, <2>2 DEF DetectorIsTrue, LocationIsTrue, Answer, Fingerprint
<1>4. QED
  BY <1>2, <1>3

(* What the player said, and the location, are written as they are.         *)
LEMMA PollsTruly ==
  ASSUME EvidenceInv, NEW player \in PlayerAnswers, Poll(player)
  PROVE  EvidenceInv'
<1>1. /\ player \in PlayerSays /\ pc = "idle" /\ pc' \in Sends
      /\ UNCHANGED <<now, loc, last>> /\ truth' = [truth EXCEPT !.player = player]
      /\ sample'.data = Data(Player(player))
  BY DEF Poll, PlayerAnswers, PlayerSays, FlushFirst, Moves, Sends, detector
<1>2. /\ truth' \in Truths /\ truth'.player = player /\ truth'.answered = truth.answered
      /\ truth'.recent = truth.recent /\ truth'.seen = truth.seen /\ truth'.location = truth.location
  BY <1>1 DEF EvidenceInv, DetectorIsTrue, Truths
<1>3. DetectorIsTrue' /\ LocationIsTrue'
  BY <1>1, <1>2 DEF EvidenceInv, DetectorIsTrue, LocationIsTrue, Answer
<1>4. sample'.data = Data(Player(truth.player))' /\ truth'.player \in PlayerSays
  BY <1>1, <1>2 DEF Data, AppData, DeriveEvidence, Passive, Player
<1>5. QED
  BY <1>3, <1>4 DEF EvidenceInv

LEMMA EvidenceInit == Init => EvidenceInv
<1> SUFFICES ASSUME Init
             PROVE  DetectorIsTrue
  BY DEF Init, EvidenceInv, Sends
<1>1. truth = [answered |-> FALSE, seen |-> None, recent |-> FALSE, location |-> "REMOTE", player |-> Absent]
      /\ last = Nowhere
  BY DEF Init, Unseen
<1>2. QED
  BY <1>1 DEF DetectorIsTrue, Truths, Locations

LEMMA EvidenceNext == TypeOK /\ EvidenceInv /\ [Next]_vars => EvidenceInv'
<1> SUFFICES ASSUME TypeOK, EvidenceInv, [Next]_vars
             PROVE  EvidenceInv'
  OBVIOUS
<1>1. ASSUME NEW gateway \in Gateways, Listen(gateway) \/ Locate(gateway)
      PROVE  EvidenceInv'
  <2>1. Observe(gateway) /\ now' = now /\ pc' = "idle" /\ gateway \in {"none", "office", "other"}
    BY <1>1 DEF Listen, Locate, Moves, Gateways
  <2>2. QED
    BY <2>1, LooksTruly DEF EvidenceInv, Sends
<1>2. CASE Polls
  BY <1>2, PollsTruly DEF Polls
<1>3. CASE HeartbeatSent \/ HeartbeatFails
  <2>1. pc = "heartbeat" /\ pc' = "idle" /\ UNCHANGED <<now, loc, last>>
        /\ truth' = [truth EXCEPT !.player = Absent]
    BY <1>3 DEF HeartbeatSent, HeartbeatFails, Rests, Moves, detector
  <2>2. /\ truth' \in Truths /\ truth'.answered = truth.answered /\ truth'.recent = truth.recent
        /\ truth'.seen = truth.seen /\ truth'.location = truth.location
    BY <2>1 DEF EvidenceInv, DetectorIsTrue, Truths
  <2>3. QED
    BY <2>1, <2>2 DEF EvidenceInv, DetectorIsTrue, LocationIsTrue, Answer, Sends
<1>4. CASE Elapse
  <2>1. now' \in Nat /\ now \in Nat /\ now <= now' /\ UNCHANGED <<pc, loc, last, truth, sample>>
    BY <1>4, CollectorAssumption DEF TypeOK, Elapse, Times, detector, history
  <2>2. DetectorIsTrue'
    BY <2>1, CollectorAssumption DEF EvidenceInv, DetectorIsTrue, Truths, Times, None, Answer
  <2>3. QED
    BY <2>1, <2>2 DEF EvidenceInv, LocationIsTrue, Sends, Data
<1>5. CASE Restart
  <2>1. truth' = [answered |-> FALSE, seen |-> None, recent |-> FALSE, location |-> "REMOTE", player |-> Absent]
        /\ last' = Nowhere /\ pc' = "list"
    BY <1>5 DEF Restart, Unseen
  <2>2. QED
    BY <2>1 DEF EvidenceInv, DetectorIsTrue, Truths, Locations, Sends
<1>6. ASSUME StartRequest \/ StartSkip \/ Retry \/ FlushSent \/ FlushFails \/ ListenFails \/ Done
             \/ BrowserServerFails \/ ServerChanges \/ Cancel \/ UNCHANGED vars
      PROVE  EvidenceInv'
  <2>1. UNCHANGED <<now, loc, last, truth, sample>>
    BY <1>6 DEF StartRequest, StartSkip, Retry, FlushSent, FlushFails, ListenFails, Done, BrowserServerFails,
                ServerChanges, Cancel, vars, Idle, detector, history
  <2>2. (pc' \in Sends => pc \in Sends) /\ (pc' = "idle" => pc = "idle")
    BY <1>6 DEF StartRequest, StartSkip, Following, Retry, FlushSent, FlushFails, ListenFails, Done,
                BrowserServerFails, ServerChanges, Cancel, vars, Ends, Moves, Sends
  <2>3. QED
    BY <2>1, <2>2 DEF EvidenceInv, DetectorIsTrue, LocationIsTrue, Answer, Sends, Data
<1>7. QED
  BY <1>1, <1>2, <1>3, <1>4, <1>5, <1>6 DEF Next, Requests, Starts, Locates

(* What a report reads is what was written.                                 *)
LEMMA ReadAsWritten ==
  ASSUME loc \in Results, NEW says \in PlayerSays
  PROVE  LET read == ParseContext(sample.at, sample.at, Data(Player(says)))
         IN /\ read.evidence = loc.evidence /\ read.location = loc.location
            /\ read.passive["vlc"] = CASE says = "playing" -> "work" [] says = "paused" -> "idle"
                                        [] OTHER -> "unavailable"
            /\ read.health = "healthy" <=>
                 loc.evidence = "confirmed" /\ loc.health = "healthy" /\ says # "unreachable"
<1> DEFINE data == Data(Player(says))
           read == ParseContext(sample.at, sample.at, data)
<1>1. /\ data.version = 1 /\ data.location = loc.location /\ data.evidence = loc.evidence
      /\ data.network = loc.health /\ data.apps = [id \in {"vlc"} |-> AppData(Player(says))]
  BY DEF Data
<1>2. /\ AppData(Player(says)).available = (says # "unreachable")
      /\ AppData(Player(says)).passive = (says = "playing")
      /\ AppData(Player(says)) \in [available : BOOLEAN, passive : BOOLEAN]
  BY DEF AppData, Player, DeriveEvidence, Passive, PlayerStates, PlayerSays
<1>3. data.apps # Absent /\ DOMAIN data.apps = {"vlc"} /\ data.apps["vlc"] = AppData(Player(says))
  BY <1>1, <1>2, AbsentAssumption
<1>4. LocationEvidence(data) = loc.evidence /\ (NetworkHealthy(data) <=>
        loc.evidence = "confirmed" /\ loc.health = "healthy")
  BY <1>1, AbsentAssumption DEF LocationEvidence, NetworkHealthy, Results, Locations
<1>5. DecodeV1Evidence(data.apps) = [id \in {"vlc"} |-> Passive(says # "unreachable", says = "playing")]
  BY <1>2, <1>3 DEF DecodeV1Evidence
<1> HIDE DEF data
<1>6. /\ read.evidence = loc.evidence /\ read.location = loc.location
      /\ read.passive = [id \in {"vlc"} |-> Passive(says # "unreachable", says = "playing")]
      /\ read.health = IF NetworkHealthy(data) /\ Passive(says # "unreachable", says = "playing") # "unavailable"
                       THEN "healthy" ELSE "degraded"
  BY <1>1, <1>3, <1>4, <1>5 DEF ParseContext, Results, Locations
<1>7. QED
  BY <1>4, <1>6 DEF Passive, PlayerSays, data

(* What the collector writes of the location and the player is what it saw, *)
(* and what the classifier reads of it later is what was written, for every *)
(* staleness and every history of the network (Detector.Observe, appData,   *)
(* ParseContext).                                                           *)
THEOREM EvidenceIsAlwaysHonest == Spec => []EvidenceIsHonest
<1>1. TypeOK /\ EvidenceInv => EvidenceIsHonest
  <2> SUFFICES ASSUME TypeOK, EvidenceInv, pc \in {"flush", "heartbeat"}
               PROVE  EvidenceIsHonest
    BY DEF EvidenceIsHonest
  <2>1. /\ sample.data = Data(Player(truth.player)) /\ truth.player \in PlayerSays /\ LocationIsTrue
        /\ (truth.answered => truth.recent) /\ truth.answered \in BOOLEAN
    BY DEF EvidenceInv, Sends, DetectorIsTrue, Truths
  <2>2. loc \in Results
    BY DEF TypeOK
  <2>3. QED
    BY <2>1, <2>2, ReadAsWritten DEF EvidenceIsHonest, LocationIsTrue
<1>2. Init => TypeOK /\ EvidenceInv
  BY TypeInit, EvidenceInit
<1>3. TypeOK /\ EvidenceInv /\ [Next]_vars => (TypeOK /\ EvidenceInv)'
  BY TypeNext, EvidenceNext
<1>4. QED
  BY <1>1, <1>2, <1>3, PTL DEF Spec

-----------------------------------------------------------------------------
(* Every step of the collector is a step of what CollectorRun says of Run,  *)
(* or none: it leaves its loop for one of the reasons given there.  (That   *)
(* it does return is checked by TLC only.)                                  *)
LEMMA RunStep == [Next]_vars => [Run!RunNext]_Run!runVars
<1> USE DEF Run!RunNext, Run!runVars
<1> SUFFICES ASSUME [Next]_vars
             PROVE  [Run!RunNext]_Run!runVars
  OBVIOUS
<1>1. CASE StartRequest
  <2>1. CASE Ends("startup") /\ cancelled' = cancelled
    BY <1>1, <2>1 DEF StartRequest, Ends, Run!StartFails, Run!Returns
  <2>2. CASE Ends("interrupted") /\ cancelled /\ cancelled' = cancelled
    BY <1>1, <2>2 DEF StartRequest, Ends, Run!Interrupted, Run!Returns
  <2>3. CASE Moves(Following(pc)) /\ cancelled' = cancelled
    BY <1>1, <2>3 DEF StartRequest, Moves, Following
  <2>4. QED
    BY <1>1, <2>1, <2>2, <2>3 DEF StartRequest
<1>2. CASE StartSkip \/ Retry \/ FlushSent \/ FlushFails \/ HeartbeatSent \/ HeartbeatFails \/ Locates
           \/ Elapse \/ ServerChanges \/ UNCHANGED vars
  BY <1>2 DEF StartSkip, Following, Retry, FlushSent, FlushFails, HeartbeatSent, HeartbeatFails, Rests,
              Locates, Locate, Elapse, ServerChanges, vars, Moves, Idle
<1>3. CASE Polls
  BY <1>3 DEF Polls, Poll, FlushFirst, Moves
<1>4. ASSUME NEW gateway \in Gateways, Listen(gateway)
      PROVE  Run!Started
  BY <1>4 DEF Listen, Moves, Run!Started
<1>5. CASE ListenFails
  BY <1>5 DEF ListenFails, Ends, Idle, Run!StartFails, Run!Returns
<1>6. CASE BrowserServerFails
  BY <1>6 DEF BrowserServerFails, Ends, Idle, Run!Breaks, Run!Returns
<1>7. CASE Done
  BY <1>7 DEF Done, Ends, Idle, Run!Finish, Run!Returns
<1>8. CASE Cancel
  BY <1>8 DEF Cancel, Run!Cancel
<1>9. CASE Restart
  BY <1>9 DEF Restart, Run!Restart
<1>10. QED
  BY <1>1, <1>2, <1>3, <1>4, <1>5, <1>6, <1>7, <1>8, <1>9 DEF Next, Requests, Starts

THEOREM RefinesRun == Spec => Run!RunInit /\ [][Run!RunNext]_Run!runVars
<1>1. Init => Run!RunInit
  BY DEF Init, Run!RunInit
<1>2. QED
  BY <1>1, RunStep, PTL DEF Spec
=============================================================================
