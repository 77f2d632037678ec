---------------------- MODULE ActivityWatchForwarding ----------------------
(***************************************************************************)
(* How the host agent brings the history of ActivityWatch to Core (Run and *)
(* acquireAndSend in internal/hostagent/agent.go).                         *)
(*                                                                         *)
(* On every poll the agent queries ActivityWatch from a while before its   *)
(* last query up to now and sends the answer to Core in one batch.  The    *)
(* query and the batch fail independently: a batch whose query failed is   *)
(* still sent, for the host context and the diagnostics it carries.  The   *)
(* first query of a process reaches back to the start of the reporting     *)
(* week it starts in, the others end at the tick that woke the agent,      *)
(* which may have waited in the ticker for a Send.                         *)
(*                                                                         *)
(* ActivityWatch is external: it records an instant of activity up to      *)
(* MaxDelay after it passed, and keeps it.  One instant stands for the     *)
(* events that cover it.                                                   *)
(***************************************************************************)
EXTENDS Integers

CONSTANTS
  None,        \* no first query yet, no tick
  Lookback,    \* max(2*StatusStale, 1 minute)
  MaxDelay,    \* how late ActivityWatch records an instant
  WeekStarts,  \* the instants at which a reporting week starts
  MaxNow       \* bound: the last instant

Instants == 0 .. MaxNow

ASSUME LookbackAssumption == Lookback \in Nat /\ MaxDelay \in 0 .. Lookback
ASSUME NowAssumption == MaxNow \in Nat /\ None \notin Int

StartsWeekOf(w, t) == w <= t /\ \A v \in WeekStarts : v <= t => v <= w

ASSUME WeekAssumption ==
  /\ WeekStarts \subseteq Instants
  /\ \A t \in Instants : \E w \in WeekStarts : StartsWeekOf(w, t)

VARIABLES
  now,
  recorded,   \* the instants ActivityWatch has recorded
  awUp,       \* whether ActivityWatch answers
  coreUp,     \* whether Core answers
  lastQuery,  \* Run's lastQuery
  tick,       \* the tick the poll ticker holds, or None
  stored,     \* the instants Core holds
  delivered,  \* the end of the last query Core was sent (not in the program)
  offered,    \* what that query could have found (not in the program)
  exposed     \* the instants that no query may have reached (not in the program)

servers == <<awUp, coreUp>>
ghosts == <<delivered, offered, exposed>>
vars == <<now, recorded, servers, lastQuery, tick, stored, ghosts>>

TypeOK ==
  /\ now \in Instants
  /\ recorded \subseteq 0 .. now
  /\ awUp \in BOOLEAN /\ coreUp \in BOOLEAN
  /\ lastQuery = None \/ lastQuery \in 0 .. now
  /\ tick = None \/ tick \in 0 .. now
  /\ stored \subseteq recorded
  /\ delivered \in 0 .. now
  /\ offered \subseteq recorded
  /\ exposed \subseteq Instants

Init ==
  /\ now = 0
  /\ recorded = {}
  /\ awUp \in BOOLEAN /\ coreUp \in BOOLEAN
  /\ lastQuery = None /\ tick = None
  /\ stored = {}
  /\ delivered = 0 /\ offered = {} /\ exposed = {}

-----------------------------------------------------------------------------
Elapse ==
  /\ now < MaxNow
  /\ \A t \in 0 .. now : t + MaxDelay <= now => t \in recorded
  /\ now' = now + 1
  /\ UNCHANGED <<recorded, servers, lastQuery, tick, stored, ghosts>>

Record(t) ==
  /\ t \notin recorded
  /\ recorded' = recorded \cup {t}
  /\ UNCHANGED <<now, servers, lastQuery, tick, stored, ghosts>>

Reachability ==
  /\ awUp' \in BOOLEAN /\ coreUp' \in BOOLEAN
  /\ UNCHANGED <<now, recorded, lastQuery, tick, stored, ghosts>>

(* The poll ticker fires; its channel holds one tick.                       *)
Tick ==
  /\ lastQuery # None /\ tick = None
  /\ tick' = now
  /\ UNCHANGED <<now, recorded, servers, lastQuery, stored, ghosts>>

(* The instants before "start" that were not in reach of the last query     *)
(* that was answered and delivered.                                         *)
LeftBehind(start) == {t \in Instants : delivered - MaxDelay <= t /\ t < start}

(* Variant: the whole period counts as observed.                            *)
ForwardPeriod(start, end) ==
  /\ awUp /\ coreUp
  /\ stored' = stored \cup {t \in 0 .. end : t >= start}
  /\ delivered' = end
  /\ offered' = {t \in recorded : t <= end}

(* acquireAndSend: both the query and the batch succeed.                    *)
Forward(start, end) ==
  /\ awUp /\ coreUp
  /\ stored' = stored \cup {t \in recorded : start <= t /\ t <= end}
  /\ delivered' = end
  /\ offered' = {t \in recorded : t <= end}

(* acquireAndSend without the answer of ActivityWatch, or without Core.     *)
ForwardNothing == UNCHANGED <<stored, delivered, offered>>

(* Once lastQuery is "end" and nothing was delivered, no later query of the *)
(* process reaches beyond the lookback before it.                           *)
Skip(end) == ForwardNothing /\ exposed' = exposed \cup LeftBehind(end - Lookback)

(* The first query: lastQuery advances whatever comes of it.  It reaches    *)
(* back to the start of this week; what was left of the last one stays.     *)
InitialQuery ==
  /\ lastQuery = None
  /\ lastQuery' = now
  /\ \/ \E start \in WeekStarts :
          /\ StartsWeekOf(start, now)
          /\ Forward(start, now)
          /\ exposed' = {t \in exposed : t < start} \cup LeftBehind(start)
     \/ ~(awUp /\ coreUp) /\ Skip(now)
  /\ UNCHANGED <<now, recorded, servers, tick>>

(* Variant: the query starts where the last one ended.                      *)
PollWithoutLookback ==
  /\ lastQuery # None /\ tick # None
  /\ tick' = None
  /\ \/ Forward(lastQuery, tick) /\ lastQuery' = tick /\ UNCHANGED exposed
     \/ ~awUp /\ coreUp /\ Skip(tick) /\ lastQuery' = tick
     \/ ~coreUp /\ ForwardNothing /\ UNCHANGED <<lastQuery, exposed>>
  /\ UNCHANGED <<now, recorded, servers>>

(* Variant: lastQuery advances although Core did not take the batch.        *)
PollAlwaysAdvances ==
  /\ lastQuery # None /\ tick # None
  /\ tick' = None
  /\ lastQuery' = tick
  /\ \/ Forward(lastQuery - Lookback, tick) /\ UNCHANGED exposed
     \/ ~awUp /\ coreUp /\ Skip(tick)
     \/ ~coreUp /\ ForwardNothing /\ UNCHANGED exposed
  /\ UNCHANGED <<now, recorded, servers>>

(* A poll up to its tick: lastQuery advances when Core took the batch, also *)
(* one without the answer of ActivityWatch.                                 *)
Poll ==
  /\ lastQuery # None /\ tick # None
  /\ tick' = None
  /\ \/ Forward(lastQuery - Lookback, tick) /\ lastQuery' = tick /\ UNCHANGED exposed
     \/ ~awUp /\ coreUp /\ Skip(tick) /\ lastQuery' = tick
     \/ ~coreUp /\ ForwardNothing /\ UNCHANGED <<lastQuery, exposed>>
  /\ UNCHANGED <<now, recorded, servers>>

Restart ==
  /\ lastQuery' = None /\ tick' = None
  /\ UNCHANGED <<now, recorded, servers, stored, ghosts>>

Next ==
  \/ Elapse
  \/ \E t \in 0 .. now : Record(t)
  \/ Reachability
  \/ InitialQuery \/ Tick \/ Poll
  \/ Restart

Spec == Init /\ [][Next]_vars

(* Time passes, ActivityWatch records, and the ticker keeps polling.        *)
Fairness ==
  /\ WF_vars(Elapse)
  /\ WF_vars(\E t \in 0 .. now : Record(t))
  /\ WF_vars(Tick)
  /\ WF_vars(InitialQuery \/ Poll)

FairSpec == Spec /\ Fairness

-----------------------------------------------------------------------------
(* Whatever the last forwarded query could have found is in Core, late      *)
(* records included, but for instants that an outage left out of reach: no  *)
(* outage of Core, however long, leaves a hole while the agent runs; one of *)
(* ActivityWatch leaves one where batches without its answer reach more     *)
(* than Lookback - MaxDelay beyond the last one with it, and a restart      *)
(* closes that only back to the start of the week it happens in.            *)
NoHole == offered \ exposed \subseteq stored

(* When both servers stay up, Core catches up: every instant recorded       *)
(* becomes stored, unless it was out of reach, whatever restarts.           *)
CatchesUp ==
  <>[](awUp /\ coreUp) =>
    \A t \in Instants : t \in recorded ~> t \in stored \cup exposed
=============================================================================
