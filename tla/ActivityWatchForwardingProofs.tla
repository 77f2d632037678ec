------------------- MODULE ActivityWatchForwardingProofs -------------------
(***************************************************************************)
(* Proofs about ActivityWatchForwarding, for every lookback and every      *)
(* delay of ActivityWatch and all weeks.  The invariant bounds how old an  *)
(* instant can be that ActivityWatch recorded only after the delivery, and *)
(* says that what the next poll does not reach is older than that, or      *)
(* exposed: the lookback covers the delay.                                 *)
(***************************************************************************)
EXTENDS ActivityWatchForwarding, TLAPS

(* ActivityWatch keeps its promise.                                         *)
RecordedInTime == \A t \in 0 .. now : t + MaxDelay < now => t \in recorded

(* What the last forwarded query could not find is recent.                  *)
LateIsRecent == \A t \in recorded \ offered : t + MaxDelay >= delivered

(* What the next poll does not reach was delivered or is exposed.           *)
LookbackSuffices == lastQuery # None => LeftBehind(lastQuery - Lookback) \subseteq exposed

(* A tick in the ticker's channel is not older than the last query.         *)
TickIsLater ==
  /\ tick # None => lastQuery # None
  /\ lastQuery # None /\ tick # None => lastQuery <= tick
  /\ lastQuery # None => delivered <= lastQuery

Inv ==
  /\ TypeOK /\ RecordedInTime /\ LateIsRecent /\ LookbackSuffices /\ TickIsLater
  /\ NoHole

LEMMA InvInit == Init => Inv
<1> SUFFICES ASSUME Init
             PROVE  Inv
  OBVIOUS
<1> USE LookbackAssumption, NowAssumption DEF Init
<1>1. now \in Instants /\ lastQuery = None /\ tick = None /\ delivered \in 0 .. now
  BY DEF Instants
<1>2. awUp \in BOOLEAN /\ coreUp \in BOOLEAN
  OBVIOUS
<1>3. TypeOK
  BY <1>1, <1>2 DEF TypeOK
<1>4. RecordedInTime /\ LateIsRecent /\ LookbackSuffices /\ NoHole /\ TickIsLater
  BY DEF RecordedInTime, LateIsRecent, LookbackSuffices, NoHole, TickIsLater
<1>5. QED
  BY <1>3, <1>4 DEF Inv

(* The first query of a process or a poll, up to "end", that was answered   *)
(* and delivered leaves the invariant true, if what it did not reach is     *)
(* exposed.                                                                 *)
LEMMA AfterForward ==
  ASSUME Inv, NEW start \in Int, NEW end \in 0 .. now, Forward(start, end),
         lastQuery' = end, tick' \in {tick, None}, tick' # None => end <= tick',
         UNCHANGED <<now, recorded, servers>>,
         exposed' \subseteq Instants,
         {t \in exposed \cup LeftBehind(start) : t < start} \subseteq exposed'
  PROVE  Inv'
<1>1. now \in Nat /\ Lookback \in Nat /\ MaxDelay \in Nat /\ MaxDelay <= Lookback
      /\ MaxNow \in Nat /\ now <= MaxNow /\ end \in Nat /\ delivered \in Nat
  BY LookbackAssumption, NowAssumption DEF Inv, TypeOK, Instants
<1>2. /\ stored' = stored \cup {t \in recorded : start <= t /\ t <= end}
      /\ offered' = {t \in recorded : t <= end} /\ delivered' = end
  BY DEF Forward
<1>3. awUp' = awUp /\ coreUp' = coreUp /\ now' = now /\ recorded' = recorded
  BY DEF servers
<1>4. recorded \subseteq Nat /\ \A t \in recorded : t <= MaxNow
  BY <1>1 DEF Inv, TypeOK
<1>5. TypeOK'
  <2>1. lastQuery' \in 0 .. now' /\ delivered' \in 0 .. now'
    BY <1>2, <1>3
  <2>2. now' \in Instants /\ recorded' \subseteq 0 .. now' /\ stored' \subseteq recorded'
        /\ (tick' = None \/ tick' \in 0 .. now')
    BY <1>2, <1>3 DEF Inv, TypeOK
  <2>3. awUp' \in BOOLEAN /\ coreUp' \in BOOLEAN
    BY <1>3 DEF Inv, TypeOK
  <2>4. QED
    BY <1>2, <1>3, <2>1, <2>2, <2>3 DEF TypeOK
<1>6. RecordedInTime'
  BY <1>3 DEF Inv, RecordedInTime
<1>7. LateIsRecent'
  BY <1>1, <1>2, <1>3, <1>4 DEF LateIsRecent
<1>8. LookbackSuffices'
  <2>1. \A t \in Instants : ~(end - MaxDelay <= t /\ t < end - Lookback)
    BY <1>1 DEF Instants
  <2>2. QED
    BY <1>2, <2>1 DEF LookbackSuffices, LeftBehind
<1>9. TickIsLater'
  BY <1>1, <1>2, NowAssumption DEF TickIsLater
<1>10. NoHole'
  <2> SUFFICES ASSUME NEW t \in recorded, t <= end, t \notin exposed'
               PROVE  t \in stored'
    BY <1>2 DEF NoHole
  <2>1. CASE start <= t
    BY <1>2, <2>1
  <2>2. CASE t < start
    <3>1. t \notin exposed /\ t \notin LeftBehind(start)
      BY <2>2
    <3>2. CASE t \in offered
      BY <1>2, <3>1, <3>2 DEF Inv, NoHole
    <3>3. CASE t \notin offered
      <4>1. t + MaxDelay >= delivered /\ t \in Nat /\ t <= MaxNow
        BY <1>4, <3>3 DEF Inv, LateIsRecent
      <4>2. t \in LeftBehind(start)
        BY <1>1, <2>2, <4>1 DEF LeftBehind, Instants
      <4>3. QED
        BY <3>1, <4>2
    <3>4. QED
      BY <3>2, <3>3
  <2>3. QED
    BY <1>4, <2>1, <2>2
<1>11. QED
  BY <1>5, <1>6, <1>7, <1>8, <1>9, <1>10 DEF Inv

(* So does a query whose answer was skipped.                                *)
LEMMA AfterSkip ==
  ASSUME Inv, NEW end \in 0 .. now, Skip(end), lastQuery' = end, delivered <= end,
         tick' \in {tick, None}, tick' # None => end <= tick',
         UNCHANGED <<now, recorded, servers>>
  PROVE  Inv'
<1>1. awUp' = awUp /\ coreUp' = coreUp /\ now' = now /\ recorded' = recorded
  BY DEF servers
<1>2. stored' = stored /\ offered' = offered /\ delivered' = delivered
      /\ exposed' = exposed \cup LeftBehind(end - Lookback)
  BY DEF Skip, ForwardNothing
<1>3. TypeOK'
  BY <1>1, <1>2 DEF Inv, TypeOK, LeftBehind
<1>4. RecordedInTime' /\ LateIsRecent'
  BY <1>1, <1>2 DEF Inv, RecordedInTime, LateIsRecent
<1>5. LookbackSuffices' /\ NoHole'
  BY <1>2 DEF Inv, LookbackSuffices, NoHole, LeftBehind
<1>6. TickIsLater'
  BY <1>2, NowAssumption DEF TickIsLater
<1>7. QED
  BY <1>3, <1>4, <1>5, <1>6 DEF Inv

LEMMA InvNext == Inv /\ [Next]_vars => Inv'
<1> SUFFICES ASSUME Inv, [Next]_vars
             PROVE  Inv'
  OBVIOUS
<1> USE LookbackAssumption, NowAssumption
<1> now \in Nat /\ MaxNow \in Nat /\ Lookback \in Nat /\ MaxDelay \in Nat /\ delivered \in Nat
  BY DEF Inv, TypeOK, Instants
<1>1. CASE Elapse
  <2>1. TypeOK'
    BY <1>1 DEF Elapse, Inv, TypeOK, Instants, servers, ghosts
  <2>2. RecordedInTime'
    <3>1. ASSUME NEW t \in 0 .. now + 1, t + MaxDelay < now + 1
          PROVE  t \in recorded
      <4>1. t \in 0 .. now /\ t + MaxDelay <= now
        BY <3>1
      <4>2. QED
        BY <1>1, <4>1 DEF Elapse
    <3>2. QED
      BY <1>1, <3>1 DEF Elapse, RecordedInTime
  <2>3. LateIsRecent' /\ LookbackSuffices' /\ NoHole' /\ TickIsLater'
    BY <1>1 DEF Elapse, Inv, LateIsRecent, LookbackSuffices, NoHole, TickIsLater,
                LeftBehind, servers, ghosts
  <2>4. QED
    BY <2>1, <2>2, <2>3 DEF Inv
<1>2. ASSUME NEW t \in 0 .. now, Record(t)
      PROVE  Inv'
  <2>1. t + MaxDelay >= now
    BY <1>2 DEF Inv, RecordedInTime, Record
  <2>2. delivered <= now
    BY DEF Inv, TypeOK
  <2>3. LateIsRecent'
    BY <1>2, <2>1, <2>2 DEF Inv, LateIsRecent, Record, ghosts
  <2>4. TypeOK' /\ RecordedInTime' /\ LookbackSuffices' /\ NoHole' /\ TickIsLater'
    BY <1>2 DEF Inv, TypeOK, RecordedInTime, LookbackSuffices, NoHole, TickIsLater,
                LeftBehind, Record, Instants, servers, ghosts
  <2>5. QED
    BY <2>3, <2>4 DEF Inv
<1>3. CASE Reachability
  BY <1>3 DEF Reachability, Inv, TypeOK, RecordedInTime, LateIsRecent, LookbackSuffices,
              NoHole, TickIsLater, LeftBehind, Instants, ghosts
<1>4. CASE InitialQuery
  <2>1. /\ now \in 0 .. now /\ lastQuery' = now /\ tick' \in {tick, None}
        /\ UNCHANGED <<now, recorded, servers>>
    BY <1>4 DEF InitialQuery
  <2>2. tick' = None /\ delivered <= now
    BY <1>4 DEF InitialQuery, Inv, TypeOK, TickIsLater
  <2>3. ASSUME NEW start \in WeekStarts, Forward(start, now),
               exposed' = {t \in exposed : t < start} \cup LeftBehind(start)
        PROVE  Inv'
    <3>1. start \in Int
      BY WeekAssumption DEF Instants
    <3>2. exposed' \subseteq Instants
      BY <2>3 DEF Inv, TypeOK, LeftBehind
    <3>3. {t \in exposed \cup LeftBehind(start) : t < start} \subseteq exposed'
      BY <2>3
    <3>4. QED
      BY <2>1, <2>2, <2>3, <3>1, <3>2, <3>3, AfterForward
  <2>4. CASE Skip(now)
    BY <2>1, <2>2, <2>4, AfterSkip
  <2>5. QED
    BY <1>4, <2>3, <2>4 DEF InitialQuery
<1>5. CASE Tick
  <2>1. tick' = now /\ UNCHANGED <<now, recorded, servers, lastQuery, stored, ghosts>>
        /\ lastQuery # None /\ lastQuery <= now
    BY <1>5 DEF Tick, Inv, TypeOK
  <2>2. TypeOK' /\ TickIsLater'
    BY <2>1 DEF Inv, TypeOK, TickIsLater, Instants, servers, ghosts
  <2>3. RecordedInTime' /\ LateIsRecent' /\ LookbackSuffices' /\ NoHole'
    BY <2>1 DEF Inv, RecordedInTime, LateIsRecent, LookbackSuffices, NoHole, LeftBehind, ghosts
  <2>4. QED
    BY <2>2, <2>3 DEF Inv
<1>6. CASE Poll
  <2>1. /\ lastQuery \in 0 .. now /\ tick \in 0 .. now /\ tick' = None
        /\ lastQuery <= tick /\ delivered <= tick
    BY <1>6 DEF Poll, Inv, TypeOK, TickIsLater
  <2>2. UNCHANGED <<now, recorded, servers>> /\ tick' \in {tick, None}
    BY <1>6 DEF Poll
  <2>3. CASE Forward(lastQuery - Lookback, tick) /\ lastQuery' = tick /\ exposed' = exposed
    <3>1. lastQuery - Lookback \in Int
      BY <2>1
    <3>2. LeftBehind(lastQuery - Lookback) \subseteq exposed
      BY <1>6 DEF Poll, Inv, LookbackSuffices
    <3>3. exposed' \subseteq Instants
      BY <2>3 DEF Inv, TypeOK
    <3>4. {t \in exposed \cup LeftBehind(lastQuery - Lookback) : t < lastQuery - Lookback}
            \subseteq exposed'
      BY <2>3, <3>2
    <3>5. QED
      BY <2>1, <2>2, <2>3, <3>1, <3>3, <3>4, AfterForward
  <2>4. CASE Skip(tick) /\ lastQuery' = tick
    BY <2>1, <2>2, <2>4, AfterSkip
  <2>5. CASE ForwardNothing /\ UNCHANGED <<lastQuery, exposed>>
    BY <2>1, <2>2, <2>5 DEF ForwardNothing, Inv, TypeOK, RecordedInTime, LateIsRecent,
                LookbackSuffices, NoHole, TickIsLater, LeftBehind, Instants, servers
  <2>6. QED
    BY <1>6, <2>3, <2>4, <2>5 DEF Poll
<1>7. CASE Restart
  BY <1>7 DEF Restart, Inv, TypeOK, RecordedInTime, LateIsRecent, LookbackSuffices, NoHole,
              TickIsLater, Instants, servers, ghosts
<1>8. CASE UNCHANGED vars
  BY <1>8 DEF vars, Inv, TypeOK, RecordedInTime, LateIsRecent, LookbackSuffices, NoHole,
              TickIsLater, LeftBehind, Instants, servers, ghosts
<1>9. QED
  BY <1>1, <1>2, <1>3, <1>4, <1>5, <1>6, <1>7, <1>8 DEF Next

LEMMA SpecInv == Spec => []Inv
  BY InvInit, InvNext, PTL DEF Spec

(* The variables keep their types; in particular Core stores only what      *)
(* ActivityWatch recorded.                                                  *)
THEOREM TypeCorrect == Spec => []TypeOK
<1>1. Inv => TypeOK
  BY DEF Inv
<1>2. QED
  BY <1>1, SpecInv, PTL

(* Forwarding leaves no hole but the exposed one, for every lookback that   *)
(* covers the delay of ActivityWatch and wherever the weeks start.          *)
THEOREM ForwardingLeavesNoHole == Spec => []NoHole
<1>1. Inv => NoHole
  BY DEF Inv
<1>2. QED
  BY <1>1, SpecInv, PTL
=============================================================================
