------------------------- MODULE NativeWatcherProofs -------------------------
(***************************************************************************)
(* Proofs about the native watcher (internal/nativewatcher).               *)
(*                                                                         *)
(* NativeAcquisition, for every gap that is tolerated and any number of    *)
(* samples: the types, that Core holds no time that was not observed, and  *)
(* that the stored intervals of a stream are disjoint as long as the clock *)
(* was not set back.                                                       *)
(*                                                                         *)
(* SessionMonitor, for any number of lock changes.  Its invariant says     *)
(* what the state may be behind by: the notifications that are still       *)
(* queued, the last of which is the present; and, before the first of      *)
(* them, a probe whose answer is still valid.                              *)
(***************************************************************************)
EXTENDS NativeAcquisition, SessionMonitor, SequenceTheorems, TLAPS

-----------------------------------------------------------------------------
(* The acquisition.                                                         *)

Flying == IF sending = None THEN {} ELSE sending
Known == core \cup Flying

Times(f) ==
  /\ f.stream \in {"windows", "afk"}
  /\ f.key[1] \in Instants /\ f.end \in Instants /\ f.key[1] <= f.end

Types ==
  /\ TypeOK
  /\ \A f \in Known : Times(f)
  /\ window # None => lastPoll # None /\ window.start \in Instants /\ window.start <= lastPoll
  /\ afk # None => lastPoll # None /\ afk.start \in Instants /\ afk.start <= lastPoll

-----------------------------------------------------------------------------
(* An open interval is a run of samples up to the last one, and a fact is   *)
(* such a run up to some sample.                                            *)
Reaches(samples, stream, i, j) ==
  \A k \in i + 1 .. j :
    /\ samples[k][stream] = samples[i][stream]
    /\ samples[k].at - samples[k - 1].at \in 0 .. MaxGap
    /\ ~samples[k].first
Seen(samples, stream, key, start, j) ==
  \E i \in 1 .. j :
    /\ Reaches(samples, stream, i, j)
    /\ samples[j][stream] = key /\ samples[i].at = start
Observed(samples, f) ==
  \E j \in 1 .. Len(samples) : \E i \in 1 .. j :
    /\ Reaches(samples, f.stream, i, j) /\ Says(samples[j], f)
    /\ samples[i].at = f.key[1] /\ samples[j].at = f.end

AllObserved ==
  /\ lastPoll # None => history # <<>> /\ history[Len(history)].at = lastPoll
  /\ window # None => Seen(history, "windows", window.key, window.start, Len(history))
  /\ afk # None => Seen(history, "afk", afk.key, afk.start, Len(history))
  /\ \A f \in Known : Observed(history, f)

-----------------------------------------------------------------------------
(* While the clock only advances, what is known ended before the tick that  *)
(* waits, and before the open interval of its stream, unless it is the      *)
(* interval itself.                                                         *)
Chronology ==
  /\ tick # None => tick <= now
  /\ lastPoll # None => lastPoll <= now /\ (tick # None => lastPoll <= tick)
  /\ \A f \in Known : f.end <= now /\ (tick # None => f.end <= tick)
BeforeOpen(f) ==
  /\ f.stream = "windows" /\ window # None =>
       f.end <= window.start \/ f.key = <<window.start, window.key[1]>>
  /\ f.stream = "afk" /\ afk # None =>
       f.end <= afk.start \/ f.key = <<afk.start, afk.key>>
Apart(f, g) == f.end <= g.key[1] \/ g.end <= f.key[1]
AllApart ==
  /\ \A f \in Known : BeforeOpen(f)
  /\ \A f, g \in Known : f.stream = g.stream => f.key = g.key \/ Apart(f, g)
Unique(facts) == \A f, g \in facts : f.stream = g.stream /\ f.key = g.key => f = g

InvApart == Unique(core) /\ Unique(Flying) /\ (steps = 0 => Chronology /\ AllApart)

Inv == Types /\ AllObserved /\ InvApart

-----------------------------------------------------------------------------
(* A sample that is added changes nothing of those before.                  *)
LEMMA Appended ==
  ASSUME NEW samples \in Seq(Sample), NEW new \in Sample
  PROVE  /\ Append(samples, new) \in Seq(Sample) /\ Append(samples, new) # <<>>
         /\ Len(Append(samples, new)) = Len(samples) + 1 /\ Len(samples) \in Nat
         /\ \A k \in 1 .. Len(samples) : Append(samples, new)[k] = samples[k]
         /\ Append(samples, new)[Len(samples) + 1] = new
  OBVIOUS

LEMMA ReachesStays ==
  ASSUME NEW samples \in Seq(Sample), NEW new \in Sample, NEW stream,
         NEW j \in 1 .. Len(samples), NEW i \in 1 .. j, Reaches(samples, stream, i, j)
  PROVE  Reaches(Append(samples, new), stream, i, j)
<1> DEFINE longer == Append(samples, new)
<1>1. \A k \in 1 .. Len(samples) : longer[k] = samples[k]
  BY Appended
<1>2. Len(samples) \in Nat
  OBVIOUS
<1> HIDE DEF longer
<1>3. ASSUME NEW k \in i + 1 .. j
      PROVE  /\ longer[k][stream] = longer[i][stream]
             /\ longer[k].at - longer[k - 1].at \in 0 .. MaxGap
             /\ ~longer[k].first
  <2>1. k \in 1 .. Len(samples) /\ k - 1 \in 1 .. Len(samples) /\ i \in 1 .. Len(samples)
    BY <1>2
  <2>2. longer[k] = samples[k] /\ longer[k - 1] = samples[k - 1] /\ longer[i] = samples[i]
    BY <1>1, <2>1
  <2>3. QED
    BY <2>2 DEF Reaches
<1>4. QED
  BY <1>3 DEF Reaches, longer

LEMMA ObservedStays ==
  ASSUME NEW samples \in Seq(Sample), NEW new \in Sample, NEW f, Observed(samples, f)
  PROVE  Observed(Append(samples, new), f)
<1>1. PICK j \in 1 .. Len(samples) : \E i \in 1 .. j :
        /\ Reaches(samples, f.stream, i, j) /\ Says(samples[j], f)
        /\ samples[i].at = f.key[1] /\ samples[j].at = f.end
  BY DEF Observed
<1>2. PICK i \in 1 .. j :
        /\ Reaches(samples, f.stream, i, j) /\ Says(samples[j], f)
        /\ samples[i].at = f.key[1] /\ samples[j].at = f.end
  BY <1>1
<1>3. Reaches(Append(samples, new), f.stream, i, j)
  BY <1>2, ReachesStays
<1>4. /\ i \in 1 .. Len(samples) /\ j \in 1 .. Len(Append(samples, new))
      /\ Append(samples, new)[i] = samples[i] /\ Append(samples, new)[j] = samples[j]
  BY Appended
<1>5. QED
  BY <1>2, <1>3, <1>4 DEF Observed

(* An interval that is kept is a longer run, a new one a run of one sample. *)
LEMMA SeenGrows ==
  ASSUME NEW samples \in Seq(Sample), samples # <<>>, NEW new \in Sample, NEW stream, NEW key, NEW start,
         Seen(samples, stream, key, start, Len(samples)),
         new[stream] = key, ~new.first, new.at - samples[Len(samples)].at \in 0 .. MaxGap
  PROVE  Seen(Append(samples, new), stream, key, start, Len(samples) + 1)
<1> DEFINE n == Len(samples)
           longer == Append(samples, new)
<1>1. PICK i \in 1 .. n : /\ Reaches(samples, stream, i, n)
                          /\ samples[n][stream] = key /\ samples[i].at = start
  BY DEF Seen
<1>2. n \in Nat \ {0} /\ n \in 1 .. n
  OBVIOUS
<1>3. /\ Reaches(longer, stream, i, n) /\ longer[n] = samples[n] /\ longer[i] = samples[i]
      /\ longer[n + 1] = new
  BY <1>1, <1>2, ReachesStays, Appended
<1> HIDE DEF longer, n
<1>4. longer[i][stream] = key
  <2>1. CASE i = n
    BY <1>1, <1>3, <2>1
  <2>2. CASE i # n
    <3>1. n \in i + 1 .. n
      BY <1>2, <2>2
    <3>2. QED
      BY <1>1, <1>3, <3>1 DEF Reaches
  <2>3. QED
    BY <2>1, <2>2
<1>5. ASSUME NEW k \in i + 1 .. n + 1
      PROVE  /\ longer[k][stream] = longer[i][stream]
             /\ longer[k].at - longer[k - 1].at \in 0 .. MaxGap
             /\ ~longer[k].first
  <2>1. CASE k = n + 1
    <3>1. k - 1 = n
      BY <1>2, <2>1
    <3>2. longer[k] = new /\ longer[k - 1] = samples[n]
      BY <1>3, <2>1, <3>1
    <3>3. QED
      BY <1>4, <3>2 DEF n
  <2>2. CASE k # n + 1
    <3>1. k \in i + 1 .. n
      BY <1>2, <2>2
    <3>2. QED
      BY <1>3, <3>1 DEF Reaches
  <2>3. QED
    BY <2>1, <2>2
<1>6. Reaches(longer, stream, i, n + 1)
  BY <1>5 DEF Reaches
<1>7. i \in 1 .. n + 1
  BY <1>2
<1>8. longer[n + 1][stream] = key /\ longer[i].at = start
  BY <1>1, <1>3
<1>9. QED
  BY <1>6, <1>7, <1>8 DEF Seen, longer, n

LEMMA SeenBegins ==
  ASSUME NEW samples \in Seq(Sample), NEW new \in Sample, NEW stream
  PROVE  Seen(Append(samples, new), stream, new[stream], new.at, Len(samples) + 1)
<1> DEFINE n == Len(samples) + 1
<1>1. n \in Nat /\ n \in 1 .. n /\ Append(samples, new)[n] = new
  BY Appended
<1>2. Reaches(Append(samples, new), stream, n, n)
  BY <1>1 DEF Reaches
<1>3. QED
  BY <1>1, <1>2 DEF Seen

(* The facts of a sample say what the open intervals are.                   *)
LEMMA WindowIsObserved ==
  ASSUME NEW samples \in Seq(Sample), samples # <<>>, NEW w, NEW at, w.key = <<w.key[1], w.key[2]>>,
         Seen(samples, "windows", w.key, w.start, Len(samples)), samples[Len(samples)].at = at
  PROVE  Observed(samples, WindowFact(w, at))
<1> DEFINE n == Len(samples)
           f == WindowFact(w, at)
<1>1. f.stream = "windows" /\ f.key[1] = w.start /\ f.key[2] = w.key[1] /\ f.data = w.key[2] /\ f.end = at
  BY DEF WindowFact
<1>2. n \in 1 .. n
  OBVIOUS
<1>3. PICK i \in 1 .. n : /\ Reaches(samples, "windows", i, n)
                          /\ samples[n]["windows"] = w.key /\ samples[i].at = w.start
  BY DEF Seen
<1>4. Says(samples[n], f)
  BY <1>1, <1>3 DEF Says
<1>5. QED
  BY <1>1, <1>2, <1>3, <1>4 DEF Observed

LEMMA AFKIsObserved ==
  ASSUME NEW samples \in Seq(Sample), samples # <<>>, NEW a, NEW at,
         Seen(samples, "afk", a.key, a.start, Len(samples)), samples[Len(samples)].at = at
  PROVE  Observed(samples, AFKFact(a, at))
<1> DEFINE n == Len(samples)
           f == AFKFact(a, at)
<1>1. f.stream = "afk" /\ f.key[1] = a.start /\ f.key[2] = a.key /\ f.end = at
  BY DEF AFKFact
<1>2. n \in 1 .. n
  OBVIOUS
<1>3. PICK i \in 1 .. n : /\ Reaches(samples, "afk", i, n)
                          /\ samples[n]["afk"] = a.key /\ samples[i].at = a.start
  BY DEF Seen
<1>4. Says(samples[n], f)
  BY <1>1, <1>3 DEF Says
<1>5. QED
  BY <1>1, <1>2, <1>3, <1>4 DEF Observed

-----------------------------------------------------------------------------
LEMMA InvInit == Init => Inv
<1> SUFFICES ASSUME Init
             PROVE  Inv
  OBVIOUS
<1> USE BoundsAssumption DEF Init
<1>1. Known = {} /\ Flying = {} /\ core = {}
  BY DEF Known, Flying
<1>2. TypeOK
  BY DEF TypeOK, Instants, Interval
<1>3. Types /\ AllObserved
  BY <1>1, <1>2 DEF Types, AllObserved
<1>4. InvApart
  BY <1>1 DEF InvApart, Unique, Chronology, AllApart
<1>5. QED
  BY <1>3, <1>4 DEF Inv

(* A sample.                                                                *)
LEMMA InvObserve ==
  ASSUME Inv, NEW desktop \in Sessions, NEW foreground \in Foregrounds, NEW idle \in IdleReadings,
         Observe(desktop, foreground, idle)
  PROVE  Inv'
<1> DEFINE at == tick
           key == ForegroundKey(desktop, foreground)
           new == [at |-> at, first |-> Booting, windows |-> key, afk |-> idle]
           n == Len(history)
           before(interval) == IF Unbroken(at) THEN interval ELSE None
<1>1. /\ at \in Instants /\ sending = None /\ UNCHANGED <<now, steps, core>> /\ lastPoll' = at /\ tick' = None
      /\ window' = Update(before(window), key, at) /\ afk' = Update(before(afk), idle, at)
      /\ sending' = Facts(window', afk', at) /\ history' = Append(history, new)
  BY DEF Observe, clock, Inv, Types, TypeOK
<1>2. key \in WindowKeys /\ (key # None => key = <<key[1], key[2]>>)
  <2>1. key \in WindowKeys
    BY DEF WindowKeys
  <2>2. key # None => key = <<key[1], key[2]>>
    BY DEF ForegroundKey
  <2>3. QED
    BY <2>1, <2>2
<1>3. new \in Sample /\ history \in Seq(Sample)
  BY <1>1, <1>2 DEF Sample, Booting, Inv, Types, TypeOK
<1>4. /\ history' \in Seq(Sample) /\ history' # <<>> /\ Len(history') = n + 1 /\ history'[n + 1] = new
      /\ n + 1 \in Nat
  BY <1>1, <1>3, Appended
<1>5. Known = core /\ \A f \in core : f \in Known
  BY <1>1 DEF Known, Flying
<1>6. window' # None =>
        /\ window'.key = key /\ key # None /\ window' = [key |-> key, start |-> window'.start]
        /\ \/ window = window' /\ ~Booting /\ at - lastPoll \in 0 .. MaxGap
           \/ window'.start = at
  BY <1>1 DEF Update, Unbroken, Inv, Types, TypeOK, Interval, Booting
<1>7. afk' # None =>
        /\ afk'.key = idle /\ idle # None /\ afk' = [key |-> idle, start |-> afk'.start]
        /\ \/ afk = afk' /\ ~Booting /\ at - lastPoll \in 0 .. MaxGap
           \/ afk'.start = at
  BY <1>1 DEF Update, Unbroken, Inv, Types, TypeOK, Interval, Booting
<1>8. \A f \in Flying' : \/ window' # None /\ f = WindowFact(window', at)
                         \/ afk' # None /\ f = AFKFact(afk', at)
  BY <1>1 DEF Flying, Facts
<1> HIDE DEF key, before
<1>9. window' # None => window'.start \in Instants /\ window'.start <= at
  BY <1>1, <1>6, BoundsAssumption DEF Inv, Types, TypeOK, Booting, Instants
<1>10. afk' # None => afk'.start \in Instants /\ afk'.start <= at
  BY <1>1, <1>7, BoundsAssumption DEF Inv, Types, TypeOK, Booting, Instants
<1>11. \A f \in Flying' : Times(f)' /\ f.end = at
  BY <1>1, <1>8, <1>9, <1>10 DEF Times, WindowFact, AFKFact
<1>12. Types'
  <2>1. window' \in Interval(WindowKeys)
    BY <1>2, <1>6, <1>9 DEF Interval
  <2>2. afk' \in Interval(IdleReadings)
    BY <1>7, <1>10 DEF Interval
  <2>3. \A f \in sending' : f.end = at
    BY <1>1 DEF Facts, WindowFact, AFKFact
  <2>4. TypeOK'
    BY <1>1, <1>4, <2>1, <2>2, <2>3 DEF Inv, Types, TypeOK, Instants, Interval, WindowKeys, Sample
  <2>5. \A f \in Known' : Times(f)'
    BY <1>1, <1>5, <1>11 DEF Known, Inv, Types, Times, Instants
  <2>6. lastPoll' # None
    BY <1>1 DEF Observe
  <2>7. QED
    BY <1>1, <1>9, <1>10, <2>4, <2>5, <2>6 DEF Types, Instants
<1>13. window' # None => Seen(history', "windows", window'.key, window'.start, n + 1)
  <2>1. CASE window' # None /\ window = window' /\ ~Booting /\ at - lastPoll \in 0 .. MaxGap
    <3>1. /\ history # <<>> /\ history[n].at = lastPoll /\ Seen(history, "windows", window.key, window.start, n)
          /\ new["windows"] = window.key /\ ~new.first
      BY <1>6, <2>1 DEF Inv, AllObserved, Booting
    <3>2. QED
      BY <1>1, <1>3, <2>1, <3>1, SeenGrows
  <2>2. CASE window' # None /\ window'.start = at
    <3>1. new["windows"] = window'.key /\ new.at = window'.start
      BY <1>6, <2>2
    <3>2. QED
      BY <1>1, <1>3, <3>1, SeenBegins
  <2>3. QED
    BY <1>6, <2>1, <2>2
<1>14. afk' # None => Seen(history', "afk", afk'.key, afk'.start, n + 1)
  <2>1. CASE afk' # None /\ afk = afk' /\ ~Booting /\ at - lastPoll \in 0 .. MaxGap
    <3>1. /\ history # <<>> /\ history[n].at = lastPoll /\ Seen(history, "afk", afk.key, afk.start, n)
          /\ new["afk"] = afk.key /\ ~new.first
      BY <1>7, <2>1 DEF Inv, AllObserved, Booting
    <3>2. QED
      BY <1>1, <1>3, <2>1, <3>1, SeenGrows
  <2>2. CASE afk' # None /\ afk'.start = at
    <3>1. new["afk"] = afk'.key /\ new.at = afk'.start
      BY <1>7, <2>2
    <3>2. QED
      BY <1>1, <1>3, <3>1, SeenBegins
  <2>3. QED
    BY <1>7, <2>1, <2>2
<1>15. \A f \in Flying' : Observed(history', f)
  <2>1. history'[Len(history')].at = at
    BY <1>4
  <2>2. window' # None => Observed(history', WindowFact(window', at))
    <3> SUFFICES ASSUME window' # None PROVE Observed(history', WindowFact(window', at))
      OBVIOUS
    <3>1. window'.key = <<window'.key[1], window'.key[2]>>
      BY <1>2, <1>6
    <3>2. QED
      BY <1>4, <1>13, <2>1, <3>1, WindowIsObserved
  <2>3. afk' # None => Observed(history', AFKFact(afk', at))
    BY <1>4, <1>14, <2>1, AFKIsObserved
  <2>4. QED
    BY <1>8, <2>2, <2>3
<1>16. AllObserved'
  <2>1. \A f \in core : Observed(history', f)
    BY <1>1, <1>3, <1>5, ObservedStays DEF Inv, AllObserved
  <2>2. \A f \in Known' : Observed(history', f)
    BY <1>1, <1>15, <2>1 DEF Known
  <2>3. QED
    BY <1>1, <1>4, <1>13, <1>14, <2>2 DEF AllObserved
<1>17. Unique(core)' /\ Unique(Flying)'
  <2>1. Unique(core)'
    BY <1>1 DEF Inv, InvApart, Unique
  <2>2. ASSUME NEW f \in Flying', NEW g \in Flying', f.stream = g.stream, f.key = g.key
        PROVE  f = g
    <3>1. \A h \in Flying' : \/ h = WindowFact(window', at) /\ h.stream = "windows"
                             \/ h = AFKFact(afk', at) /\ h.stream = "afk"
      BY <1>8 DEF WindowFact, AFKFact
    <3>2. CASE f.stream = "windows"
      BY <2>2, <3>1, <3>2
    <3>3. CASE f.stream = "afk"
      BY <2>2, <3>1, <3>3
    <3>4. QED
      BY <3>1, <3>2, <3>3
  <2>3. QED
    BY <2>1, <2>2 DEF Unique
<1>18. ASSUME steps = 0
       PROVE  Chronology' /\ AllApart'
  <2>1. Chronology /\ AllApart
    BY <1>18 DEF Inv, InvApart
  <2>2. at <= now /\ \A f \in core : f.end <= at /\ f.end <= now
    BY <1>1, <1>5, <2>1 DEF Chronology, Observe
  <2>3. Chronology'
    BY <1>1, <1>11, <2>2 DEF Chronology, Known
  <2>4. \A f \in core : BeforeOpen(f)'
    BY <1>1, <1>5, <1>6, <1>7, <2>1, <2>2 DEF BeforeOpen, AllApart
  <2>5. \A f \in Flying' : BeforeOpen(f)'
    BY <1>8 DEF BeforeOpen, WindowFact, AFKFact
  <2>6. \A f \in core, g \in Flying' : f.stream = g.stream => f.key = g.key \/ f.end <= g.key[1]
    BY <1>8, <2>4 DEF BeforeOpen, WindowFact, AFKFact
  <2>7. \A f, g \in Flying' : f.stream = g.stream => f.key = g.key
    BY <1>8 DEF WindowFact, AFKFact
  <2>8. \A f, g \in core : f.stream = g.stream => f.key = g.key \/ Apart(f, g)
    BY <1>5, <2>1 DEF AllApart
  <2>9. AllApart'
    BY <1>1, <2>4, <2>5, <2>6, <2>7, <2>8 DEF AllApart, Known, Apart
  <2>10. QED
    BY <2>3, <2>9
<1>19. QED
  BY <1>1, <1>12, <1>16, <1>17, <1>18 DEF Inv, InvApart

(* Core merges the batch: what it then knows was known before.              *)
LEMMA MergeKeepsUnique ==
  ASSUME NEW old, NEW new, Unique(old), Unique(new)
  PROVE  Core!Merge(old, new) \subseteq old \cup new /\ Unique(Core!Merge(old, new))
BY DEF Unique, Core!Merge, Core!Same

LEMMA InvDelivered == Inv /\ (Delivered \/ Lost) => Inv'
<1> SUFFICES ASSUME Inv, Delivered \/ Lost
             PROVE  Inv'
  OBVIOUS
<1>1. /\ UNCHANGED <<now, steps, tick, lastPoll, window, afk, history>> /\ sending' = None /\ sending # None
      /\ core' \subseteq core \cup sending /\ Unique(core')
  <2>1. CASE Delivered
    <3>1. Unique(core) /\ Unique(sending)
      BY <2>1 DEF Inv, InvApart, Delivered, Flying
    <3>2. QED
      BY <2>1, <3>1, MergeKeepsUnique DEF Delivered, clock, watcher
  <2>2. CASE Lost
    BY <2>2 DEF Lost, clock, watcher, Inv, InvApart
  <2>3. QED
    BY <2>1, <2>2
<1>2. Known' = core' /\ Flying' = {} /\ Known' \subseteq Known
  BY <1>1 DEF Known, Flying
<1>3. Types'
  <2>1. \A f \in Known' : Times(f)'
    BY <1>1, <1>2 DEF Inv, Types, Times, Instants
  <2>2. TypeOK'
    BY <1>1, <1>2, <2>1 DEF Inv, Types, TypeOK, Times, Instants, Interval, WindowKeys, Sample
  <2>3. QED
    BY <1>1, <2>1, <2>2 DEF Inv, Types, Instants
<1>4. AllObserved'
  BY <1>1, <1>2 DEF Inv, AllObserved
<1>5. InvApart'
  BY <1>1, <1>2 DEF Inv, InvApart, Unique, Chronology, AllApart, BeforeOpen
<1>6. QED
  BY <1>3, <1>4, <1>5 DEF Inv

(* The clock moves; the ticker follows it.                                  *)
LEMMA InvClock == Inv /\ (Elapse \/ Sleep \/ SetClockBack) => Inv'
<1> SUFFICES ASSUME Inv, Elapse \/ Sleep \/ SetClockBack
             PROVE  Inv'
  OBVIOUS
<1>1. /\ UNCHANGED <<sending, lastPoll, window, afk, core, history>> /\ now' \in Instants
      /\ steps' \in 0 .. 1 /\ tick' \in Instants \cup {None}
      /\ steps' = 0 => /\ steps = 0 /\ now <= now'
                       /\ tick' = tick \/ (tick = None /\ tick' = now')
  BY BoundsAssumption DEF Elapse, Sleep, SetClockBack, watcher, Inv, Types, TypeOK, Instants
<1>2. Known' = Known /\ Flying' = Flying
  BY <1>1 DEF Known, Flying
<1>3. Types'
  BY <1>1, <1>2 DEF Inv, Types, TypeOK, Times, Instants, Interval, WindowKeys, Sample
<1>4. AllObserved'
  BY <1>1, <1>2 DEF Inv, AllObserved
<1>5. ASSUME steps' = 0
      PROVE  Chronology' /\ AllApart'
  <2>1. Chronology /\ AllApart
    BY <1>1, <1>5 DEF Inv, InvApart
  <2>2. AllApart'
    BY <1>1, <1>2, <2>1 DEF AllApart, BeforeOpen
  <2>3. now \in Int /\ now' \in Int /\ now <= now' /\ (lastPoll # None => lastPoll \in Int)
        /\ \A f \in Known : f.end \in Int
    BY <1>1, <1>5, BoundsAssumption DEF Inv, Types, TypeOK, Times, Instants
  <2>4. Chronology'
    BY <1>1, <1>2, <1>5, <2>1, <2>3 DEF Chronology
  <2>5. QED
    BY <2>2, <2>4
<1>6. QED
  BY <1>1, <1>2, <1>3, <1>4, <1>5 DEF Inv, InvApart

LEMMA InvRestart == Inv /\ Restart => Inv'
<1> SUFFICES ASSUME Inv, Restart
             PROVE  Inv'
  OBVIOUS
<1>1. /\ UNCHANGED <<now, steps, core, history>> /\ tick' = now /\ sending' = None
      /\ lastPoll' = None /\ window' = None /\ afk' = None
  BY DEF Restart, clock
<1>2. Known' = core /\ Flying' = {} /\ core \subseteq Known
  BY <1>1 DEF Known, Flying
<1>3. Types'
  BY <1>1, <1>2 DEF Inv, Types, TypeOK, Times, Instants, Interval, Sample, WindowKeys
<1>4. AllObserved'
  BY <1>1, <1>2 DEF Inv, AllObserved
<1>5. InvApart'
  BY <1>1, <1>2, BoundsAssumption
  DEF Inv, InvApart, Unique, Chronology, AllApart, BeforeOpen, Types, TypeOK, Instants
<1>6. QED
  BY <1>3, <1>4, <1>5 DEF Inv

LEMMA InvNext == Inv /\ [Next]_vars => Inv'
<1> SUFFICES ASSUME Inv, [Next]_vars
             PROVE  Inv'
  OBVIOUS
<1>1. CASE UNCHANGED vars
  <2>1. UNCHANGED <<now, steps, tick, sending, lastPoll, window, afk, core, history>>
    BY <1>1 DEF vars, clock, watcher
  <2>2. Known' = Known /\ Flying' = Flying
    BY <2>1 DEF Known, Flying
  <2>3. Types'
    BY <2>1, <2>2 DEF Inv, Types, TypeOK, Times, Instants, Interval, WindowKeys, Sample
  <2>4. AllObserved' /\ InvApart'
    BY <2>1, <2>2 DEF Inv, AllObserved, InvApart, Unique, Chronology, AllApart, BeforeOpen
  <2>5. QED
    BY <2>3, <2>4 DEF Inv
<1>2. CASE Next
  BY <1>2, InvObserve, InvDelivered, InvClock, InvRestart DEF Next
<1>3. QED
  BY <1>1, <1>2

-----------------------------------------------------------------------------
(* The invariant from which the properties follow.                          *)
THEOREM SpecInv == Spec => []Inv
BY InvInit, InvNext, PTL DEF Spec

(* Core holds no time that was not observed, whatever was missed, lost,     *)
(* delayed or restarted, and whichever way the clock was set, for every     *)
(* tolerated gap (Watcher.Observe, intervalState.update, Store.Ingest).     *)
THEOREM StoredIsObserved == Spec => []StoredTimeWasObserved
<1>1. Inv => StoredTimeWasObserved
  BY DEF Inv, AllObserved, Known, Observed, Reaches, StoredTimeWasObserved, Run
<1>2. QED
  BY <1>1, SpecInv, PTL

(* The variables keep their types, and no two stored intervals of a stream  *)
(* overlap as long as the clock was not set back.                           *)
THEOREM IntervalsStaySound == Spec => []IntervalsAreSound
<1>1. Inv => IntervalsAreSound
  <2> SUFFICES ASSUME Inv, steps = 0, NEW f \in core, NEW g \in core, f.stream = g.stream, f # g
               PROVE  f.end <= g.key[1] \/ g.end <= f.key[1]
    BY DEF Inv, Types, IntervalsAreSound, StoredIntervalsAreDisjoint
  <2>1. f.key # g.key
    BY DEF Inv, InvApart, Unique
  <2>2. QED
    BY <2>1 DEF Inv, InvApart, AllApart, Apart, Known
<1>2. QED
  BY <1>1, SpecInv, PTL

-----------------------------------------------------------------------------
(* The session monitor.                                                     *)

QueueEndsWithPresent == queue # <<>> => queue[Len(queue)] = OsState

NoWindowNoQueue == loop = "ended" => queue = <<>>

ConfirmedIsCurrent ==
  loop = "running" /\ queue = <<>> /\ wtsObserved => state = OsState

ProbeIsCurrent ==
  loop = "running" /\ queue = <<>> /\ ~wtsObserved =>
    (pc = "fallback" \/ state = "LOCKED" => osLocked)

UnlockIsConfirmed == state = "UNLOCKED" => wtsObserved

MonitorInv ==
  /\ MonitorTypeOK
  /\ QueueEndsWithPresent
  /\ NoWindowNoQueue
  /\ ConfirmedIsCurrent
  /\ ProbeIsCurrent
  /\ UnlockIsConfirmed

(* What Dispatch finds and leaves of a queue.                               *)
LEMMA QueueFacts ==
  ASSUME NEW q \in Seq(Confirmed), q # <<>>
  PROVE  /\ Head(q) \in Confirmed
         /\ Tail(q) \in Seq(Confirmed)
         /\ Tail(q) = <<>> => Head(q) = q[Len(q)]
         /\ Tail(q) # <<>> => Tail(q)[Len(Tail(q))] = q[Len(q)]
<1>1. Len(q) \in Nat /\ Len(q) # 0
  OBVIOUS
<1>2. Head(q) = q[1] /\ q[1] \in Confirmed
  BY <1>1
<1>3. Tail(q) \in Seq(Confirmed) /\ Len(Tail(q)) = Len(q) - 1
  BY <1>1
<1>4. Tail(q) = <<>> => Head(q) = q[Len(q)]
  <2>1. Tail(q) = <<>> => Len(q) - 1 = 0
    BY <1>3, EmptySeq
  <2>2. QED
    BY <1>1, <1>2, <2>1
<1>5. ASSUME Tail(q) # <<>>
      PROVE  Tail(q)[Len(Tail(q))] = q[Len(q)]
  <2>1. Len(Tail(q)) \in 1 .. Len(q) - 1
    BY <1>1, <1>3, <1>5
  <2>2. QED
    BY <1>1, <1>3, <2>1
<1>6. QED
  BY <1>2, <1>3, <1>4, <1>5

LEMMA MonitorInvInit == MonitorInit => MonitorInv
<1> SUFFICES ASSUME MonitorInit
             PROVE  MonitorInv
  OBVIOUS
<1>1. MonitorTypeOK
  <2>1. <<>> \in Seq(Confirmed)
    BY EmptySeq
  <2>2. queue \in Seq(Confirmed)
    BY <2>1 DEF MonitorInit
  <2>3. changes \in 0 .. MaxChanges
    BY MaxChangesAssumption DEF MonitorInit
  <2>4. QED
    BY <2>2, <2>3 DEF MonitorInit, MonitorTypeOK
<1>2. /\ QueueEndsWithPresent /\ NoWindowNoQueue /\ ConfirmedIsCurrent
      /\ ProbeIsCurrent /\ UnlockIsConfirmed
  BY DEF MonitorInit, QueueEndsWithPresent, NoWindowNoQueue, ConfirmedIsCurrent,
         ProbeIsCurrent, UnlockIsConfirmed
<1>3. QED
  BY <1>1, <1>2 DEF MonitorInv

LEMMA MonitorInvNext == MonitorInv /\ [MonitorNext]_monitorVars => MonitorInv'
<1> SUFFICES ASSUME MonitorInv, [MonitorNext]_monitorVars
             PROVE  MonitorInv'
  OBVIOUS
<1> USE MaxChangesAssumption
    DEF MonitorInv, MonitorTypeOK, QueueEndsWithPresent, NoWindowNoQueue,
        ConfirmedIsCurrent, ProbeIsCurrent, UnlockIsConfirmed, OsState, windows, session, reader
<1>1. CASE SessionChange
  <2>1. OsState' \in Confirmed /\ osLocked' \in BOOLEAN /\ changes' \in 0 .. MaxChanges
    BY <1>1 DEF SessionChange, Confirmed
  <2>2. CASE loop = "running"
    <3>1. queue' = Append(queue, OsState')
      BY <1>1, <2>2 DEF SessionChange
    <3>2. queue' \in Seq(Confirmed) /\ queue' # <<>> /\ queue'[Len(queue')] = OsState'
      BY <2>1, <3>1
    <3>3. QED
      BY <1>1, <2>1, <2>2, <3>2 DEF SessionChange
  <2>3. CASE loop # "running"
    BY <1>1, <2>1, <2>3 DEF SessionChange
  <2>4. QED
    BY <2>2, <2>3
<1>2. CASE Dispatch
  <2>1. /\ state' \in Confirmed /\ queue' \in Seq(Confirmed)
        /\ queue' = <<>> => state' = OsState
        /\ queue' # <<>> => queue'[Len(queue')] = OsState
    BY <1>2, QueueFacts DEF Dispatch
  <2>2. QED
    BY <1>2, <2>1 DEF Dispatch
<1>3. CASE LoopEnds
  BY <1>3 DEF LoopEnds
<1>4. CASE MonitorRestart
  <2>1. <<>> \in Seq(Confirmed)
    BY EmptySeq
  <2>2. QED
    BY <1>4, <2>1 DEF MonitorRestart, Return
<1>5. CASE Snapshot
  BY <1>5 DEF Snapshot, Return
<1>6. CASE Probe
  BY <1>6 DEF Probe, Return
<1>7. CASE Fallback
  BY <1>7 DEF Fallback, Return, Confirmed
<1>8. CASE UNCHANGED monitorVars
  BY <1>8 DEF monitorVars
<1>9. QED
  BY <1>1, <1>2, <1>3, <1>4, <1>5, <1>6, <1>7, <1>8 DEF MonitorNext, SessionLocked

LEMMA MonitorSpecInv == MonitorSpec => []MonitorInv
  BY MonitorInvInit, MonitorInvNext, PTL DEF MonitorSpec

(* The variables keep their types.                                          *)
THEOREM MonitorTypeCorrect == MonitorSpec => []MonitorTypeOK
<1>1. MonitorInv => MonitorTypeOK
  BY DEF MonitorInv
<1>2. QED
  BY <1>1, MonitorSpecInv, PTL

(* Once the queue is empty, a known state is the state of the workstation,  *)
(* however notifications, probes and restarts were interleaved.             *)
THEOREM SettledState == MonitorSpec => []SettledStateIsTrue
<1>1. MonitorInv => SettledStateIsTrue
  BY DEF MonitorInv, MonitorTypeOK, SettledStateIsTrue, ConfirmedIsCurrent, ProbeIsCurrent,
         UnlockIsConfirmed, OsState, Confirmed
<1>2. QED
  BY <1>1, MonitorSpecInv, PTL

(* Only a notification establishes UNLOCKED, and only a notification        *)
(* changes what a notification established, until a restart.                *)
THEOREM NotificationsAreAuthoritative == MonitorSpec => NotificationsPrevail
<1> DEFINE Prevail == /\ state' = "UNLOCKED" => wtsObserved'
                      /\ wtsObserved /\ wtsObserved' /\ state' # state =>
                           queue # <<>> /\ state' = Head(queue)
<1>1. ASSUME MonitorInv, MonitorInv', [MonitorNext]_monitorVars
      PROVE  Prevail
  <2>1. state' = "UNLOCKED" => wtsObserved'
    BY <1>1 DEF MonitorInv, UnlockIsConfirmed
  <2>2. ASSUME wtsObserved, wtsObserved', state' # state
        PROVE  queue # <<>> /\ state' = Head(queue)
    BY <1>1, <2>2 DEF MonitorNext, SessionLocked, SessionChange, Dispatch, LoopEnds,
       MonitorRestart, Snapshot, Probe, Fallback, Return, session, monitorVars
  <2>3. QED
    BY <2>1, <2>2
<1>2. MonitorInv /\ MonitorInv' /\ [MonitorNext]_monitorVars => [Prevail]_monitorVars
  BY <1>1
<1>3. QED
  BY <1>2, MonitorSpecInv, PTL DEF MonitorSpec, NotificationsPrevail
=============================================================================
