------------------------- MODULE NativeAcquisition -------------------------
(***************************************************************************)
(* The native acquisition loop of the host agent: startNativeLoop in       *)
(* internal/hostagent/agent.go, Watcher.Observe in                         *)
(* internal/nativewatcher/watcher.go, and what Core stores of it.          *)
(*                                                                         *)
(* One goroutine takes a tick, samples the session, the foreground window  *)
(* and the idle time, extends or restarts its two intervals, and sends     *)
(* them to Core.  Send retries for a while and then gives up; meanwhile    *)
(* the ticker keeps the first tick of the wait and drops the others, so    *)
(* the next sample carries the time of that tick.  The wall clock may be   *)
(* set back, the machine may sleep, the agent may be restarted.            *)
(*                                                                         *)
(* In shadow mode the same facts go to the shadow streams.                 *)
(***************************************************************************)
EXTENDS Integers, Sequences

CONSTANTS
  None,          \* no value: a failed reading, no interval, no tick
  Sessions,      \* what SessionLocked may return: "locked", "unlocked", None
  Foregrounds,   \* what Foreground may return: executables, or None
  IdleReadings,  \* "afk", "not-afk", or None
  MaxGap,        \* Watcher.maxGap
  MaxNow,        \* bound: the last instant
  MaxSamples     \* bound: how many samples are taken

ASSUME BoundsAssumption == MaxGap \in Nat /\ MaxNow \in Nat \ {0} /\ MaxSamples \in Nat

Core == INSTANCE Observations
          WITH ExtendStreams <- {"windows", "afk"}, ReplaceStreams <- {"sessions"},
               Keys <- {}, Data <- {}, Sources <- {}, NoAcquisition <- None,
               Batches <- {}, Retention <- MaxNow

VARIABLES
  now,       \* the wall clock
  steps,     \* how often it was set back
  tick,      \* the tick in the ticker's channel
  sending,   \* the facts of the batch in flight, None when waiting for a tick
  lastPoll,  \* Watcher.lastPoll
  window,    \* Watcher.window: [key, start]
  afk,       \* Watcher.afk: [key, start]
  core,      \* the facts Core holds
  history    \* every sample ever taken, oldest first (not in the program)

watcher == <<lastPoll, window, afk>>
clock == <<now, steps>>
vars == <<clock, tick, sending, watcher, core, history>>

Instants == 0 .. MaxNow
Booting == lastPoll = None  \* lastPoll.IsZero()

LockScreen == "LockApp.exe"

(* What a sample sees in the foreground: the lock screen replaces whatever  *)
(* the reader found; a session that cannot be read counts as unlocked.      *)
ForegroundKey(session, foreground) ==
  IF session = "locked" THEN <<LockScreen, TRUE>>
  ELSE IF foreground = None THEN None ELSE <<foreground, FALSE>>

WindowKeys == {ForegroundKey(s, f) : s \in Sessions, f \in Foregrounds}
Interval(keys) == [key : keys \ {None}, start : Instants] \cup {None}

Sample == [afk : IdleReadings, at : Instants, first : BOOLEAN, windows : WindowKeys]

TypeOK ==
  /\ now \in Instants /\ steps \in 0 .. 1
  /\ tick \in Instants \cup {None}
  /\ sending = None \/ \A f \in sending : f.end \in Instants
  /\ lastPoll \in Instants \cup {None}
  /\ window \in Interval(WindowKeys) /\ afk \in Interval(IdleReadings)
  /\ \A f \in core : f.stream \in {"windows", "afk"} /\ f.key[1] <= f.end
  /\ history \in Seq(Sample)

(* The first sample is taken at once.                                       *)
Init ==
  /\ now = 1 /\ steps = 0
  /\ tick = now
  /\ sending = None
  /\ lastPoll = None /\ window = None /\ afk = None
  /\ core = {}
  /\ history = <<>>

-----------------------------------------------------------------------------
(* A polling interval passes; the ticker drops a tick nobody has taken.     *)
(* Only Send keeps the loop from taking one before the next.                *)
Elapse ==
  /\ now < MaxNow
  /\ tick = None \/ sending # None
  /\ now' = now + 1
  /\ tick' = IF tick = None THEN now' ELSE tick
  /\ UNCHANGED <<steps, sending, watcher, core, history>>

(* The machine sleeps longer than MaxGap, at any point of the loop.         *)
Sleep ==
  /\ now + MaxGap + 1 <= MaxNow
  /\ now' = now + MaxGap + 1
  /\ UNCHANGED <<steps, tick, sending, watcher, core, history>>

(* The clock is set back (bound: once).                                     *)
SetClockBack ==
  /\ steps = 0 /\ now > 2
  /\ now' = now - 2
  /\ steps' = 1
  /\ UNCHANGED <<tick, sending, watcher, core, history>>

Unbroken(at) == Booting \/ at - lastPoll \in 0 .. MaxGap

(* Variant: a changed key inherits the start of the interval before it.     *)
UpdateKeepsStart(interval, key, at) ==
  IF key = None THEN None
  ELSE IF interval # None THEN [key |-> key, start |-> interval.start]
  ELSE [key |-> key, start |-> at]

(* intervalState.update, or its reset when there is nothing to report.      *)
Update(interval, key, at) ==
  IF key = None THEN None
  ELSE IF interval # None /\ interval.key = key THEN interval
  ELSE [key |-> key, start |-> at]

WindowFact(w, at) ==
  [stream |-> "windows", key |-> <<w.start, w.key[1]>>, end |-> at, data |-> w.key[2]]
AFKFact(a, at) ==
  [stream |-> "afk", key |-> <<a.start, a.key>>, end |-> at, data |-> FALSE]

Facts(w, a, at) ==
  {WindowFact(i, at) : i \in {w} \ {None}} \cup {AFKFact(i, at) : i \in {a} \ {None}}

(* One sample: Observe stamps it with the time of its tick.                 *)
Observe(session, foreground, idle) ==
  /\ tick # None /\ sending = None
  /\ Len(history) < MaxSamples
  /\ LET at == tick
         key == ForegroundKey(session, foreground)
         before(interval) == IF Unbroken(at) THEN interval ELSE None
     IN /\ lastPoll' = at
        /\ window' = Update(before(window), key, at)
        /\ afk' = Update(before(afk), idle, at)
        /\ sending' = Facts(window', afk', at)
        /\ history' = Append(history,
             [at |-> at, first |-> Booting, windows |-> key, afk |-> idle])
  /\ tick' = None
  /\ UNCHANGED <<clock, core>>

(* Core ingests the batch, in one of the attempts of Send.                  *)
Delivered ==
  /\ sending # None
  /\ core' = Core!Merge(core, sending)
  /\ sending' = None
  /\ UNCHANGED <<clock, tick, watcher, history>>

(* Send gives up; the facts of this sample are not sent again.              *)
Lost ==
  /\ sending # None
  /\ sending' = None
  /\ UNCHANGED <<clock, tick, watcher, core, history>>

(* Variant: the watcher survives the restart.                               *)
RestartKeepsWatcher ==
  /\ ~Booting
  /\ UNCHANGED <<window, afk>>
  /\ lastPoll' = None
  /\ tick' = now
  /\ sending' = None
  /\ UNCHANGED <<clock, core, history>>

(* The agent is restarted, with a new watcher; it may be sending.           *)
Restart ==
  /\ ~Booting
  /\ lastPoll' = None /\ window' = None /\ afk' = None
  /\ tick' = now
  /\ sending' = None
  /\ UNCHANGED <<clock, core, history>>

Next ==
  \/ Elapse \/ Sleep \/ SetClockBack
  \/ \E s \in Sessions, f \in Foregrounds, i \in IdleReadings : Observe(s, f, i)
  \/ Delivered \/ Lost
  \/ Restart

Spec == Init /\ [][Next]_vars

-----------------------------------------------------------------------------
(* Samples i to j are one run: they saw the same, none was missed for       *)
(* longer than MaxGap, and neither a restart nor a clock set back parts     *)
(* them.                                                                    *)
Run(stream, i, j) ==
  \A k \in i + 1 .. j :
    /\ history[k][stream] = history[i][stream]
    /\ history[k].at - history[k - 1].at \in 0 .. MaxGap
    /\ ~history[k].first

Says(sample, f) ==
  IF f.stream = "windows" THEN sample.windows = <<f.key[2], f.data>>
                          ELSE sample.afk = f.key[2]

(* Core holds no time that was not observed: every stored interval reaches  *)
(* from a sample to a sample of one run that saw what it says.  Gaps,       *)
(* failed readings, restarts and lost batches are never bridged (docs/      *)
(* BUILDING.md: "gaps are not bridged as observed time").                   *)
StoredTimeWasObserved ==
  \A f \in core : \E j \in 1 .. Len(history) : \E i \in 1 .. j :
    /\ Run(f.stream, i, j)
    /\ Says(history[j], f)
    /\ history[i].at = f.key[1] /\ history[j].at = f.end

(* As long as the clock was not set back, no two stored intervals of a      *)
(* stream overlap, whatever was lost on the way: no instant is both         *)
(* locked and unlocked, or both active and idle.                            *)
StoredIntervalsAreDisjoint ==
  steps = 0 =>
    \A f, g \in core : f.stream = g.stream /\ f # g =>
      f.end <= g.key[1] \/ g.end <= f.key[1]

(* What is open and what is stored are intervals, and disjoint ones.        *)
IntervalsAreSound == TypeOK /\ StoredIntervalsAreDisjoint
=============================================================================
