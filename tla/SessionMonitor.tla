--------------------------- MODULE SessionMonitor ---------------------------
(***************************************************************************)
(* How the host agent knows whether the Windows session is locked          *)
(* (internal/nativewatcher: session.go, session_windows.go and             *)
(* WindowsReader.SessionLocked in reader_windows.go).                      *)
(*                                                                         *)
(* Two threads meet at sessionState, which a mutex protects.  The window   *)
(* thread dispatches the lock and unlock notifications Windows posts to    *)
(* its hidden window.  The sampling goroutine calls SessionLocked: it      *)
(* takes a snapshot and, while the state is unknown, probes the input      *)
(* desktop and lets a positive probe establish LOCKED.  Between its steps  *)
(* the session may change and notifications may be dispatched.             *)
(*                                                                         *)
(* The state of the workstation, the posting of messages and the outcome   *)
(* of the probe belong to Windows.  Messages other than lock and unlock    *)
(* change nothing in the window procedure and are left out.                *)
(***************************************************************************)
EXTENDS Naturals, Sequences

CONSTANT MaxChanges  \* bound: how often the workstation is locked or unlocked

ASSUME MaxChangesAssumption == MaxChanges \in Nat

VARIABLES
  osLocked,     \* whether the workstation is locked
  changes,      \* how often that changed
  queue,        \* session messages posted to the window, oldest first
  loop,         \* the message loop: "running", or "ended" (or never started)
  state,        \* sessionState.state
  wtsObserved,  \* sessionState.wtsObserved
  pc,           \* how far SessionLocked is
  answer        \* what the last call of SessionLocked returned

windows == <<osLocked, changes>>
session == <<state, wtsObserved>>
reader == <<pc, answer>>
monitorVars == <<windows, queue, loop, session, reader>>

Confirmed == {"LOCKED", "UNLOCKED"}

MonitorTypeOK ==
  /\ osLocked \in BOOLEAN
  /\ changes \in 0 .. MaxChanges
  /\ queue \in Seq(Confirmed)
  /\ loop \in {"running", "ended"}
  /\ state \in Confirmed \cup {"UNKNOWN"}
  /\ wtsObserved \in BOOLEAN
  /\ pc \in {"idle", "probe", "fallback"}
  /\ answer \in {"none", "locked", "unlocked", "error"}

OsState == IF osLocked THEN "LOCKED" ELSE "UNLOCKED"

(* NewWindowsReader: sessionState is empty; the loop runs unless creating   *)
(* the window or registering for notifications failed.                      *)
MonitorInit ==
  /\ osLocked \in BOOLEAN
  /\ changes = 0
  /\ queue = <<>>
  /\ loop \in {"running", "ended"}
  /\ state = "UNKNOWN"
  /\ wtsObserved = FALSE
  /\ pc = "idle"
  /\ answer = "none"

-----------------------------------------------------------------------------
(* The workstation is locked or unlocked; a registered window is told.      *)
SessionChange ==
  /\ changes < MaxChanges
  /\ changes' = changes + 1
  /\ osLocked' = ~osLocked
  /\ queue' = IF loop = "running" THEN Append(queue, OsState') ELSE queue
  /\ UNCHANGED <<loop, session, reader>>

(* Variant: a notification yields to what the fallback established.         *)
DispatchKeepsFallback ==
  /\ loop = "running"
  /\ queue # <<>>
  /\ state' = IF state = "LOCKED" /\ ~wtsObserved THEN state ELSE Head(queue)
  /\ wtsObserved' = (wtsObserved \/ state # "LOCKED")
  /\ queue' = Tail(queue)
  /\ UNCHANGED <<windows, loop, reader>>

(* sessionWindowProc on WM_WTSSESSION_CHANGE: notification.                 *)
Dispatch ==
  /\ loop = "running"
  /\ queue # <<>>
  /\ state' = Head(queue)
  /\ wtsObserved' = TRUE
  /\ queue' = Tail(queue)
  /\ UNCHANGED <<windows, loop, reader>>

(* GetMessageW fails: the loop returns, its window is destroyed, and with   *)
(* it what was posted there.                                                *)
LoopEnds ==
  /\ loop = "running"
  /\ loop' = "ended"
  /\ queue' = <<>>
  /\ UNCHANGED <<windows, session, reader>>

Return(result) == pc' = "idle" /\ answer' = result

(* The agent is restarted: NewWindowsReader again.                          *)
MonitorRestart ==
  /\ queue' = <<>>
  /\ loop' \in {"running", "ended"}
  /\ state' = "UNKNOWN"
  /\ wtsObserved' = FALSE
  /\ Return("none")
  /\ UNCHANGED windows

(* Variant: the state is returned unconverted.                              *)
SnapshotRaw ==
  /\ pc = "idle"
  /\ IF state # "UNKNOWN" THEN Return(state) ELSE pc' = "probe" /\ UNCHANGED answer
  /\ UNCHANGED <<windows, queue, loop, session>>

(* SessionLocked begins: a known state is the answer.                       *)
Snapshot ==
  /\ pc = "idle"
  /\ CASE state = "LOCKED" -> Return("locked")
       [] state = "UNLOCKED" -> Return("unlocked")
       [] OTHER -> pc' = "probe" /\ UNCHANGED answer
  /\ UNCHANGED <<windows, queue, loop, session>>

(* desktopSessionLocked: a locked workstation denies access to its input    *)
(* desktop.  An accessible desktop proves nothing, and the call may fail    *)
(* for other reasons: both are an error.                                    *)
Probe ==
  /\ pc = "probe"
  /\ \/ osLocked /\ pc' = "fallback" /\ UNCHANGED answer
     \/ Return("error")
  /\ UNCHANGED <<windows, queue, loop, session>>

(* Variant: fallbackLocked does not look at wtsObserved.                    *)
FallbackOverwrites ==
  /\ pc = "fallback"
  /\ state' = "LOCKED"
  /\ Return("locked")
  /\ UNCHANGED <<windows, queue, loop, wtsObserved>>

(* fallbackLocked, whose refusal SessionLocked ignores.                     *)
Fallback ==
  /\ pc = "fallback"
  /\ state' = IF wtsObserved THEN state ELSE "LOCKED"
  /\ Return("locked")
  /\ UNCHANGED <<windows, queue, loop, wtsObserved>>

SessionLocked == Snapshot \/ Probe \/ Fallback

MonitorNext == SessionChange \/ Dispatch \/ LoopEnds \/ MonitorRestart \/ SessionLocked

MonitorSpec == MonitorInit /\ [][MonitorNext]_monitorVars

(* The window thread sleeps only while its queue is empty, and the agent's  *)
(* ticker keeps calling SessionLocked.                                      *)
MonitorFairness == WF_monitorVars(Dispatch) /\ WF_monitorVars(SessionLocked)

MonitorFairSpec == MonitorSpec /\ MonitorFairness

-----------------------------------------------------------------------------
(* Once every posted notification is dispatched, a known state is the true  *)
(* one, whichever of notification and fallback came first: a probe that     *)
(* saw the lock before an unlock was dispatched must not bring it back      *)
(* (fallbackLocked in session.go).                                          *)
SettledStateIsTrue ==
  loop = "running" /\ queue = <<>> /\ state # "UNKNOWN" => state = OsState

(* UNLOCKED is never inferred, and what a notification established only a   *)
(* notification changes, until the agent is restarted (the comment on       *)
(* sessionState in session.go).                                             *)
NotificationsPrevail ==
  [][/\ state' = "UNLOCKED" => wtsObserved'
     /\ wtsObserved /\ wtsObserved' /\ state' # state =>
          queue # <<>> /\ state' = Head(queue)]_monitorVars

(* A workstation that is unlocked for good, under a monitor that goes on    *)
(* running, is not reported locked for ever: a lock the fallback            *)
(* established is lifted too.                                               *)
LockIsLifted ==
  <>[](loop = "running") /\ <>[](~osLocked) => []<>(answer # "locked")

(* The same for an agent whose monitor never started.  "A positive          *)
(* secure-desktop access failure may conservatively establish a startup     *)
(* lock [...] This affects session-component health at startup, not         *)
(* foreground/AFK collection" (docs/BUILDING.md): the startup lock goes     *)
(* away when the user is back.                                              *)
StartupLockIsTemporary ==
  [](loop = "ended") /\ <>[](~osLocked) => []<>(answer # "locked")
=============================================================================
