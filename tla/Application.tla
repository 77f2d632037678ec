---------------------------- MODULE Application ----------------------------
(***************************************************************************)
(* The processes of the collector: the mutex that lets one of them in      *)
(* (internal/windows/mutex_windows.go), runCollector of                    *)
(* cmd/worktracker/main.go, the tray's controller                          *)
(* (internal/tray/controller.go) and window                                *)
(* (internal/tray/native_windows.go), and the scheduled task that starts   *)
(* one.  Collector.Run is taken as CollectorRun describes it.              *)
(*                                                                         *)
(* A process that was let in has three threads: main, which becomes the    *)
(* window's, the goroutine of the collector and the one that refreshes the *)
(* tray.  The mutex lets in one process at a time (OneCollector), so that  *)
(* one copy of their state is enough: that of the process inside.          *)
(***************************************************************************)
EXTENDS CollectorRun, TaskInstall

CONSTANT Processes     \* the processes that are alive at the same time

VARIABLES
  proc,          \* per process: "gone", "refused" (about to close its handle) or "inside"
  handles,       \* the processes that hold a handle of the mutex, which exists while any does
  withTray,      \* --tray
  main,          \* where the main thread of the process inside is
  window,        \* nativeUI.window
  view, icon,    \* nativeUI.view, and what the notification icon shows, which is
                 \* "stale" when it was not changed for the last wmRefresh
  refreshMsg, closeMsg, quitMsg,   \* wmRefresh, wmClose and WM_QUIT are in the queue
  refresher,     \* the goroutine of Controller.Run: "asks" the provider, "posts", "waits"
  stopRefresh,   \* refreshCtx was cancelled by Controller.Run
  sent,          \* collectorDone holds the result
  uiFailed,      \* UI.Run returned an error
  requested,     \* history: who asked for an exit, the "menu", a "signal" or "nobody"
  code           \* the exit code of the process inside, when it returns
ui == <<window, view, icon, refreshMsg, closeMsg, quitMsg>>
inside == <<withTray, main, ui, refresher, stopRefresh, sent, uiFailed, requested>>
appVars == <<proc, handles, inside, code, runVars>>
vars == <<appVars, taskVars>>

Views == {"waiting", "failure", "status"}
Main == {"none", "entered", "console", "create", "add", "adding", "loop", "left", "waitRefresher",
         "waitCollector", "return"}
RefreshDone == done \/ stopRefresh

NothingInside ==
  /\ withTray' = FALSE /\ main' = "none" /\ window' = "none" /\ view' = "waiting" /\ icon' = "none"
  /\ refreshMsg' = FALSE /\ closeMsg' = FALSE /\ quitMsg' = FALSE /\ refresher' = "none"
  /\ stopRefresh' = FALSE /\ sent' = FALSE /\ uiFailed' = FALSE /\ requested' = "nobody"
  /\ phase' = "ended" /\ done' = FALSE /\ result' = "none" /\ code' = "none"

AppInit ==
  /\ proc = [p \in Processes |-> "gone"] /\ handles = {} /\ code = "none"
  /\ withTray = FALSE /\ main = "none" /\ window = "none" /\ view = "waiting" /\ icon = "none"
  /\ refreshMsg = FALSE /\ closeMsg = FALSE /\ quitMsg = FALSE /\ refresher = "none"
  /\ stopRefresh = FALSE /\ sent = FALSE /\ uiFailed = FALSE /\ requested = "nobody"
  /\ phase = "ended" /\ done = FALSE /\ result = "none"

----------------------------------------------------------------------------
(* AcquireMutex: CreateMutexW gives a handle in any case, and says whether  *)
(* the mutex existed.                                                       *)
(* Variant: a handle is as good as the mutex.                               *)
MutexExistsIgnored == FALSE
MutexExists == handles # {}
Enter(p, tray) ==
  /\ proc[p] = "gone" /\ handles' = handles \cup {p}
  /\ IF MutexExists
     THEN proc' = [proc EXCEPT ![p] = "refused"] /\ UNCHANGED <<inside, code, runVars>>
     ELSE /\ proc' = [proc EXCEPT ![p] = "inside"]
          /\ withTray' = tray /\ main' = "entered" /\ view' = "waiting" /\ icon' = "none"
          /\ UNCHANGED <<window, refreshMsg, closeMsg, quitMsg, refresher, stopRefresh, sent,
                         uiFailed, requested, code, runVars>>
Refuse(p) ==
  /\ proc[p] = "refused" /\ proc' = [proc EXCEPT ![p] = "gone"]
  /\ handles' = handles \ {p} /\ UNCHANGED <<inside, code, runVars>>
(* The process is killed: Windows closes its handles.                       *)
Killed(p) ==
  /\ proc[p] # "gone" /\ proc' = [proc EXCEPT ![p] = "gone"] /\ handles' = handles \ {p}
  /\ IF proc[p] = "inside" THEN NothingInside ELSE UNCHANGED <<inside, code, runVars>>

(* runCollector: the log, then the collector, with or without the tray.     *)
LogFails ==
  /\ main = "entered" /\ main' = "return" /\ code' = "2"
  /\ UNCHANGED <<proc, handles, withTray, ui, refresher, stopRefresh, sent, uiFailed, requested, runVars>>
Begin ==
  /\ main = "entered" /\ phase' = "starting" /\ result' = "none" /\ UNCHANGED done
  /\ IF withTray THEN main' = "create" /\ refresher' = "asks" ELSE main' = "console" /\ UNCHANGED refresher
  /\ UNCHANGED <<proc, handles, withTray, ui, stopRefresh, sent, uiFailed, requested, code>>

(* The collector's goroutine: Run, then its result and the end of runCtx.   *)
CollectorSteps ==
  /\ main \notin {"none", "entered"} /\ (Started \/ StartFails \/ Interrupted \/ Breaks \/ Finish)
  /\ UNCHANGED <<proc, handles, inside, code>>
CollectorDone ==
  /\ withTray /\ main \notin {"none", "entered", "return"} /\ phase = "ended" /\ ~sent
  /\ sent' = TRUE /\ done' = TRUE
  /\ UNCHANGED <<proc, handles, withTray, main, ui, refresher, stopRefresh, uiFailed, requested, code,
                 phase, result>>

(* The refreshing goroutine of Controller.Run.  Status ends with its ctx;   *)
(* Update takes the window under the lock and posts to it afterwards.       *)
(* Variant: the window is known when its icon was added.                    *)
AnswersOnceAdded(new) ==
  /\ refresher = "asks" /\ (RefreshDone => new = "failure")
  /\ view' = new /\ refresher' = IF main = "loop" /\ window = "open" THEN "posts" ELSE "waits"
  /\ UNCHANGED <<proc, handles, withTray, main, window, icon, refreshMsg, closeMsg, quitMsg,
                 stopRefresh, sent, uiFailed, requested, code, runVars>>
Answers(new) ==
  /\ refresher = "asks" /\ (RefreshDone => new = "failure")
  /\ view' = new /\ refresher' = IF window = "open" THEN "posts" ELSE "waits"
  /\ UNCHANGED <<proc, handles, withTray, main, window, icon, refreshMsg, closeMsg, quitMsg,
                 stopRefresh, sent, uiFailed, requested, code, runVars>>
Posts ==
  /\ refresher = "posts" /\ refresher' = "waits" /\ refreshMsg' = (window = "open")
  /\ UNCHANGED <<proc, handles, withTray, main, window, view, icon, closeMsg, quitMsg,
                 stopRefresh, sent, uiFailed, requested, code, runVars>>
RefresherLeaves(to) ==
  /\ refresher = "waits" /\ refresher' = to
  /\ UNCHANGED <<proc, handles, withTray, main, ui, stopRefresh, sent, uiFailed, requested, code, runVars>>

----------------------------------------------------------------------------
(* nativeUI.Run.                                                            *)
UILeaves(failed) == main' = "left" /\ uiFailed' = failed /\ window' = "none"
CreateWindow ==
  /\ main = "create"
  /\ \/ window' = "open" /\ main' = "add" /\ UNCHANGED uiFailed
     \/ UILeaves(TRUE)
  /\ UNCHANGED <<proc, handles, withTray, view, icon, refreshMsg, closeMsg, quitMsg,
                 refresher, stopRefresh, sent, requested, code, runVars>>
(* notify takes the view under the lock, and the shell adds the icon of it. *)
ReadView ==
  /\ main = "add" /\ icon' = view /\ main' = "adding"
  /\ UNCHANGED <<proc, handles, withTray, window, view, refreshMsg, closeMsg, quitMsg,
                 refresher, stopRefresh, sent, uiFailed, requested, code, runVars>>
AddIcon ==
  /\ main = "adding"
  /\ \/ main' = "loop" /\ UNCHANGED <<icon, uiFailed, window>>
     \/ UILeaves(TRUE) /\ icon' = "none"
  /\ UNCHANGED <<proc, handles, withTray, view, refreshMsg, closeMsg, quitMsg,
                 refresher, stopRefresh, sent, requested, code, runVars>>
(* The goroutine that posts wmClose when refreshCtx is done.                *)
PostClose ==
  /\ main = "loop" /\ RefreshDone /\ ~closeMsg /\ closeMsg' = TRUE
  /\ UNCHANGED <<proc, handles, withTray, main, window, view, icon, refreshMsg, quitMsg,
                 refresher, stopRefresh, sent, uiFailed, requested, code, runVars>>
(* trayWindowProc.  DestroyWindow sends wmDestroy, which takes the icon away *)
(* and posts the end of the loop.                                           *)
DestroyWindow == window' = "destroyed" /\ icon' = "none" /\ quitMsg' = TRUE
(* The shell may refuse to modify the icon; nobody looks at the result.     *)
DispatchRefresh ==
  /\ main = "loop" /\ window = "open" /\ refreshMsg /\ refreshMsg' = FALSE
  /\ icon' \in {view, "stale"}
  /\ UNCHANGED <<proc, handles, withTray, main, window, view, closeMsg, quitMsg,
                 refresher, stopRefresh, sent, uiFailed, requested, code, runVars>>
DispatchClose ==
  /\ main = "loop" /\ window = "open" /\ closeMsg /\ DestroyWindow
  /\ UNCHANGED <<proc, handles, withTray, main, view, refreshMsg, closeMsg,
                 refresher, stopRefresh, sent, uiFailed, requested, code, runVars>>
MenuExit ==
  /\ main = "loop" /\ window = "open" /\ DestroyWindow /\ done' = TRUE /\ requested' = "menu"
  /\ UNCHANGED <<proc, handles, withTray, main, view, refreshMsg, closeMsg,
                 refresher, stopRefresh, sent, uiFailed, code, phase, result>>
LoopEnds(failed) ==
  /\ main = "loop" /\ (quitMsg \/ failed) /\ UILeaves(failed)
  /\ UNCHANGED <<proc, handles, withTray, view, icon, refreshMsg, closeMsg, quitMsg,
                 refresher, stopRefresh, sent, requested, code, runVars>>

(* Controller.Run after the window, and runCollector after the tray.        *)
(* Variant: the goroutine is waited for while its context is not done.      *)
StopsRefreshLate == UNCHANGED stopRefresh
StopsRefresh == stopRefresh' = TRUE
Left ==
  /\ main = "left" /\ StopsRefresh /\ main' = "waitRefresher"
  /\ UNCHANGED <<proc, handles, withTray, ui, refresher, sent, uiFailed, requested, code, runVars>>
JoinRefresher ==
  /\ main = "waitRefresher" /\ refresher = "stopped"
  /\ main' = "waitCollector" /\ done' = TRUE
  /\ UNCHANGED <<proc, handles, withTray, ui, refresher, stopRefresh, sent, uiFailed, requested, code,
                 phase, result>>
(* Variant: the collector is only told to stop.                             *)
CollectorToldToStop == done
CollectorReturned == IF withTray THEN sent ELSE phase = "ended"
ExitCode == IF uiFailed THEN "2" ELSE IF result = "canceled" THEN "0" ELSE "2"
JoinCollector ==
  /\ main \in {"waitCollector", "console"} /\ CollectorReturned
  /\ main' = "return" /\ code' = ExitCode
  /\ UNCHANGED <<proc, handles, withTray, ui, refresher, stopRefresh, sent, uiFailed, requested, runVars>>
(* Mutex.Close and the end of the process.                                  *)
Return(p) ==
  /\ proc[p] = "inside" /\ main = "return"
  /\ proc' = [proc EXCEPT ![p] = "gone"] /\ handles' = handles \ {p}
  /\ NothingInside

Signal ==
  /\ main \notin {"none", "return"} /\ done' = TRUE /\ requested' = "signal"
  /\ UNCHANGED <<proc, handles, withTray, main, ui, refresher, stopRefresh, sent, uiFailed, code, phase, result>>

----------------------------------------------------------------------------
MainSteps ==
  \/ LogFails \/ Begin \/ CreateWindow \/ ReadView \/ AddIcon \/ Left \/ JoinRefresher \/ JoinCollector
  \/ \E p \in Processes : Return(p)
Dispatches == DispatchRefresh \/ DispatchClose
RefresherSteps == (\E new \in Views \ {"waiting"} : Answers(new)) \/ Posts \/ RefresherLeaves("asks")
RefresherStops == RefreshDone /\ RefresherLeaves("stopped")
AppNext ==
  \/ MainSteps \/ CollectorSteps \/ CollectorDone \/ RefresherSteps \/ RefresherStops \/ PostClose
  \/ Dispatches \/ MenuExit \/ LoopEnds(TRUE) \/ LoopEnds(FALSE) \/ Signal
  \/ \E p \in Processes : Refuse(p) \/ Killed(p) \/ (\E tray \in BOOLEAN : Enter(p, tray))
(* schtasks /Run, and the trigger of the task at logon.                     *)
TaskStarts(p) == task # "none" /\ Enter(p, FALSE)
TaskNext ==
  \/ (User \/ Command \/ InstallSteps) /\ UNCHANGED appVars
  \/ RunSucceeds /\ \E p \in Processes : proc[p] = "gone" /\ Enter(p, FALSE)
  \/ RunFails /\ (UNCHANGED appVars \/ \E p \in Processes : Enter(p, FALSE))
  \/ (\E p \in Processes : TaskStarts(p)) /\ UNCHANGED taskVars

Init == AppInit /\ TaskInit
Next == (AppNext /\ UNCHANGED taskVars) \/ TaskNext
Spec == Init /\ [][Next]_vars

(* The threads run, requests and posted messages arrive, and select picks   *)
(* a ready case at random.                                                  *)
Fairness ==
  /\ WF_vars(MainSteps /\ UNCHANGED taskVars)
  /\ WF_vars(CollectorSteps /\ (phase = "starting" \/ done) /\ UNCHANGED taskVars)
  /\ WF_vars(CollectorDone /\ UNCHANGED taskVars)
  /\ WF_vars(RefresherSteps /\ UNCHANGED taskVars) /\ SF_vars(RefresherStops /\ UNCHANGED taskVars)
  /\ WF_vars(PostClose /\ UNCHANGED taskVars) /\ WF_vars(Dispatches /\ UNCHANGED taskVars)
  /\ WF_vars(LoopEnds(FALSE) /\ UNCHANGED taskVars)
FairSpec == Spec /\ Fairness

----------------------------------------------------------------------------
(* The values of the variables; what nobody is inside for is as it was.     *)
TypeOK ==
  /\ proc \in [Processes -> {"gone", "refused", "inside"}] /\ handles = {p \in Processes : proc[p] # "gone"}
  /\ main \in Main /\ (main = "none" <=> \A p \in Processes : proc[p] # "inside")
  /\ phase \in {"starting", "running", "ended"} /\ result \in {"none", "canceled", "interrupted", "failed"}
  /\ window \in {"none", "open", "destroyed"} /\ view \in Views /\ icon \in Views \cup {"none", "stale"}
  /\ refresher \in {"none", "asks", "posts", "waits", "stopped"} /\ code \in {"none", "0", "2"}
  /\ withTray \in BOOLEAN /\ refreshMsg \in BOOLEAN /\ closeMsg \in BOOLEAN /\ quitMsg \in BOOLEAN
  /\ stopRefresh \in BOOLEAN /\ sent \in BOOLEAN /\ uiFailed \in BOOLEAN
  /\ requested \in {"nobody", "menu", "signal"} /\ done \in BOOLEAN

(* Whatever starts processes and whenever they die, one of them collects.   *)
OneProcessInside == \A p, q \in Processes : proc[p] = "inside" /\ proc[q] = "inside" => p = q

(* And its state, its handle and the threads are nobody else's.              *)
OneCollector == TypeOK /\ OneProcessInside

(* The icon is never left with an old view, also when the first view comes  *)
(* before the window: it shows the latest one, unless a refresh is on its   *)
(* way or the shell refused the last one (what it shows then is there until *)
(* the next refresh; nativeUI.notify has a result that wmRefresh ignores).  *)
IconIsCurrent ==
  main = "loop" /\ window = "open" /\ ~refreshMsg /\ refresher # "posts" => icon \in {view, "stale"}

(* A process does not return from main while one of its goroutines still    *)
(* works: the collector with the log, the refresh with the window.          *)
EverythingStopped == main = "return" => phase = "ended" /\ refresher \in {"none", "stopped"}

(* Success is reported only of an exit that was asked for and in which      *)
(* neither side failed, and of every one that met a collector in its loop:  *)
(* whoever cancelled the context of the others on the way.                  *)
ExitCodeIsTrue ==
  main = "return" =>
    /\ code = "0" => requested # "nobody" /\ ~uiFailed /\ result # "failed"
    /\ result = "canceled" /\ ~uiFailed => code = "0"

(* A process returns from main in order, and tells the truth.               *)
ReturnIsOrderly == EverythingStopped /\ ExitCodeIsTrue

(* README.md: "The right-click menu [...] exits the collector cleanly".     *)
(* When nothing failed but what the exit itself stopped, that is success.   *)
MenuExitIsClean ==
  main = "return" /\ requested = "menu" /\ ~uiFailed /\ result # "failed" => code = "0"

(* An exit from the menu, a signal, or the end of either side ends the      *)
(* process: nobody waits for somebody who waits for him.                    *)
ExitIsReached ==
  (done \/ uiFailed \/ phase = "ended") /\ main \notin {"none", "entered"} ~> main = "none"
=============================================================================
