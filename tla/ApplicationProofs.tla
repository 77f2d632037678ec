------------------------- MODULE ApplicationProofs -------------------------
(***************************************************************************)
(* Proofs about Application and TaskInstall, for any number of processes:  *)
(* one process is inside, its icon is current, it returns in order with    *)
(* the right exit code, and the installer tells the truth.                 *)
(***************************************************************************)
EXTENDS Application, TLAPS

Leaving == {"left", "waitRefresher", "waitCollector"}
Inside == {"console", "create", "add", "adding", "loop"} \cup Leaving

(* Where the main thread is tells what the window, the refreshing goroutine *)
(* and the collector's can be doing.                                        *)
ThreadsFit ==
  /\ main \in {"none", "entered"} =>
       phase = "ended" /\ result = "none" /\ refresher = "none" /\ ~sent
  /\ main = "console" => ~withTray /\ refresher = "none"
  /\ main \in Inside \ {"console"} => withTray
  /\ main \in {"add", "adding"} => window = "open"
  /\ main \in {"none", "entered", "create"} => window = "none"
  /\ main = "waitCollector" => refresher = "stopped"
  /\ main \in Inside => (phase = "ended" <=> result # "none")
  /\ sent => phase = "ended"
  /\ stopRefresh => main \in Leaving \cup {"return"}
  /\ uiFailed => main \in Leaving \cup {"return"}

(* Nothing ends a process but an exit that was asked for, a tray or a       *)
(* collector that failed: who cancels a context does it for one of them.    *)
Cause == requested # "nobody" \/ uiFailed \/ result = "failed"
EndsHaveACause ==
  done \/ closeMsg \/ quitMsg \/ result \in {"canceled", "interrupted"} \/ main \in Leaving => Cause

(* The icon shows the view, or is about to, or was not let.                 *)
IconFollows ==
  window = "open" /\ main \in {"adding", "loop"} => icon \in {view, "stale"} \/ refreshMsg \/ refresher = "posts"

Inv == OneCollector /\ ThreadsFit /\ EndsHaveACause /\ IconFollows /\ ReturnIsOrderly

-----------------------------------------------------------------------------
(* Steps of the threads of the process inside: nobody enters or leaves.     *)
ThreadStep ==
  \/ LogFails \/ Begin \/ CreateWindow \/ ReadView \/ AddIcon \/ Left \/ JoinRefresher \/ JoinCollector
  \/ CollectorSteps \/ CollectorDone \/ RefresherSteps \/ RefresherStops \/ PostClose
  \/ Dispatches \/ MenuExit \/ LoopEnds(TRUE) \/ LoopEnds(FALSE) \/ Signal

LEMMA InvInit == Init => Inv
<1> SUFFICES ASSUME Init
             PROVE  Inv
  OBVIOUS
<1> USE DEF Init, AppInit
<1>1. OneCollector
  BY DEF OneCollector, TypeOK, OneProcessInside, Main, Views
<1>2. ThreadsFit /\ EndsHaveACause /\ IconFollows /\ ReturnIsOrderly
  BY DEF ThreadsFit, Inside, Leaving, EndsHaveACause, IconFollows, ReturnIsOrderly, EverythingStopped,
         ExitCodeIsTrue
<1>3. QED
  BY <1>1, <1>2 DEF Inv

(* A process enters, is refused, or leaves.                                 *)
LEMMA InvEnter == ASSUME Inv, NEW p \in Processes, NEW tray \in BOOLEAN, Enter(p, tray) PROVE Inv'
<1> USE DEF Inv
<1>1. CASE MutexExists
  <2>1. UNCHANGED <<inside, code, runVars>> /\ proc' = [proc EXCEPT ![p] = "refused"]
        /\ handles' = handles \cup {p} /\ proc[p] = "gone"
    BY <1>1 DEF Enter
  <2>2. OneCollector'
    BY <2>1 DEF OneCollector, TypeOK, OneProcessInside, inside, ui, runVars
  <2>3. QED
    BY <2>1, <2>2 DEF inside, ui, runVars, ThreadsFit, EndsHaveACause, Cause, IconFollows, ReturnIsOrderly,
                      EverythingStopped, ExitCodeIsTrue
<1>2. CASE ~MutexExists
  <2>1. /\ main' = "entered" /\ withTray' = tray /\ view' = "waiting" /\ icon' = "none"
        /\ proc' = [proc EXCEPT ![p] = "inside"] /\ handles' = handles \cup {p}
        /\ UNCHANGED <<window, refreshMsg, closeMsg, quitMsg, refresher, stopRefresh, sent,
                       uiFailed, requested, code, phase, done, result>>
    BY <1>2 DEF Enter, runVars
  <2>2. (\A q \in Processes : proc[q] = "gone") /\ main = "none"
    BY <1>2 DEF MutexExists, OneCollector, TypeOK
  <2>3. OneCollector'
    BY <2>1, <2>2 DEF OneCollector, TypeOK, OneProcessInside, Main, Views
  <2>4. ThreadsFit' /\ EndsHaveACause' /\ IconFollows' /\ ReturnIsOrderly'
    BY <2>1, <2>2 DEF ThreadsFit, Inside, Leaving, EndsHaveACause, Cause, IconFollows, ReturnIsOrderly,
                      EverythingStopped, ExitCodeIsTrue
  <2>5. QED
    BY <2>3, <2>4
<1>3. QED
  BY <1>1, <1>2

LEMMA InvLeave ==
  ASSUME Inv, NEW p \in Processes, Refuse(p) \/ Killed(p) \/ Return(p)
  PROVE  Inv'
<1> USE DEF Inv
<1>1. proc' = [proc EXCEPT ![p] = "gone"] /\ handles' = handles \ {p}
  BY DEF Refuse, Killed, Return
<1>2. CASE proc[p] = "inside"
  <2>1. NothingInside
    BY <1>2 DEF Refuse, Killed, Return
  <2>2. \A q \in Processes : proc'[q] # "inside"
    BY <1>1, <1>2 DEF OneCollector, TypeOK, OneProcessInside
  <2>3. OneCollector'
    BY <1>1, <2>1, <2>2 DEF NothingInside, OneCollector, TypeOK, OneProcessInside, Main, Views
  <2>4. QED
    BY <2>1, <2>3 DEF NothingInside, ThreadsFit, Inside, Leaving, EndsHaveACause, IconFollows,
                      ReturnIsOrderly, EverythingStopped, ExitCodeIsTrue
<1>3. CASE proc[p] # "inside"
  <2>1. UNCHANGED <<inside, code, runVars>>
    BY <1>3 DEF Refuse, Killed, Return
  <2>2. OneCollector'
    BY <1>1, <1>3, <2>1 DEF OneCollector, TypeOK, OneProcessInside, inside, ui, runVars
  <2>3. QED
    BY <2>1, <2>2 DEF inside, ui, runVars, ThreadsFit, EndsHaveACause, Cause, IconFollows, ReturnIsOrderly,
                      EverythingStopped, ExitCodeIsTrue
<1>4. QED
  BY <1>2, <1>3

(* No step of a thread lets a process in or out.                            *)
LEMMA ThreadsCollectAlone == Inv /\ ThreadStep => OneCollector'
<1> SUFFICES ASSUME Inv, ThreadStep
             PROVE  OneCollector'
  OBVIOUS
<1> USE DEF Inv, OneCollector, TypeOK, OneProcessInside, Main, Views, runVars, ui
<1>1. CASE LogFails
  BY <1>1 DEF LogFails
<1>2. CASE Begin
  BY <1>2 DEF Begin
<1>3. CASE CreateWindow
  <2>1. /\ main = "create" /\ main' \in {"add", "left"} /\ window' \in {"none", "open"} /\ uiFailed' \in BOOLEAN
        /\ UNCHANGED <<proc, handles, withTray, view, icon, refreshMsg, closeMsg, quitMsg,
                       refresher, stopRefresh, sent, requested, code, runVars>>
    BY <1>3 DEF CreateWindow, UILeaves
  <2>2. QED
    BY <2>1
<1>4. CASE ReadView
  BY <1>4 DEF ReadView
<1>5. CASE AddIcon
  <2>1. /\ main = "adding" /\ main' \in {"loop", "left"} /\ window' \in {window, "none"}
        /\ icon' \in {icon, "none"} /\ uiFailed' \in BOOLEAN
        /\ UNCHANGED <<proc, handles, withTray, view, refreshMsg, closeMsg, quitMsg,
                       refresher, stopRefresh, sent, requested, code, runVars>>
    BY <1>5 DEF AddIcon, UILeaves
  <2>2. QED
    BY <2>1
<1>6. CASE Left
  BY <1>6 DEF Left, StopsRefresh
<1>7. CASE JoinRefresher
  BY <1>7 DEF JoinRefresher
<1>8. CASE JoinCollector
  BY <1>8 DEF JoinCollector, CollectorReturned, ExitCode
<1>9. CASE CollectorSteps
  BY <1>9 DEF CollectorSteps, Started, StartFails, Interrupted, Breaks, Finish, Returns, inside
<1>10. CASE CollectorDone
  BY <1>10 DEF CollectorDone
<1>11. CASE RefresherSteps
  <2>1. /\ view' \in Views /\ refresher' \in {"asks", "posts", "waits"} /\ refreshMsg' \in BOOLEAN
        /\ UNCHANGED <<proc, handles, withTray, main, window, icon, closeMsg, quitMsg,
                       stopRefresh, sent, uiFailed, requested, code, runVars>>
    BY <1>11 DEF RefresherSteps, Answers, Posts, RefresherLeaves
  <2>2. QED
    BY <2>1
<1>12. CASE RefresherStops
  BY <1>12 DEF RefresherStops, RefresherLeaves
<1>13. CASE PostClose
  BY <1>13 DEF PostClose, RefreshDone
<1>14. CASE Dispatches
  <2>1. /\ window' \in {window, "destroyed"} /\ icon' \in {view, "stale", "none"}
        /\ refreshMsg' \in BOOLEAN /\ quitMsg' \in BOOLEAN
        /\ UNCHANGED <<proc, handles, withTray, main, view, closeMsg,
                       refresher, stopRefresh, sent, uiFailed, requested, code, runVars>>
    BY <1>14 DEF Dispatches, DispatchRefresh, DispatchClose, DestroyWindow
  <2>2. QED
    BY <2>1
<1>15. CASE MenuExit
  BY <1>15 DEF MenuExit, DestroyWindow
<1>16. CASE LoopEnds(TRUE) \/ LoopEnds(FALSE)
  <2>1. /\ main = "loop" /\ main' = "left" /\ window' = "none" /\ uiFailed' \in BOOLEAN
        /\ UNCHANGED <<proc, handles, withTray, view, icon, refreshMsg, closeMsg, quitMsg,
                       refresher, stopRefresh, sent, requested, code, runVars>>
    BY <1>16 DEF LoopEnds, UILeaves
  <2>2. QED
    BY <2>1
<1>17. CASE Signal
  BY <1>17 DEF Signal
<1>18. QED
  BY <1>1, <1>2, <1>3, <1>4, <1>5, <1>6, <1>7, <1>8, <1>9, <1>10, <1>11, <1>12, <1>13, <1>14, <1>15, <1>16, <1>17 DEF ThreadStep

(* The threads wait for each other where they should.                       *)
LEMMA ThreadsStayFit == Inv /\ ThreadStep => ThreadsFit'
<1> SUFFICES ASSUME Inv, ThreadStep
             PROVE  ThreadsFit'
  OBVIOUS
<1> USE DEF Inv, OneCollector, TypeOK, ThreadsFit, Inside, Leaving, ReturnIsOrderly, EverythingStopped, runVars, ui
<1>1. CASE LogFails
  BY <1>1 DEF LogFails
<1>2. CASE Begin
  BY <1>2 DEF Begin
<1>3. CASE CreateWindow
  BY <1>3 DEF CreateWindow, UILeaves
<1>4. CASE ReadView
  BY <1>4 DEF ReadView
<1>5. CASE AddIcon
  BY <1>5 DEF AddIcon, UILeaves
<1>6. CASE Left
  BY <1>6 DEF Left, StopsRefresh
<1>7. CASE JoinRefresher
  BY <1>7 DEF JoinRefresher
<1>8. CASE JoinCollector
  BY <1>8 DEF JoinCollector, CollectorReturned, ExitCode
<1>9. CASE CollectorSteps
  BY <1>9 DEF CollectorSteps, Started, StartFails, Interrupted, Breaks, Finish, Returns, inside
<1>10. CASE CollectorDone
  BY <1>10 DEF CollectorDone
<1>11. CASE RefresherSteps
  BY <1>11 DEF RefresherSteps, Answers, Posts, RefresherLeaves
<1>12. CASE RefresherStops
  BY <1>12 DEF RefresherStops, RefresherLeaves
<1>13. CASE PostClose
  BY <1>13 DEF PostClose, RefreshDone
<1>14. CASE Dispatches
  BY <1>14 DEF Dispatches, DispatchRefresh, DispatchClose, DestroyWindow
<1>15. CASE MenuExit
  BY <1>15 DEF MenuExit, DestroyWindow
<1>16. CASE LoopEnds(TRUE) \/ LoopEnds(FALSE)
  BY <1>16 DEF LoopEnds, UILeaves
<1>17. CASE Signal
  BY <1>17 DEF Signal
<1>18. QED
  BY <1>1, <1>2, <1>3, <1>4, <1>5, <1>6, <1>7, <1>8, <1>9, <1>10, <1>11, <1>12, <1>13, <1>14, <1>15, <1>16, <1>17 DEF ThreadStep

(* No step of a thread ends another without a cause.                        *)
LEMMA ThreadsHaveACause == Inv /\ ThreadStep => EndsHaveACause'
<1> SUFFICES ASSUME Inv, ThreadStep
             PROVE  EndsHaveACause'
  OBVIOUS
<1> USE DEF Inv, OneCollector, TypeOK, Main, ThreadsFit, Inside, Leaving, EndsHaveACause, Cause, ReturnIsOrderly,
           EverythingStopped, runVars, ui
<1>1. CASE LogFails
  BY <1>1 DEF LogFails
<1>2. CASE Begin
  BY <1>2 DEF Begin
<1>3. CASE CreateWindow
  BY <1>3 DEF CreateWindow, UILeaves
<1>4. CASE ReadView
  BY <1>4 DEF ReadView
<1>5. CASE AddIcon
  BY <1>5 DEF AddIcon, UILeaves
<1>6. CASE Left
  BY <1>6 DEF Left, StopsRefresh
<1>7. CASE JoinRefresher
  BY <1>7 DEF JoinRefresher
<1>8. CASE JoinCollector
  BY <1>8 DEF JoinCollector, CollectorReturned, ExitCode
<1>9. CASE CollectorSteps
  BY <1>9 DEF CollectorSteps, Started, StartFails, Interrupted, Breaks, Finish, Returns, inside
<1>10. CASE CollectorDone
  BY <1>10 DEF CollectorDone
<1>11. CASE RefresherSteps
  <2>1. UNCHANGED <<main, closeMsg, quitMsg, uiFailed, requested, done, result>>
    BY <1>11 DEF RefresherSteps, Answers, Posts, RefresherLeaves
  <2>2. QED
    BY <2>1
<1>12. CASE RefresherStops
  BY <1>12 DEF RefresherStops, RefresherLeaves
<1>13. CASE PostClose
  BY <1>13 DEF PostClose, RefreshDone
<1>14. CASE Dispatches
  BY <1>14 DEF Dispatches, DispatchRefresh, DispatchClose, DestroyWindow
<1>15. CASE MenuExit
  BY <1>15 DEF MenuExit, DestroyWindow
<1>16. CASE LoopEnds(TRUE) \/ LoopEnds(FALSE)
  BY <1>16 DEF LoopEnds, UILeaves
<1>17. CASE Signal
  BY <1>17 DEF Signal
<1>18. QED
  BY <1>1, <1>2, <1>3, <1>4, <1>5, <1>6, <1>7, <1>8, <1>9, <1>10, <1>11, <1>12, <1>13, <1>14, <1>15, <1>16, <1>17 DEF ThreadStep

(* A new view is followed by a message, and the message by the icon.        *)
LEMMA ThreadsRefresh == Inv /\ ThreadStep => IconFollows'
<1> SUFFICES ASSUME Inv, ThreadStep
             PROVE  IconFollows'
  OBVIOUS
<1> USE DEF Inv, ThreadsFit, Inside, Leaving, IconFollows, runVars, ui
<1>1. CASE LogFails
  BY <1>1 DEF LogFails
<1>2. CASE Begin
  BY <1>2 DEF Begin
<1>3. CASE CreateWindow
  BY <1>3 DEF CreateWindow, UILeaves
<1>4. CASE ReadView
  BY <1>4 DEF ReadView
<1>5. CASE AddIcon
  BY <1>5 DEF AddIcon, UILeaves
<1>6. CASE Left
  BY <1>6 DEF Left, StopsRefresh
<1>7. CASE JoinRefresher
  BY <1>7 DEF JoinRefresher
<1>8. CASE JoinCollector
  BY <1>8 DEF JoinCollector, CollectorReturned, ExitCode
<1>9. CASE CollectorSteps
  BY <1>9 DEF CollectorSteps, Started, StartFails, Interrupted, Breaks, Finish, Returns, inside
<1>10. CASE CollectorDone
  BY <1>10 DEF CollectorDone
<1>11. CASE RefresherSteps
  BY <1>11 DEF RefresherSteps, Answers, Posts, RefresherLeaves
<1>12. CASE RefresherStops
  BY <1>12 DEF RefresherStops, RefresherLeaves
<1>13. CASE PostClose
  BY <1>13 DEF PostClose, RefreshDone
<1>14. CASE Dispatches
  BY <1>14 DEF Dispatches, DispatchRefresh, DispatchClose, DestroyWindow
<1>15. CASE MenuExit
  BY <1>15 DEF MenuExit, DestroyWindow
<1>16. CASE LoopEnds(TRUE) \/ LoopEnds(FALSE)
  BY <1>16 DEF LoopEnds, UILeaves
<1>17. CASE Signal
  BY <1>17 DEF Signal
<1>18. QED
  BY <1>1, <1>2, <1>3, <1>4, <1>5, <1>6, <1>7, <1>8, <1>9, <1>10, <1>11, <1>12, <1>13, <1>14, <1>15, <1>16, <1>17 DEF ThreadStep

(* Who returns has waited for the others.                                   *)
LEMMA ThreadsReturn == Inv /\ ThreadStep => ReturnIsOrderly'
<1> SUFFICES ASSUME Inv, ThreadStep
             PROVE  ReturnIsOrderly'
  OBVIOUS
<1> USE DEF Inv, OneCollector, TypeOK, ThreadsFit, Inside, Leaving, EndsHaveACause, Cause, ReturnIsOrderly, EverythingStopped, ExitCodeIsTrue, runVars, ui
<1>1. CASE LogFails
  BY <1>1 DEF LogFails
<1>2. CASE Begin
  BY <1>2 DEF Begin
<1>3. CASE CreateWindow
  BY <1>3 DEF CreateWindow, UILeaves
<1>4. CASE ReadView
  BY <1>4 DEF ReadView
<1>5. CASE AddIcon
  BY <1>5 DEF AddIcon, UILeaves
<1>6. CASE Left
  BY <1>6 DEF Left, StopsRefresh
<1>7. CASE JoinRefresher
  BY <1>7 DEF JoinRefresher
<1>8. CASE JoinCollector
  BY <1>8 DEF JoinCollector, CollectorReturned, ExitCode
<1>9. CASE CollectorSteps
  BY <1>9 DEF CollectorSteps, Started, StartFails, Interrupted, Breaks, Finish, Returns, inside
<1>10. CASE CollectorDone
  BY <1>10 DEF CollectorDone
<1>11. CASE RefresherSteps
  BY <1>11 DEF RefresherSteps, Answers, Posts, RefresherLeaves
<1>12. CASE RefresherStops
  BY <1>12 DEF RefresherStops, RefresherLeaves
<1>13. CASE PostClose
  BY <1>13 DEF PostClose, RefreshDone
<1>14. CASE Dispatches
  BY <1>14 DEF Dispatches, DispatchRefresh, DispatchClose, DestroyWindow
<1>15. CASE MenuExit
  BY <1>15 DEF MenuExit, DestroyWindow
<1>16. CASE LoopEnds(TRUE) \/ LoopEnds(FALSE)
  BY <1>16 DEF LoopEnds, UILeaves
<1>17. CASE Signal
  BY <1>17 DEF Signal
<1>18. QED
  BY <1>1, <1>2, <1>3, <1>4, <1>5, <1>6, <1>7, <1>8, <1>9, <1>10, <1>11, <1>12, <1>13, <1>14, <1>15, <1>16, <1>17 DEF ThreadStep

LEMMA InvThreads == Inv /\ ThreadStep => Inv'
BY ThreadsCollectAlone, ThreadsStayFit, ThreadsHaveACause, ThreadsRefresh, ThreadsReturn DEF Inv

LEMMA InvNext == Inv /\ [Next]_vars => Inv'
<1> SUFFICES ASSUME Inv, [Next]_vars
             PROVE  Inv'
  OBVIOUS
<1>1. CASE AppNext
  BY <1>1, InvThreads, InvEnter, InvLeave DEF AppNext, MainSteps, ThreadStep
<1>2. CASE UNCHANGED appVars
  BY <1>2 DEF appVars, inside, ui, runVars, Inv, OneCollector, TypeOK, OneProcessInside, ThreadsFit,
              EndsHaveACause, Cause, IconFollows, ReturnIsOrderly, EverythingStopped, ExitCodeIsTrue
<1>3. CASE TaskNext
  BY <1>2, <1>3, InvEnter DEF TaskNext, TaskStarts
<1>4. QED
  BY <1>1, <1>2, <1>3 DEF Next, vars

THEOREM SpecInv == Spec => []Inv
BY InvInit, InvNext, PTL DEF Spec

(* One process collects, whatever starts them and whenever they die, for    *)
(* any number of processes (AcquireMutex).                                  *)
THEOREM OneCollects == Spec => []OneCollector
<1>1. Inv => OneCollector
  BY DEF Inv
<1>2. QED
  BY <1>1, SpecInv, PTL

(* The icon is never left with an old view, but by the shell that refuses   *)
(* to change it (nativeUI.Update, notify).                                  *)
THEOREM IconStaysCurrent == Spec => []IconIsCurrent
<1>1. Inv => IconIsCurrent
  BY DEF Inv, IconFollows, IconIsCurrent
<1>2. QED
  BY <1>1, SpecInv, PTL

(* Who returns from main has stopped its goroutines, hides no failure, and  *)
(* does not take for one an exit that met a running collector               *)
(* (Controller.Run, runCollector).                                          *)
THEOREM ReturnsInOrder == Spec => []ReturnIsOrderly
<1>1. Inv => ReturnIsOrderly
  BY DEF Inv
<1>2. QED
  BY <1>1, SpecInv, PTL

-----------------------------------------------------------------------------
(* While the installer works, a task is its own or is not there.            *)
TaskInv ==
  /\ task \in {"none", "other", "own"}
  /\ step \in {"idle", "query", "create", "check", "remove", "run", "rollback", "uninstall"}
  /\ step = "create" => task = "none"
  /\ step \in {"check", "remove"} => task # "other"
  /\ step \in {"run", "rollback"} => task = "own"
  /\ outcome # "none" => step = "idle"
  /\ InstallTellsTheTruth

LEMMA TaskInvNext == TaskInv /\ [Next]_vars => TaskInv'
<1> SUFFICES ASSUME TaskInv, [Next]_vars
             PROVE  TaskInv'
  OBVIOUS
<1> USE DEF TaskInv, InstallTellsTheTruth, Returned, Continues
<1>1. CASE User \/ Command
  BY <1>1 DEF User, Command
<1>2. CASE Query \/ TempFails \/ Create \/ Check
  BY <1>2 DEF Query, TempFails, Create, Check
<1>3. CASE Rollback \/ Uninstall
  BY <1>3 DEF Rollback, Uninstall
<1>4. CASE RunSucceeds \/ RunFails
  BY <1>4 DEF RunSucceeds, RunFails
<1>5. CASE UNCHANGED taskVars
  BY <1>5 DEF taskVars
<1>6. QED
  BY <1>1, <1>2, <1>3, <1>4, <1>5 DEF Next, TaskNext, InstallSteps, vars

LEMMA TaskInvInit == Init => TaskInv
BY DEF Init, TaskInit, TaskInv, InstallTellsTheTruth

THEOREM SpecTaskInv == Spec => []TaskInv
BY TaskInvInit, TaskInvNext, PTL DEF Spec

(* What install and uninstall say of the task is so (installTask,           *)
(* UninstallTask).                                                          *)
THEOREM InstallIsTruthful == Spec => []InstallTellsTheTruth
<1>1. TaskInv => InstallTellsTheTruth
  BY DEF TaskInv
<1>2. QED
  BY <1>1, SpecTaskInv, PTL

(* A task that was there before is left alone by an install (installTask).  *)
THEOREM OtherTaskIsUntouched == Spec => ExistingTaskIsUntouched
<1>1. TaskInv /\ [Next]_vars => [task = "other" /\ task' # "other" => step \in {"idle", "uninstall"}]_taskVars
  <2> SUFFICES ASSUME TaskInv, [Next]_vars, task = "other", task' # "other"
               PROVE  step \in {"idle", "uninstall"}
    OBVIOUS
  <2> USE DEF TaskInv, Returned, Continues
  <2>1. CASE User \/ Command \/ Query \/ TempFails \/ Create \/ Check
    BY <2>1 DEF User, Command, Query, TempFails, Create, Check
  <2>2. CASE Rollback \/ Uninstall
    BY <2>2 DEF Rollback, Uninstall
  <2>3. CASE RunSucceeds \/ RunFails \/ UNCHANGED taskVars
    BY <2>3 DEF RunSucceeds, RunFails, taskVars
  <2>4. QED
    BY <2>1, <2>2, <2>3 DEF Next, TaskNext, InstallSteps, vars
<1>2. QED
  BY <1>1, SpecTaskInv, PTL DEF Spec, ExistingTaskIsUntouched
=============================================================================
