--------------------------- MODULE CollectorRun ----------------------------
(***************************************************************************)
(* What the process around it may expect of Collector.Run                  *)
(* (internal/tracker/collector.go): it returns for a reason, and it does   *)
(* return once its context is done.  Collector implements this, and        *)
(* Application is built from it.                                           *)
(***************************************************************************)
VARIABLES
  phase,         \* "starting" up to the loop, "running", "ended"
  done,          \* the context is done
  result         \* "canceled", the error main looks for, "interrupted", one that
                 \* wraps it, or "failed", any other
runVars == <<phase, done, result>>

RunInit == phase = "starting" /\ done = FALSE /\ result = "none"

Cancel == phase # "ended" /\ done' = TRUE /\ UNCHANGED <<phase, result>>
Started == phase = "starting" /\ phase' = "running" /\ UNCHANGED <<done, result>>
Returns(error) == phase' = "ended" /\ result' = error /\ UNCHANGED done
(* An error of the first requests is wrapped, also that ctx was done; the   *)
(* browser server may stop at any time.                                     *)
StartFails == phase = "starting" /\ Returns("failed")
Interrupted == phase = "starting" /\ done /\ Returns("interrupted")
Breaks == phase = "running" /\ Returns("failed")
Finish == phase = "running" /\ done /\ Returns("canceled")
Restart == phase = "ended" /\ phase' = "starting" /\ done' = FALSE /\ result' = "none"

RunNext == Cancel \/ Started \/ StartFails \/ Interrupted \/ Breaks \/ Finish \/ Restart
RunSpec ==
  /\ RunInit /\ [][RunNext]_runVars
  /\ WF_runVars(Started \/ StartFails \/ Interrupted) /\ WF_runVars(Finish)
=============================================================================
