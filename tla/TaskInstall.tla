---------------------------- MODULE TaskInstall ----------------------------
(***************************************************************************)
(* The install and uninstall commands, internal/windows/task.go: a series  *)
(* of schtasks.exe commands, each of which may fail, before it did what it *)
(* was asked for or after.  One install or uninstall runs at a time; the   *)
(* user may register or remove a task of that name between two of them.    *)
(***************************************************************************)
VARIABLES
  task,          \* the scheduled task: "none", "other" (registered before) or "own"
  step,          \* where installTask or UninstallTask is
  outcome        \* what it returned: "installed", "rolled back", "removed" or "failed"
taskVars == <<task, step, outcome>>

TaskInit == task \in {"none", "other"} /\ step = "idle" /\ outcome = "none"

Returned(what) == step' = "idle" /\ outcome' = what
Continues(at) == step' = at /\ outcome' = "none"

User ==
  /\ step = "idle" /\ task' \in {"none", "other"} /\ task' # task
  /\ Continues("idle")
Command == step = "idle" /\ (Continues("query") \/ Continues("uninstall")) /\ UNCHANGED task

(* taskExists: an error says it is not there only if it says so; any other  *)
(* is an error.                                                             *)
(* Variant: any error means that there is no task.                          *)
QueryAssumed ==
  /\ step = "query" /\ UNCHANGED task
  /\ \/ task # "none" /\ Returned("failed")
     \/ Continues("create")
Query ==
  /\ step = "query" /\ UNCHANGED task
  /\ \/ task # "none" /\ Returned("failed")
     \/ task = "none" /\ Continues("create")
     \/ Returned("failed")

(* os.CreateTemp fails, or schtasks /Create with the file.                  *)
TempFails == step = "create" /\ Returned("failed") /\ UNCHANGED task
Create ==
  /\ step = "create"
  /\ \/ task' = "own" /\ Continues("run")
     \/ task' \in {"own", task} /\ Continues("check")
(* The registration failed: what it left is removed, if it is seen.         *)
Check ==
  /\ step = "check" /\ UNCHANGED task
  /\ \/ task # "none" /\ Continues("remove")
     \/ Returned("failed")
(* Variant: what may have failed to be removed is called rolled back.       *)
RollbackUnchecked ==
  /\ step \in {"remove", "rollback"}
  /\ task' \in {"none", task}
  /\ Returned(IF step = "remove" THEN "failed" ELSE "rolled back")
(* schtasks /Delete; its error only matters to the message of a rollback.   *)
Rollback ==
  /\ step \in {"remove", "rollback"}
  /\ \/ task' = "none" /\ Returned(IF step = "remove" THEN "failed" ELSE "rolled back")
     \/ task' \in {"none", task} /\ Returned("failed")

(* schtasks /Run starts a process, whether it says so or not.               *)
RunSucceeds == step = "run" /\ Returned("installed") /\ UNCHANGED task
RunFails == step = "run" /\ Continues("rollback") /\ UNCHANGED task

Uninstall ==
  /\ step = "uninstall"
  /\ \/ task = "none" /\ Returned("failed") /\ UNCHANGED task
     \/ task # "none" /\ task' = "none" /\ Returned("removed")
     \/ task' \in {"none", task} /\ Returned("failed")

InstallSteps == Query \/ TempFails \/ Create \/ Check \/ Rollback \/ Uninstall

----------------------------------------------------------------------------
(* A task that was there before is not touched by an install: only an       *)
(* uninstall, or the user, changes it (TestExistingTaskIsUntouched).        *)
ExistingTaskIsUntouched == [][task = "other" /\ task' # "other" => step \in {"idle", "uninstall"}]_taskVars

(* What the command says is true: installed and removed are so, and a       *)
(* rollback leaves nothing (TestStartFailureRollsBackNewTask).              *)
InstallTellsTheTruth ==
  /\ outcome = "installed" => task = "own"
  /\ outcome \in {"rolled back", "removed"} => task = "none"
=============================================================================
