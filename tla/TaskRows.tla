------------------------------ MODULE TaskRows ------------------------------
(***************************************************************************)
(* What agent_execution_service (services/tasks.py) makes of a job: the      *)
(* status of the task, and how much of it is done.                           *)
(***************************************************************************)
EXTENDS Integers

TaskStatuses == {"pending", "running", "waiting_approval", "completed", "failed"}

\* _TASK_STATUS_FROM_JOB, and the default of _task_status.
TaskStatus(s) ==
    CASE s = "succeeded" -> "completed"
      [] s \in {"failed", "dead", "cancelled"} -> "failed"
      [] s \in {"running", "waiting_approval"} -> s
      [] OTHER -> "pending"

Terminal_WaitingToo == {"completed", "failed", "waiting_approval"}

\* _TERMINAL_STATUSES: never refreshed.
Terminal == {"completed", "failed"}

\* get_progress never shows fewer steps than are done.
StepsTotal(planned, completed) == IF planned < completed THEN completed ELSE planned

PercentComplete_PendingIsZero(status, completed, total) ==
    IF status = "completed" THEN 1000
    ELSE IF total <= 0 \/ status = "pending" THEN 0
    ELSE (2000 * completed + total) \div (2 * total)

\* _percent_complete, in tenths of a percent, which it is rounded to.
PercentComplete(status, completed, total) ==
    IF status = "completed" THEN 1000
    ELSE IF total <= 0 THEN 0
    ELSE (2000 * completed + total) \div (2 * total)
=============================================================================
