----------------------------- MODULE TaskStates -----------------------------
(***************************************************************************)
(* The persistent status of every task (column tasks.payload.status) and   *)
(* the transition table dante/ledger.py enforces on it.  The variable is   *)
(* shared by every module whose operations read or write a task row, so it *)
(* lives here: TaskQueue and StepJournal both extend this module.          *)
(***************************************************************************)

CONSTANTS
    Task,           \* the task identifiers
    Worker          \* the processes that execute tasks (Worker.worker_id)

VARIABLE status         \* status[t]: the status in t's row, or Missing

Status == {"created", "planned", "running", "waiting_tool", "waiting_approval",
           "verifying", "completed", "failed_retryable", "failed_terminal",
           "cancelled"}

TERMINAL == {"completed", "failed_terminal", "cancelled"}

\* No row of table tasks has this identifier yet.
Missing == "missing"

TRANSITIONS ==
    [s \in Status |->
       CASE s = "created"          -> {"planned", "cancelled"}
         [] s = "planned"          -> {"running", "cancelled"}
         [] s = "running"          -> {"waiting_tool", "waiting_approval",
                                       "verifying", "failed_retryable",
                                       "failed_terminal", "cancelled"}
         [] s = "waiting_tool"     -> {"running", "failed_retryable",
                                       "failed_terminal", "cancelled"}
         [] s = "waiting_approval" -> {"running", "failed_terminal", "cancelled"}
         [] s = "verifying"        -> {"cancelled", "completed",
                                       "failed_retryable", "failed_terminal"}
         [] s = "failed_retryable" -> {"running", "cancelled"}
         [] OTHER                  -> {}]

\* _active_task: the row exists and its status is not terminal.
Active(t) == status[t] \in Status \ TERMINAL

StatusOK == status \in [Task -> Status \cup {Missing}]
=============================================================================
