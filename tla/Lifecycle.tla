------------------------------ MODULE Lifecycle ------------------------------
(***************************************************************************)
(* The persisted statuses of runs, tasks and attempts and the transition   *)
(* tables the domain layer declares for them (domain/models.py and         *)
(* domain/state_machine.py).  A table maps a status to the statuses it may *)
(* change to; a status the table does not list may not change.             *)
(***************************************************************************)

RunStatus == {"created", "running", "completed", "cancelled", "failed"}

TaskStatus == {"queued", "ready", "running", "verifying", "verified",
               "failed", "cancelled", "blocked"}

AttemptStatus == {"created", "starting", "running", "agent_completed",
                  "verifying", "passed", "winner", "superseded", "failed",
                  "cancelled", "orphaned"}

RUN_TRANSITIONS ==
  [s \in RunStatus |->
    CASE s = "created" -> {"running", "cancelled"}
      [] s = "running" -> {"completed", "cancelled", "failed"}
      [] s = "failed"  -> {"running"}
      [] OTHER         -> {}]

TASK_TRANSITIONS ==
  [s \in TaskStatus |->
    CASE s = "queued"    -> {"ready", "blocked", "cancelled"}
      [] s = "ready"     -> {"running", "cancelled", "blocked"}
      [] s = "running"   -> {"verifying", "failed", "cancelled"}
      [] s = "verifying" -> {"running", "verified", "failed", "cancelled"}
      [] s = "failed"    -> {"verifying"}
      [] OTHER           -> {}]

ATTEMPT_TRANSITIONS ==
  [s \in AttemptStatus |->
    CASE s = "created"         -> {"starting", "cancelled"}
      [] s = "starting"        -> {"running", "failed", "cancelled"}
      [] s = "running"         -> {"agent_completed", "failed", "cancelled",
                                   "orphaned"}
      [] s = "agent_completed" -> {"verifying", "failed"}
      [] s = "verifying"       -> {"passed", "failed", "cancelled"}
      [] s = "passed"          -> {"winner", "superseded"}
      [] s = "orphaned"        -> {"failed", "cancelled"}
      [] s = "failed"          -> {"verifying"}
      [] OTHER                 -> {}]

\* require_transition raises TransitionError exactly when this is FALSE.
Allowed(current, new, table) == new \in table[current]

==============================================================================
