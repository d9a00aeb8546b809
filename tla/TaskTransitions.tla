-------------------------- MODULE TaskTransitions ---------------------------
(***************************************************************************)
(* The task state machine as a table: packages/core/src/task-lifecycle.ts. *)
(* A constant module, shared by the abstract specification of a task       *)
(* (TaskLifecycle) and by the engine that implements it (TaskEngine).      *)
(***************************************************************************)

TerminalTaskStatuses == {"succeeded", "failed", "cancelled"}

TaskStatuses == {"queued", "running", "waiting_user"} \cup TerminalTaskStatuses

\* No target: the table has no row for this status and cause.
NoStatus == "undefined"

(***************************************************************************)
(* Every cause, the one status it may move a task out of and the status it *)
(* moves it to.  `retried` is the one self-transition.                     *)
(***************************************************************************)
TASK_TRANSITIONS ==
  [started   |-> [from |-> "queued",       to |-> "running"],
   resumed   |-> [from |-> "queued",       to |-> "running"],
   retried   |-> [from |-> "running",      to |-> "running"],
   asked     |-> [from |-> "running",      to |-> "waiting_user"],
   answered  |-> [from |-> "waiting_user", to |-> "queued"],
   succeeded |-> [from |-> "running",      to |-> "succeeded"],
   error     |-> [from |-> "running",      to |-> "failed"],
   violation |-> [from |-> "running",      to |-> "failed"],
   refused   |-> [from |-> "running",      to |-> "failed"],
   timeout   |-> [from |-> "waiting_user", to |-> "failed"],
   orphaned  |-> [from |-> "running",      to |-> "failed"],
   declined  |-> [from |-> "waiting_user", to |-> "cancelled"]]

TransitionCauses == DOMAIN TASK_TRANSITIONS

\* Where `cause` takes a task in `status`, or nowhere.
TransitionTarget(status, cause) ==
  IF TASK_TRANSITIONS[cause].from = status
  THEN TASK_TRANSITIONS[cause].to
  ELSE NoStatus

=============================================================================
