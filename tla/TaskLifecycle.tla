--------------------------- MODULE TaskLifecycle ----------------------------
(***************************************************************************)
(* What the task ledger promises of one task, with no mention of jobs,     *)
(* workers, sweeps or timers: the task moves only as TASK_TRANSITIONS      *)
(* allows, it is parked on at most one question at a time, a question is   *)
(* used once, an answer is accepted only for the question the task is      *)
(* parked on and puts exactly that question on record, and a parked task   *)
(* leaves the park by an answer, a decline or a timeout and by nothing     *)
(* else.  TaskEngine implements this specification.                        *)
(***************************************************************************)
EXTENDS Naturals, TaskTransitions

\* Question ids are positive numbers.
NoQuestion == 0

VARIABLES
  status,       \* the task's status
  cause,        \* why it last moved; "created" before the first move
  open,         \* the question it is parked on, or NoQuestion
  asked,        \* every question it was ever parked on
  answered      \* the questions with an accepted answer

vars == <<status, cause, open, asked, answered>>

Init ==
  /\ status = "queued"
  /\ cause = "created"
  /\ open = NoQuestion
  /\ asked = {}
  /\ answered = {}

Move(c) ==
  /\ TransitionTarget(status, c) # NoStatus
  /\ status' = TransitionTarget(status, c)
  /\ cause' = c

\* A worker picks the task up: for the first time, after an answer, or again.
PickUp ==
  /\ \/ Move("started") /\ answered = {}
     \/ Move("resumed") /\ answered # {}
     \/ Move("retried")
  /\ UNCHANGED <<open, asked, answered>>

\* The task is parked on a question nobody was asked before.
Park ==
  /\ Move("asked")
  /\ open' \in Nat
  /\ open' \notin asked \cup {NoQuestion}
  /\ asked' = asked \cup {open'}
  /\ UNCHANGED answered

\* The person answers the open question.
Answer ==
  /\ Move("answered")
  /\ answered' = answered \cup {open}
  /\ open' = NoQuestion
  /\ UNCHANGED asked

\* The question closes unanswered, and the task with it.
Close ==
  /\ Move("timeout") \/ Move("declined")
  /\ open' = NoQuestion
  /\ UNCHANGED <<asked, answered>>

\* A run ends the task, or no run is ever going to.
Finish ==
  /\ \E c \in {"succeeded", "error", "violation", "refused", "orphaned"} : Move(c)
  /\ UNCHANGED <<open, asked, answered>>

Next == PickUp \/ Park \/ Answer \/ Close \/ Finish

Spec == Init /\ [][Next]_vars

=============================================================================
