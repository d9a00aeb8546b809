--------------------------- MODULE RenewalLedger ----------------------------
(***************************************************************************)
(* What the calendar promises about one flagged renewal, with no mention   *)
(* of scans, days or crashes: it is decided once, either as unlinked or    *)
(* with one cancellation task; that task runs once; and how the task ended *)
(* is written down once, as what it was.  CalendarScan implements this.    *)
(***************************************************************************)
CONSTANTS
  Undecided,   \* no row yet
  NoTask       \* no task yet

VARIABLES
  state,   \* the renewal's row, or Undecided
  task     \* its cancellation task's status, or NoTask

vars == <<state, task>>

\* How the row records each way a task can end.
Endings == [succeeded |-> "handled", cancelled |-> "declined", failed |-> "failed"]

Init == state = Undecided /\ task = NoTask

Unlink ==
  /\ state = Undecided
  /\ state' = "unlinked"
  /\ UNCHANGED task

Arm ==
  /\ state = Undecided
  /\ task = NoTask
  /\ state' = "enqueued"
  /\ task' = "open"

End ==
  /\ task = "open"
  /\ task' \in DOMAIN Endings
  /\ UNCHANGED state

Record ==
  /\ state = "enqueued"
  /\ task \in DOMAIN Endings
  /\ state' = Endings[task]
  /\ UNCHANGED task

Next == Unlink \/ Arm \/ End \/ Record

Spec == Init /\ [][Next]_vars

=============================================================================
