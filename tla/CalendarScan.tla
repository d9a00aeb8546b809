---------------------------- MODULE CalendarScan ----------------------------
(***************************************************************************)
(* The calendar scan (packages/db/src/calendar-scan.ts) over its ledger    *)
(* (calendar-ledger.ts): one flagged subscription, one person, and scans   *)
(* that may overlap or die between any two of their statements.            *)
(*                                                                         *)
(* Entries share nothing but the order one scan visits them in, so one     *)
(* entry stands for all.  Each statement of the ledger is one action; so   *)
(* is armAutoCancel, which is one transaction.  The run job of an armed    *)
(* task is TaskEngine's SendRun and SendLost.                              *)
(*                                                                         *)
(* Left out: wording, notes, timestamps, delivery ids.                     *)
(***************************************************************************)
EXTENDS Naturals, FiniteSets

CONSTANTS
  Scans,         \* scans that can be under way at once
  RenewOn,       \* the entry's renewal, as a day of the person's calendar
  ReminderLead,  \* days of notice of its reminder
  CancelLead,    \* days of notice of its cancellation
  MaxAttempts,   \* REMINDER_SEND_ATTEMPTS
  LastDay,       \* bound: the calendar ends here
  MaxFaults      \* bound: how many scans die halfway

ASSUME DaysAssumption ==
  /\ {RenewOn, ReminderLead, CancelLead, LastDay, MaxAttempts, MaxFaults} \subseteq Nat
  /\ ReminderLead <= RenewOn
  /\ CancelLead <= RenewOn

ASSUME ScansAssumption == IsFiniteSet(Scans)

VARIABLES
  day,         \* today, where the person lives
  bound,       \* whether the person has a chat
  annotation,  \* the mark on the entry
  reminder,    \* the reminder's row: state and attempts
  renewal,     \* the auto-cancel row's state
  task,        \* the cancellation task's status
  sent,        \* history: sends that reached the person, however many copies each brought
  scan,        \* where each scan is, and what it has read
  faults       \* scans that died so far

vars == <<day, bound, annotation, reminder, renewal, task, sent, scan, faults>>

None == "none"

-----------------------------------------------------------------------------
(* Marks and days *)

CALENDAR_ANNOTATIONS == <<"late", "needs_attention", "declined", "handled">>

AnnotationRank(mark) ==
  IF mark = None THEN 0
  ELSE CHOOSE rank \in DOMAIN CALENDAR_ANNOTATIONS : CALENDAR_ANNOTATIONS[rank] = mark

\* Variant: the newest mark wins.
AnnotateAlways(current, next) == TRUE

CanAnnotate(current, next) == AnnotationRank(next) >= AnnotationRank(current)

\* annotateCalendarItem: the rank is compared in the UPDATE itself.
Annotate(mark) == annotation' = IF CanAnnotate(annotation, mark) THEN mark ELSE annotation

DueOn == RenewOn - ReminderLead

ReminderDue(mark, today) == mark # "handled" /\ today \in DueOn..RenewOn

AutoCancelDue(mark, today) ==
  mark \notin {"handled", "declined"} /\ today \in (RenewOn - CancelLead)..RenewOn

\* The ending of a task, in the row's words and in the entry's.
Terminal == {"succeeded", "cancelled", "failed"}

EndingOf(status) ==
  CASE status = "succeeded" -> [state |-> "handled", annotation |-> "handled"]
    [] status = "cancelled" -> [state |-> "declined", annotation |-> "declined"]
    [] OTHER -> [state |-> "failed", annotation |-> "needs_attention"]

-----------------------------------------------------------------------------
(* One scan *)

IdleScan == [pc |-> "idle", today |-> 0, ending |-> None, mark |-> None,
             reachable |-> FALSE, attempts |-> 0, outcome |-> None]

Goes(s, pc) == scan' = [scan EXCEPT ![s].pc = pc]
Ends(s) == scan' = [scan EXCEPT ![s] = IdleScan]

ScanStarts(s) ==
  /\ scan[s].pc = "idle"
  /\ scan' = [scan EXCEPT ![s] = [IdleScan EXCEPT !.pc = "ended", !.today = day]]
  /\ UNCHANGED <<day, bound, annotation, reminder, renewal, task, sent, faults>>

\* Variant: a task that was declined is not among the ended.
DeclinesUnseen == renewal = "enqueued" /\ task \in {"succeeded", "failed"}

\* settleEndedCancellations' WHERE.
CancellationEnded == renewal = "enqueued" /\ task \in Terminal

\* settleEndedCancellations reads the enqueued rows whose task has ended...
ReadEnded(s) ==
  /\ scan[s].pc = "ended"
  /\ IF CancellationEnded
     THEN scan' = [scan EXCEPT ![s].pc = "settle", ![s].ending = task]
     ELSE Goes(s, "read")
  /\ UNCHANGED <<day, bound, annotation, reminder, renewal, task, sent, faults>>

\* Variant: the mark first, and the row with the next scan.
MarkedFirst(s) == UNCHANGED renewal /\ Goes(s, "mark")

\* settleAutoCancel: one winner writes the row, and only that one the mark.
SettleAutoCancel(s) ==
  IF renewal = "enqueued"
  THEN renewal' = EndingOf(scan[s].ending).state /\ Goes(s, "mark")
  ELSE UNCHANGED renewal /\ Goes(s, "read")

SettleRow(s) ==
  /\ scan[s].pc = "settle"
  /\ SettleAutoCancel(s)
  /\ UNCHANGED <<day, bound, annotation, reminder, task, sent, faults>>

MarkEnding(s) ==
  /\ scan[s].pc = "mark"
  /\ Annotate(EndingOf(scan[s].ending).annotation)
  /\ Goes(s, "read")
  /\ UNCHANGED <<day, bound, reminder, renewal, task, sent, faults>>

\* The entry and its person are read once; before their morning nothing more is done.
ReadEntry(s) ==
  /\ scan[s].pc = "read"
  /\ \/ Ends(s)
     \/ scan' = [scan EXCEPT
                   ![s].pc = IF ReminderDue(annotation, scan[s].today) THEN "record" ELSE "arm",
                   ![s].mark = annotation, ![s].reachable = bound]
  /\ UNCHANGED <<day, bound, annotation, reminder, renewal, task, sent, faults>>

Dispatchable(row) == row.attempts < MaxAttempts /\ row.state \in {"pending", "failed"}

\* recordReminder: the first writer's row, or one of one's own.
RecordReminder(s) ==
  /\ scan[s].pc = "record"
  /\ reminder' = IF reminder.state = None THEN [state |-> "pending", attempts |-> 0] ELSE reminder
  /\ IF Dispatchable(reminder')
     THEN scan' = [scan EXCEPT ![s].pc = "claim", ![s].attempts = reminder'.attempts]
     ELSE Goes(s, "arm")
  /\ UNCHANGED <<day, bound, annotation, renewal, task, sent, faults>>

\* Variant: the attempt is counted from what the scan read, whoever came between.
ClaimedAnyway(s) == TRUE

\* claimReminder's WHERE: the count is still the one this scan read.
Claimed(s) == reminder.attempts = scan[s].attempts

ClaimReminder(s) ==
  /\ scan[s].pc = "claim"
  /\ IF Claimed(s)
     THEN /\ reminder' = [reminder EXCEPT !.attempts = scan[s].attempts + 1]
          /\ Goes(s, "send")
     ELSE UNCHANGED reminder /\ Goes(s, "arm")
  /\ UNCHANGED <<day, bound, annotation, renewal, task, sent, faults>>

\* The message is on the wire; nothing in the database knows it yet.  A send that
\* is reported failed may have arrived (Outbound, SendTo).
SendReminder(s) ==
  /\ scan[s].pc = "send"
  /\ \E outcome \in IF bound THEN {"sent", "failed"} ELSE {"unbound"}, arrived \in BOOLEAN :
       /\ outcome = "sent" => arrived
       /\ outcome = "unbound" => ~arrived
       /\ sent' = IF arrived THEN sent + 1 ELSE sent
       /\ scan' = [scan EXCEPT ![s].pc = "outcome", ![s].outcome = outcome]
  /\ UNCHANGED <<day, bound, annotation, reminder, renewal, task, faults>>

Late(s) == scan[s].today > DueOn

\* settleReminder, which asks nothing of the row it writes.
SettleReminder(s) ==
  /\ scan[s].pc = "outcome"
  /\ LET state == CASE scan[s].outcome = "unbound" -> "skipped_unbound"
                    [] scan[s].outcome = "failed" -> "failed"
                    [] OTHER -> IF Late(s) THEN "late" ELSE "delivered"
     IN  /\ reminder' = [reminder EXCEPT !.state = state]
         /\ Goes(s, IF state \in {"skipped_unbound", "late"} THEN "news" ELSE "arm")
  /\ UNCHANGED <<day, bound, annotation, renewal, task, sent, faults>>

MarkReminder(s) ==
  /\ scan[s].pc = "news"
  /\ Annotate(IF scan[s].outcome = "unbound" THEN "needs_attention" ELSE "late")
  /\ Goes(s, "arm")
  /\ UNCHANGED <<day, bound, reminder, renewal, task, sent, faults>>

\* findAutoCancel, then the plan: no task for a person who cannot be asked.
Plan(s) ==
  /\ scan[s].pc = "arm"
  /\ IF AutoCancelDue(scan[s].mark, scan[s].today) /\ renewal = None
     THEN \/ Goes(s, "unlink")
          \/ scan[s].reachable /\ Goes(s, "create")
     ELSE Ends(s)
  /\ UNCHANGED <<day, bound, annotation, reminder, renewal, task, sent, faults>>

\* Variant: the row found missing is taken to be missing still.
StillUndecided == TRUE

\* ON CONFLICT DO NOTHING.
Undecided == renewal = None

RecordUnlinked(s) ==
  /\ scan[s].pc = "unlink"
  /\ IF Undecided
     THEN renewal' = "unlinked" /\ Goes(s, "unlinked")
     ELSE UNCHANGED renewal /\ Ends(s)
  /\ UNCHANGED <<day, bound, annotation, reminder, task, sent, faults>>

MarkUnlinked(s) ==
  /\ scan[s].pc = "unlinked"
  /\ Annotate("needs_attention")
  /\ Ends(s)
  /\ UNCHANGED <<day, bound, reminder, renewal, task, sent, faults>>

\* armAutoCancel: the row and its task in one transaction.
ArmAutoCancel(s) ==
  /\ scan[s].pc = "create"
  /\ IF Undecided
     THEN renewal' = "enqueued" /\ task' = "open"
     ELSE UNCHANGED <<renewal, task>>
  /\ Ends(s)
  /\ UNCHANGED <<day, bound, annotation, reminder, sent, faults>>

\* A statement throws, or the worker dies: the scan is over where it stands.
ScanDies(s) ==
  /\ scan[s].pc # "idle"
  /\ faults < MaxFaults
  /\ faults' = faults + 1
  /\ Ends(s)
  /\ UNCHANGED <<day, bound, annotation, reminder, renewal, task, sent>>

-----------------------------------------------------------------------------
(* The world *)

DayPasses ==
  /\ day < LastDay
  /\ day' = day + 1
  /\ UNCHANGED <<bound, annotation, reminder, renewal, task, sent, scan, faults>>

\* bindChat; a chat once bound stays bound.
ChatBound ==
  /\ ~bound
  /\ bound' = TRUE
  /\ UNCHANGED <<day, annotation, reminder, renewal, task, sent, scan, faults>>

\* The task engine settles the cancellation.
TaskEnds ==
  /\ task = "open"
  /\ task' \in Terminal
  /\ UNCHANGED <<day, bound, annotation, reminder, renewal, sent, scan, faults>>

Init ==
  /\ day = 0
  /\ bound \in BOOLEAN
  /\ annotation = None
  /\ reminder = [state |-> None, attempts |-> 0]
  /\ renewal = None
  /\ task = None
  /\ sent = 0
  /\ scan = [s \in Scans |-> IdleScan]
  /\ faults = 0

ScanStep(s) ==
  \/ ScanStarts(s) \/ ReadEnded(s) \/ SettleRow(s) \/ MarkEnding(s) \/ ReadEntry(s)
  \/ RecordReminder(s) \/ ClaimReminder(s) \/ SendReminder(s) \/ SettleReminder(s)
  \/ MarkReminder(s) \/ Plan(s) \/ RecordUnlinked(s) \/ MarkUnlinked(s) \/ ArmAutoCancel(s)

Next ==
  \/ \E s \in Scans : ScanStep(s) \/ ScanDies(s)
  \/ DayPasses
  \/ ChatBound
  \/ TaskEnds

Spec == Init /\ [][Next]_vars

\* The cron starts scans for ever, and a scan that is under way goes on.
FairSpec == Spec /\ \A s \in Scans : WF_vars(ScanStep(s))

-----------------------------------------------------------------------------
(* What is checked *)

Sending == {s \in Scans : scan[s].pc = "send"}

\* Every send was claimed first, and no attempt is claimed twice: however scans
\* overlap and die, the person hears at most MaxAttempts sends (claimReminder).
AttemptsCoverSends == sent + Cardinality(Sending) <= reminder.attempts

\* The renewal is decided once, has one task at most, and its row says of the
\* task what became of it (armAutoCancel, recordAutoCancel, settleAutoCancel).
Ledger == INSTANCE RenewalLedger WITH
  Undecided <- None, NoTask <- None, state <- renewal, task <- task

ImplementsLedger == Ledger!Spec

\* A person's no outlives every later mark, and so does a cancellation that went
\* through: a late reminder, a skip, a scan with an old snapshot (canAnnotate).
DecisionsStay ==
  [][(annotation \in {"declined", "handled"}) => UNCHANGED annotation]_vars

\* The marks tell the truth: `handled` only of a cancellation that went through,
\* `declined` only of one the person said no to.
MarksAreEarned ==
  /\ annotation = "handled" => renewal = "handled"
  /\ annotation = "declined" => renewal = "declined"

\* A cancellation that has ended is on its row in the end, whatever dies on the way.
EndingsAreRecorded == (task \in Terminal) ~> (renewal \in {"handled", "declined", "failed"})

\* README.md:77-78: a scan that runs twice or dies halfway never sends twice.
NeverSendsTwice == sent <= 1

=============================================================================
