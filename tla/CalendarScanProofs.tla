-------------------------- MODULE CalendarScanProofs --------------------------
(***************************************************************************)
(* What the calendar guarantees for any number of scans that overlap or    *)
(* die, any days and any number of attempts.  The induction is over        *)
(* ScanInv: what a scan has read and what the rows say by now, statement   *)
(* by statement.                                                           *)
(***************************************************************************)
EXTENDS CalendarScan, FiniteSetTheorems, TLAPS

Marks == {"late", "needs_attention", "declined", "handled"}

ScanRecord ==
  [pc : {"idle", "ended", "settle", "mark", "read", "record", "claim", "send", "outcome", "news", "arm",
         "unlink", "unlinked", "create"},
   today : Nat, ending : {None} \cup Terminal, mark : {None} \cup Marks,
   reachable : BOOLEAN, attempts : Nat, outcome : {None, "sent", "failed", "unbound"}]

Shape ==
  /\ day \in Nat /\ bound \in BOOLEAN /\ annotation \in {None} \cup Marks
  /\ reminder \in [state : {None, "pending", "failed", "skipped_unbound", "late", "delivered"}, attempts : Nat]
  /\ renewal \in {None, "unlinked", "enqueued", "handled", "declined", "failed"}
  /\ task \in {None, "open"} \cup Terminal
  /\ sent \in Nat /\ faults \in Nat
  /\ scan \in [Scans -> ScanRecord]

\* The renewal's row and its task.
RowFollowsTask ==
  /\ renewal \in {None, "unlinked"} <=> task = None
  /\ renewal \in {"handled", "declined", "failed"} => task \in Terminal /\ renewal = EndingOf(task).state

\* What a scan under way has read of the task.
EndingsAreTrue ==
  \A s \in Scans :
    /\ scan[s].pc \in {"settle", "mark"} => scan[s].ending = task /\ task \in Terminal
    /\ scan[s].pc = "mark" => renewal = EndingOf(task).state

\* What a scan under way has read of the reminder's row.
AttemptsBounded ==
  /\ reminder.state = None => reminder.attempts = 0
  /\ reminder.attempts <= MaxAttempts
  /\ \A s \in Scans :
       /\ scan[s].pc \in {"claim", "send", "outcome"} => reminder.state # None
       /\ scan[s].pc = "claim" => scan[s].attempts < MaxAttempts

-----------------------------------------------------------------------------

\* The order of the marks.
LEMMA Ranks ==
  /\ AnnotationRank(None) = 0 /\ AnnotationRank("late") = 1 /\ AnnotationRank("needs_attention") = 2
  /\ AnnotationRank("declined") = 3 /\ AnnotationRank("handled") = 4
<1> DEFINE marks == CALENDAR_ANNOTATIONS
<1>1. DOMAIN marks = 1..4 /\ marks[1] = "late" /\ marks[2] = "needs_attention" /\ marks[3] = "declined" /\ marks[4] = "handled"
  BY DEF CALENDAR_ANNOTATIONS
<1> HIDE DEF marks
<1>2. /\ \A rank \in DOMAIN marks : marks[rank] = "late" <=> rank = 1
      /\ \A rank \in DOMAIN marks : marks[rank] = "needs_attention" <=> rank = 2
      /\ \A rank \in DOMAIN marks : marks[rank] = "declined" <=> rank = 3
      /\ \A rank \in DOMAIN marks : marks[rank] = "handled" <=> rank = 4
  BY <1>1
<1> USE DEF None, AnnotationRank
<1>3. AnnotationRank("late") = 1 /\ AnnotationRank("needs_attention") = 2
  BY <1>1, <1>2 DEF marks
<1>4. AnnotationRank("declined") = 3 /\ AnnotationRank("handled") = 4
  BY <1>1, <1>2 DEF marks
<1> QED
  BY <1>3, <1>4

\* Every statement of a scan keeps the shape.
LEMMA ShapeStep == Shape /\ [Next]_vars => Shape'
<1> SUFFICES ASSUME Shape, [Next]_vars PROVE Shape'
  OBVIOUS
<1> USE DaysAssumption DEF None
<1>r. IdleScan \in ScanRecord /\ \A s \in Scans : scan[s] \in ScanRecord
  BY DEF Shape, IdleScan, ScanRecord
<1>o. ASSUME NEW s \in Scans, NEW r \in ScanRecord, scan' = [scan EXCEPT ![s] = r]
      PROVE  scan' \in [Scans -> ScanRecord]
  BY <1>o DEF Shape
<1>e. ASSUME NEW s \in Scans, Ends(s) PROVE scan' \in [Scans -> ScanRecord]
  BY <1>e, <1>o, <1>r DEF Ends
<1>g. ASSUME NEW s \in Scans, NEW pc, Goes(s, pc),
             pc \in {"idle", "ended", "settle", "mark", "read", "record", "claim", "send", "outcome", "news", "arm",
                     "unlink", "unlinked", "create"}
      PROVE  scan' \in [Scans -> ScanRecord]
  <2>1. [scan[s] EXCEPT !.pc = pc] \in ScanRecord
    BY <1>g, <1>r DEF ScanRecord
  <2>2. scan' = [scan EXCEPT ![s] = [scan[s] EXCEPT !.pc = pc]]
    BY <1>g DEF Goes
  <2> QED
    BY <1>o, <2>1, <2>2
<1>a. ASSUME NEW mark \in Marks, Annotate(mark) PROVE annotation' \in {None} \cup Marks
  BY <1>a DEF Annotate, Shape
<1>1. ASSUME NEW s \in Scans, ScanStarts(s) PROVE Shape'
  <2>1. [IdleScan EXCEPT !.pc = "ended", !.today = day] \in ScanRecord
    BY DEF IdleScan, ScanRecord, Shape
  <2> QED
    BY <1>1, <1>o, <2>1 DEF ScanStarts, Shape
<1>2. ASSUME NEW s \in Scans, ReadEnded(s) PROVE Shape'
  <2>1. task \in Terminal => [scan[s] EXCEPT !.pc = "settle", !.ending = task] \in ScanRecord
    BY <1>r DEF ScanRecord
  <2>2. CancellationEnded =>
          task \in Terminal /\ scan' = [scan EXCEPT ![s] = [scan[s] EXCEPT !.pc = "settle", !.ending = task]]
    BY <1>2 DEF ReadEnded, CancellationEnded
  <2>3. scan' \in [Scans -> ScanRecord]
    BY <1>2, <1>g, <1>o, <2>1, <2>2 DEF ReadEnded
  <2> QED
    BY <1>2, <2>3 DEF ReadEnded, Shape
<1>3. ASSUME NEW s \in Scans, SettleRow(s) PROVE Shape'
  <2>1. scan' \in [Scans -> ScanRecord]
    BY <1>3, <1>g DEF SettleRow, SettleAutoCancel
  <2> QED
    BY <1>3, <2>1 DEF SettleRow, SettleAutoCancel, EndingOf, Shape
<1>4. ASSUME NEW s \in Scans, MarkEnding(s) PROVE Shape'
  <2>1. EndingOf(scan[s].ending).annotation \in Marks
    BY DEF EndingOf, Marks
  <2> QED
    BY <1>4, <1>g, <1>a, <2>1 DEF MarkEnding, Shape
<1>5. ASSUME NEW s \in Scans, ReadEntry(s) PROVE Shape'
  <2> DEFINE pc == IF ReminderDue(annotation, scan[s].today) THEN "record" ELSE "arm"
             r == [scan[s] EXCEPT !.pc = pc, !.mark = annotation, !.reachable = bound]
  <2>1. pc \in {"record", "arm"}
    OBVIOUS
  <2>2. Ends(s) \/ scan' = [scan EXCEPT ![s] = r]
    BY <1>5 DEF ReadEntry
  <2>3. r \in ScanRecord
    <3> HIDE DEF pc
    <3>1. annotation \in {None} \cup Marks /\ bound \in BOOLEAN
      BY DEF Shape
    <3> QED
      BY <1>r, <2>1, <3>1 DEF ScanRecord
  <2> HIDE DEF r
  <2> QED
    BY <1>5, <1>e, <1>o, <2>2, <2>3 DEF ReadEntry, Shape
<1>6. ASSUME NEW s \in Scans, RecordReminder(s) PROVE Shape'
  <2>1. reminder' \in [state : {None, "pending", "failed", "skipped_unbound", "late", "delivered"}, attempts : Nat]
    BY <1>6 DEF RecordReminder, Shape
  <2>2. [scan[s] EXCEPT !.pc = "claim", !.attempts = reminder'.attempts] \in ScanRecord
    BY <1>r, <2>1 DEF ScanRecord
  <2>3. \/ scan' = [scan EXCEPT ![s] = [scan[s] EXCEPT !.pc = "claim", !.attempts = reminder'.attempts]]
        \/ Goes(s, "arm")
    BY <1>6 DEF RecordReminder
  <2> QED
    BY <1>6, <1>g, <1>o, <2>1, <2>2, <2>3 DEF RecordReminder, Shape
<1>7. ASSUME NEW s \in Scans, ClaimReminder(s) PROVE Shape'
  <2>1. scan[s].attempts + 1 \in Nat
    BY <1>r DEF ScanRecord
  <2>2. reminder' \in [state : {None, "pending", "failed", "skipped_unbound", "late", "delivered"}, attempts : Nat]
    BY <1>7, <2>1 DEF ClaimReminder, Shape
  <2> QED
    BY <1>7, <1>g, <2>2 DEF ClaimReminder, Shape
<1>8. ASSUME NEW s \in Scans, SendReminder(s) PROVE Shape'
  <2>1. \A outcome \in {"sent", "failed", "unbound"} :
          [scan[s] EXCEPT !.pc = "outcome", !.outcome = outcome] \in ScanRecord
    BY <1>r DEF ScanRecord
  <2>2. PICK outcome \in {"sent", "failed", "unbound"} :
          scan' = [scan EXCEPT ![s] = [scan[s] EXCEPT !.pc = "outcome", !.outcome = outcome]]
    BY <1>8 DEF SendReminder
  <2>3. scan' \in [Scans -> ScanRecord]
    BY <1>o, <2>1, <2>2
  <2>4. sent' \in Nat
    BY <1>8 DEF SendReminder, Shape
  <2> QED
    BY <1>8, <2>3, <2>4 DEF SendReminder, Shape
<1>9. ASSUME NEW s \in Scans, SettleReminder(s) PROVE Shape'
  <2>1. PICK state \in {"failed", "skipped_unbound", "late", "delivered"} :
          /\ reminder' = [reminder EXCEPT !.state = state]
          /\ Goes(s, IF state \in {"skipped_unbound", "late"} THEN "news" ELSE "arm")
    BY <1>9 DEF SettleReminder
  <2>2. scan' \in [Scans -> ScanRecord]
    BY <1>g, <2>1
  <2> QED
    BY <1>9, <2>1, <2>2 DEF SettleReminder, Shape
<1>10. ASSUME NEW s \in Scans, MarkReminder(s) PROVE Shape'
  <2>1. annotation' \in {None} \cup Marks
    BY <1>10, <1>a DEF MarkReminder, Marks
  <2> QED
    BY <1>10, <1>g, <2>1 DEF MarkReminder, Shape
<1>11. ASSUME NEW s \in Scans, Plan(s) PROVE Shape'
  <2>1. scan' \in [Scans -> ScanRecord]
    BY <1>11, <1>e, <1>g DEF Plan
  <2> QED
    BY <1>11, <2>1 DEF Plan, Shape
<1>12. ASSUME NEW s \in Scans, RecordUnlinked(s) PROVE Shape'
  BY <1>12, <1>e, <1>g DEF RecordUnlinked, Shape
<1>13. ASSUME NEW s \in Scans, MarkUnlinked(s) PROVE Shape'
  <2>1. annotation' \in {None} \cup Marks
    BY <1>13, <1>a DEF MarkUnlinked, Marks
  <2> QED
    BY <1>13, <1>e, <2>1 DEF MarkUnlinked, Shape
<1>14. ASSUME NEW s \in Scans, ArmAutoCancel(s) PROVE Shape'
  BY <1>14, <1>e DEF ArmAutoCancel, Shape
<1>15. ASSUME NEW s \in Scans, ScanDies(s) PROVE Shape'
  BY <1>15, <1>e DEF ScanDies, Shape
<1>16. CASE DayPasses \/ ChatBound \/ TaskEnds
  <2>1. day' \in Nat
    BY <1>16 DEF DayPasses, ChatBound, TaskEnds, Shape
  <2>2. bound' \in BOOLEAN
    BY <1>16 DEF DayPasses, ChatBound, TaskEnds, Shape
  <2> QED
    BY <1>16, <2>1, <2>2 DEF DayPasses, ChatBound, TaskEnds, Shape
<1>17. CASE UNCHANGED vars
  BY <1>17 DEF vars, Shape
<1> QED
  BY <1>1, <1>2, <1>3, <1>4, <1>5, <1>6, <1>7, <1>8, <1>9, <1>10, <1>11, <1>12, <1>13, <1>14, <1>15, <1>16, <1>17
     DEF Next, ScanStep

\* Where a step leaves the scan that takes it, and the others.
LEMMA Moves ==
  ASSUME Shape, NEW s \in Scans
  PROVE  /\ \A pc : Goes(s, pc) => /\ scan'[s].pc = pc /\ scan'[s].ending = scan[s].ending
                                   /\ scan'[s].attempts = scan[s].attempts
         /\ Ends(s) => scan'[s].pc = "idle"
         /\ (Ends(s) \/ \E pc : Goes(s, pc)) => \A o \in Scans : o # s => scan'[o] = scan[o]
BY DEF Shape, ScanRecord, Goes, Ends, IdleScan

Earned == RowFollowsTask /\ EndingsAreTrue /\ MarksAreEarned

\* The row follows the task, what was read of an ending is true, and so is the mark.
LEMMA EarnedStep == Shape /\ Earned /\ [Next]_vars => Earned'
<1> SUFFICES ASSUME Shape, Earned, [Next]_vars PROVE Earned'
  OBVIOUS
<1>0. RowFollowsTask /\ EndingsAreTrue /\ MarksAreEarned
  BY DEF Earned
<1>e. /\ EndingOf("succeeded") = [state |-> "handled", annotation |-> "handled"]
      /\ EndingOf("cancelled") = [state |-> "declined", annotation |-> "declined"]
      /\ EndingOf("failed") = [state |-> "failed", annotation |-> "needs_attention"]
  BY DEF EndingOf
\* A step that leaves the row, the task and the decisions alone, and has no scan
\* believe in an ending it has not read.
<1>q. ASSUME UNCHANGED <<renewal, task>>, annotation' \in {"handled", "declined"} => annotation' = annotation,
             NEW s \in Scans, \A o \in Scans : o # s => scan'[o] = scan[o],
             scan'[s].pc \in {"settle", "mark"} => scan'[s] = scan[s]
      PROVE  Earned'
  BY <1>0, <1>q DEF Earned, RowFollowsTask, EndingsAreTrue, MarksAreEarned
<1>a. ASSUME NEW mark \in {"late", "needs_attention"}, Annotate(mark)
      PROVE  annotation' \in {"handled", "declined"} => annotation' = annotation
  BY <1>a DEF Annotate
<1>1. ASSUME NEW s \in Scans, ScanStarts(s) PROVE Earned'
  <2>1. scan'[s].pc = "ended" /\ \A o \in Scans : o # s => scan'[o] = scan[o]
    BY <1>1 DEF ScanStarts, Shape, IdleScan
  <2> QED
    BY <1>1, <1>q, <2>1 DEF ScanStarts
<1>2. ASSUME NEW s \in Scans, ReadEnded(s) PROVE Earned'
  <2>1. CASE CancellationEnded
    <3>1. /\ scan'[s].pc = "settle" /\ scan'[s].ending = task /\ task \in Terminal
          /\ \A o \in Scans : o # s => scan'[o] = scan[o]
      BY <1>2, <2>1 DEF ReadEnded, CancellationEnded, Shape, ScanRecord
    <3>2. UNCHANGED <<renewal, task, annotation>>
      BY <1>2 DEF ReadEnded
    <3> QED
      BY <1>0, <3>1, <3>2 DEF Earned, RowFollowsTask, EndingsAreTrue, MarksAreEarned
  <2>2. CASE ~CancellationEnded
    <3>1. scan'[s].pc = "read" /\ \A o \in Scans : o # s => scan'[o] = scan[o]
      BY <1>2, <2>2, Moves DEF ReadEnded
    <3> QED
      BY <1>2, <1>q, <3>1 DEF ReadEnded
  <2> QED
    BY <2>1, <2>2
<1>3. ASSUME NEW s \in Scans, SettleRow(s) PROVE Earned'
  <2>1. scan[s].ending = task /\ task \in Terminal /\ UNCHANGED <<task, annotation>>
    BY <1>0, <1>3 DEF SettleRow, EndingsAreTrue
  <2>2. \A o \in Scans : o # s => scan'[o] = scan[o]
    BY <1>3, Moves DEF SettleRow, SettleAutoCancel
  <2>3. CASE renewal = "enqueued"
    <3>1. scan'[s].pc = "mark" /\ scan'[s].ending = task /\ renewal' = EndingOf(task).state
      BY <1>3, <2>1, <2>3, Moves DEF SettleRow, SettleAutoCancel
    <3>2. renewal' \in {"handled", "declined", "failed"}
      BY <1>e, <2>1, <3>1 DEF Terminal
    <3>3. annotation \notin {"handled", "declined"}
      BY <1>0, <2>3 DEF MarksAreEarned
    <3>4. RowFollowsTask' /\ MarksAreEarned'
      BY <2>1, <3>1, <3>2, <3>3 DEF RowFollowsTask, MarksAreEarned, Terminal, None
    <3>5. EndingsAreTrue'
      BY <1>0, <2>1, <2>2, <3>1 DEF EndingsAreTrue
    <3> QED
      BY <3>4, <3>5 DEF Earned
  <2>4. CASE renewal # "enqueued"
    <3>1. scan'[s].pc = "read" /\ renewal' = renewal
      BY <1>3, <2>4, Moves DEF SettleRow, SettleAutoCancel
    <3> QED
      BY <1>q, <2>1, <2>2, <3>1
  <2> QED
    BY <2>3, <2>4
<1>4. ASSUME NEW s \in Scans, MarkEnding(s) PROVE Earned'
  <2>1. /\ scan[s].ending = task /\ task \in Terminal /\ renewal = EndingOf(task).state /\ UNCHANGED <<task, renewal>>
        /\ annotation' = annotation \/ annotation' = EndingOf(task).annotation
    BY <1>0, <1>4 DEF MarkEnding, EndingsAreTrue, Annotate
  <2>2. scan'[s].pc = "read" /\ \A o \in Scans : o # s => scan'[o] = scan[o]
    BY <1>4, Moves DEF MarkEnding
  <2>3. MarksAreEarned'
    BY <1>0, <1>e, <2>1 DEF MarksAreEarned, Terminal
  <2>4. RowFollowsTask' /\ EndingsAreTrue'
    BY <1>0, <2>1, <2>2 DEF RowFollowsTask, EndingsAreTrue
  <2> QED
    BY <2>3, <2>4 DEF Earned
<1>5. ASSUME NEW s \in Scans, ReadEntry(s) PROVE Earned'
  <2>1. scan'[s].pc \in {"idle", "record", "arm"} /\ \A o \in Scans : o # s => scan'[o] = scan[o]
    BY <1>5, Moves DEF ReadEntry, Shape, ScanRecord
  <2> QED
    BY <1>5, <1>q, <2>1 DEF ReadEntry
<1>6. ASSUME NEW s \in Scans, RecordReminder(s) PROVE Earned'
  <2>1. scan'[s].pc \in {"claim", "arm"} /\ \A o \in Scans : o # s => scan'[o] = scan[o]
    BY <1>6, Moves DEF RecordReminder, Shape, ScanRecord
  <2> QED
    BY <1>6, <1>q, <2>1 DEF RecordReminder
<1>7. ASSUME NEW s \in Scans, ClaimReminder(s) PROVE Earned'
  <2>1. scan'[s].pc \in {"send", "arm"} /\ \A o \in Scans : o # s => scan'[o] = scan[o]
    BY <1>7, Moves DEF ClaimReminder
  <2> QED
    BY <1>7, <1>q, <2>1 DEF ClaimReminder
<1>8. ASSUME NEW s \in Scans, SendReminder(s) PROVE Earned'
  <2>1. scan'[s].pc = "outcome" /\ \A o \in Scans : o # s => scan'[o] = scan[o]
    BY <1>8 DEF SendReminder, Shape, ScanRecord
  <2> QED
    BY <1>8, <1>q, <2>1 DEF SendReminder
<1>9. ASSUME NEW s \in Scans, SettleReminder(s) PROVE Earned'
  <2>1. scan'[s].pc \in {"news", "arm"} /\ \A o \in Scans : o # s => scan'[o] = scan[o]
    BY <1>9, Moves DEF SettleReminder
  <2> QED
    BY <1>9, <1>q, <2>1 DEF SettleReminder
<1>10. ASSUME NEW s \in Scans, MarkReminder(s) PROVE Earned'
  <2>1. scan'[s].pc = "arm" /\ \A o \in Scans : o # s => scan'[o] = scan[o]
    BY <1>10, Moves DEF MarkReminder
  <2> QED
    BY <1>10, <1>a, <1>q, <2>1 DEF MarkReminder
<1>11. ASSUME NEW s \in Scans, Plan(s) PROVE Earned'
  <2>1. scan'[s].pc \in {"idle", "unlink", "create"} /\ \A o \in Scans : o # s => scan'[o] = scan[o]
    BY <1>11, Moves DEF Plan
  <2> QED
    BY <1>11, <1>q, <2>1 DEF Plan
<1>12. ASSUME NEW s \in Scans, RecordUnlinked(s) PROVE Earned'
  <2>1. scan'[s].pc \in {"idle", "unlinked"} /\ \A o \in Scans : o # s => scan'[o] = scan[o]
    BY <1>12, Moves DEF RecordUnlinked
  <2>2. CASE Undecided
    <3>1. renewal = None /\ renewal' = "unlinked" /\ UNCHANGED <<task, annotation>> /\ task = None
      BY <1>0, <1>12, <2>2 DEF RecordUnlinked, Undecided, RowFollowsTask
    <3>2. annotation \notin {"handled", "declined"}
      BY <1>0, <3>1 DEF MarksAreEarned, None
    <3> QED
      BY <1>0, <2>1, <3>1, <3>2 DEF Earned, RowFollowsTask, EndingsAreTrue, MarksAreEarned, None, Terminal
  <2>3. CASE ~Undecided
    BY <1>12, <1>q, <2>1, <2>3 DEF RecordUnlinked
  <2> QED
    BY <2>2, <2>3
<1>13. ASSUME NEW s \in Scans, MarkUnlinked(s) PROVE Earned'
  <2>1. scan'[s].pc = "idle" /\ \A o \in Scans : o # s => scan'[o] = scan[o]
    BY <1>13, Moves DEF MarkUnlinked
  <2> QED
    BY <1>13, <1>a, <1>q, <2>1 DEF MarkUnlinked
<1>14. ASSUME NEW s \in Scans, ArmAutoCancel(s) PROVE Earned'
  <2>1. scan'[s].pc = "idle" /\ \A o \in Scans : o # s => scan'[o] = scan[o]
    BY <1>14, Moves DEF ArmAutoCancel
  <2>2. CASE Undecided
    <3>1. renewal = None /\ renewal' = "enqueued" /\ task' = "open" /\ annotation' = annotation /\ task = None
      BY <1>0, <1>14, <2>2 DEF ArmAutoCancel, Undecided, RowFollowsTask
    <3>2. annotation \notin {"handled", "declined"}
      BY <1>0, <3>1 DEF MarksAreEarned, None
    <3>3. \A o \in Scans : scan[o].pc \notin {"settle", "mark"}
      BY <1>0, <3>1 DEF EndingsAreTrue, None, Terminal
    <3> QED
      BY <2>1, <3>1, <3>2, <3>3 DEF Earned, RowFollowsTask, EndingsAreTrue, MarksAreEarned, None
  <2>3. CASE ~Undecided
    BY <1>14, <1>q, <2>1, <2>3 DEF ArmAutoCancel
  <2> QED
    BY <2>2, <2>3
<1>15. ASSUME NEW s \in Scans, ScanDies(s) PROVE Earned'
  <2>1. scan'[s].pc = "idle" /\ \A o \in Scans : o # s => scan'[o] = scan[o]
    BY <1>15, Moves DEF ScanDies
  <2> QED
    BY <1>15, <1>q, <2>1 DEF ScanDies
<1>16. CASE TaskEnds
  <2>1. task = "open" /\ task' \in Terminal /\ UNCHANGED <<scan, renewal, annotation>>
    BY <1>16 DEF TaskEnds
  <2> QED
    BY <1>0, <2>1 DEF Earned, RowFollowsTask, EndingsAreTrue, MarksAreEarned, None, Terminal
<1>17. CASE DayPasses \/ ChatBound \/ UNCHANGED vars
  <2>1. UNCHANGED <<scan, renewal, task, annotation>>
    BY <1>17 DEF DayPasses, ChatBound, vars
  <2> QED
    BY <1>0, <2>1 DEF Earned, RowFollowsTask, EndingsAreTrue, MarksAreEarned
<1> QED
  BY <1>1, <1>2, <1>3, <1>4, <1>5, <1>6, <1>7, <1>8, <1>9, <1>10, <1>11, <1>12, <1>13, <1>14, <1>15, <1>16, <1>17
     DEF Next, ScanStep

Counted == AttemptsBounded /\ AttemptsCoverSends

\* The scans that may send grow by the one that claims, and lose the one that sends.
LEMMA SendingCounted ==
  ASSUME Shape, Shape', NEW s \in Scans, \A o \in Scans : o # s => scan'[o] = scan[o]
  PROVE  /\ Cardinality(Sending) \in Nat /\ Cardinality(Sending') \in Nat
         /\ scan'[s].pc # "send" => Cardinality(Sending') <= Cardinality(Sending)
         /\ Cardinality(Sending') <= Cardinality(Sending) + 1
         /\ scan[s].pc = "send" /\ scan'[s].pc # "send" => Cardinality(Sending') = Cardinality(Sending) - 1
<1>1. IsFiniteSet(Sending) /\ IsFiniteSet(Sending')
  BY ScansAssumption, FS_Subset DEF Sending
<1>2. Cardinality(Sending) \in Nat /\ Cardinality(Sending') \in Nat
  BY <1>1, FS_CardinalityType
<1>3. ASSUME scan'[s].pc # "send" PROVE Cardinality(Sending') <= Cardinality(Sending)
  <2>1. Sending' \subseteq Sending
    BY <1>3 DEF Sending
  <2> QED
    BY <1>1, <2>1, FS_Subset
<1>4. Cardinality(Sending') <= Cardinality(Sending) + 1
  <2>1. Sending' \subseteq Sending \cup {s}
    BY DEF Sending
  <2>2. IsFiniteSet(Sending \cup {s}) /\ Cardinality(Sending \cup {s}) <= Cardinality(Sending) + 1
    <3>1. Sending \cup {s} = Sending \/ Cardinality(Sending \cup {s}) = Cardinality(Sending) + 1
      BY <1>1, FS_AddElement
    <3>2. IsFiniteSet(Sending \cup {s})
      BY <1>1, FS_AddElement
    <3> QED
      BY <1>2, <3>1, <3>2
  <2>3. Cardinality(Sending') <= Cardinality(Sending \cup {s}) /\ Cardinality(Sending \cup {s}) \in Nat
    BY <2>1, <2>2, FS_Subset, FS_CardinalityType
  <2> QED
    BY <1>2, <2>2, <2>3
<1>5. ASSUME scan[s].pc = "send", scan'[s].pc # "send" PROVE Cardinality(Sending') = Cardinality(Sending) - 1
  <2>1. Sending' = Sending \ {s} /\ s \in Sending
    BY <1>5 DEF Sending
  <2> QED
    BY <1>1, <2>1, FS_RemoveElement
<1> QED
  BY <1>2, <1>3, <1>4, <1>5

\* An attempt is claimed before it is made, and claimed once.
LEMMA CountedStep == Shape /\ Counted /\ [Next]_vars => Counted'
<1> SUFFICES ASSUME Shape, Counted, [Next]_vars PROVE Counted'
  OBVIOUS
<1> USE DaysAssumption
<1>0. /\ AttemptsBounded /\ AttemptsCoverSends /\ Shape' /\ sent \in Nat /\ reminder.attempts \in Nat
      /\ Cardinality(Sending) \in Nat /\ MaxAttempts \in Nat
  <2>1. Cardinality(Sending) \in Nat
    BY ScansAssumption, FS_Subset, FS_CardinalityType DEF Sending
  <2> QED
    BY <2>1, ShapeStep DEF Counted, Shape
\* A step that claims nothing and sends nothing.
<1>q. ASSUME UNCHANGED <<reminder, sent>>, NEW s \in Scans, \A o \in Scans : o # s => scan'[o] = scan[o],
             scan'[s].pc \notin {"claim", "send", "outcome"}
      PROVE  Counted'
  <2>1. Cardinality(Sending') <= Cardinality(Sending) /\ Cardinality(Sending') \in Nat
    BY <1>0, <1>q, SendingCounted
  <2>2. AttemptsCoverSends'
    BY <1>0, <1>q, <2>1 DEF AttemptsCoverSends
  <2>3. AttemptsBounded'
    BY <1>0, <1>q DEF AttemptsBounded
  <2> QED
    BY <2>2, <2>3 DEF Counted
<1>1. ASSUME NEW s \in Scans, ScanStarts(s) PROVE Counted'
  <2>1. scan'[s].pc = "ended" /\ \A o \in Scans : o # s => scan'[o] = scan[o]
    BY <1>1 DEF ScanStarts, Shape, IdleScan
  <2> QED
    BY <1>1, <1>q, <2>1 DEF ScanStarts
<1>2. ASSUME NEW s \in Scans, ReadEnded(s) PROVE Counted'
  <2>1. scan'[s].pc \in {"settle", "read"} /\ \A o \in Scans : o # s => scan'[o] = scan[o]
    BY <1>2, Moves DEF ReadEnded, Shape, ScanRecord
  <2> QED
    BY <1>2, <1>q, <2>1 DEF ReadEnded
<1>3. ASSUME NEW s \in Scans, SettleRow(s) \/ MarkEnding(s) PROVE Counted'
  <2>1. scan'[s].pc \in {"mark", "read"} /\ \A o \in Scans : o # s => scan'[o] = scan[o]
    BY <1>3, Moves DEF SettleRow, SettleAutoCancel, MarkEnding
  <2> QED
    BY <1>3, <1>q, <2>1 DEF SettleRow, MarkEnding
<1>4. ASSUME NEW s \in Scans, ReadEntry(s) PROVE Counted'
  <2>1. scan'[s].pc \in {"idle", "record", "arm"} /\ \A o \in Scans : o # s => scan'[o] = scan[o]
    BY <1>4, Moves DEF ReadEntry, Shape, ScanRecord
  <2> QED
    BY <1>4, <1>q, <2>1 DEF ReadEntry
<1>5. ASSUME NEW s \in Scans, RecordReminder(s) PROVE Counted'
  <2>1. /\ scan'[s].pc \in {"claim", "arm"} /\ \A o \in Scans : o # s => scan'[o] = scan[o]
        /\ reminder'.state # None /\ reminder'.attempts = reminder.attempts /\ sent' = sent
    <3>1. reminder'.state # None /\ reminder'.attempts = reminder.attempts /\ sent' = sent
      BY <1>0, <1>5 DEF RecordReminder, AttemptsBounded, None
    <3> QED
      BY <1>5, <3>1, Moves DEF RecordReminder, Shape, ScanRecord
  <2>2. scan'[s].pc = "claim" => scan'[s].attempts < MaxAttempts
    <3>1. CASE Dispatchable(reminder')
      <4>1. scan'[s].attempts = reminder'.attempts
        BY <1>5, <3>1 DEF RecordReminder, Shape, ScanRecord
      <4> QED
        BY <3>1, <4>1 DEF Dispatchable
    <3>2. CASE ~Dispatchable(reminder')
      BY <1>5, <3>2, Moves DEF RecordReminder
    <3> QED
      BY <3>1, <3>2
  <2>3. Cardinality(Sending') <= Cardinality(Sending) /\ Cardinality(Sending') \in Nat
    BY <1>0, <2>1, SendingCounted
  <2>4. AttemptsCoverSends'
    BY <1>0, <2>1, <2>3 DEF AttemptsCoverSends
  <2>5. AttemptsBounded'
    BY <1>0, <2>1, <2>2 DEF AttemptsBounded
  <2> QED
    BY <2>4, <2>5 DEF Counted
<1>6. ASSUME NEW s \in Scans, ClaimReminder(s) PROVE Counted'
  <2>1. /\ scan'[s].pc \in {"send", "arm"} /\ \A o \in Scans : o # s => scan'[o] = scan[o]
        /\ sent' = sent
    BY <1>6, Moves DEF ClaimReminder
  <2>2. CASE Claimed(s)
    <3>1. /\ reminder'.attempts = reminder.attempts + 1 /\ reminder'.state = reminder.state
          /\ reminder.attempts < MaxAttempts /\ reminder.state # None
      BY <1>0, <1>6, <2>2 DEF ClaimReminder, Claimed, AttemptsBounded, Shape
    <3>2. Cardinality(Sending') <= Cardinality(Sending) + 1 /\ Cardinality(Sending') \in Nat
      BY <1>0, <2>1, SendingCounted
    <3>3. AttemptsCoverSends'
      BY <1>0, <2>1, <3>1, <3>2 DEF AttemptsCoverSends
    <3>4. AttemptsBounded'
      BY <1>0, <2>1, <3>1 DEF AttemptsBounded
    <3> QED
      BY <3>3, <3>4 DEF Counted
  <2>3. CASE ~Claimed(s)
    <3>1. scan'[s].pc = "arm" /\ UNCHANGED reminder
      BY <1>6, <2>3, Moves DEF ClaimReminder
    <3> QED
      BY <1>q, <2>1, <3>1
  <2> QED
    BY <2>2, <2>3
<1>7. ASSUME NEW s \in Scans, SendReminder(s) PROVE Counted'
  <2>1. /\ scan[s].pc = "send" /\ scan'[s].pc = "outcome" /\ \A o \in Scans : o # s => scan'[o] = scan[o]
        /\ UNCHANGED reminder /\ sent' \in {sent, sent + 1}
    BY <1>7 DEF SendReminder, Shape, ScanRecord
  <2>2. Cardinality(Sending') = Cardinality(Sending) - 1 /\ Cardinality(Sending') \in Nat
    BY <1>0, <2>1, SendingCounted
  <2>3. AttemptsCoverSends'
    BY <1>0, <2>1, <2>2 DEF AttemptsCoverSends
  <2>4. AttemptsBounded'
    BY <1>0, <2>1 DEF AttemptsBounded
  <2> QED
    BY <2>3, <2>4 DEF Counted
<1>8. ASSUME NEW s \in Scans, SettleReminder(s) PROVE Counted'
  <2>1. scan[s].pc = "outcome" /\ scan'[s].pc \in {"news", "arm"} /\ (\A o \in Scans : o # s => scan'[o] = scan[o]) /\ sent' = sent
    BY <1>8, Moves DEF SettleReminder
  <2>2. reminder'.state # None /\ reminder'.attempts = reminder.attempts
    BY <1>8 DEF SettleReminder, Shape, None
  <2>3. Cardinality(Sending') <= Cardinality(Sending) /\ Cardinality(Sending') \in Nat
    BY <1>0, <2>1, SendingCounted
  <2>4. AttemptsCoverSends'
    BY <1>0, <2>1, <2>2, <2>3 DEF AttemptsCoverSends
  <2>5. AttemptsBounded'
    BY <1>0, <2>1, <2>2 DEF AttemptsBounded
  <2> QED
    BY <2>4, <2>5 DEF Counted
<1>9. ASSUME NEW s \in Scans, MarkReminder(s) \/ Plan(s) PROVE Counted'
  <2>1. scan'[s].pc \in {"arm", "idle", "unlink", "create"} /\ \A o \in Scans : o # s => scan'[o] = scan[o]
    BY <1>9, Moves DEF MarkReminder, Plan
  <2> QED
    BY <1>9, <1>q, <2>1 DEF MarkReminder, Plan
<1>10. ASSUME NEW s \in Scans, RecordUnlinked(s) \/ MarkUnlinked(s) PROVE Counted'
  <2>1. scan'[s].pc \in {"idle", "unlinked"} /\ \A o \in Scans : o # s => scan'[o] = scan[o]
    BY <1>10, Moves DEF RecordUnlinked, MarkUnlinked
  <2> QED
    BY <1>10, <1>q, <2>1 DEF RecordUnlinked, MarkUnlinked
<1>11. ASSUME NEW s \in Scans, ArmAutoCancel(s) \/ ScanDies(s) PROVE Counted'
  <2>1. scan'[s].pc = "idle" /\ \A o \in Scans : o # s => scan'[o] = scan[o]
    BY <1>11, Moves DEF ArmAutoCancel, ScanDies
  <2> QED
    BY <1>11, <1>q, <2>1 DEF ArmAutoCancel, ScanDies
<1>12. CASE DayPasses \/ ChatBound \/ TaskEnds \/ UNCHANGED vars
  <2>1. UNCHANGED <<scan, sent, reminder>>
    BY <1>12 DEF DayPasses, ChatBound, TaskEnds, vars
  <2> QED
    BY <1>0, <2>1 DEF Counted, AttemptsBounded, AttemptsCoverSends, Sending
<1> QED
  BY <1>1, <1>2, <1>3, <1>4, <1>5, <1>6, <1>7, <1>8, <1>9, <1>10, <1>11, <1>12 DEF Next, ScanStep

ScanInv == Shape /\ Earned /\ Counted

\* The invariant of scans, rows, task and marks.
THEOREM ScansKeepFaith == Spec => []ScanInv
<1>1. Init => ScanInv
  <2> SUFFICES ASSUME Init PROVE ScanInv
    OBVIOUS
  <2>1. \A s \in Scans : scan[s] = IdleScan /\ scan[s].pc = "idle"
    BY DEF Init, IdleScan
  <2>2. Shape
    <3>1. IdleScan \in ScanRecord
      BY DEF IdleScan, ScanRecord
    <3> QED
      BY <3>1 DEF Init, Shape
  <2>3. Earned
    BY <2>1 DEF Init, Earned, RowFollowsTask, EndingsAreTrue, MarksAreEarned, None, Terminal
  <2>4. Sending = {} /\ Cardinality(Sending) = 0
    <3>1. Sending = {}
      BY <2>1 DEF Sending
    <3> QED
      BY <3>1, FS_EmptySet
  <2>5. AttemptsCoverSends
    BY <2>4 DEF Init, AttemptsCoverSends
  <2>6. AttemptsBounded
    BY <2>1, DaysAssumption DEF Init, AttemptsBounded
  <2> QED
    BY <2>2, <2>3, <2>5, <2>6 DEF ScanInv, Counted
<1>2. ScanInv /\ [Next]_vars => ScanInv'
  BY ShapeStep, EarnedStep, CountedStep DEF ScanInv
<1> QED
  BY <1>1, <1>2, PTL DEF Spec

\* Every send was claimed first and no attempt is claimed twice, for any number of
\* scans that overlap or die between their statements.
THEOREM SendsAreClaimed == Spec => []AttemptsCoverSends
<1>1. ScanInv => AttemptsCoverSends
  BY DEF ScanInv, Counted
<1> QED
  BY <1>1, ScansKeepFaith, PTL

\* A reminder that may go out twice goes out no more often than the attempts it has.
THEOREM SendsAreBounded == Spec => [](sent <= MaxAttempts)
<1>1. ScanInv => sent <= MaxAttempts
  <2> SUFFICES ASSUME ScanInv PROVE sent <= MaxAttempts
    OBVIOUS
  <2>1. Cardinality(Sending) \in Nat
    BY ScansAssumption, FS_Subset, FS_CardinalityType DEF Sending
  <2> QED
    BY <2>1, DaysAssumption DEF ScanInv, Shape, Counted, AttemptsBounded, AttemptsCoverSends
<1> QED
  BY <1>1, ScansKeepFaith, PTL

\* The mark says `handled` only of a cancellation that went through, and `declined`
\* only of one the person said no to, whatever scans with old readings write.
THEOREM MarksTellTheTruth == Spec => []MarksAreEarned
<1>1. ScanInv => MarksAreEarned
  BY DEF ScanInv, Earned
<1> QED
  BY <1>1, ScansKeepFaith, PTL

\* A person's no, and a cancellation that went through, outlive every later mark:
\* lower marks are refused by their rank, and the other decision cannot come, since
\* a task has one ending.
THEOREM DecisionsOutlive == Spec => DecisionsStay
<1>1. ScanInv /\ ScanInv' /\ [Next]_vars => [(annotation \in {"declined", "handled"}) => UNCHANGED annotation]_vars
  <2> SUFFICES ASSUME ScanInv, ScanInv', [Next]_vars, annotation \in {"declined", "handled"} PROVE annotation' = annotation
    OBVIOUS
  <2>0. Earned /\ Earned'
    BY DEF ScanInv
  <2>1. ASSUME NEW mark \in {"late", "needs_attention"}, Annotate(mark) PROVE annotation' = annotation
    BY <2>1, Ranks DEF Annotate, CanAnnotate
  <2>2. ASSUME NEW s \in Scans, MarkEnding(s) PROVE annotation' = annotation
    <3>1. UNCHANGED <<task, renewal>> /\ task \in Terminal /\ annotation' \in {annotation, EndingOf(task).annotation}
      BY <2>0, <2>2 DEF MarkEnding, Earned, EndingsAreTrue, Annotate
    <3>2. EndingOf(task).annotation = "needs_attention" => annotation' = annotation
      BY <2>0, <2>1, <2>2 DEF MarkEnding, Earned, EndingsAreTrue
    <3>3. EndingOf(task).annotation \in {"handled", "declined", "needs_attention"}
      BY DEF EndingOf
    <3>4. /\ annotation = "handled" => renewal = "handled"
          /\ annotation = "declined" => renewal = "declined"
          /\ annotation' = "handled" => renewal = "handled"
          /\ annotation' = "declined" => renewal = "declined"
      BY <2>0, <3>1 DEF Earned, MarksAreEarned
    <3> QED
      BY <3>1, <3>2, <3>3, <3>4
  <2>3. ASSUME NEW s \in Scans, MarkReminder(s) \/ MarkUnlinked(s) PROVE annotation' = annotation
    BY <2>1, <2>3 DEF MarkReminder, MarkUnlinked
  <2>4. ASSUME NEW s \in Scans, ScanStep(s), ~MarkEnding(s), ~MarkReminder(s), ~MarkUnlinked(s) PROVE annotation' = annotation
    BY <2>4 DEF ScanStep, ScanStarts, ReadEnded, SettleRow, ReadEntry, RecordReminder, ClaimReminder, SendReminder,
       SettleReminder, Plan, RecordUnlinked, ArmAutoCancel
  <2>5. CASE DayPasses \/ ChatBound \/ TaskEnds \/ UNCHANGED vars \/ \E s \in Scans : ScanDies(s)
    BY <2>5 DEF DayPasses, ChatBound, TaskEnds, vars, ScanDies
  <2> QED
    BY <2>2, <2>3, <2>4, <2>5 DEF Next
<1> QED
  BY <1>1, ScansKeepFaith, PTL DEF Spec, DecisionsStay, ScanInv

-----------------------------------------------------------------------------
(* The refinement *)

\* Every statement of a scan is one step of the renewal's ledger, or none: the row
\* is decided once, and what it says of the task is how the task ended.
LEMMA LedgerStep == ScanInv /\ [Next]_vars => [Ledger!Next]_(Ledger!vars)
<1> SUFFICES ASSUME ScanInv, [Next]_vars PROVE [Ledger!Next]_(Ledger!vars)
  OBVIOUS
<1>0. RowFollowsTask /\ EndingsAreTrue
  BY DEF ScanInv, Earned
<1>e. /\ Ledger!Endings["succeeded"] = "handled" /\ Ledger!Endings["cancelled"] = "declined" /\ Ledger!Endings["failed"] = "failed"
      /\ DOMAIN Ledger!Endings = Terminal
  BY DEF Ledger!Endings, Terminal
<1>1. ASSUME NEW s \in Scans, SettleRow(s) PROVE Ledger!Record \/ UNCHANGED <<renewal, task>>
  <2>1. CASE renewal = "enqueued"
    <3>1. task \in Terminal /\ renewal' = EndingOf(task).state /\ task' = task
      BY <1>0, <1>1, <2>1 DEF SettleRow, SettleAutoCancel, EndingsAreTrue
    <3>2. renewal' = Ledger!Endings[task]
      BY <1>e, <3>1 DEF EndingOf, Terminal
    <3> QED
      BY <1>e, <2>1, <3>1, <3>2 DEF Ledger!Record
  <2>2. CASE renewal # "enqueued"
    BY <1>1, <2>2 DEF SettleRow, SettleAutoCancel
  <2> QED
    BY <2>1, <2>2
<1>2. ASSUME NEW s \in Scans, RecordUnlinked(s) PROVE Ledger!Unlink \/ UNCHANGED <<renewal, task>>
  BY <1>2 DEF RecordUnlinked, Undecided, Ledger!Unlink
<1>3. ASSUME NEW s \in Scans, ArmAutoCancel(s) PROVE Ledger!Arm \/ UNCHANGED <<renewal, task>>
  BY <1>0, <1>3 DEF ArmAutoCancel, Undecided, RowFollowsTask, Ledger!Arm
<1>4. ASSUME NEW s \in Scans, ScanStep(s), ~SettleRow(s), ~RecordUnlinked(s), ~ArmAutoCancel(s)
      PROVE UNCHANGED <<renewal, task>>
  BY <1>4 DEF ScanStep, ScanStarts, ReadEnded, MarkEnding, ReadEntry, RecordReminder, ClaimReminder, SendReminder,
     SettleReminder, MarkReminder, Plan, MarkUnlinked
<1>5. CASE TaskEnds
  <2>1. Ledger!End
    BY <1>5, <1>e DEF TaskEnds, Ledger!End
  <2> QED
    BY <2>1 DEF Ledger!Next
<1>6. CASE DayPasses \/ ChatBound \/ UNCHANGED vars \/ \E s \in Scans : ScanDies(s)
  BY <1>6 DEF DayPasses, ChatBound, vars, ScanDies, Ledger!vars
<1> QED
  BY <1>1, <1>2, <1>3, <1>4, <1>5, <1>6 DEF Next, Ledger!Next, Ledger!vars

\* The calendar implements the ledger of one renewal: it is decided once, either as
\* unlinked or with one task, and the row then records how that task ended, once.
THEOREM ScansImplementTheLedger == Spec => ImplementsLedger
<1>1. Init => Ledger!Init
  BY DEF Init, Ledger!Init
<1> QED
  BY <1>1, LedgerStep, ScansKeepFaith, PTL DEF Spec, Ledger!Spec, ImplementsLedger
=============================================================================
