----------------------------- MODULE TaskEngine -----------------------------
(***************************************************************************)
(* One task on its way through the engine: its row and trail               *)
(* (packages/db/src/task-ledger.ts), the handlers that run it and the      *)
(* sweep that looks after it (task-engine.ts), the job queue both ride on  *)
(* (jobs.ts, pg-boss behind it), and the confirm gate in front of every    *)
(* mission (confirm.ts).                                                   *)
(*                                                                         *)
(* Every transaction of the ledger locks the task's row first, so it is    *)
(* one action here.  What the code does outside a transaction is an action *)
(* of its own: any other actor may step in between, or the process die.    *)
(* Tasks share nothing but the workers, so one task stands for all.        *)
(*                                                                         *)
(* Left out: timestamps, results, details, and the `step` and `rejected`   *)
(* events, which no operation modelled here reads back.                    *)
(***************************************************************************)
EXTENDS Naturals, Sequences, TaskTransitions

CONSTANTS
  Runs,        \* handler invocations that can be in flight at once
  RetryLimit,  \* how often pg-boss hands out a failed job again
  Overrun,     \* TRUE: pg-boss may give up on a job whose handler still runs
  MaxJobs,     \* bound: how many run jobs the task is given
  MaxAsks,     \* bound: how many questions the task is parked on
  MaxFaults    \* bound: how many crashes and lost calls a behaviour has

ASSUME RetryAssumption == RetryLimit \in Nat
ASSUME OverrunAssumption == Overrun \in BOOLEAN
ASSUME BoundsAssumption == {MaxJobs, MaxAsks, MaxFaults} \subseteq Nat

VARIABLES
  task,      \* the row: status, jobId, what its input carries as `confirm`,
             \*   and the cause on its newest transition event
  asked,     \* the texts of the trail's ask_user events, oldest first;
             \*   a question's id is its place in this sequence
  answers,   \* the accepted answers, oldest first
  overdue,   \* how many of the questions are past their deadline
  jobs,      \* the run jobs; a job's id is its place in this sequence
  timers,    \* the questions with a held timeout job
  sends,     \* enqueueTaskRun calls still to be made after a commit: 0 for
             \*   the task's creation, q for the answer to question q
  runs,      \* the run handlers in flight
  sweep,     \* the reconcile sweep, and the row it has read
  faults     \* crashes and lost calls so far

vars == <<task, asked, answers, overdue, jobs, timers, sends, runs, sweep, faults>>

NoJob == 0
NoQuestion == 0

\* How readConsent reads a reply to the confirm question.
Consents == {"yes", "no", "unclear"}

\* The confirm question of the task's input, and one the mission itself asks.
Texts == {"confirm", "inner"}

\* How a mission ends: by settling the task, or by asking one of the texts.
Settling == {"succeeded", "error", "violation", "refused"}

AnswerRecords == [questionId : Nat, text : Texts, reply : Consents \cup {"words"}]

-----------------------------------------------------------------------------
(* The row and its trail *)

Moved(row, cause) ==
  [row EXCEPT !.status = TransitionTarget(row.status, cause), !.cause = cause]

\* Variant: the table is not consulted.
TransitionedBlindly(row, cause) ==
  [row EXCEPT !.status = TASK_TRANSITIONS[cause].to, !.cause = cause]

\* transitionTask: one transition, or a refusal that leaves the row alone.
Transitioned(row, cause) ==
  IF TransitionTarget(row.status, cause) = NoStatus THEN row ELSE Moved(row, cause)

\* lastQuestion, by its id.
LastQuestion == Len(asked)

\* Variant: any question of a parked task will do.
ParkedAtAll(q) == task.status = "waiting_user"

\* The task is parked, and on this question.
ParkedOn(q) == task.status = "waiting_user" /\ q = LastQuestion

Fault ==
  /\ faults < MaxFaults
  /\ faults' = faults + 1

-----------------------------------------------------------------------------
(* The queue, as jobs.ts configures it *)

\* Variant: a job is handed out again for ever.
RetriedForEver(job) == [state |-> "retry", retries |-> job.retries + 1]

\* What becomes of a job whose delivery failed.
Retried(job) ==
  IF job.retries < RetryLimit
  THEN [state |-> "retry", retries |-> job.retries + 1]
  ELSE [job EXCEPT !.state = "failed"]

\* Variant: the sweep takes a failed job for one that is coming back.
OnlyCompletedSettles(jobId) == jobId = NoJob \/ jobs[jobId].state = "completed"

\* The sweep's jobState: no job, or one pg-boss will not deliver again.
JobGone(jobId) == jobId = NoJob \/ jobs[jobId].state \in {"completed", "failed"}

(***************************************************************************)
(* enqueueTaskRun.  A queued task gets a new job, and the row its id.  The *)
(* send uses the queue's own connection: it stays sent when the            *)
(* transaction around it dies before its commit.                           *)
(***************************************************************************)
EnqueueTaskRun ==
  IF task.status # "queued"
  THEN UNCHANGED <<task, jobs, faults>>
  ELSE /\ Len(jobs) < MaxJobs
       /\ jobs' = Append(jobs, [state |-> "created", retries |-> 0])
       /\ \/ task' = [task EXCEPT !.jobId = Len(jobs) + 1] /\ UNCHANGED faults
          \/ Fault /\ UNCHANGED task

-----------------------------------------------------------------------------
(* A run: deliver, claim, pass the gate, act, settle, arm the timer, return *)

IdleRun ==
  [pc |-> "idle", job |-> NoJob, live |-> TRUE, answers |-> <<>>,
   outcome |-> "none", question |-> NoQuestion]

\* pg-boss hands a due job to a free handler.
Deliver(r, j) ==
  /\ runs[r].pc = "idle"
  /\ jobs[j].state \in {"created", "retry"}
  /\ jobs' = [jobs EXCEPT ![j].state = "active"]
  /\ runs' = [runs EXCEPT ![r] = [IdleRun EXCEPT !.pc = "claim", !.job = j]]
  /\ UNCHANGED <<task, asked, answers, overdue, timers, sends, sweep, faults>>

\* Variant: the job id on the row is not compared.
NeverStale(jobId) == FALSE

\* Another job owns the task.
StaleClaim(jobId) == task.jobId # NoJob /\ task.jobId # jobId

\* The handler has the run: it takes the answers with it and goes to the gate.
TakeRun(r, cause) ==
  /\ task' = [Moved(task, cause) EXCEPT !.jobId = runs[r].job]
  /\ runs' = [runs EXCEPT ![r].pc = "gate", ![r].answers = answers]

TurnedAway(r) ==
  /\ runs' = [runs EXCEPT ![r].pc = "return"]
  /\ UNCHANGED task

\* claimTaskRun.
Claim(r) ==
  /\ runs[r].pc = "claim"
  /\ IF StaleClaim(runs[r].job) THEN TurnedAway(r)
     ELSE IF task.status = "queued"
     THEN TakeRun(r, IF answers = <<>> THEN "started" ELSE "resumed")
     ELSE IF task.status = "running" THEN TakeRun(r, "retried")
     ELSE TurnedAway(r)
  /\ UNCHANGED <<asked, answers, overdue, jobs, timers, sends, sweep, faults>>

\* latestReply to exactly this question.
LatestReply(accepted, text) ==
  IF \E i \in DOMAIN accepted : accepted[i].text = text
  THEN accepted[CHOOSE i \in DOMAIN accepted :
                  /\ accepted[i].text = text
                  /\ \A k \in DOMAIN accepted : accepted[k].text = text => k <= i].reply
  ELSE "undefined"

\* Variant: a reply the gate cannot read opens it.
GateOnAnyWord(confirm, reply) ==
  IF confirm = "none" THEN "mission"
  ELSE IF confirm = "malformed" THEN "error"
  ELSE CASE reply \in {"yes", "unclear"} -> "mission"
         [] reply = "no" -> "refused"
         [] OTHER -> "confirm"

\* Variant: a confirm that is not a question counts as none.
GateOnQuestionOnly(confirm, reply) ==
  IF confirm # "question" THEN "mission"
  ELSE CASE reply = "yes" -> "mission"
         [] reply = "no" -> "refused"
         [] OTHER -> "confirm"

\* withConfirmation: the mission may run, or how the run ends without it.
GateVerdict(confirm, reply) ==
  IF confirm = "none" THEN "mission"
  ELSE IF confirm = "malformed" THEN "error"
  ELSE CASE reply = "yes" -> "mission"
         [] reply = "no" -> "refused"
         [] OTHER -> "confirm"

Ended(r, outcome) ==
  runs' = [runs EXCEPT ![r].pc = "settle", ![r].outcome = outcome]

Gate(r) ==
  /\ runs[r].pc = "gate"
  /\ LET verdict == GateVerdict(task.confirm, LatestReply(runs[r].answers, "confirm"))
     IN  IF verdict = "mission"
         THEN runs' = [runs EXCEPT ![r].pc = "mission"]
         ELSE Ended(r, verdict)
  /\ UNCHANGED <<task, asked, answers, overdue, jobs, timers, sends, sweep, faults>>

\* The mission does what cannot be undone: it cancels, or it books.
Act(r) ==
  /\ runs[r].pc = "mission"
  /\ runs' = [runs EXCEPT ![r].pc = "acted"]
  /\ UNCHANGED <<task, asked, answers, overdue, jobs, timers, sends, sweep, faults>>

\* The mission returns; what it throws, at the gate or past it, is an error.
MissionEnds(r) ==
  /\ \/ /\ runs[r].pc \in {"mission", "acted"}
        /\ \E outcome \in Settling : Ended(r, outcome)
     \/ /\ runs[r].pc = "mission"
        /\ Len(asked) < MaxAsks
        /\ Ended(r, "inner")
     \/ /\ runs[r].pc = "gate"
        /\ Ended(r, "error")
  /\ UNCHANGED <<task, asked, answers, overdue, jobs, timers, sends, sweep, faults>>

\* settle, by transitionTask: the handler goes on to return either way.
SettleTask(r) ==
  /\ runs[r].pc = "settle"
  /\ runs[r].outcome \in Settling
  /\ task' = Transitioned(task, runs[r].outcome)
  /\ runs' = [runs EXCEPT ![r].pc = "return"]
  /\ UNCHANGED <<asked, answers, overdue, jobs, timers, sends, sweep, faults>>

\* settle, by askUser's transaction: the question and the move commit together.
AskUser(r) ==
  /\ runs[r].pc = "settle"
  /\ runs[r].outcome \in Texts
  /\ IF task.status = "running"
     THEN /\ Len(asked) < MaxAsks
          /\ asked' = Append(asked, runs[r].outcome)
          /\ task' = Moved(task, "asked")
          /\ runs' = [runs EXCEPT ![r].pc = "timer", ![r].question = Len(asked) + 1]
     ELSE /\ runs' = [runs EXCEPT ![r].pc = "return"]
          /\ UNCHANGED <<task, asked>>
  /\ UNCHANGED <<answers, overdue, jobs, timers, sends, sweep, faults>>

\* askUser, after its commit: the deadline becomes a held job.
HoldTimer(r) ==
  /\ runs[r].pc = "timer"
  /\ timers' = timers \cup {runs[r].question}
  /\ runs' = [runs EXCEPT ![r].pc = "return"]
  /\ UNCHANGED <<task, asked, answers, overdue, jobs, sends, sweep, faults>>

\* The question is delivered or is not, and the handler returns.
Return(r) ==
  /\ runs[r].pc = "return"
  /\ runs' = [runs EXCEPT ![r] = IdleRun]
  /\ jobs' = IF runs[r].live
             THEN [jobs EXCEPT ![runs[r].job].state = "completed"]
             ELSE jobs
  /\ UNCHANGED <<task, asked, answers, overdue, timers, sends, sweep, faults>>

\* A ledger or queue call of the handler throws, and the delivery fails.
HandlerFails(r) ==
  /\ runs[r].pc \in {"claim", "settle", "timer", "return"}
  /\ Fault
  /\ runs' = [runs EXCEPT ![r] = IdleRun]
  /\ jobs' = IF runs[r].live
             THEN [jobs EXCEPT ![runs[r].job] = Retried(@)]
             ELSE jobs
  /\ UNCHANGED <<task, asked, answers, overdue, timers, sends, sweep>>

\* The process dies: its job stays active until pg-boss expires it.
WorkerDies(r) ==
  /\ runs[r].pc # "idle"
  /\ Fault
  /\ runs' = [runs EXCEPT ![r] = IdleRun]
  /\ UNCHANGED <<task, asked, answers, overdue, jobs, timers, sends, sweep>>

Holds(r, j) == runs[r].pc # "idle" /\ runs[r].live /\ runs[r].job = j

\* An active job nobody is running any more falls due again.
JobExpires(j) ==
  /\ jobs[j].state = "active"
  /\ \A r \in Runs : ~Holds(r, j)
  /\ jobs' = [jobs EXCEPT ![j] = Retried(@)]
  /\ UNCHANGED <<task, asked, answers, overdue, timers, sends, runs, sweep, faults>>

(***************************************************************************)
(* pg-boss gives up on a job whose handler is still running: the job's     *)
(* expiry, or a shutdown that outlasts its drain.  Nothing stops the       *)
(* handler; only its return no longer counts.                              *)
(***************************************************************************)
JobOverruns(j) ==
  /\ Overrun
  /\ jobs[j].state = "active"
  /\ \E r \in Runs : Holds(r, j)
  /\ Fault
  /\ runs' = [r \in Runs |-> IF Holds(r, j) THEN [runs[r] EXCEPT !.live = FALSE] ELSE runs[r]]
  /\ jobs' = [jobs EXCEPT ![j] = Retried(@)]
  /\ UNCHANGED <<task, asked, answers, overdue, timers, sends, sweep>>

-----------------------------------------------------------------------------
(* The person, through a channel that may hold any question ever asked *)

\* An unclear reply is asked about again, as long as MaxAsks leaves room for it.
RepliesTo(text) ==
  IF text # "confirm" THEN {"words"}
  ELSE {reply \in Consents : reply = "unclear" => Len(asked) < MaxAsks}

\* openQuestion's last check, and the timer's due time.
TooLate(q) == q <= overdue

\* openQuestion refused: nothing moves, except that a late reply expires the question.
Refused(q) ==
  /\ task' = IF ParkedOn(q) THEN Moved(task, "timeout") ELSE task
  /\ UNCHANGED <<answers, sends>>

AnswerTask(q, reply) ==
  /\ IF ParkedOn(q) /\ ~TooLate(q)
     THEN /\ answers' = Append(answers, [questionId |-> q, text |-> asked[q], reply |-> reply])
          /\ task' = Moved(task, "answered")
          /\ sends' = sends \cup {q}
     ELSE Refused(q)
  /\ UNCHANGED <<asked, overdue, jobs, timers, runs, sweep, faults>>

DeclineTask(q) ==
  /\ IF ParkedOn(q) /\ ~TooLate(q)
     THEN task' = Moved(task, "declined") /\ UNCHANGED <<answers, sends>>
     ELSE Refused(q)
  /\ UNCHANGED <<asked, overdue, jobs, timers, runs, sweep, faults>>

\* enqueueTaskRun after the answer's, or the creating transaction's, commit...
SendRun(q) ==
  /\ q \in sends
  /\ sends' = sends \ {q}
  /\ EnqueueTaskRun
  /\ UNCHANGED <<asked, answers, overdue, timers, runs, sweep>>

\* ...or the process dies first.
SendLost(q) ==
  /\ q \in sends
  /\ sends' = sends \ {q}
  /\ Fault
  /\ UNCHANGED <<task, asked, answers, overdue, jobs, timers, runs, sweep>>

-----------------------------------------------------------------------------
(* Deadlines and the sweep *)

DeadlinePasses ==
  /\ overdue < Len(asked)
  /\ overdue' = overdue + 1
  /\ UNCHANGED <<task, asked, answers, jobs, timers, sends, runs, sweep, faults>>

\* Variant: whatever question the task is parked on now is failed.
ExpiredWhicheverQuestion(q) ==
  IF task.status = "waiting_user" THEN Moved(task, "timeout") ELSE task

\* expireQuestion: a stale timer leaves the row alone.
ExpireQuestion(q) == IF ParkedOn(q) THEN Moved(task, "timeout") ELSE task

TimerFires(q) ==
  /\ q \in timers
  /\ TooLate(q)
  /\ timers' = timers \ {q}
  /\ task' = ExpireQuestion(q)
  /\ UNCHANGED <<asked, answers, overdue, jobs, sends, runs, sweep, faults>>

IdleSweep == [pc |-> "idle", status |-> NoStatus, jobId |-> NoJob, question |-> NoQuestion]

\* reconcileTasks reads the open tasks...
SweepReads ==
  /\ sweep.pc = "idle"
  /\ task.status \notin TerminalTaskStatuses
  /\ sweep' = [pc |-> "inspect", status |-> task.status, jobId |-> task.jobId,
               question |-> NoQuestion]
  /\ UNCHANGED <<task, asked, answers, overdue, jobs, timers, sends, runs, faults>>

\* ...asks the queue about each row's job, or the trail for the question it waits on...
SweepInspects ==
  /\ sweep.pc = "inspect"
  /\ sweep' =
       IF sweep.status = "waiting_user"
       THEN IF task.status = "waiting_user" /\ TooLate(LastQuestion)
            THEN [sweep EXCEPT !.pc = "act", !.question = LastQuestion]
            ELSE IdleSweep
       ELSE IF JobGone(sweep.jobId) THEN [sweep EXCEPT !.pc = "act"] ELSE IdleSweep
  /\ UNCHANGED <<task, asked, answers, overdue, jobs, timers, sends, runs, faults>>

\* orphanTask: only a task still running, under the job the sweep read.
OrphanTask(jobId) ==
  IF task.status = "running" /\ task.jobId = jobId THEN Moved(task, "orphaned") ELSE task

\* ...and writes, each write looking again under the row lock.
SweepActs ==
  /\ sweep.pc = "act"
  /\ sweep' = IdleSweep
  /\ CASE sweep.status = "queued" -> EnqueueTaskRun
       [] sweep.status = "running" ->
            task' = OrphanTask(sweep.jobId) /\ UNCHANGED <<jobs, faults>>
       [] OTHER ->
            task' = ExpireQuestion(sweep.question) /\ UNCHANGED <<jobs, faults>>
  /\ UNCHANGED <<asked, answers, overdue, timers, sends, runs>>

SweepDies ==
  /\ sweep.pc # "idle"
  /\ Fault
  /\ sweep' = IdleSweep
  /\ UNCHANGED <<task, asked, answers, overdue, jobs, timers, sends, runs>>

-----------------------------------------------------------------------------

\* A queued row with no job; its creator enqueues it next, or leaves it to the sweep.
Init ==
  /\ \E confirm \in {"none", "question", "malformed"} :
       task = [status |-> "queued", jobId |-> NoJob, confirm |-> confirm, cause |-> "created"]
  /\ asked = <<>>
  /\ answers = <<>>
  /\ overdue = 0
  /\ jobs = <<>>
  /\ timers = {}
  /\ sends \in {{}, {0}}
  /\ runs = [r \in Runs |-> IdleRun]
  /\ sweep = IdleSweep
  /\ faults = 0

RunStep(r) ==
  \/ Claim(r) \/ Gate(r) \/ Act(r) \/ MissionEnds(r)
  \/ SettleTask(r) \/ AskUser(r) \/ HoldTimer(r) \/ Return(r)

SweepStep == SweepReads \/ SweepInspects \/ SweepActs

Next ==
  \/ \E r \in Runs : RunStep(r) \/ HandlerFails(r) \/ WorkerDies(r)
  \/ \E r \in Runs, j \in DOMAIN jobs : Deliver(r, j)
  \/ \E j \in DOMAIN jobs : JobExpires(j) \/ JobOverruns(j)
  \/ \E q \in DOMAIN asked :
       \/ \E reply \in RepliesTo(asked[q]) : AnswerTask(q, reply)
       \/ DeclineTask(q)
  \/ \E q \in sends : SendRun(q) \/ SendLost(q)
  \/ \E q \in timers : TimerFires(q)
  \/ DeadlinePasses
  \/ SweepStep
  \/ SweepDies

Spec == Init /\ [][Next]_vars

(***************************************************************************)
(* A handler that is running goes on, pg-boss polls for due jobs and       *)
(* expires abandoned ones, the sweep runs every minute, and clocks advance.*)
(* Nothing is assumed of the person, of the timers or of the enqueue after *)
(* a commit: the sweep alone must make up for them.                        *)
(***************************************************************************)
Fairness ==
  /\ \A r \in Runs : WF_vars(RunStep(r))
  /\ WF_vars(\E r \in Runs, j \in DOMAIN jobs : Deliver(r, j))
  /\ WF_vars(\E j \in DOMAIN jobs : JobExpires(j))
  /\ WF_vars(DeadlinePasses)
  /\ WF_vars(SweepStep)

FairSpec == Spec /\ Fairness

-----------------------------------------------------------------------------
(* What is checked *)

Statuses == TaskStatuses \cup {NoStatus}
Pcs == {"idle", "claim", "gate", "mission", "acted", "settle", "timer", "return"}

TaskRows ==
  [status : TaskStatuses, jobId : Nat, confirm : {"none", "question", "malformed"},
   cause : TransitionCauses \cup {"created"}]

JobRecords ==
  [state : {"created", "active", "retry", "completed", "failed"}, retries : 0..RetryLimit]

RunRecords ==
  [pc : Pcs, job : Nat, live : BOOLEAN, answers : Seq(AnswerRecords),
   outcome : Settling \cup Texts \cup {"none"}, question : Nat]

\* Every variable keeps its type, no job is retried past the queue's limit, and
\* a job or a question that a row, a handler or the sweep names exists.
TypeOK ==
  /\ task \in TaskRows
  /\ asked \in Seq(Texts)
  /\ answers \in Seq(AnswerRecords)
  /\ overdue \in Nat
  /\ jobs \in Seq(JobRecords)
  /\ timers \subseteq Nat
  /\ sends \subseteq Nat
  /\ runs \in [Runs -> RunRecords]
  /\ sweep \in [pc : {"idle", "inspect", "act"}, status : Statuses,
                jobId : Nat, question : Nat]
  /\ faults \in Nat
  /\ overdue <= Len(asked)
  /\ task.jobId <= Len(jobs)
  /\ \A r \in Runs : runs[r].job <= Len(jobs) /\ runs[r].question <= Len(asked)
  /\ sweep.jobId <= Len(jobs)

\* From its claim until its outcome is written, a handler is inside the mission.
InMission(r) == runs[r].pc \in {"gate", "mission", "acted", "settle"}

\* No two handlers are inside the task's mission at once: duplicate and late
\* deliveries are turned away by claimTaskRun, and a second job is never sent
\* for a running task (task-ledger.ts, enqueueTaskRun and claimTaskRun).
OneMissionAtATime ==
  \A r1, r2 \in Runs : InMission(r1) /\ InMission(r2) => r1 = r2

\* While a handler is inside the mission the row stays running under its job,
\* and the answers it took with it are still all there are: nothing it decides
\* on can go stale under it.
MissionOwnsTask ==
  \A r \in Runs : InMission(r) =>
    /\ task.status = "running"
    /\ task.jobId = runs[r].job
    /\ answers = runs[r].answers

\* What cannot be undone is done only while the task is running, and, when its
\* input carries a confirm question, only while the newest reply to that
\* question is a yes (confirm.ts: nothing irreversible without a yes).
StandingYes ==
  \/ task.confirm = "none"
  \/ task.confirm = "question" /\ LatestReply(answers, "confirm") = "yes"

ActOnStandingYes ==
  [][\A r \in Runs : runs[r].pc = "mission" /\ runs'[r].pc = "acted"
       => task.status = "running" /\ StandingYes]_vars

\* However many handlers overran, none is past the gate unless the person
\* once said yes; an input whose confirm is no question lets none past.
NeverPastGateUnasked ==
  \A r \in Runs : runs[r].pc \in {"mission", "acted"} =>
    \/ task.confirm = "none"
    \/ /\ task.confirm = "question"
       /\ \E i \in DOMAIN answers : answers[i].text = "confirm" /\ answers[i].reply = "yes"

\* Every question is answered at most once, in the order they were asked; only
\* the newest can be unanswered, and only while the task is parked on it or
\* because it was declined or timed out (task-ledger.ts, openQuestion).
Unanswered ==
  task.status = "waiting_user" \/ task.cause \in {"timeout", "declined"}

AnsweredInOrder ==
  /\ Len(asked) = Len(answers) + (IF Unanswered THEN 1 ELSE 0)
  /\ \A i \in DOMAIN answers : answers[i].questionId = i /\ answers[i].text = asked[i]

\* The deadline of the question the task is parked on decides: before it the
\* person may answer or decline and nothing times the task out, after it only
\* the timeout is left, whoever finds it first: the reply, the timer, the sweep.
DeadlineDecides ==
  [][task'.cause # task.cause =>
       /\ task'.cause \in {"answered", "declined"} => overdue < Len(asked)
       /\ task'.cause = "timeout" => overdue = Len(asked)]_vars

\* The abstract task: what it is parked on and what was answered, off the trail.
Lifecycle == INSTANCE TaskLifecycle WITH
  status   <- task.status,
  cause    <- task.cause,
  open     <- IF task.status = "waiting_user" THEN LastQuestion ELSE NoQuestion,
  asked    <- DOMAIN asked,
  answered <- {answers[i].questionId : i \in DOMAIN answers}

\* Behind all its jobs, handlers and sweeps the task behaves as TaskLifecycle says.
ImplementsLifecycle == Lifecycle!Spec

\* Every task is settled in the end: crashes, lost enqueues, timers that never
\* fire and a person who never answers only delay it (task-engine.ts,
\* reconcileTasks: a phantom is found by the sweep).
EventuallySettled == <>(task.status \in TerminalTaskStatuses)

=============================================================================
