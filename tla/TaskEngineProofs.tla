-------------------------- MODULE TaskEngineProofs --------------------------
(***************************************************************************)
(* What TaskEngine's model-checking runs show on small instances, for any  *)
(* set of handlers, any retry limit and any bound.                         *)
(***************************************************************************)
EXTENDS TaskEngine, WellFoundedInduction, TLAPS

-----------------------------------------------------------------------------
(* The helpers *)

\* A move the table allows leads to a status of the table, and moves nothing else.
LEMMA MovedType ==
  ASSUME NEW row \in TaskRows, NEW cause \in TransitionCauses,
         TransitionTarget(row.status, cause) # NoStatus
  PROVE  /\ Moved(row, cause) \in TaskRows
         /\ Moved(row, cause).jobId = row.jobId
         /\ Moved(row, cause).confirm = row.confirm
         /\ Moved(row, cause).cause = cause
         /\ Moved(row, cause).status = TransitionTarget(row.status, cause)
<1>1. TransitionTarget(row.status, cause) \in TaskStatuses
  BY DEF TransitionTarget, TASK_TRANSITIONS, TransitionCauses, TaskStatuses,
         TerminalTaskStatuses, NoStatus, TaskRows
<1>2. QED
  BY <1>1 DEF Moved, TaskRows

\* Where each cause used by the engine takes the status it is used from.
LEMMA Targets ==
  /\ TransitionTarget("queued", "started") = "running"
  /\ TransitionTarget("queued", "resumed") = "running"
  /\ TransitionTarget("running", "retried") = "running"
  /\ TransitionTarget("running", "asked") = "waiting_user"
  /\ TransitionTarget("waiting_user", "answered") = "queued"
  /\ TransitionTarget("waiting_user", "timeout") = "failed"
  /\ TransitionTarget("waiting_user", "declined") = "cancelled"
  /\ TransitionTarget("running", "orphaned") = "failed"
  /\ \A s : \A c \in Settling :
       TransitionTarget(s, c) # NoStatus =>
         /\ s = "running"
         /\ TransitionTarget(s, c) = IF c = "succeeded" THEN "succeeded" ELSE "failed"
BY DEF TransitionTarget, TASK_TRANSITIONS, Settling, NoStatus

\* The causes the engine's actions use are causes of the table.
LEMMA CauseNames ==
  /\ Settling \subseteq TransitionCauses
  /\ {"started", "resumed", "retried", "asked", "answered", "timeout", "declined",
      "orphaned"} \subseteq TransitionCauses
BY DEF Settling, TransitionCauses, TASK_TRANSITIONS

\* The outcomes of the helpers that write the row or take a job back.
LEMMA RowWrites ==
  ASSUME TypeOK
  PROVE  /\ \A c \in Settling : Transitioned(task, c) \in TaskRows
         /\ \A c \in Settling : Transitioned(task, c).jobId = task.jobId
         /\ \A q : ExpireQuestion(q) \in TaskRows /\ ExpireQuestion(q).jobId = task.jobId
         /\ \A j : OrphanTask(j) \in TaskRows /\ OrphanTask(j).jobId = task.jobId
<1>1. task \in TaskRows
  BY DEF TypeOK
<1>2. ASSUME NEW c \in Settling
      PROVE  /\ Transitioned(task, c) \in TaskRows
             /\ Transitioned(task, c).jobId = task.jobId
  BY <1>1, MovedType, CauseNames DEF Transitioned
<1>3. ASSUME NEW q
      PROVE  ExpireQuestion(q) \in TaskRows /\ ExpireQuestion(q).jobId = task.jobId
  BY <1>1, MovedType, Targets, CauseNames DEF ExpireQuestion, ParkedOn, NoStatus
<1>4. ASSUME NEW j
      PROVE  OrphanTask(j) \in TaskRows /\ OrphanTask(j).jobId = task.jobId
  BY <1>1, MovedType, Targets, CauseNames DEF OrphanTask, NoStatus
<1>5. QED
  BY <1>2, <1>3, <1>4

\* Giving the row another job.
LEMMA JobIdType ==
  ASSUME NEW row \in TaskRows, NEW n \in Nat
  PROVE  LET r == [row EXCEPT !.jobId = n]
         IN  /\ r \in TaskRows
             /\ r.jobId = n
             /\ r.status = row.status
             /\ r.confirm = row.confirm
             /\ r.cause = row.cause
BY DEF TaskRows

\* A job that failed is handed out again or has failed for good.
LEMMA RetriedType ==
  ASSUME NEW job \in JobRecords
  PROVE  Retried(job) \in JobRecords /\ Retried(job).state \in {"retry", "failed"}
BY RetryAssumption DEF Retried, JobRecords

\* Appending keeps the type and makes the sequence one longer.
LEMMA EnqueueType ==
  ASSUME TypeOK, EnqueueTaskRun
  PROVE  /\ task' \in TaskRows
         /\ jobs' \in Seq(JobRecords)
         /\ faults' \in Nat
         /\ Len(jobs) <= Len(jobs')
         /\ task'.jobId <= Len(jobs')
<1> USE DEF TypeOK
<1>1. CASE task.status # "queued"
  BY <1>1 DEF EnqueueTaskRun
<1>2. CASE task.status = "queued"
  <2> DEFINE job == [state |-> "created", retries |-> 0]
  <2>1. job \in JobRecords
    BY RetryAssumption DEF JobRecords
  <2>2. jobs' = Append(jobs, job)
    BY <1>2 DEF EnqueueTaskRun
  <2>3. jobs' \in Seq(JobRecords) /\ Len(jobs') = Len(jobs) + 1
    BY <2>1, <2>2
  <2>n. Len(jobs) \in Nat /\ task.jobId \in Nat
    BY DEF TaskRows
  <2>4. CASE task' = [task EXCEPT !.jobId = Len(jobs) + 1] /\ UNCHANGED faults
    <3> DEFINE n == Len(jobs) + 1
    <3>0. n \in Nat
      BY <2>n
    <3> HIDE DEF n
    <3>1. task' \in TaskRows /\ task'.jobId = n
      BY <2>4, <3>0, JobIdType DEF n
    <3>2. QED
      BY <2>3, <2>4, <2>n, <3>1 DEF n
  <2>5. CASE Fault /\ UNCHANGED task
    <3>1. faults' \in Nat
      BY <2>5 DEF Fault
    <3>2. QED
      BY <2>3, <2>5, <2>n, <3>1
  <2>6. QED
    BY <1>2, <2>4, <2>5 DEF EnqueueTaskRun
<1>3. QED
  BY <1>1, <1>2

\* A mission that ends changes only how far its own handler is.
LEMMA EndedType ==
  ASSUME runs \in [Runs -> RunRecords], NEW r \in Runs,
         NEW outcome \in Settling \cup Texts, Ended(r, outcome)
  PROVE  /\ runs' \in [Runs -> RunRecords]
         /\ \A x \in Runs : runs'[x].job = runs[x].job /\ runs'[x].question = runs[x].question
<1>1. [runs[r] EXCEPT !.pc = "settle", !.outcome = outcome] \in RunRecords
  BY DEF RunRecords, Pcs
<1>2. runs' = [runs EXCEPT ![r] = [runs[r] EXCEPT !.pc = "settle", !.outcome = outcome]]
  BY DEF Ended
<1>3. QED
  BY <1>1, <1>2 DEF RunRecords

\* A handler that only moves on keeps its job, its question and its type.
LEMMA PcType ==
  ASSUME runs \in [Runs -> RunRecords], NEW r \in Runs, NEW pc \in Pcs,
         runs' = [runs EXCEPT ![r].pc = pc]
  PROVE  /\ runs' \in [Runs -> RunRecords]
         /\ \A x \in Runs : runs'[x].job = runs[x].job /\ runs'[x].question = runs[x].question
<1>1. [runs[r] EXCEPT !.pc = pc] \in RunRecords
  BY DEF RunRecords
<1>2. runs' = [runs EXCEPT ![r] = [runs[r] EXCEPT !.pc = pc]]
  OBVIOUS
<1>3. QED
  BY <1>1, <1>2 DEF RunRecords

\* The queue keeps its jobs, whatever state one of them gets.
LEMMA JobWrites ==
  ASSUME jobs \in Seq(JobRecords), NEW j
  PROVE  /\ \A s \in {"active", "completed"} :
              LET q == [jobs EXCEPT ![j].state = s]
              IN  q \in Seq(JobRecords) /\ Len(q) = Len(jobs)
         /\ LET q == [jobs EXCEPT ![j] = Retried(@)]
            IN  q \in Seq(JobRecords) /\ Len(q) = Len(jobs)
<1>1. CASE j \notin DOMAIN jobs
  <2>1. \A job : [jobs EXCEPT ![j] = job] = jobs
    BY <1>1
  <2>2. QED
    BY <2>1
<1>2. CASE j \in DOMAIN jobs
  <2>1. jobs[j] \in JobRecords
    BY <1>2
  <2>2. \A s \in {"active", "completed"} : [jobs[j] EXCEPT !.state = s] \in JobRecords
    BY <2>1 DEF JobRecords
  <2>3. Retried(jobs[j]) \in JobRecords
    BY <2>1, RetriedType
  <2>4. QED
    BY <1>2, <2>2, <2>3
<1>3. QED
  BY <1>1, <1>2

\* The idle handler is a handler.
LEMMA IdleRunType ==
  IdleRun \in RunRecords
BY DEF IdleRun, RunRecords, Pcs, NoJob, NoQuestion


-----------------------------------------------------------------------------
(* Types *)

\* The first state.
LEMMA TypeInit == Init => TypeOK
<1> SUFFICES ASSUME Init PROVE TypeOK
  OBVIOUS
<1>1. task \in TaskRows /\ task.jobId = NoJob
  BY DEF Init, TaskRows, TaskStatuses, NoJob
<1>2. runs \in [Runs -> RunRecords] /\ \A r \in Runs : runs[r].job = 0 /\ runs[r].question = 0
  BY IdleRunType DEF Init, IdleRun, NoJob, NoQuestion
<1>3. QED
  BY <1>1, <1>2 DEF Init, TypeOK, IdleSweep, NoJob, NoQuestion, Statuses

\* Every step, one action at a time.
LEMMA TypeStep == TypeOK /\ [Next]_vars => TypeOK'
<1> SUFFICES ASSUME TypeOK, [Next]_vars PROVE TypeOK'
  OBVIOUS
<1>f. runs \in [Runs -> RunRecords]
  BY DEF TypeOK
<1>r. \A r \in Runs : runs[r] \in RunRecords
  BY <1>f
<1>j. jobs \in Seq(JobRecords) /\ Len(jobs) \in Nat
  BY DEF TypeOK
<1>k. asked \in Seq(Texts) /\ Len(asked) \in Nat /\ answers \in Seq(AnswerRecords)
  BY DEF TypeOK
<1>b. \A r \in Runs : runs[r].job <= Len(jobs) /\ runs[r].question <= Len(asked)
  BY DEF TypeOK
<1>0. CASE UNCHANGED vars
  BY <1>0 DEF vars, TypeOK
<1>1. ASSUME NEW r \in Runs, Claim(r) PROVE TypeOK'
  <2>1. CASE TurnedAway(r)
    <3>1. runs' \in [Runs -> RunRecords]
      BY <2>1, <1>f, PcType DEF TurnedAway, Pcs
    <3>2. \A x \in Runs : runs'[x].job = runs[x].job /\ runs'[x].question = runs[x].question
      BY <2>1, <1>f, PcType DEF TurnedAway, Pcs
    <3>3. QED
      BY <1>1, <2>1, <3>1, <3>2 DEF Claim, TurnedAway, TypeOK
  <2>2. ASSUME NEW c \in {"started", "resumed", "retried"}, TakeRun(r, c),
               TransitionTarget(task.status, c) # NoStatus
        PROVE  TypeOK'
    <3>1. runs[r].job \in Nat /\ runs[r].job <= Len(jobs)
      BY <1>r DEF TypeOK, RunRecords
    <3>2. task' \in TaskRows /\ task'.jobId = runs[r].job
      BY <2>2, <3>1, MovedType, JobIdType, CauseNames DEF TakeRun, TypeOK
    <3>3. runs' \in [Runs -> RunRecords]
      <4>1. [runs[r] EXCEPT !.pc = "gate", !.answers = answers] \in RunRecords
        BY <1>r, <1>k DEF RunRecords, Pcs
      <4>2. runs' = [runs EXCEPT ![r] = [runs[r] EXCEPT !.pc = "gate", !.answers = answers]]
        BY <2>2, <1>f DEF TakeRun, RunRecords
      <4>3. QED
        BY <1>f, <4>1, <4>2
    <3>4. \A x \in Runs : runs'[x].job = runs[x].job /\ runs'[x].question = runs[x].question
      BY <2>2, <1>f DEF TakeRun, RunRecords
    <3>5. QED
      BY <1>1, <3>1, <3>2, <3>3, <3>4 DEF Claim, TypeOK
  <2>3. QED
    BY <1>1, <2>1, <2>2, Targets DEF Claim, NoStatus
<1>2. ASSUME NEW r \in Runs, Gate(r) PROVE TypeOK'
  <2>1. GateVerdict(task.confirm, LatestReply(runs[r].answers, "confirm"))
          \in {"mission", "error", "refused", "confirm"}
    BY DEF GateVerdict
  <2>2. /\ runs' \in [Runs -> RunRecords]
        /\ \A x \in Runs : runs'[x].job = runs[x].job /\ runs'[x].question = runs[x].question
    <3>1. CASE runs' = [runs EXCEPT ![r].pc = "mission"]
      BY <3>1, <1>f, PcType DEF Pcs
    <3>2. CASE \E outcome \in {"error", "refused", "confirm"} : Ended(r, outcome)
      BY <3>2, <1>f, EndedType DEF Settling, Texts
    <3>3. QED
      BY <1>2, <2>1, <3>1, <3>2 DEF Gate
  <2>3. QED
    BY <1>2, <2>2 DEF Gate, TypeOK
<1>3. ASSUME NEW r \in Runs, Act(r) PROVE TypeOK'
  <2>1. runs' \in [Runs -> RunRecords]
    BY <1>3, <1>f, PcType DEF Act, Pcs
  <2>2. \A x \in Runs : runs'[x].job = runs[x].job /\ runs'[x].question = runs[x].question
    BY <1>3, <1>f, PcType DEF Act, Pcs
  <2>3. QED
    BY <1>3, <2>1, <2>2 DEF Act, TypeOK
<1>4. ASSUME NEW r \in Runs, MissionEnds(r) PROVE TypeOK'
  <2>1. PICK outcome \in Settling \cup Texts : Ended(r, outcome)
    BY <1>4 DEF MissionEnds, Settling, Texts
  <2>2. runs' \in [Runs -> RunRecords]
    BY <2>1, <1>f, EndedType
  <2>3. \A x \in Runs : runs'[x].job = runs[x].job /\ runs'[x].question = runs[x].question
    BY <2>1, <1>f, EndedType
  <2>4. QED
    BY <1>4, <2>2, <2>3 DEF MissionEnds, TypeOK
<1>5. ASSUME NEW r \in Runs, SettleTask(r) PROVE TypeOK'
  <2>1. task' \in TaskRows /\ task'.jobId = task.jobId
    BY <1>5, RowWrites DEF SettleTask
  <2>2. runs' \in [Runs -> RunRecords]
    BY <1>5, <1>f, PcType DEF SettleTask, Pcs
  <2>3. \A x \in Runs : runs'[x].job = runs[x].job /\ runs'[x].question = runs[x].question
    BY <1>5, <1>f, PcType DEF SettleTask, Pcs
  <2>4. QED
    BY <1>5, <2>1, <2>2, <2>3 DEF SettleTask, TypeOK
<1>6. ASSUME NEW r \in Runs, AskUser(r) PROVE TypeOK'
  <2>1. CASE task.status = "running"
    <3>1. asked' \in Seq(Texts) /\ Len(asked') = Len(asked) + 1 /\ Len(asked) \in Nat
      <4>1. asked' = Append(asked, runs[r].outcome) /\ runs[r].outcome \in Texts
        BY <1>6, <2>1 DEF AskUser
      <4>2. QED
        BY <4>1, <1>k
    <3>2. task' \in TaskRows /\ task'.jobId = task.jobId
      BY <1>6, <2>1, MovedType, Targets, CauseNames DEF AskUser, TypeOK, NoStatus
    <3>3. runs' = [runs EXCEPT ![r].pc = "timer", ![r].question = Len(asked) + 1]
      BY <1>6, <2>1 DEF AskUser
    <3>4. runs' \in [Runs -> RunRecords]
      <4> DEFINE n == Len(asked) + 1
      <4>1. n \in Nat
        BY <1>k
      <4>2. runs' = [runs EXCEPT ![r] = [runs[r] EXCEPT !.pc = "timer", !.question = n]]
        BY <3>3
      <4> HIDE DEF n
      <4>3. [runs[r] EXCEPT !.pc = "timer", !.question = n] \in RunRecords
        BY <1>r, <4>1 DEF RunRecords, Pcs
      <4>4. QED
        BY <1>f, <4>2, <4>3
    <3>5. \A x \in Runs : /\ runs'[x].job = runs[x].job
                          /\ runs'[x].question \in {runs[x].question, Len(asked) + 1}
      BY <1>f, <3>3 DEF RunRecords
    <3>6. \A x \in Runs : runs[x].question \in Nat
      BY <1>r DEF RunRecords
    <3>7. QED
      <4>1. \A x \in Runs : runs'[x].job <= Len(jobs) /\ runs'[x].question <= Len(asked')
        BY <1>b, <1>k, <3>1, <3>5, <3>6
      <4>2. overdue <= Len(asked')
        BY <3>1 DEF TypeOK
      <4>3. QED
        BY <1>6, <3>1, <3>2, <3>4, <4>1, <4>2 DEF AskUser, TypeOK
  <2>2. CASE task.status # "running"
    <3>1. runs' = [runs EXCEPT ![r].pc = "return"] /\ UNCHANGED <<task, asked>>
      BY <1>6, <2>2 DEF AskUser
    <3>2. runs' \in [Runs -> RunRecords]
      BY <1>f, <3>1, PcType DEF Pcs
    <3>3. \A x \in Runs : runs'[x].job = runs[x].job /\ runs'[x].question = runs[x].question
      BY <1>f, <3>1, PcType DEF Pcs
    <3>4. QED
      BY <1>6, <3>1, <3>2, <3>3 DEF AskUser, TypeOK
  <2>3. QED
    BY <2>1, <2>2
<1>7. ASSUME NEW r \in Runs, HoldTimer(r) PROVE TypeOK'
  <2>1. runs' \in [Runs -> RunRecords] /\ timers' \subseteq Nat
    <3>1. timers' \subseteq Nat
      BY <1>7, <1>r DEF HoldTimer, TypeOK, RunRecords
    <3>2. QED
      BY <3>1, <1>7, <1>f, PcType DEF HoldTimer, Pcs
  <2>2. \A x \in Runs : runs'[x].job = runs[x].job /\ runs'[x].question = runs[x].question
    BY <1>7, <1>f, PcType DEF HoldTimer, Pcs
  <2>3. QED
    BY <1>7, <2>1, <2>2 DEF HoldTimer, TypeOK
<1>8. ASSUME NEW r \in Runs,
             jobs' \in Seq(JobRecords), Len(jobs') = Len(jobs), faults' \in Nat,
             runs' = [runs EXCEPT ![r] = IdleRun],
             UNCHANGED <<task, asked, answers, overdue, timers, sends, sweep>>
      PROVE  TypeOK'
  \* A handler goes idle, and its job may change its state.
  <2>1. runs' \in [Runs -> RunRecords]
    BY <1>8, <1>f, IdleRunType
  <2>2. \A x \in Runs : runs'[x] \in {runs[x], IdleRun}
    BY <1>8, <1>f
  <2>3. \A x \in Runs : runs'[x].job <= Len(jobs) /\ runs'[x].question <= Len(asked)
    BY <2>2, <1>b, <1>j, <1>k DEF IdleRun, NoJob, NoQuestion
  <2>4. QED
    BY <1>8, <2>1, <2>3 DEF TypeOK
<1>9. ASSUME NEW r \in Runs, Return(r) PROVE TypeOK'
  <2>1. jobs' \in Seq(JobRecords) /\ Len(jobs') = Len(jobs)
    BY <1>9, <1>j, JobWrites DEF Return
  <2>2. QED
    BY <1>9, <2>1, <1>8 DEF Return, TypeOK
<1>10. ASSUME NEW r \in Runs, HandlerFails(r) PROVE TypeOK'
  <2>1. jobs' \in Seq(JobRecords) /\ Len(jobs') = Len(jobs)
    BY <1>10, <1>j, JobWrites DEF HandlerFails
  <2>2. faults' \in Nat
    BY <1>10 DEF HandlerFails, Fault, TypeOK
  <2>3. QED
    BY <1>10, <2>1, <2>2, <1>8 DEF HandlerFails
<1>11. ASSUME NEW r \in Runs, WorkerDies(r) PROVE TypeOK'
  <2>1. faults' \in Nat
    BY <1>11 DEF WorkerDies, Fault, TypeOK
  <2>2. QED
    BY <1>11, <1>j, <2>1, <1>8 DEF WorkerDies
<1>12. ASSUME NEW r \in Runs, NEW j \in DOMAIN jobs, Deliver(r, j) PROVE TypeOK'
  <2>1. jobs' \in Seq(JobRecords) /\ Len(jobs') = Len(jobs)
    BY <1>12, <1>j, JobWrites DEF Deliver
  <2>2. j \in Nat /\ j <= Len(jobs)
    BY <1>j
  <2> DEFINE taken == [IdleRun EXCEPT !.pc = "claim", !.job = j]
  <2>3. taken \in RunRecords /\ taken.job = j /\ taken.question = NoQuestion
    BY <2>2, IdleRunType DEF RunRecords, Pcs, IdleRun
  <2>4. runs' = [runs EXCEPT ![r] = taken]
    BY <1>12 DEF Deliver
  <2> HIDE DEF taken
  <2>5. runs' \in [Runs -> RunRecords] /\ \A x \in Runs : runs'[x] \in {runs[x], taken}
    BY <2>3, <2>4, <1>f
  <2>6. \A x \in Runs : runs'[x].job <= Len(jobs) /\ runs'[x].question <= Len(asked)
    BY <2>2, <2>3, <2>5, <1>b, <1>k DEF NoQuestion
  <2>7. QED
    BY <1>12, <2>1, <2>5, <2>6 DEF Deliver, TypeOK
<1>13. ASSUME NEW j \in DOMAIN jobs, JobExpires(j) PROVE TypeOK'
  <2>1. jobs' \in Seq(JobRecords) /\ Len(jobs') = Len(jobs)
    BY <1>13, <1>j, JobWrites DEF JobExpires
  <2>2. QED
    BY <1>13, <2>1 DEF JobExpires, TypeOK
<1>14. ASSUME NEW j \in DOMAIN jobs, JobOverruns(j) PROVE TypeOK'
  <2>1. jobs' \in Seq(JobRecords) /\ Len(jobs') = Len(jobs)
    BY <1>14, <1>j, JobWrites DEF JobOverruns
  <2>2. ASSUME NEW x \in Runs
        PROVE  /\ runs'[x] \in RunRecords
               /\ runs'[x].job = runs[x].job /\ runs'[x].question = runs[x].question
    BY <1>14, <1>r DEF JobOverruns, RunRecords
  <2>3. runs' \in [Runs -> RunRecords]
    BY <1>14, <2>2 DEF JobOverruns
  <2>4. QED
    BY <1>14, <2>1, <2>2, <2>3 DEF JobOverruns, Fault, TypeOK
<1>15. ASSUME NEW q \in DOMAIN asked, ParkedOn(q), NEW c \in {"answered", "declined", "timeout"}
       PROVE  Moved(task, c) \in TaskRows /\ Moved(task, c).jobId = task.jobId
  BY <1>15, MovedType, Targets, CauseNames DEF TypeOK, ParkedOn, NoStatus
<1>16. ASSUME NEW q \in DOMAIN asked, NEW reply \in RepliesTo(asked[q]), AnswerTask(q, reply)
       PROVE  TypeOK'
  <2>1. task' \in TaskRows /\ task'.jobId = task.jobId
    BY <1>15, <1>16 DEF AnswerTask, Refused, TypeOK
  <2>2. [questionId |-> q, text |-> asked[q], reply |-> reply] \in AnswerRecords
    BY <1>16, <1>k DEF AnswerRecords, RepliesTo, Consents
  <2>3. answers' \in Seq(AnswerRecords) /\ sends' \subseteq Nat
    <3>1. q \in Nat /\ sends \subseteq Nat
      BY <1>k DEF TypeOK
    <3>2. CASE ParkedOn(q) /\ ~TooLate(q)
      <4> DEFINE answer == [questionId |-> q, text |-> asked[q], reply |-> reply]
      <4>1. answers' = Append(answers, answer) /\ sends' = sends \cup {q}
        BY <1>16, <3>2 DEF AnswerTask
      <4>2. answer \in AnswerRecords
        BY <2>2
      <4> HIDE DEF answer
      <4>3. answers' \in Seq(AnswerRecords)
        BY <4>1, <4>2, <1>k
      <4>4. sends' \subseteq Nat
        BY <4>1, <3>1
      <4>5. QED
        BY <4>3, <4>4
    <3>3. CASE ~(ParkedOn(q) /\ ~TooLate(q))
      BY <1>16, <1>k, <3>1, <3>3 DEF AnswerTask, Refused
    <3>4. QED
      BY <3>2, <3>3
  <2>4. QED
    BY <1>16, <2>1, <2>3 DEF AnswerTask, TypeOK
<1>17. ASSUME NEW q \in DOMAIN asked, DeclineTask(q) PROVE TypeOK'
  <2>1. task' \in TaskRows /\ task'.jobId = task.jobId
    BY <1>15, <1>17 DEF DeclineTask, Refused, TypeOK
  <2>2. QED
    BY <1>17, <2>1 DEF DeclineTask, Refused, TypeOK
<1>18. ASSUME EnqueueTaskRun, UNCHANGED <<asked, answers, overdue, timers, runs>>,
              sends' \subseteq Nat, sweep' \in {sweep, IdleSweep}
       PROVE  TypeOK'
  <2>1. /\ task' \in TaskRows /\ jobs' \in Seq(JobRecords) /\ faults' \in Nat
        /\ Len(jobs) <= Len(jobs') /\ task'.jobId <= Len(jobs')
    BY <1>18, EnqueueType
  <2>2. \A x \in Runs : runs[x].job \in Nat
    BY <1>r DEF RunRecords
  <2>3. \A x \in Runs : runs'[x].job <= Len(jobs') /\ runs'[x].question <= Len(asked')
    BY <1>18, <2>1, <2>2, <1>b, <1>j
  <2>4. /\ sweep' \in [pc : {"idle", "inspect", "act"}, status : Statuses,
                        jobId : Nat, question : Nat]
        /\ sweep'.jobId <= Len(jobs')
    BY <1>18, <2>1, <1>j DEF TypeOK, IdleSweep, Statuses, NoJob, NoQuestion
  <2>5. QED
    BY <1>18, <2>1, <2>3, <2>4 DEF TypeOK
<1>19. ASSUME NEW q \in sends, SendRun(q) \/ SendLost(q) PROVE TypeOK'
  <2>1. CASE SendRun(q)
    <3>1. sends' \subseteq Nat
      BY <2>1 DEF SendRun, TypeOK
    <3>2. QED
      BY <1>18, <2>1, <3>1 DEF SendRun
  <2>2. CASE SendLost(q)
    BY <2>2 DEF SendLost, Fault, TypeOK
  <2>3. QED
    BY <1>19, <2>1, <2>2
<1>20. ASSUME NEW q \in timers, TimerFires(q) PROVE TypeOK'
  BY <1>20, RowWrites DEF TimerFires, TypeOK
<1>21. ASSUME DeadlinePasses PROVE TypeOK'
  BY <1>21 DEF DeadlinePasses, TypeOK
<1>22. ASSUME SweepReads PROVE TypeOK'
  BY <1>22 DEF SweepReads, TypeOK, TaskRows, Statuses, NoQuestion
<1>23. ASSUME SweepInspects PROVE TypeOK'
  <2>1. IdleSweep \in [pc : {"idle", "inspect", "act"}, status : Statuses,
                       jobId : Nat, question : Nat] /\ IdleSweep.jobId = 0
    BY DEF IdleSweep, Statuses, NoJob, NoQuestion
  <2>2. \A q \in Nat : [sweep EXCEPT !.pc = "act", !.question = q]
                          \in [pc : {"idle", "inspect", "act"}, status : Statuses,
                              jobId : Nat, question : Nat]
    BY DEF TypeOK
  <2>3. [sweep EXCEPT !.pc = "act"] \in [pc : {"idle", "inspect", "act"}, status : Statuses,
                                        jobId : Nat, question : Nat]
    BY DEF TypeOK
  <2>4. /\ \/ sweep' = IdleSweep
           \/ \E q \in Nat : sweep' = [sweep EXCEPT !.pc = "act", !.question = q]
           \/ sweep' = [sweep EXCEPT !.pc = "act"]
        /\ UNCHANGED <<task, asked, answers, overdue, jobs, timers, sends, runs, faults>>
    BY <1>23, <1>k DEF SweepInspects, LastQuestion
  <2>5. sweep' \in [pc : {"idle", "inspect", "act"}, status : Statuses,
                    jobId : Nat, question : Nat]
    BY <2>1, <2>2, <2>3, <2>4
  <2>6. sweep'.jobId <= Len(jobs)
    <3>1. CASE sweep' = IdleSweep
      BY <2>1, <3>1, <1>j
    <3>2. CASE sweep'.jobId = sweep.jobId
      BY <3>2 DEF TypeOK
    <3>3. QED
      BY <2>4, <3>1, <3>2 DEF TypeOK
  <2>7. QED
    BY <2>4, <2>5, <2>6 DEF TypeOK
<1>24. ASSUME SweepActs PROVE TypeOK'
  <2>1. CASE sweep.status = "queued"
    BY <1>18, <1>24, <2>1 DEF SweepActs, TypeOK
  <2>2. CASE sweep.status # "queued"
    <3>1. task' \in TaskRows /\ task'.jobId = task.jobId /\ UNCHANGED <<jobs, faults>>
      BY <1>24, <2>2, RowWrites DEF SweepActs
    <3>2. QED
      BY <1>24, <3>1 DEF SweepActs, TypeOK, IdleSweep, Statuses, NoJob, NoQuestion
  <2>3. QED
    BY <2>1, <2>2
<1>25. ASSUME SweepDies PROVE TypeOK'
  BY <1>25 DEF SweepDies, Fault, TypeOK, IdleSweep, Statuses, NoJob, NoQuestion
<1>26. QED
  BY <1>0, <1>1, <1>2, <1>3, <1>4, <1>5, <1>6, <1>7, <1>9, <1>10, <1>11, <1>12, <1>13, <1>14,
     <1>16, <1>17, <1>19, <1>20, <1>21, <1>22, <1>23, <1>24, <1>25
  DEF Next, RunStep, SweepStep

\* Every behaviour keeps the types, whatever the bounds.
THEOREM TypeCorrect == Spec => []TypeOK
  BY TypeInit, TypeStep, PTL DEF Spec

-----------------------------------------------------------------------------
(* The trail, with handlers that may outlive their jobs *)

\* What one step may do to the row and its trail: nothing but give it another
\* job, or one of the moves of a task's life.
RowRests == UNCHANGED <<task.status, task.cause, asked, answers>>

PickedUp ==
  /\ UNCHANGED <<asked, answers>> /\ task'.status = "running"
  /\ \/ task.status = "queued" /\ task'.cause = "started" /\ answers = <<>>
     \/ task.status = "queued" /\ task'.cause = "resumed" /\ answers # <<>>
     \/ task.status = "running" /\ task'.cause = "retried"

Parked ==
  /\ task.status = "running" /\ task'.status = "waiting_user" /\ task'.cause = "asked"
  /\ UNCHANGED answers /\ \E text \in Texts : asked' = Append(asked, text)

GivenAnswer ==
  /\ task.status = "waiting_user" /\ task'.status = "queued" /\ task'.cause = "answered"
  /\ ~TooLate(LastQuestion) /\ UNCHANGED asked /\ LastQuestion \in DOMAIN asked
  /\ \E reply \in Consents \cup {"words"} :
        answers' = Append(answers, [questionId |-> LastQuestion, text |-> asked[LastQuestion], reply |-> reply])

Closed ==
  /\ task.status = "waiting_user" /\ UNCHANGED <<asked, answers>>
  /\ \/ task'.status = "failed" /\ task'.cause = "timeout" /\ TooLate(LastQuestion)
     \/ task'.status = "cancelled" /\ task'.cause = "declined" /\ ~TooLate(LastQuestion)

Finished ==
  /\ task.status = "running" /\ UNCHANGED <<asked, answers>>
  /\ task'.cause \in Settling \cup {"orphaned"}
  /\ task'.status = IF task'.cause = "succeeded" THEN "succeeded" ELSE "failed"

TrailMoves == RowRests \/ PickedUp \/ Parked \/ GivenAnswer \/ Closed \/ Finished

\* The sweep acts on a deadline only once it has passed.
SweepSawItPass == sweep.question <= overdue

\* A row that is written moves as its cause says, and keeps what it carries.
LEMMA MovedTo ==
  ASSUME task \in TaskRows
  PROVE  /\ \A c : Moved(task, c).cause = c /\ Moved(task, c).confirm = task.confirm
         /\ \A c : Moved(task, c).status = TransitionTarget(task.status, c)
         /\ \A c, j : [Moved(task, c) EXCEPT !.jobId = j].cause = c
         /\ \A c, j : [Moved(task, c) EXCEPT !.jobId = j].confirm = task.confirm
         /\ \A c, j : [Moved(task, c) EXCEPT !.jobId = j].status = TransitionTarget(task.status, c)
BY DEF Moved, TaskRows

\* No other move of the row is ever made, by whichever handler, reply, timer or sweep.
LEMMA TrailStep ==
  ASSUME TypeOK, SweepSawItPass, [Next]_vars
  PROVE  TrailMoves /\ task'.confirm = task.confirm
<1>0. task \in TaskRows /\ Len(asked) \in Nat /\ overdue \in Nat
  BY DEF TypeOK
<1>t. \A q : ParkedOn(q) => task.status = "waiting_user" /\ q = LastQuestion
  BY DEF ParkedOn
<1>e. ASSUME UNCHANGED <<asked, answers>>, EnqueueTaskRun PROVE TrailMoves /\ task'.confirm = task.confirm
  <2>1. task' = task \/ task' = [task EXCEPT !.jobId = Len(jobs) + 1]
    BY <1>e DEF EnqueueTaskRun
  <2> QED
    BY <1>0, <1>e, <2>1 DEF TrailMoves, RowRests, TaskRows
<1>x. ASSUME NEW q, UNCHANGED <<asked, answers>>, task' = ExpireQuestion(q), ParkedOn(q) => TooLate(q)
      PROVE  TrailMoves /\ task'.confirm = task.confirm
  BY <1>0, <1>t, <1>x, MovedTo, Targets DEF ExpireQuestion, TrailMoves, RowRests, Closed
<1>f. ASSUME NEW q, UNCHANGED asked, Refused(q), ~(ParkedOn(q) /\ ~TooLate(q))
      PROVE  TrailMoves /\ task'.confirm = task.confirm
  BY <1>0, <1>t, <1>f, MovedTo, Targets DEF Refused, TrailMoves, RowRests, Closed
<1>1. ASSUME NEW r \in Runs, Claim(r) PROVE TrailMoves /\ task'.confirm = task.confirm
  <2>1. CASE TurnedAway(r)
    BY <1>1, <2>1 DEF Claim, TurnedAway, TrailMoves, RowRests
  <2>2. CASE task.status = "queued" /\ TakeRun(r, IF answers = <<>> THEN "started" ELSE "resumed")
    BY <1>0, <1>1, <2>2, MovedTo, Targets DEF Claim, TakeRun, TrailMoves, PickedUp
  <2>3. CASE task.status = "running" /\ TakeRun(r, "retried")
    BY <1>0, <1>1, <2>3, MovedTo, Targets DEF Claim, TakeRun, TrailMoves, PickedUp
  <2> QED
    BY <1>1, <2>1, <2>2, <2>3 DEF Claim
<1>2. ASSUME NEW r \in Runs, SettleTask(r) PROVE TrailMoves /\ task'.confirm = task.confirm
  <2>1. UNCHANGED <<asked, answers>> /\ runs[r].outcome \in Settling /\ task' = Transitioned(task, runs[r].outcome)
    BY <1>2 DEF SettleTask
  <2>2. CASE TransitionTarget(task.status, runs[r].outcome) = NoStatus
    BY <2>1, <2>2 DEF Transitioned, TrailMoves, RowRests
  <2>3. CASE TransitionTarget(task.status, runs[r].outcome) # NoStatus
    BY <1>0, <2>1, <2>3, MovedTo, Targets DEF Transitioned, TrailMoves, Finished
  <2> QED
    BY <2>2, <2>3
<1>3. ASSUME NEW r \in Runs, AskUser(r) PROVE TrailMoves /\ task'.confirm = task.confirm
  <2>1. CASE task.status = "running"
    BY <1>0, <1>3, <2>1, MovedTo, Targets DEF AskUser, TrailMoves, Parked
  <2>2. CASE task.status # "running"
    BY <1>3, <2>2 DEF AskUser, TrailMoves, RowRests
  <2> QED
    BY <2>1, <2>2
<1>4. ASSUME NEW q \in DOMAIN asked, NEW reply \in RepliesTo(asked[q]), AnswerTask(q, reply)
      PROVE  TrailMoves /\ task'.confirm = task.confirm
  <2>1. CASE ParkedOn(q) /\ ~TooLate(q)
    <3>1. reply \in Consents \cup {"words"}
      BY DEF RepliesTo
    <3> QED
      BY <1>0, <1>4, <1>t, <2>1, <3>1, MovedTo, Targets DEF AnswerTask, TrailMoves, GivenAnswer
  <2>2. CASE ~(ParkedOn(q) /\ ~TooLate(q))
    BY <1>4, <1>f, <2>2 DEF AnswerTask
  <2> QED
    BY <2>1, <2>2
<1>5. ASSUME NEW q \in DOMAIN asked, DeclineTask(q) PROVE TrailMoves /\ task'.confirm = task.confirm
  <2>1. CASE ParkedOn(q) /\ ~TooLate(q)
    BY <1>0, <1>5, <1>t, <2>1, MovedTo, Targets DEF DeclineTask, TrailMoves, Closed
  <2>2. CASE ~(ParkedOn(q) /\ ~TooLate(q))
    BY <1>5, <1>f, <2>2 DEF DeclineTask
  <2> QED
    BY <2>1, <2>2
<1>6. ASSUME NEW q \in sends, SendRun(q) PROVE TrailMoves /\ task'.confirm = task.confirm
  BY <1>6, <1>e DEF SendRun
<1>7. ASSUME NEW q \in timers, TimerFires(q) PROVE TrailMoves /\ task'.confirm = task.confirm
  BY <1>7, <1>x DEF TimerFires
<1>8. CASE SweepActs
  <2>1. UNCHANGED <<asked, answers>>
    BY <1>8 DEF SweepActs
  <2>2. CASE sweep.status = "queued"
    BY <1>8, <1>e, <2>1, <2>2 DEF SweepActs
  <2>3. CASE sweep.status = "running"
    <3>1. task' = OrphanTask(sweep.jobId)
      BY <1>8, <2>3 DEF SweepActs
    <3> QED
      BY <1>0, <2>1, <3>1, MovedTo, Targets DEF OrphanTask, TrailMoves, RowRests, Finished
  <2>4. CASE sweep.status \notin {"queued", "running"}
    <3>1. task' = ExpireQuestion(sweep.question)
      BY <1>8, <2>4 DEF SweepActs
    <3> QED
      BY <1>x, <2>1, <3>1 DEF SweepSawItPass, TooLate
  <2> QED
    BY <2>2, <2>3, <2>4
<1>9. ASSUME NEW r \in Runs, Gate(r) \/ Act(r) \/ MissionEnds(r) \/ HoldTimer(r) \/ Return(r) \/ HandlerFails(r) \/ WorkerDies(r)
      PROVE  UNCHANGED <<task, asked, answers>>
  BY <1>9 DEF Gate, Act, MissionEnds, HoldTimer, Return, HandlerFails, WorkerDies
<1>10. ASSUME NEW j \in DOMAIN jobs, JobExpires(j) \/ JobOverruns(j) \/ \E r \in Runs : Deliver(r, j)
       PROVE  UNCHANGED <<task, asked, answers>>
  BY <1>10 DEF JobExpires, JobOverruns, Deliver
<1>11. CASE DeadlinePasses \/ SweepReads \/ SweepInspects \/ SweepDies \/ UNCHANGED vars \/ \E q \in sends : SendLost(q)
  BY <1>11 DEF DeadlinePasses, SweepReads, SweepInspects, SweepDies, vars, SendLost, TrailMoves, RowRests
<1>12. UNCHANGED <<task, asked, answers>> => TrailMoves /\ task'.confirm = task.confirm
  BY DEF TrailMoves, RowRests
<1> QED
  BY <1>1, <1>2, <1>3, <1>4, <1>5, <1>6, <1>7, <1>8, <1>9, <1>10, <1>11, <1>12 DEF Next, RunStep, SweepStep

\* Once given a yes stays given: the trail only grows.
YesGiven ==
  \/ task.confirm = "none"
  \/ /\ task.confirm = "question"
     /\ \E i \in DOMAIN answers : answers[i].text = "confirm" /\ answers[i].reply = "yes"

\* What a handler took with it is the beginning of the trail's answers.
TakenFromTrail ==
  \A r \in Runs : \A i \in DOMAIN runs[r].answers :
    i \in DOMAIN answers /\ answers[i] = runs[r].answers[i]

\* A task that may still run has no question left open by its ending.
NotEnded == task.status \in {"queued", "running"} => task.cause \notin {"timeout", "declined"}

TrailInv ==
  /\ AnsweredInOrder /\ NotEnded /\ TakenFromTrail /\ SweepSawItPass
  /\ \A r \in Runs : runs[r].pc \in {"mission", "acted"} => YesGiven

\* A set of places of a sequence has a last one.
LEMMA Greatest ==
  ASSUME NEW n \in Nat, NEW T, T \subseteq 1..n, T # {}
  PROVE  \E m \in T : \A k \in T : k <= m
<1> DEFINE D == {d \in Nat : n - d \in T}
<1>1. D \subseteq Nat /\ D # {}
  <2>1. PICK i \in T : TRUE
    OBVIOUS
  <2>2. n - i \in Nat /\ n - (n - i) = i
    OBVIOUS
  <2> QED
    BY <2>1, <2>2
<1>2. \A a, b \in Nat : a < b => <<a, b>> \in OpToRel(<, Nat)
  BY DEF OpToRel
<1> HIDE DEF D
<1>3. PICK x \in D : \A y \in D : ~ (<<y, x>> \in OpToRel(<, Nat))
  BY <1>1, NatLessThanWellFounded, WFMin
<1>4. \A y \in D : ~(y < x)
  BY <1>1, <1>2, <1>3
<1>5. n - x \in T
  BY <1>3 DEF D
<1>6. ASSUME NEW k \in T PROVE k <= n - x
  <2>1. n - k \in Nat /\ n - (n - k) = k /\ k \in Nat
    OBVIOUS
  <2>2. n - k \in D
    BY <2>1 DEF D
  <2>3. x \in Nat
    BY <1>1
  <2> QED
    BY <1>4, <2>1, <2>2, <2>3
<1> QED
  BY <1>5, <1>6

\* A reply that is found is on the trail.
LEMMA RepliesAreFound ==
  ASSUME NEW accepted \in Seq(AnswerRecords), NEW text, LatestReply(accepted, text) # "undefined"
  PROVE  \E i \in DOMAIN accepted : accepted[i].text = text /\ accepted[i].reply = LatestReply(accepted, text)
<1> DEFINE T == {i \in DOMAIN accepted : accepted[i].text = text}
           Last(i) == /\ accepted[i].text = text
                      /\ \A k \in DOMAIN accepted : accepted[k].text = text => k <= i
<1>1. \E i \in DOMAIN accepted : accepted[i].text = text
  BY DEF LatestReply
<1>2. T # {} /\ T \subseteq 1..Len(accepted) /\ Len(accepted) \in Nat
  BY <1>1
<1>3. \E i \in DOMAIN accepted : Last(i)
  <2> HIDE DEF T
  <2>1. PICK m \in T : \A k \in T : k <= m
    BY <1>2, Greatest
  <2> QED
    BY <2>1 DEF T
<1>4. (CHOOSE i \in DOMAIN accepted : Last(i)) \in DOMAIN accepted /\ Last(CHOOSE i \in DOMAIN accepted : Last(i))
  BY <1>3
<1>5. LatestReply(accepted, text) = accepted[CHOOSE i \in DOMAIN accepted : Last(i)].reply
  BY <1>1 DEF LatestReply
<1> QED
  BY <1>4, <1>5

\* What a step may do to a handler: it goes past the gate on the gate's word, and
\* takes no answers but those of the trail.
LEMMA HandlerStep ==
  ASSUME TypeOK, [Next]_vars, NEW r \in Runs
  PROVE  /\ runs'[r].answers \in {runs[r].answers, answers, <<>>}
         /\ runs'[r].pc \in {"mission", "acted"} =>
              \/ runs[r].pc \in {"mission", "acted"}
              \/ GateVerdict(task.confirm, LatestReply(runs[r].answers, "confirm")) = "mission"
<1> DEFINE Fine == /\ runs'[r].answers \in {runs[r].answers, answers, <<>>}
                   /\ runs'[r].pc \in {"mission", "acted"} =>
                        \/ runs[r].pc \in {"mission", "acted"}
                        \/ GateVerdict(task.confirm, LatestReply(runs[r].answers, "confirm")) = "mission"
<1>0. runs \in [Runs -> RunRecords] /\ IdleRun.answers = <<>> /\ IdleRun.pc = "idle"
  BY DEF TypeOK, IdleRun
<1>1. UNCHANGED runs => Fine
  OBVIOUS
<1>2. ASSUME NEW x \in Runs, runs' = [runs EXCEPT ![x] = IdleRun] PROVE Fine
  BY <1>0, <1>2
<1>r. ASSUME NEW x \in Runs, runs' = [runs EXCEPT ![x].pc = "return"] PROVE Fine
  BY <1>0, <1>r DEF RunRecords
<1>4. ASSUME NEW x \in Runs, NEW outcome, Ended(x, outcome) PROVE Fine
  BY <1>0, <1>4 DEF RunRecords, Ended
<1>5. ASSUME NEW x \in Runs, Claim(x) PROVE Fine
  <2>1. \/ runs' = [runs EXCEPT ![x].pc = "return"]
        \/ runs' = [runs EXCEPT ![x].pc = "gate", ![x].answers = answers]
    BY <1>5 DEF Claim, TurnedAway, TakeRun
  <2> QED
    BY <1>0, <1>r, <2>1 DEF RunRecords
<1>6. ASSUME NEW x \in Runs, Gate(x) PROVE Fine
  <2> DEFINE verdict == GateVerdict(task.confirm, LatestReply(runs[x].answers, "confirm"))
  <2>1. CASE verdict = "mission"
    <3>1. runs' = [runs EXCEPT ![x].pc = "mission"]
      BY <1>6, <2>1 DEF Gate
    <3> HIDE DEF verdict
    <3>2. runs'[r].answers = runs[r].answers /\ (r # x => runs'[r].pc = runs[r].pc)
      BY <1>0, <3>1 DEF RunRecords
    <3> QED
      BY <2>1, <3>2 DEF verdict
  <2>2. CASE verdict # "mission"
    BY <1>4, <1>6, <2>2 DEF Gate
  <2> QED
    BY <2>1, <2>2
<1>7. ASSUME NEW x \in Runs, Act(x) PROVE Fine
  BY <1>0, <1>7 DEF Act, RunRecords
<1>8. ASSUME NEW x \in Runs, MissionEnds(x) PROVE Fine
  BY <1>4, <1>8 DEF MissionEnds
<1>9. ASSUME NEW x \in Runs, AskUser(x) PROVE Fine
  <2>1. CASE task.status = "running"
    <3>1. runs' = [runs EXCEPT ![x].pc = "timer", ![x].question = Len(asked) + 1]
      BY <1>9, <2>1 DEF AskUser
    <3>2. runs'[r].answers = runs[r].answers
      BY <1>0, <3>1 DEF RunRecords
    <3>3. runs'[r].pc \in {"mission", "acted"} => runs[r].pc \in {"mission", "acted"}
      BY <1>0, <3>1 DEF RunRecords
    <3> QED
      BY <3>2, <3>3
  <2>2. CASE task.status # "running"
    <3>1. runs' = [runs EXCEPT ![x].pc = "return"]
      BY <1>9, <2>2 DEF AskUser
    <3> QED
      BY <1>r, <3>1
  <2> QED
    BY <2>1, <2>2
<1>10. ASSUME NEW x \in Runs, SettleTask(x) \/ HoldTimer(x) PROVE Fine
  <2>1. runs' = [runs EXCEPT ![x].pc = "return"]
    BY <1>10 DEF SettleTask, HoldTimer
  <2> QED
    BY <1>r, <2>1
<1>11. ASSUME NEW x \in Runs, Return(x) \/ HandlerFails(x) \/ WorkerDies(x) PROVE Fine
  BY <1>2, <1>11 DEF Return, HandlerFails, WorkerDies
<1>12. ASSUME NEW x \in Runs, NEW j \in DOMAIN jobs, Deliver(x, j) PROVE Fine
  <2>1. runs' = [runs EXCEPT ![x] = [IdleRun EXCEPT !.pc = "claim", !.job = j]]
    BY <1>12 DEF Deliver
  <2>2. [IdleRun EXCEPT !.pc = "claim", !.job = j].pc = "claim" /\ [IdleRun EXCEPT !.pc = "claim", !.job = j].answers = <<>>
    BY DEF IdleRun
  <2> QED
    BY <1>0, <2>1, <2>2
<1>13. ASSUME NEW j \in DOMAIN jobs, JobOverruns(j) PROVE Fine
  BY <1>0, <1>13 DEF JobOverruns, RunRecords
<1>14. ASSUME NEW j \in DOMAIN jobs, JobExpires(j) PROVE UNCHANGED runs
  BY <1>14 DEF JobExpires
<1>15. ASSUME NEW q \in DOMAIN asked, DeclineTask(q) \/ \E reply \in RepliesTo(asked[q]) : AnswerTask(q, reply)
       PROVE UNCHANGED runs
  BY <1>15 DEF DeclineTask, AnswerTask
<1>16. ASSUME NEW q, SendRun(q) \/ SendLost(q) \/ TimerFires(q) PROVE UNCHANGED runs
  BY <1>16 DEF SendRun, SendLost, TimerFires
<1>17. ASSUME DeadlinePasses \/ SweepStep \/ SweepDies \/ UNCHANGED vars PROVE Fine
  BY <1>1, <1>17 DEF DeadlinePasses, SweepStep, SweepReads, SweepInspects, SweepActs, SweepDies, vars
<1> HIDE DEF Fine
<1>18. (\E x \in Runs : RunStep(x) \/ HandlerFails(x) \/ WorkerDies(x)) => Fine
  BY <1>5, <1>6, <1>7, <1>8, <1>9, <1>10, <1>11 DEF RunStep
<1>19. (\E x \in Runs, j \in DOMAIN jobs : Deliver(x, j)) => Fine
  BY <1>12
<1>20. (\E j \in DOMAIN jobs : JobExpires(j) \/ JobOverruns(j)) => Fine
  BY <1>1, <1>13, <1>14
<1>21. (\E q \in DOMAIN asked : (\E reply \in RepliesTo(asked[q]) : AnswerTask(q, reply)) \/ DeclineTask(q)) => Fine
  BY <1>1, <1>15
<1>22. (\E q \in sends : SendRun(q) \/ SendLost(q)) => Fine
  BY <1>1, <1>16
<1>23. (\E q \in timers : TimerFires(q)) => Fine
  BY <1>1, <1>16
<1>24. ASSUME Next PROVE Fine
  BY <1>17, <1>18, <1>19, <1>20, <1>21, <1>22, <1>23, <1>24 DEF Next
<1>25. Fine
  BY <1>17, <1>24
<1> QED
  BY <1>25 DEF Fine

LEMMA TrailInit == Init => TrailInv
<1> SUFFICES ASSUME Init PROVE TrailInv
  OBVIOUS
<1>1. task.status = "queued" /\ task.cause = "created" /\ answers = <<>> /\ asked = <<>>
  BY DEF Init
<1>2. \A r \in Runs : runs[r].pc = "idle" /\ runs[r].answers = <<>>
  BY DEF Init, IdleRun
<1>3. sweep.question = 0 /\ overdue = 0
  BY DEF Init, IdleSweep, NoQuestion
<1> QED
  BY <1>1, <1>2, <1>3 DEF TrailInv, AnsweredInOrder, Unanswered, NotEnded, TakenFromTrail, SweepSawItPass

\* The trail only grows.
LEMMA TrailGrows ==
  ASSUME TypeOK, TrailMoves
  PROVE  \A i \in DOMAIN answers : i \in DOMAIN answers' /\ answers'[i] = answers[i]
<1>1. answers \in Seq(AnswerRecords)
  BY DEF TypeOK
<1>2. answers' = answers \/ \E a : answers' = Append(answers, a)
  BY DEF TrailMoves, RowRests, PickedUp, Parked, GivenAnswer, Closed, Finished
<1> QED
  BY <1>1, <1>2

LEMMA OrderStep ==
  ASSUME TypeOK, AnsweredInOrder, NotEnded, TrailMoves
  PROVE  AnsweredInOrder' /\ NotEnded'
<1>0. asked \in Seq(Texts) /\ answers \in Seq(AnswerRecords)
  BY DEF TypeOK
<1>1. CASE RowRests
  BY <1>1 DEF RowRests, AnsweredInOrder, NotEnded, Unanswered
<1>2. CASE PickedUp
  BY <1>2 DEF PickedUp, AnsweredInOrder, NotEnded, Unanswered
<1>3. CASE Parked
  <2>1. PICK text \in Texts : asked' = Append(asked, text)
    BY <1>3 DEF Parked
  <2>2. Len(asked) = Len(answers) /\ answers' = answers
    BY <1>3 DEF Parked, AnsweredInOrder, NotEnded, Unanswered
  <2>3. Len(asked') = Len(answers') + 1 /\ Unanswered'
    BY <1>0, <1>3, <2>1, <2>2 DEF Parked, Unanswered
  <2>4. \A i \in DOMAIN answers : asked'[i] = asked[i]
    BY <1>0, <2>1, <2>2
  <2>5. \A i \in DOMAIN answers' : answers'[i].questionId = i /\ answers'[i].text = asked'[i]
    BY <2>2, <2>4 DEF AnsweredInOrder
  <2> QED
    BY <1>3, <2>3, <2>5 DEF Parked, AnsweredInOrder, NotEnded
<1>4. CASE GivenAnswer
  <2> DEFINE Rec(reply) == [questionId |-> LastQuestion, text |-> asked[LastQuestion], reply |-> reply]
  <2>1. PICK reply : answers' = Append(answers, Rec(reply))
    BY <1>4 DEF GivenAnswer
  <2>2. Rec(reply).questionId = LastQuestion /\ Rec(reply).text = asked[LastQuestion]
    OBVIOUS
  <2> HIDE DEF Rec
  <2>3. asked' = asked /\ ~Unanswered' /\ Len(asked) = Len(answers) + 1 /\ LastQuestion = Len(asked)
    BY <1>4 DEF GivenAnswer, AnsweredInOrder, Unanswered, LastQuestion
  <2>4. Len(asked') = Len(answers')
    BY <1>0, <2>1, <2>3
  <2>5. \A i \in DOMAIN answers' : answers'[i].questionId = i /\ answers'[i].text = asked'[i]
    BY <1>0, <2>1, <2>2, <2>3 DEF AnsweredInOrder
  <2> QED
    BY <1>0, <1>4, <2>3, <2>4, <2>5 DEF GivenAnswer, AnsweredInOrder, NotEnded
<1>5. CASE Closed
  BY <1>5 DEF Closed, AnsweredInOrder, NotEnded, Unanswered
<1>6. CASE Finished
  BY <1>6 DEF Finished, AnsweredInOrder, NotEnded, Unanswered, Settling
<1> QED
  BY <1>1, <1>2, <1>3, <1>4, <1>5, <1>6 DEF TrailMoves

\* The sweep reads the deadline after it passed, and deadlines do not come back.
LEMMA SweepStepSaw ==
  ASSUME TypeOK, SweepSawItPass, [Next]_vars
  PROVE  SweepSawItPass'
<1>0. /\ overdue \in Nat /\ IdleSweep.question = 0
      /\ sweep \in [pc : {"idle", "inspect", "act"}, status : Statuses, jobId : Nat, question : Nat]
  BY DEF TypeOK, IdleSweep, NoQuestion
<1>1. UNCHANGED <<sweep, overdue>> => SweepSawItPass'
  BY DEF SweepSawItPass
<1>2. CASE SweepReads
  BY <1>0, <1>2 DEF SweepReads, SweepSawItPass, NoQuestion
<1>3. CASE SweepInspects
  <2>1. overdue' = overdue
    BY <1>3 DEF SweepInspects
  <2>2. \/ sweep' = IdleSweep
        \/ sweep' = [sweep EXCEPT !.pc = "act"]
        \/ sweep' = [sweep EXCEPT !.pc = "act", !.question = LastQuestion] /\ TooLate(LastQuestion)
    BY <1>3 DEF SweepInspects
  <2>3. CASE sweep' = IdleSweep
    BY <1>0, <2>1, <2>3 DEF SweepSawItPass
  <2>4. CASE sweep' = [sweep EXCEPT !.pc = "act"]
    BY <1>0, <2>1, <2>4 DEF SweepSawItPass
  <2>5. CASE sweep' = [sweep EXCEPT !.pc = "act", !.question = LastQuestion] /\ TooLate(LastQuestion)
    <3>1. sweep'.question = LastQuestion
      BY <1>0, <2>5
    <3> QED
      BY <2>1, <2>5, <3>1 DEF SweepSawItPass, TooLate
  <2> QED
    BY <2>2, <2>3, <2>4, <2>5
<1>4. CASE SweepActs \/ SweepDies
  BY <1>0, <1>4 DEF SweepActs, SweepDies, SweepSawItPass
<1>5. CASE DeadlinePasses
  BY <1>0, <1>5 DEF DeadlinePasses, SweepSawItPass
<1>6. ASSUME NEW r \in Runs, RunStep(r) \/ HandlerFails(r) \/ WorkerDies(r) PROVE UNCHANGED <<sweep, overdue>>
  BY <1>6 DEF RunStep, Claim, Gate, Act, MissionEnds, SettleTask, AskUser, HoldTimer, Return, HandlerFails, WorkerDies
<1>7. ASSUME NEW j \in DOMAIN jobs, JobExpires(j) \/ JobOverruns(j) \/ \E r \in Runs : Deliver(r, j)
      PROVE  UNCHANGED <<sweep, overdue>>
  BY <1>7 DEF JobExpires, JobOverruns, Deliver
<1>8. ASSUME NEW q \in DOMAIN asked, DeclineTask(q) \/ \E reply \in RepliesTo(asked[q]) : AnswerTask(q, reply)
      PROVE  UNCHANGED <<sweep, overdue>>
  BY <1>8 DEF DeclineTask, AnswerTask
<1>9. ASSUME NEW q, SendRun(q) \/ SendLost(q) \/ TimerFires(q) PROVE UNCHANGED <<sweep, overdue>>
  BY <1>9 DEF SendRun, SendLost, TimerFires
<1>10. CASE UNCHANGED vars
  BY <1>1, <1>10 DEF vars
<1> HIDE DEF SweepSawItPass
<1> QED
  BY <1>1, <1>2, <1>3, <1>4, <1>5, <1>6, <1>7, <1>8, <1>9, <1>10 DEF Next, SweepStep

LEMMA TrailInvStep ==
  ASSUME TypeOK, TrailInv, [Next]_vars
  PROVE  TrailInv'
<1>0. AnsweredInOrder /\ NotEnded /\ TakenFromTrail /\ SweepSawItPass
  BY DEF TrailInv
<1>1. TrailMoves /\ task'.confirm = task.confirm
  BY <1>0, TrailStep
<1>2. AnsweredInOrder' /\ NotEnded' /\ SweepSawItPass'
  BY <1>0, <1>1, OrderStep, SweepStepSaw
<1>3. \A i \in DOMAIN answers : i \in DOMAIN answers' /\ answers'[i] = answers[i]
  BY <1>1, TrailGrows
<1>4. ASSUME NEW r \in Runs, NEW i \in DOMAIN runs'[r].answers
      PROVE  i \in DOMAIN answers' /\ answers'[i] = runs'[r].answers[i]
  <2>1. CASE runs'[r].answers = runs[r].answers
    BY <1>0, <1>3, <1>4, <2>1 DEF TakenFromTrail
  <2>2. CASE runs'[r].answers = answers
    BY <1>3, <1>4, <2>2
  <2>3. CASE runs'[r].answers = <<>>
    BY <1>4, <2>3
  <2> QED
    BY <2>1, <2>2, <2>3, HandlerStep
<1>5. YesGiven => YesGiven'
  BY <1>1, <1>3 DEF YesGiven
<1>6. ASSUME NEW r \in Runs, runs'[r].pc \in {"mission", "acted"} PROVE YesGiven'
  <2>1. CASE runs[r].pc \in {"mission", "acted"}
    BY <1>5, <2>1 DEF TrailInv
  <2>2. CASE GateVerdict(task.confirm, LatestReply(runs[r].answers, "confirm")) = "mission"
    <3>1. \/ task.confirm = "none"
          \/ task.confirm # "malformed" /\ LatestReply(runs[r].answers, "confirm") = "yes"
      BY <2>2 DEF GateVerdict
    <3>2. task.confirm \in {"none", "question", "malformed"} /\ runs[r].answers \in Seq(AnswerRecords)
      BY DEF TypeOK, TaskRows, RunRecords
    <3>3. CASE task.confirm = "none"
      BY <1>5, <3>3 DEF YesGiven
    <3>4. CASE task.confirm = "question" /\ LatestReply(runs[r].answers, "confirm") = "yes"
      <4>1. PICK i \in DOMAIN runs[r].answers :
              runs[r].answers[i].text = "confirm" /\ runs[r].answers[i].reply = "yes"
        BY <3>2, <3>4, RepliesAreFound
      <4>2. i \in DOMAIN answers /\ answers[i] = runs[r].answers[i]
        BY <1>0 DEF TakenFromTrail
      <4> QED
        BY <1>5, <3>4, <4>1, <4>2 DEF YesGiven
    <3> QED
      BY <3>1, <3>2, <3>3, <3>4
  <2> QED
    BY <1>6, <2>1, <2>2, HandlerStep
<1> QED
  BY <1>2, <1>4, <1>6 DEF TrailInv, TakenFromTrail

LEMMA TrailHolds == Spec => [](TypeOK /\ TrailInv)
<1>1. TypeOK /\ TrailInv /\ [Next]_vars => (TypeOK /\ TrailInv)'
  BY TypeStep, TrailInvStep
<1> QED
  BY <1>1, TypeInit, TrailInit, PTL DEF Spec

\* However many handlers overran, however often the queue handed the task out:
\* no mission runs unless the person once said yes to the confirm question, or
\* there was none to ask (confirm.ts, withConfirmation).
THEOREM NobodyActsUnasked == Spec => []NeverPastGateUnasked
<1>1. TrailInv => NeverPastGateUnasked
  BY DEF TrailInv, NeverPastGateUnasked, YesGiven
<1> QED
  BY <1>1, TrailHolds, PTL

\* Questions are answered once and in order, and only the newest can be open
\* (task-ledger.ts, openQuestion).
THEOREM OneOpenQuestion == Spec => []AnsweredInOrder
<1>1. TrailInv => AnsweredInOrder
  BY DEF TrailInv
<1> QED
  BY <1>1, TrailHolds, PTL

\* The deadline decides between the person and the timeout, whoever looks first:
\* the reply, the timer or the sweep (task-ledger.ts, openQuestion and expireQuestion).
THEOREM DeadlinesDecide == Spec => DeadlineDecides
<1> DEFINE Decided == task'.cause # task.cause =>
                        /\ task'.cause \in {"answered", "declined"} => overdue < Len(asked)
                        /\ task'.cause = "timeout" => overdue = Len(asked)
<1>1. ASSUME TypeOK, TrailInv, [Next]_vars PROVE Decided
  <2>0. overdue \in Nat /\ Len(asked) \in Nat /\ overdue <= Len(asked)
    BY <1>1 DEF TypeOK
  <2>1. TooLate(LastQuestion) <=> overdue = Len(asked)
    BY <2>0 DEF TooLate, LastQuestion
  <2>2. TrailMoves
    BY <1>1, TrailStep DEF TrailInv
  <2>3. CASE RowRests
    BY <2>3 DEF RowRests
  <2>4. CASE PickedUp \/ Parked \/ Finished
    BY <2>4 DEF PickedUp, Parked, Finished, Settling
  <2>5. CASE GivenAnswer
    BY <2>0, <2>1, <2>5 DEF GivenAnswer
  <2>6. CASE Closed
    BY <2>0, <2>1, <2>6 DEF Closed
  <2> QED
    BY <2>2, <2>3, <2>4, <2>5, <2>6 DEF TrailMoves
<1>2. TypeOK /\ TrailInv /\ [Next]_vars => [Decided]_vars
  BY <1>1
<1> HIDE DEF Decided
<1>3. Spec => [][Decided]_vars
  BY <1>2, TrailHolds, PTL DEF Spec
<1> QED
  BY <1>3 DEF Decided, DeadlineDecides

-----------------------------------------------------------------------------
(* The engine implements the life the ledger promises *)

Open == IF task.status = "waiting_user" THEN LastQuestion ELSE NoQuestion
Answered == {answers[i].questionId : i \in DOMAIN answers}

\* The rows of the table that the abstract moves are made of.
LEMMA LifecycleTargets ==
  /\ Lifecycle!TransitionTarget("queued", "started") = "running"
  /\ Lifecycle!TransitionTarget("queued", "resumed") = "running"
  /\ Lifecycle!TransitionTarget("running", "retried") = "running"
  /\ Lifecycle!TransitionTarget("running", "asked") = "waiting_user"
  /\ Lifecycle!TransitionTarget("waiting_user", "answered") = "queued"
  /\ Lifecycle!TransitionTarget("waiting_user", "timeout") = "failed"
  /\ Lifecycle!TransitionTarget("waiting_user", "declined") = "cancelled"
  /\ \A c \in Settling \cup {"orphaned"} :
       Lifecycle!TransitionTarget("running", c) = IF c = "succeeded" THEN "succeeded" ELSE "failed"
  /\ Lifecycle!NoStatus = "undefined"
BY DEF Lifecycle!TransitionTarget, Lifecycle!TASK_TRANSITIONS, Lifecycle!NoStatus, Settling

\* What the trail's moves do to the questions open and answered.
LEMMA TrailViews ==
  ASSUME TypeOK, AnsweredInOrder, NotEnded, AnsweredInOrder'
  PROVE  /\ Answered = {} <=> answers = <<>>
         /\ answers' = answers => Answered' = Answered
         /\ GivenAnswer => Answered' = Answered \cup {Open}
         /\ Parked => Open' = Len(asked) + 1 /\ DOMAIN asked' = DOMAIN asked \cup {Open'} /\ Open' \notin DOMAIN asked
<1>0. asked \in Seq(Texts) /\ answers \in Seq(AnswerRecords)
  BY DEF TypeOK
<1>1. Answered = {} <=> answers = <<>>
  <2>1. answers = <<>> <=> DOMAIN answers = {}
    BY <1>0
  <2> QED
    BY <2>1 DEF Answered
<1>2. answers' = answers => Answered' = Answered
  BY DEF Answered
<1>3. Answered = 1..Len(answers) /\ Answered' = DOMAIN answers'
  <2>1. Answered = DOMAIN answers
    BY DEF Answered, AnsweredInOrder
  <2>2. Answered' = DOMAIN answers'
    BY DEF Answered, AnsweredInOrder
  <2> QED
    BY <1>0, <2>1, <2>2
<1>4. ASSUME GivenAnswer PROVE Answered' = Answered \cup {Open}
  <2>1. \E a : answers' = Append(answers, a)
    BY <1>4 DEF GivenAnswer
  <2>2. DOMAIN answers' = 1..Len(answers) + 1
    BY <1>0, <2>1
  <2>3. Open = Len(answers) + 1
    BY <1>0, <1>4 DEF GivenAnswer, Open, LastQuestion, AnsweredInOrder, Unanswered
  <2> QED
    BY <1>0, <1>3, <2>2, <2>3
<1>5. ASSUME Parked PROVE Open' = Len(asked) + 1 /\ DOMAIN asked' = DOMAIN asked \cup {Open'} /\ Open' \notin DOMAIN asked
  <2>1. PICK text \in Texts : asked' = Append(asked, text)
    BY <1>5 DEF Parked
  <2>2. Len(asked') = Len(asked) + 1 /\ DOMAIN asked' = 1..Len(asked) + 1 /\ DOMAIN asked = 1..Len(asked)
    BY <1>0, <2>1
  <2>3. Open' = Len(asked) + 1
    BY <1>5, <2>2 DEF Parked, Open, LastQuestion
  <2> QED
    BY <1>0, <2>2, <2>3
<1> QED
  BY <1>1, <1>2, <1>4, <1>5

\* Every move of the trail is a move of the abstract task, or none.
LEMMA LifecycleStep ==
  ASSUME TypeOK, TrailInv, [Next]_vars
  PROVE  [Lifecycle!Next]_(Lifecycle!vars)
<1>0. TrailMoves /\ AnsweredInOrder /\ NotEnded /\ AnsweredInOrder'
  BY TrailStep, TrailInvStep DEF TrailInv
<1> USE DEF Lifecycle!Move
<1>1. CASE RowRests
  <2>1. task'.status = task.status /\ task'.cause = task.cause /\ asked' = asked /\ answers' = answers
    BY <1>1 DEF RowRests
  <2> QED
    BY <2>1 DEF Lifecycle!vars, LastQuestion
<1>2. CASE PickedUp
  <2>1. /\ asked' = asked /\ answers' = answers /\ task'.status = "running"
        /\ task.status \in {"queued", "running"}
    BY <1>2 DEF PickedUp
  <2>2. Open' = Open /\ Answered' = Answered
    BY <2>1 DEF Open, Answered
  <2>3. \/ task.status = "queued" /\ task'.cause = "started" /\ Answered = {}
        \/ task.status = "queued" /\ task'.cause = "resumed" /\ Answered # {}
        \/ task.status = "running" /\ task'.cause = "retried"
    BY <1>0, <1>2, TrailViews DEF PickedUp
  <2>4. Lifecycle!PickUp
    BY <2>1, <2>2, <2>3, LifecycleTargets DEF Lifecycle!PickUp, Open, Answered
  <2> QED
    BY <2>4 DEF Lifecycle!Next
<1>3. CASE Parked
  <2>1. /\ task.status = "running" /\ task'.status = "waiting_user" /\ task'.cause = "asked"
        /\ answers' = answers
    BY <1>3 DEF Parked
  <2>2. Open' = Len(asked) + 1 /\ DOMAIN asked' = DOMAIN asked \cup {Open'} /\ Open' \notin DOMAIN asked
    BY <1>0, <1>3, TrailViews
  <2>3. Len(asked) \in Nat
    BY DEF TypeOK
  <2>4. Answered' = Answered
    BY <2>1 DEF Answered
  <2>5. Open' \in Nat /\ Open' \notin DOMAIN asked \cup {Lifecycle!NoQuestion}
    BY <2>2, <2>3 DEF Lifecycle!NoQuestion
  <2>6. Lifecycle!Park
    BY <2>1, <2>2, <2>4, <2>5, LifecycleTargets DEF Lifecycle!Park, Open, Answered
  <2> QED
    BY <2>6 DEF Lifecycle!Next
<1>4. CASE GivenAnswer
  <2>1. task.status = "waiting_user" /\ task'.status = "queued" /\ task'.cause = "answered" /\ asked' = asked
    BY <1>4 DEF GivenAnswer
  <2>2. Answered' = Answered \cup {Open}
    BY <1>0, <1>4, TrailViews
  <2>3. Lifecycle!Answer
    BY <2>1, <2>2, LifecycleTargets DEF Lifecycle!Answer, Lifecycle!NoQuestion, NoQuestion, Open, Answered
  <2> QED
    BY <2>3 DEF Lifecycle!Next
<1>5. CASE Closed
  <2>1. /\ task.status = "waiting_user" /\ asked' = asked /\ answers' = answers
        /\ \/ task'.status = "failed" /\ task'.cause = "timeout"
           \/ task'.status = "cancelled" /\ task'.cause = "declined"
    BY <1>5 DEF Closed
  <2>2. Lifecycle!Close
    BY <2>1, LifecycleTargets DEF Lifecycle!Close, Lifecycle!NoQuestion, NoQuestion
  <2> QED
    BY <2>2 DEF Lifecycle!Next
<1>6. CASE Finished
  <2>1. /\ task.status = "running" /\ asked' = asked /\ answers' = answers
        /\ task'.cause \in Settling \cup {"orphaned"}
        /\ task'.status = IF task'.cause = "succeeded" THEN "succeeded" ELSE "failed"
    BY <1>6 DEF Finished
  <2>2. Lifecycle!Finish
    BY <2>1, LifecycleTargets DEF Lifecycle!Finish, Settling
  <2> QED
    BY <2>2 DEF Lifecycle!Next
<1> QED
  BY <1>0, <1>1, <1>2, <1>3, <1>4, <1>5, <1>6 DEF TrailMoves

\* Behind all its jobs, handlers, timers and sweeps the task does what TaskLifecycle
\* promises, for any number of each (task-ledger.ts, transitionTask).
THEOREM EngineKeepsTheLedger == Spec => ImplementsLifecycle
<1>1. Init => Lifecycle!Init
  <2> SUFFICES ASSUME Init PROVE Lifecycle!Init
    OBVIOUS
  <2>1. task.status = "queued" /\ task.cause = "created" /\ answers = <<>> /\ asked = <<>>
    BY DEF Init
  <2> QED
    BY <2>1 DEF Lifecycle!Init, Lifecycle!NoQuestion, NoQuestion
<1>2. TypeOK /\ TrailInv /\ [Next]_vars => [Lifecycle!Next]_(Lifecycle!vars)
  BY LifecycleStep
<1> QED
  BY <1>1, <1>2, TrailHolds, PTL DEF Spec, ImplementsLifecycle, Lifecycle!Spec

=============================================================================
