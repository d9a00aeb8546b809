------------------------ MODULE TaskOwnershipProofs -------------------------
(***************************************************************************)
(* Why one task never has two missions at once, for any number of          *)
(* handlers, jobs, retries and crashes, as long as pg-boss gives up on no  *)
(* job whose handler is still running (~Overrun).                          *)
(***************************************************************************)
EXTENDS TaskEngineProofs

-----------------------------------------------------------------------------
(* The inductive invariant *)

\* A busy handler is still its job's handler: the job is active.
Attached ==
  \A r \in Runs :
    /\ runs[r].live
    /\ runs[r].pc # "idle" =>
         runs[r].job \in DOMAIN jobs /\ jobs[runs[r].job].state = "active"

\* No job has two handlers.
Exclusive ==
  \A r1, r2 \in Runs :
    runs[r1].pc # "idle" /\ runs[r2].pc # "idle" /\ runs[r1].job = runs[r2].job => r1 = r2

\* A task that is running, or was when the sweep read it, has a job.
RunningHasJob ==
  /\ task.status = "running" => task.jobId # NoJob
  /\ sweep.pc # "idle" /\ sweep.status = "running" => sweep.jobId # NoJob

\* The job of a row the sweep is about to orphan will not be delivered again.
OrphanIsDead ==
  sweep.pc = "act" /\ sweep.status = "running"
    => sweep.jobId \in DOMAIN jobs /\ jobs[sweep.jobId].state \in {"completed", "failed"}

\* Past the gate there is a yes.
PastGateOnYes ==
  \A r \in Runs : runs[r].pc \in {"mission", "acted"} => StandingYes

OwnInv ==
  /\ Attached
  /\ Exclusive
  /\ MissionOwnsTask
  /\ RunningHasJob
  /\ OrphanIsDead
  /\ PastGateOnYes

-----------------------------------------------------------------------------
(* What the steps have in common *)

\* Who is inside the mission is there alone.
LEMMA AloneInside ==
  ASSUME OwnInv
  PROVE  OneMissionAtATime
<1> SUFFICES ASSUME NEW r1 \in Runs, NEW r2 \in Runs, InMission(r1), InMission(r2)
             PROVE  r1 = r2
  BY DEF OneMissionAtATime
<1>1. runs[r1].job = runs[r2].job
  BY DEF OwnInv, MissionOwnsTask
<1>2. QED
  BY <1>1 DEF OwnInv, Exclusive, InMission

\* A handler that goes on under its job keeps the handlers' half of the invariant.
LEMMA HandlerGoesOn ==
  ASSUME OwnInv, NEW r \in Runs, runs[r].pc # "idle",
         \A x \in Runs : x # r => runs'[x] = runs[x],
         runs'[r].live = runs[r].live, runs'[r].job = runs[r].job, UNCHANGED jobs
  PROVE  Attached' /\ Exclusive'
<1>1. Attached'
  BY DEF OwnInv, Attached
<1>2. \A x \in Runs : runs'[x].pc # "idle" => runs[x].pc # "idle" /\ runs'[x].job = runs[x].job
  OBVIOUS
<1>3. Exclusive'
  BY <1>2 DEF OwnInv, Exclusive
<1>4. QED
  BY <1>1, <1>3

\* A step that leaves the sweep and the jobs alone keeps the sweep's half.
LEMMA SweepUndisturbed ==
  ASSUME OwnInv, UNCHANGED <<jobs, sweep>>,
         task'.status = "running" => task'.jobId # NoJob
  PROVE  RunningHasJob' /\ OrphanIsDead'
BY DEF OwnInv, RunningHasJob, OrphanIsDead

\* With nobody inside, the row is anybody's.
LEMMA NobodyInside ==
  ASSUME \A x \in Runs : ~InMission(x)'
  PROVE  MissionOwnsTask' /\ PastGateOnYes'
BY DEF MissionOwnsTask, PastGateOnYes, InMission

\* A handler that goes idle lets go of its job and of nothing else.
LEMMA HandlerLetsGo ==
  ASSUME OwnInv, NEW r \in Runs, runs[r].pc # "idle",
         \A x \in Runs : x # r => runs'[x] = runs[x], runs'[r] = IdleRun,
         DOMAIN jobs' = DOMAIN jobs,
         \A j \in DOMAIN jobs : j # runs[r].job => jobs'[j] = jobs[j],
         UNCHANGED <<task, answers, sweep>>
  PROVE  OwnInv'
<1>1. ~InMission(r)' /\ runs'[r].pc = "idle" /\ runs'[r].live
  BY DEF InMission, IdleRun
<1>2. \A x \in Runs : runs'[x].pc # "idle" => x # r /\ runs'[x] = runs[x]
  BY <1>1
<1>3. \A x \in Runs : runs'[x].pc # "idle" => runs[x].job # runs[r].job
  BY <1>2 DEF OwnInv, Exclusive
<1>4. Attached'
  BY <1>1, <1>2, <1>3 DEF OwnInv, Attached
<1>5. Exclusive'
  BY <1>2 DEF OwnInv, Exclusive
<1>6. MissionOwnsTask'
  BY <1>1, <1>2 DEF OwnInv, MissionOwnsTask, InMission
<1>7. PastGateOnYes'
  BY <1>1, <1>2 DEF OwnInv, PastGateOnYes, StandingYes, LatestReply
<1>8. jobs[runs[r].job].state = "active"
  BY DEF OwnInv, Attached
<1>9. RunningHasJob' /\ OrphanIsDead'
  BY <1>8 DEF OwnInv, RunningHasJob, OrphanIsDead
<1>10. QED
  BY <1>4, <1>5, <1>6, <1>7, <1>9 DEF OwnInv

\* Handlers, jobs and sweep as they were: only the row, or the answers, moved.
LEMMA RowMoves ==
  ASSUME OwnInv, UNCHANGED <<jobs, runs, sweep>>,
         \A x \in Runs : ~InMission(x),
         task'.status = "running" => task'.jobId # NoJob
  PROVE  OwnInv'
<1>1. \A x \in Runs : ~InMission(x)'
  BY DEF InMission
<1>2. Attached' /\ Exclusive'
  BY DEF OwnInv, Attached, Exclusive
<1>3. QED
  BY <1>1, <1>2, NobodyInside, SweepUndisturbed DEF OwnInv

\* Unless the task is running, nobody is inside.
LEMMA OnlyWhileRunning ==
  ASSUME OwnInv, task.status # "running"
  PROVE  \A x \in Runs : ~InMission(x)
BY DEF OwnInv, MissionOwnsTask

\* Enqueueing touches no job that is already there.
LEMMA EnqueueOwns ==
  ASSUME TypeOK, OwnInv, EnqueueTaskRun, UNCHANGED <<answers, runs>>,
         sweep' = sweep \/ sweep'.pc = "idle"
  PROVE  OwnInv'
<1>1. CASE task.status # "queued"
  <2>1. UNCHANGED <<task, jobs>>
    BY <1>1 DEF EnqueueTaskRun
  <2>2. QED
    BY <2>1 DEF OwnInv, Attached, Exclusive, MissionOwnsTask, RunningHasJob, OrphanIsDead,
                PastGateOnYes, InMission, StandingYes, LatestReply
<1>2. CASE task.status = "queued"
  <2>1. jobs' = Append(jobs, [state |-> "created", retries |-> 0])
    BY <1>2 DEF EnqueueTaskRun
  <2>2. \A j \in DOMAIN jobs : j \in DOMAIN jobs' /\ jobs'[j] = jobs[j]
    BY <2>1 DEF TypeOK
  <2>3. task'.status = "queued"
    BY <1>2 DEF EnqueueTaskRun, TypeOK, TaskRows
  <2>4. \A x \in Runs : ~InMission(x)'
    BY <1>2, OnlyWhileRunning DEF InMission
  <2>5. Attached' /\ Exclusive'
    BY <2>2 DEF OwnInv, Attached, Exclusive
  <2>6. RunningHasJob' /\ OrphanIsDead'
    BY <2>2, <2>3 DEF OwnInv, RunningHasJob, OrphanIsDead
  <2>7. QED
    BY <2>4, <2>5, <2>6, NobodyInside DEF OwnInv
<1>3. QED
  BY <1>1, <1>2

-----------------------------------------------------------------------------
(* The invariant holds *)

\* The first state: nobody is inside.
LEMMA OwnInit == Init => OwnInv
BY DEF Init, OwnInv, Attached, Exclusive, MissionOwnsTask, RunningHasJob, OrphanIsDead,
       PastGateOnYes, InMission, IdleRun, IdleSweep

\* Every step, one action at a time: the strengthening is inductive.
LEMMA OwnStep == ~Overrun /\ TypeOK /\ OwnInv /\ [Next]_vars => OwnInv'
<1> SUFFICES ASSUME ~Overrun, TypeOK, OwnInv, [Next]_vars PROVE OwnInv'
  OBVIOUS
<1>f. runs \in [Runs -> RunRecords] /\ \A x \in Runs : runs[x] \in RunRecords
  BY DEF TypeOK
<1>j. jobs \in Seq(JobRecords)
  BY DEF TypeOK
<1>a. \A x, y \in Runs : InMission(x) /\ InMission(y) => x = y
  BY AloneInside DEF OneMissionAtATime
<1>0. CASE UNCHANGED vars
  BY <1>0 DEF vars, OwnInv, Attached, Exclusive, MissionOwnsTask, RunningHasJob, OrphanIsDead,
              PastGateOnYes, InMission, StandingYes, LatestReply
<1>1. ASSUME NEW r \in Runs, Claim(r) PROVE OwnInv'
  <2>1. /\ runs[r].pc = "claim" /\ UNCHANGED <<asked, answers, jobs, sweep>>
        /\ \A x \in Runs : x # r => runs'[x] = runs[x]
        /\ runs'[r].live = runs[r].live /\ runs'[r].job = runs[r].job
    BY <1>1, <1>f DEF Claim, TakeRun, TurnedAway, RunRecords
  <2>2. Attached' /\ Exclusive'
    BY <2>1, HandlerGoesOn
  <2>3. CASE TurnedAway(r)
    <3>1. ~InMission(r)' /\ runs'[r].pc = "return"
      BY <2>3, <1>f DEF TurnedAway, InMission, RunRecords
    <3>2. task' = task
      BY <2>3 DEF TurnedAway
    <3>3. MissionOwnsTask'
      BY <2>1, <3>1, <3>2 DEF OwnInv, MissionOwnsTask, InMission
    <3>4. PastGateOnYes'
      BY <2>1, <3>1, <3>2 DEF OwnInv, PastGateOnYes, StandingYes, LatestReply
    <3>5. RunningHasJob' /\ OrphanIsDead'
      BY <2>1, <3>2, SweepUndisturbed DEF OwnInv, RunningHasJob
    <3>6. QED
      BY <2>2, <3>3, <3>4, <3>5 DEF OwnInv
  <2>4. ASSUME NEW c \in {"started", "resumed", "retried"}, TakeRun(r, c),
               TransitionTarget(task.status, c) = "running",
               task.status = "running" => ~StaleClaim(runs[r].job)
        PROVE  OwnInv'
    <3>1. runs[r].job \in Nat \ {NoJob}
      BY <2>1, <1>j DEF OwnInv, Attached, NoJob
    <3>2. task'.status = "running" /\ task'.jobId = runs[r].job
      <4>1. /\ Moved(task, c) \in TaskRows
            /\ Moved(task, c).status = "running"
        BY <2>4, MovedType, CauseNames DEF TypeOK, NoStatus
      <4>2. task' = [Moved(task, c) EXCEPT !.jobId = runs[r].job]
        BY <2>4 DEF TakeRun
      <4>3. QED
        BY <3>1, <4>1, <4>2, JobIdType
    <3>3. runs'[r].pc = "gate" /\ runs'[r].answers = answers
      BY <2>4, <1>f DEF TakeRun, RunRecords
    <3>4. ASSUME NEW x \in Runs, x # r, InMission(x) PROVE FALSE
      <4>1. task.status = "running" /\ task.jobId = runs[x].job
        BY <3>4 DEF OwnInv, MissionOwnsTask
      <4>2. runs[x].job = runs[r].job
        BY <2>4, <4>1 DEF StaleClaim, OwnInv, RunningHasJob
      <4>3. QED
        BY <2>1, <3>4, <4>2 DEF OwnInv, Exclusive, InMission
    <3>5. \A x \in Runs : InMission(x)' => x = r
      BY <2>1, <3>4 DEF InMission
    <3>6. MissionOwnsTask'
      BY <2>1, <3>2, <3>3, <3>5 DEF MissionOwnsTask
    <3>7. PastGateOnYes'
      BY <3>3, <3>5 DEF PastGateOnYes, InMission
    <3>8. RunningHasJob' /\ OrphanIsDead'
      BY <2>1, <3>1, <3>2, SweepUndisturbed
    <3>9. QED
      BY <2>2, <3>6, <3>7, <3>8 DEF OwnInv
  <2>5. QED
    BY <1>1, <2>3, <2>4, Targets DEF Claim
<1>2. ASSUME NEW r \in Runs, runs[r].pc # "idle",
             \A x \in Runs : x # r => runs'[x] = runs[x],
             runs'[r].live = runs[r].live, runs'[r].job = runs[r].job,
             runs'[r].answers = runs[r].answers,
             InMission(r)' => InMission(r),
             runs'[r].pc \in {"mission", "acted"} => StandingYes,
             UNCHANGED <<task, answers, jobs, sweep>>
      PROVE  OwnInv'
  \* A handler takes a step of its own that only it can see.
  <2>1. Attached' /\ Exclusive'
    BY <1>2, HandlerGoesOn
  <2>2. MissionOwnsTask'
    BY <1>2 DEF OwnInv, MissionOwnsTask, InMission
  <2>3. PastGateOnYes'
    BY <1>2 DEF OwnInv, PastGateOnYes, StandingYes, LatestReply
  <2>4. RunningHasJob' /\ OrphanIsDead'
    BY <1>2, SweepUndisturbed DEF OwnInv, RunningHasJob
  <2>5. QED
    BY <2>1, <2>2, <2>3, <2>4 DEF OwnInv
<1>3. ASSUME NEW r \in Runs, Gate(r) PROVE OwnInv'
  <2>1. /\ runs[r].pc = "gate" /\ InMission(r) /\ runs[r].answers = answers
        /\ UNCHANGED <<task, answers, jobs, sweep>>
    BY <1>3 DEF Gate, OwnInv, MissionOwnsTask, InMission
  <2>2. /\ \A x \in Runs : x # r => runs'[x] = runs[x]
        /\ runs'[r].live = runs[r].live /\ runs'[r].job = runs[r].job
        /\ runs'[r].answers = runs[r].answers
    BY <1>3, <1>f DEF Gate, Ended, RunRecords
  <2>3. runs'[r].pc \in {"mission", "acted"} =>
          GateVerdict(task.confirm, LatestReply(runs[r].answers, "confirm")) = "mission"
    BY <1>3, <1>f DEF Gate, Ended, RunRecords
  <2>4. task.confirm \in {"none", "question", "malformed"}
    BY DEF TypeOK, TaskRows
  <2>5. GateVerdict(task.confirm, LatestReply(runs[r].answers, "confirm")) = "mission"
          => StandingYes
    <3> DEFINE reply == LatestReply(runs[r].answers, "confirm")
    <3>1. reply = LatestReply(answers, "confirm")
      BY <2>1
    <3> HIDE DEF reply
    <3>2. GateVerdict(task.confirm, reply) = "mission"
            => \/ task.confirm = "none"
               \/ task.confirm = "question" /\ reply = "yes"
      BY <2>4 DEF GateVerdict
    <3>3. QED
      BY <3>1, <3>2 DEF StandingYes, reply
  <2>6. QED
    BY <2>1, <2>2, <2>3, <2>5, <1>2
<1>4. ASSUME NEW r \in Runs, Act(r) PROVE OwnInv'
  <2>1. /\ \A x \in Runs : x # r => runs'[x] = runs[x]
        /\ runs'[r].live = runs[r].live /\ runs'[r].job = runs[r].job
        /\ runs'[r].answers = runs[r].answers
    BY <1>4, <1>f DEF Act, RunRecords
  <2>2. runs[r].pc = "mission" /\ InMission(r) /\ StandingYes
    BY <1>4 DEF Act, InMission, OwnInv, PastGateOnYes
  <2>3. QED
    BY <1>4, <2>1, <2>2, <1>2 DEF Act
<1>5. ASSUME NEW r \in Runs, MissionEnds(r) PROVE OwnInv'
  <2>1. PICK outcome \in Settling \cup Texts : Ended(r, outcome)
    BY <1>5 DEF MissionEnds, Settling, Texts
  <2>2. /\ \A x \in Runs : x # r => runs'[x] = runs[x]
        /\ runs'[r].live = runs[r].live /\ runs'[r].job = runs[r].job
        /\ runs'[r].answers = runs[r].answers /\ runs'[r].pc = "settle"
    BY <2>1, <1>f DEF Ended, RunRecords
  <2>3. InMission(r) /\ runs[r].pc # "idle" /\ UNCHANGED <<task, answers, jobs, sweep>>
    BY <1>5 DEF MissionEnds, InMission
  <2>4. QED
    BY <2>2, <2>3, <1>2
<1>6. ASSUME NEW r \in Runs, HoldTimer(r) PROVE OwnInv'
  <2>1. /\ \A x \in Runs : x # r => runs'[x] = runs[x]
        /\ runs'[r].live = runs[r].live /\ runs'[r].job = runs[r].job
        /\ runs'[r].answers = runs[r].answers /\ runs'[r].pc = "return"
    BY <1>6, <1>f DEF HoldTimer, RunRecords
  <2>2. ~InMission(r)'
    BY <2>1 DEF InMission
  <2>3. QED
    BY <1>6, <2>1, <2>2, <1>2 DEF HoldTimer
<1>7. ASSUME NEW r \in Runs, InMission(r), ~InMission(r)', runs'[r].pc # "idle",
             \A x \in Runs : x # r => runs'[x] = runs[x],
             runs'[r].live = runs[r].live, runs'[r].job = runs[r].job,
             task'.status # "running", UNCHANGED <<jobs, sweep>>
      PROVE  OwnInv'
  \* The one handler inside the mission leaves it with the row.
  <2>1. \A x \in Runs : ~InMission(x)'
    BY <1>7, <1>a DEF InMission
  <2>2. Attached' /\ Exclusive'
    BY <1>7, HandlerGoesOn DEF InMission
  <2>3. RunningHasJob' /\ OrphanIsDead'
    BY <1>7, SweepUndisturbed
  <2>4. QED
    BY <2>1, <2>2, <2>3, NobodyInside DEF OwnInv
<1>8. ASSUME NEW r \in Runs, SettleTask(r) PROVE OwnInv'
  <2>1. /\ \A x \in Runs : x # r => runs'[x] = runs[x]
        /\ runs'[r].live = runs[r].live /\ runs'[r].job = runs[r].job /\ runs'[r].pc = "return"
    BY <1>8, <1>f DEF SettleTask, RunRecords
  <2>2. InMission(r) /\ ~InMission(r)' /\ task.status = "running"
    BY <1>8, <2>1 DEF SettleTask, InMission, OwnInv, MissionOwnsTask
  <2>3. \A c \in Settling : TransitionTarget("running", c) \in {"succeeded", "failed"}
    BY DEF TransitionTarget, TASK_TRANSITIONS, Settling
  <2>4. task'.status # "running"
    <3>1. PICK c \in Settling : task' = Transitioned(task, c)
      BY <1>8 DEF SettleTask
    <3>2. task' = Moved(task, c) /\ TransitionTarget(task.status, c) # NoStatus
      BY <2>2, <2>3, <3>1 DEF Transitioned, NoStatus
    <3>3. task'.status = TransitionTarget("running", c)
      BY <2>2, <3>2, MovedType, CauseNames DEF TypeOK
    <3>4. QED
      BY <2>3, <3>3
  <2>5. QED
    BY <1>8, <2>1, <2>2, <2>4, <1>7 DEF SettleTask
<1>9. ASSUME NEW r \in Runs, AskUser(r) PROVE OwnInv'
  <2>1. /\ \A x \in Runs : x # r => runs'[x] = runs[x]
        /\ runs'[r].live = runs[r].live /\ runs'[r].job = runs[r].job
        /\ runs'[r].pc \in {"timer", "return"}
    BY <1>9, <1>f DEF AskUser, RunRecords
  <2>2. InMission(r) /\ ~InMission(r)' /\ task.status = "running"
    BY <1>9, <2>1 DEF AskUser, InMission, OwnInv, MissionOwnsTask
  <2>3. task'.status # "running"
    BY <1>9, <2>2, MovedType, Targets, CauseNames DEF AskUser, TypeOK, NoStatus
  <2>4. QED
    BY <1>9, <2>1, <2>2, <2>3, <1>7 DEF AskUser
<1>10. ASSUME NEW r \in Runs, Return(r) \/ HandlerFails(r) \/ WorkerDies(r) PROVE OwnInv'
  <2>1. /\ runs[r].pc # "idle" /\ UNCHANGED <<task, answers, sweep>>
        /\ \A x \in Runs : x # r => runs'[x] = runs[x]
        /\ runs'[r] = IdleRun
    BY <1>10, <1>f DEF Return, HandlerFails, WorkerDies
  <2>2. /\ DOMAIN jobs' = DOMAIN jobs
        /\ \A j \in DOMAIN jobs : j # runs[r].job => jobs'[j] = jobs[j]
    BY <1>10, <1>j DEF Return, HandlerFails, WorkerDies
  <2>3. QED
    BY <2>1, <2>2, HandlerLetsGo
<1>11. ASSUME NEW r \in Runs, NEW j \in DOMAIN jobs, Deliver(r, j) PROVE OwnInv'
  <2>1. /\ runs[r].pc = "idle" /\ jobs[j].state \in {"created", "retry"}
        /\ UNCHANGED <<task, answers, sweep>>
    BY <1>11 DEF Deliver
  <2>2. /\ runs'[r].pc = "claim" /\ runs'[r].job = j /\ runs'[r].live
        /\ \A x \in Runs : x # r => runs'[x] = runs[x]
    BY <1>11, <1>f DEF Deliver, IdleRun
  <2>3. /\ DOMAIN jobs' = DOMAIN jobs /\ jobs'[j].state = "active"
        /\ \A k \in DOMAIN jobs : k # j => jobs'[k] = jobs[k]
    <3>1. jobs[j] \in JobRecords
      BY <1>j
    <3>2. QED
      BY <1>11, <1>j, <3>1 DEF Deliver, JobRecords
  <2>4. \A x \in Runs : runs[x].pc # "idle" => runs[x].job # j
    BY <2>1 DEF OwnInv, Attached
  <2>5. Attached'
    BY <2>2, <2>3, <2>4 DEF OwnInv, Attached
  <2>6. Exclusive'
    BY <2>2, <2>4 DEF OwnInv, Exclusive
  <2>7. \A x \in Runs : InMission(x)' => x # r /\ InMission(x)
    BY <2>2 DEF InMission
  <2>8. MissionOwnsTask'
    BY <2>1, <2>2, <2>7 DEF OwnInv, MissionOwnsTask
  <2>9. PastGateOnYes'
    BY <2>1, <2>2 DEF OwnInv, PastGateOnYes, StandingYes, LatestReply
  <2>10. RunningHasJob' /\ OrphanIsDead'
    BY <2>1, <2>3 DEF OwnInv, RunningHasJob, OrphanIsDead
  <2>11. QED
    BY <2>5, <2>6, <2>8, <2>9, <2>10 DEF OwnInv
<1>12. ASSUME NEW j \in DOMAIN jobs, JobExpires(j) PROVE OwnInv'
  <2>1. /\ jobs[j].state = "active" /\ UNCHANGED <<task, answers, runs, sweep>>
        /\ \A x \in Runs : runs[x].pc # "idle" => runs[x].job # j
    BY <1>12 DEF JobExpires, Holds, OwnInv, Attached
  <2>2. /\ DOMAIN jobs' = DOMAIN jobs
        /\ \A k \in DOMAIN jobs : k # j => jobs'[k] = jobs[k]
    BY <1>12, <1>j DEF JobExpires
  <2>3. Attached' /\ Exclusive'
    BY <2>1, <2>2 DEF OwnInv, Attached, Exclusive
  <2>4. MissionOwnsTask' /\ PastGateOnYes'
    BY <2>1 DEF OwnInv, MissionOwnsTask, InMission, PastGateOnYes, StandingYes, LatestReply
  <2>5. RunningHasJob' /\ OrphanIsDead'
    BY <2>1, <2>2 DEF OwnInv, RunningHasJob, OrphanIsDead
  <2>6. QED
    BY <2>3, <2>4, <2>5 DEF OwnInv
<1>13. ASSUME NEW j \in DOMAIN jobs, JobOverruns(j) PROVE OwnInv'
  BY <1>13 DEF JobOverruns
<1>14. ASSUME NEW q, NEW c \in {"answered", "declined", "timeout"}, ParkedOn(q)
       PROVE  /\ task.status # "running"
              /\ Moved(task, c).status # "running"
  BY <1>14, MovedType, Targets, CauseNames DEF ParkedOn, TypeOK, NoStatus
<1>15. ASSUME NEW q \in DOMAIN asked, NEW reply, AnswerTask(q, reply) \/ DeclineTask(q)
       PROVE  OwnInv'
  <2>1. UNCHANGED <<jobs, runs, sweep>>
    BY <1>15 DEF AnswerTask, DeclineTask
  <2>2. CASE ParkedOn(q)
    <3>1. task.status # "running" /\ task'.status # "running"
      BY <1>14, <1>15, <2>2 DEF AnswerTask, DeclineTask, Refused
    <3>2. QED
      BY <2>1, <3>1, OnlyWhileRunning, RowMoves
  <2>3. CASE ~ParkedOn(q)
    <3>1. UNCHANGED <<task, answers>>
      BY <1>15, <2>3 DEF AnswerTask, DeclineTask, Refused
    <3>2. QED
      BY <2>1, <3>1 DEF OwnInv, Attached, Exclusive, MissionOwnsTask, RunningHasJob,
                        OrphanIsDead, PastGateOnYes, InMission, StandingYes, LatestReply
  <2>4. QED
    BY <2>2, <2>3
<1>16. ASSUME NEW q, task' = ExpireQuestion(q), UNCHANGED <<answers, jobs, runs>>,
              sweep' = sweep \/ sweep'.pc = "idle"
       PROVE  OwnInv'
  <2>1. CASE ParkedOn(q)
    <3>1. task.status # "running" /\ task'.status # "running"
      BY <1>14, <1>16, <2>1 DEF ExpireQuestion
    <3>2. \A x \in Runs : ~InMission(x)'
      BY <1>16, <3>1, OnlyWhileRunning DEF InMission
    <3>3. QED
      BY <1>16, <3>1, <3>2, NobodyInside
      DEF OwnInv, Attached, Exclusive, RunningHasJob, OrphanIsDead
  <2>2. CASE ~ParkedOn(q)
    <3>1. task' = task
      BY <1>16, <2>2 DEF ExpireQuestion
    <3>2. QED
      BY <1>16, <3>1 DEF OwnInv, Attached, Exclusive, MissionOwnsTask, RunningHasJob,
                         OrphanIsDead, PastGateOnYes, InMission, StandingYes, LatestReply
  <2>3. QED
    BY <2>1, <2>2
<1>17. ASSUME NEW q, SendRun(q) \/ SendLost(q) PROVE OwnInv'
  <2>1. CASE SendRun(q)
    BY <2>1, EnqueueOwns DEF SendRun
  <2>2. CASE SendLost(q)
    BY <2>2 DEF SendLost, OwnInv, Attached, Exclusive, MissionOwnsTask, RunningHasJob,
                OrphanIsDead, PastGateOnYes, InMission, StandingYes, LatestReply
  <2>3. QED
    BY <1>17, <2>1, <2>2
<1>18. ASSUME NEW q, TimerFires(q) PROVE OwnInv'
  BY <1>16, <1>18 DEF TimerFires
<1>19. ASSUME UNCHANGED <<task, answers, jobs, runs>>,
              sweep'.pc # "idle" /\ sweep'.status = "running" => sweep'.jobId # NoJob,
              sweep'.pc = "act" /\ sweep'.status = "running" =>
                sweep'.jobId \in DOMAIN jobs /\ jobs[sweep'.jobId].state \in {"completed", "failed"}
       PROVE  OwnInv'
  <2>1. Attached' /\ Exclusive' /\ MissionOwnsTask'
    BY <1>19 DEF OwnInv, Attached, Exclusive, MissionOwnsTask, InMission
  <2>2. PastGateOnYes'
    BY <1>19 DEF OwnInv, PastGateOnYes, InMission, StandingYes, LatestReply
  <2>3. QED
    BY <1>19, <2>1, <2>2 DEF OwnInv, RunningHasJob, OrphanIsDead
<1>20. ASSUME DeadlinePasses PROVE OwnInv'
  BY <1>19, <1>20 DEF DeadlinePasses, OwnInv, RunningHasJob, OrphanIsDead
<1>21. ASSUME SweepReads PROVE OwnInv'
  BY <1>19, <1>21 DEF SweepReads, OwnInv, RunningHasJob
<1>22. ASSUME SweepInspects PROVE OwnInv'
  <2>1. UNCHANGED <<task, answers, jobs, runs>> /\ sweep.pc = "inspect"
    BY <1>22 DEF SweepInspects
  <2>2. sweep'.pc # "idle" =>
          /\ sweep'.status = sweep.status /\ sweep'.jobId = sweep.jobId
          /\ sweep.status = "running" => JobGone(sweep.jobId)
    BY <1>22 DEF SweepInspects, IdleSweep, TypeOK
  <2>3. sweep.jobId \in Nat /\ sweep.jobId <= Len(jobs)
    BY DEF TypeOK
  <2>4. sweep.jobId # NoJob => sweep.jobId \in DOMAIN jobs
    BY <2>3, <1>j DEF NoJob
  <2>5. QED
    BY <2>1, <2>2, <2>4, <1>19 DEF JobGone, OwnInv, RunningHasJob
<1>23. ASSUME SweepActs PROVE OwnInv'
  <2>1. sweep.pc = "act" /\ sweep' = IdleSweep /\ sweep'.pc = "idle" /\ UNCHANGED <<answers, runs>>
    BY <1>23 DEF SweepActs, IdleSweep
  <2>2. CASE sweep.status = "queued"
    BY <1>23, <2>1, <2>2, EnqueueOwns DEF SweepActs
  <2>3. CASE sweep.status = "running"
    <3>1. task' = OrphanTask(sweep.jobId) /\ UNCHANGED jobs
      BY <1>23, <2>3 DEF SweepActs
    <3>2. CASE task.status = "running" /\ task.jobId = sweep.jobId
      <4>1. jobs[task.jobId].state # "active"
        BY <2>1, <2>3, <3>2 DEF OwnInv, OrphanIsDead
      <4>2. \A x \in Runs : ~InMission(x)'
        BY <2>1, <4>1 DEF OwnInv, MissionOwnsTask, Attached, InMission
      <4>3. task'.status # "running"
        BY <3>1, <3>2, MovedType, Targets, CauseNames DEF OrphanTask, TypeOK, NoStatus
      <4>4. QED
        BY <2>1, <3>1, <4>2, <4>3, NobodyInside
        DEF OwnInv, Attached, Exclusive, RunningHasJob, OrphanIsDead
    <3>3. CASE ~(task.status = "running" /\ task.jobId = sweep.jobId)
      BY <2>1, <3>1, <3>3, <1>19 DEF OrphanTask, OwnInv, RunningHasJob
    <3>4. QED
      BY <3>2, <3>3
  <2>4. CASE sweep.status \notin {"queued", "running"}
    BY <1>16, <1>23, <2>1, <2>4 DEF SweepActs
  <2>5. QED
    BY <2>2, <2>3, <2>4
<1>24. ASSUME SweepDies PROVE OwnInv'
  BY <1>19, <1>24 DEF SweepDies, IdleSweep
<1>25. QED
  BY <1>0, <1>1, <1>3, <1>4, <1>5, <1>6, <1>8, <1>9, <1>10, <1>11, <1>12, <1>13, <1>15,
     <1>17, <1>18, <1>20, <1>21, <1>22, <1>23, <1>24
  DEF Next, RunStep, SweepStep

\* The strengthening holds for ever.
LEMMA Owned ==
  ASSUME ~Overrun
  PROVE  Spec => [](TypeOK /\ OwnInv)
<1>1. TypeOK /\ OwnInv /\ [Next]_vars => OwnInv'
  BY OwnStep
<1>2. Init => OwnInv
  BY OwnInit
<1>3. QED
  BY <1>1, <1>2, TypeCorrect, PTL DEF Spec

-----------------------------------------------------------------------------

\* As long as pg-boss gives up on no job whose handler still runs, no two
\* handlers are ever inside the mission (task-ledger.ts, claimTaskRun).
THEOREM NeverTwoMissions ==
  ASSUME ~Overrun
  PROVE  Spec => []OneMissionAtATime
<1>1. OwnInv => OneMissionAtATime
  BY AloneInside
<1>2. QED
  BY <1>1, Owned, PTL

\* A handler inside the mission has the running row under its own job, and every
\* answer there is (task-engine.ts, runTaskJob reads the row once, at its claim).
THEOREM MissionNeverStale ==
  ASSUME ~Overrun
  PROVE  Spec => []MissionOwnsTask
<1>1. OwnInv => MissionOwnsTask
  BY DEF OwnInv
<1>2. QED
  BY <1>1, Owned, PTL

\* Nothing irreversible happens without a running task and a standing yes
\* (confirm.ts, withConfirmation).
THEOREM NothingWithoutAYes ==
  ASSUME ~Overrun
  PROVE  Spec => ActOnStandingYes
<1>1. OwnInv /\ [Next]_vars
        => [\A r \in Runs : runs[r].pc = "mission" /\ runs'[r].pc = "acted"
              => task.status = "running" /\ StandingYes]_vars
  BY DEF OwnInv, MissionOwnsTask, PastGateOnYes, InMission
<1>2. QED
  BY <1>1, Owned, PTL DEF Spec, ActOnStandingYes

=============================================================================
