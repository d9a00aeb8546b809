----------------------------- MODULE WatchSchedules ----------------------------
(***************************************************************************)
(* How watches get their ticks (watch/src/scheduler.ts): a sweep reads the *)
(* active rows, then the schedules of the check queue, and then writes one *)
(* schedule after the other.  Rows change meanwhile, sweeps overlap - the  *)
(* one a worker begins with and the one of every minute - and any write    *)
(* may fail.  A tick reads its row again before it checks anything.        *)
(***************************************************************************)
EXTENDS Naturals, FiniteSets

CONSTANTS
    WatchIds,
    Crons, RunnableCrons,    \* what a row may say, and what the harness can run
    Sweeps,                  \* sweeps that may be under way at once, numbered as they begin
    MaxRowChanges, MaxSweeps \* bounds

VARIABLES
    rows,        \* the table: each watch's status and cron
    lastError,   \* watches whose row tells of a refused schedule
    schedules,   \* the harness: the cron each watch is scheduled with, or Off
    ticking,     \* ticks the cron has queued
    sweep,       \* each sweep: what it read and what it still has to do
    rowChanges, swept,
    settled      \* history: watches unchanged since a sweep that was alone ended well

scheduleVars == <<rows, lastError, schedules, ticking, sweep, rowChanges, swept, settled>>

Off == "off"

ASSUME ScheduleCrons == Off \notin Crons /\ RunnableCrons \subseteq Crons

NoSweep == [stage |-> "none"]

ScheduleInit ==
    /\ rows \in [WatchIds -> [status : {"active", "paused"}, cron : Crons]]
    /\ lastError = {}
    /\ schedules = [w \in WatchIds |-> Off]
    /\ ticking = {}
    /\ sweep = [s \in Sweeps |-> NoSweep]
    /\ rowChanges = 0 /\ swept = 0
    /\ settled = {}

\* A person pauses or resumes a watch, or somebody writes to the table.
RowChanges(w, row) ==
    /\ rowChanges < MaxRowChanges /\ row # rows[w]
    /\ rowChanges' = rowChanges + 1
    /\ rows' = [rows EXCEPT ![w] = row]
    /\ settled' = settled \ {w}
    /\ sweep' = [s \in Sweeps |-> IF sweep[s].stage = "none" THEN NoSweep
                                  ELSE [sweep[s] EXCEPT !.unchanged = @ \ {w}]]
    /\ UNCHANGED <<lastError, schedules, ticking, swept>>

--------------------------------------------------------------------------------
(* reconcileWatchSchedules *)

\* The rows are read.
BeginSweep(s) ==
    /\ sweep[s].stage = "none" /\ swept < MaxSweeps
    /\ \A o \in Sweeps : o < s => sweep[o].stage # "none"
    /\ swept' = swept + 1
    /\ sweep' = [o \in Sweeps |->
         CASE o = s -> [stage |-> "rows", wanted |-> {w \in WatchIds : rows[w].status = "active"},
                        cron |-> [w \in WatchIds |-> rows[w].cron],
                        alone |-> \A p \in Sweeps : sweep[p].stage = "none", unchanged |-> WatchIds]
           [] o # s /\ sweep[o].stage # "none" -> [sweep[o] EXCEPT !.alone = FALSE]
           [] OTHER -> NoSweep]
    /\ UNCHANGED <<rows, lastError, schedules, ticking, rowChanges, settled>>

\* The schedules are read, and what differs is to be written.
ReadSchedules(s) ==
    LET r == sweep[s]
    IN /\ r.stage = "rows"
       /\ sweep' = [sweep EXCEPT ![s] =
            [stage |-> "writing", cron |-> r.cron, alone |-> r.alone, unchanged |-> r.unchanged, refused |-> {},
             existing |-> {w \in WatchIds : schedules[w] # Off},
             toSchedule |-> {w \in r.wanted : schedules[w] # r.cron[w]},
             toRemove |-> {w \in WatchIds \ r.wanted : schedules[w] # Off}]]
       /\ UNCHANGED <<rows, lastError, schedules, ticking, rowChanges, swept, settled>>

\* The wanted watches come first, one by one.
Scheduling(s, w) == sweep[s].stage = "writing" /\ w \in sweep[s].toSchedule /\ sweep[s].refused = {}

\* A schedule is registered, or replaced.
Schedule(s, w) ==
    /\ Scheduling(s, w)
    /\ sweep[s].cron[w] \in RunnableCrons
    /\ schedules' = [schedules EXCEPT ![w] = sweep[s].cron[w]]
    /\ sweep' = [sweep EXCEPT ![s].toSchedule = @ \ {w}]
    /\ UNCHANGED <<rows, lastError, ticking, rowChanges, swept, settled>>

\* The harness refuses: the cron is none it can run, or it is out of reach.
\* The row says so, and the schedule the watch had is to go; the watch does
\* not count as settled by this sweep unless its cron is to blame.
ScheduleRefused(s, w) ==
    /\ Scheduling(s, w)
    /\ lastError' = lastError \cup {w}
    /\ sweep' = [sweep EXCEPT ![s].toSchedule = @ \ {w},
                              ![s].refused = sweep[s].existing \cap {w},
                              ![s].unchanged = IF sweep[s].cron[w] \in RunnableCrons THEN @ \ {w} ELSE @]
    /\ UNCHANGED <<rows, schedules, ticking, rowChanges, swept, settled>>

\* A refused watch loses the schedule it had at once, an unwanted one after the wanted ones.
Removing(s, w) ==
    /\ sweep[s].stage = "writing"
    /\ IF sweep[s].refused # {} THEN w \in sweep[s].refused
       ELSE sweep[s].toSchedule = {} /\ w \in sweep[s].toRemove

\* Variant: a paused watch keeps its schedule.
UnscheduleOnlyRefused(s, w) ==
    /\ Removing(s, w)
    /\ schedules' = IF w \in sweep[s].refused THEN [schedules EXCEPT ![w] = Off] ELSE schedules
    /\ sweep' = [sweep EXCEPT ![s].toRemove = @ \ {w}, ![s].refused = {}]
    /\ UNCHANGED <<rows, lastError, ticking, rowChanges, swept, settled>>

Unschedule(s, w) ==
    /\ Removing(s, w)
    /\ schedules' = [schedules EXCEPT ![w] = Off]
    /\ sweep' = [sweep EXCEPT ![s].toRemove = @ \ {w}, ![s].refused = {}]
    /\ UNCHANGED <<rows, lastError, ticking, rowChanges, swept, settled>>

EndSweep(s) ==
    /\ sweep[s].stage = "writing" /\ sweep[s].toSchedule \cup sweep[s].toRemove \cup sweep[s].refused = {}
    /\ settled' = IF sweep[s].alone THEN settled \cup sweep[s].unchanged ELSE settled
    /\ sweep' = [sweep EXCEPT ![s] = NoSweep]
    /\ UNCHANGED <<rows, lastError, schedules, ticking, rowChanges, swept>>

\* The database fails under the sweep, or its worker dies: what is written stays.
SweepFails(s) ==
    /\ sweep[s].stage # "none"
    /\ sweep' = [sweep EXCEPT ![s] = NoSweep]
    /\ UNCHANGED <<rows, lastError, schedules, ticking, rowChanges, swept, settled>>

--------------------------------------------------------------------------------
(* Ticks *)

\* The harness's cron queues a tick of a scheduled watch.
CronFires(w) ==
    /\ schedules[w] # Off
    /\ ticking' = ticking \cup {w}
    /\ UNCHANGED <<rows, lastError, schedules, sweep, rowChanges, swept, settled>>

\* The tick reads the row afresh; a paused watch is skipped, and either way
\* the tick is over once the check has begun.
RunWatchCheckJob(w) ==
    /\ w \in ticking
    /\ ticking' = ticking \ {w}
    /\ \/ UNCHANGED lastError
       \/ rows[w].status = "active" /\ lastError' = lastError \ {w}
    /\ UNCHANGED <<rows, schedules, sweep, rowChanges, swept, settled>>

ScheduleNext ==
    \/ \E w \in WatchIds :
         \/ \E row \in [status : {"active", "paused"}, cron : Crons] : RowChanges(w, row)
         \/ \E s \in Sweeps : Schedule(s, w) \/ ScheduleRefused(s, w) \/ Unschedule(s, w)
         \/ CronFires(w) \/ RunWatchCheckJob(w)
    \/ \E s \in Sweeps : BeginSweep(s) \/ ReadSchedules(s) \/ EndSweep(s) \/ SweepFails(s)

ScheduleSpec == ScheduleInit /\ [][ScheduleNext]_scheduleVars

--------------------------------------------------------------------------------
(* What is checked *)

\* The schedule a row asks for: its cron while it is active and can be run.
AskedFor(w) == IF rows[w].status = "active" /\ rows[w].cron \in RunnableCrons THEN rows[w].cron ELSE Off

\* One sweep without another beside it, begun after a row's last change and not
\* cut short, is enough: from then on the schedule is what the row asks for,
\* whatever later sweeps overlap, fail halfway or write one by one
\* (scheduler.ts: "a minute is as long as a pause or a resume takes to reach
\* the queue").  Two beside each other are not: the harness may refuse the one
\* what the other has just written, and the refusal removes it.
SchedulesSettle == \A w \in settled : schedules[w] = AskedFor(w)
================================================================================
