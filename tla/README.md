# Formal models of solari-chief-of-staff

TLA+ modules for the parts of this system where timing decides whether it is
right, TLC configurations that check them on small instances, and theorems
that TLAPS proves for every instance. Every definition is translated from the
code under `packages/`; `PROJECT.json` names, definition by definition, the
lines it stands for.

In this directory, `tlc -workers 2 -config TaskEngine.cfg MCTaskEngine` checks
a configuration and `tlapm TaskOwnershipProofs.tla` checks a module's proofs.

## 1. The system

Three processes share one PostgreSQL database and nothing else: the API server
(with the dashboard in front of it), the worker (a pg-boss queue and the
handlers registered on it by `scripts/worker.mjs`), and the Telegram bot.

| Component | State it keeps | Operations | What is hard | What makes it correct |
|---|---|---|---|---|
| Task state machine (`core/src/task-lifecycle.ts`) | none; a table | `transitionTarget` | - | the only way a task moves |
| Task ledger (`db/src/task-ledger.ts`) | a `tasks` row and its append-only trail | claim, transition, ask, answer, decline, expire, orphan, enqueue | calls that arrive late, twice or for an earlier question; a send outside the transaction it belongs to | one question open at a time, each answered once; a settled task never moves |
| Task engine (`db/src/task-engine.ts`) | none of its own | run handler, timeout handler, sweep | at-least-once delivery, death anywhere, a sweep that acts on what it read before | one mission of a task at a time; every task ends |
| Job harness (`db/src/jobs.ts`, pg-boss) | queue, retries, held jobs, schedules | register, enqueue, schedule, inspect, stop | expiry of a job whose handler lives, a drain that runs out | a job is delivered until it completes or has used its retries |
| Confirm gate (`db/src/confirm.ts`, `core/src/consent.ts`) | none; reads the trail | `withConfirmation`, `readConsent` | re-asked questions, stale consent | nothing irreversible without a standing yes |
| Calendar scan and ledger (`db/src/calendar-scan.ts`, `calendar-ledger.ts`, `core/src/calendar/*`) | one row per reminder and per renewal, a mark on the entry | hourly scan: settle endings, remind, arm cancellations | scans that overlap or die between two statements | bounded sends, one cancellation per renewal, a decision is never overwritten |
| Slot trigger and snipe (`watch/src/slot-trigger.ts`, `snipe.ts`) | the watch row, `book_slot` tasks, a `snipe` step on their trail | arm, consequence, sweep | checks that see one slot together; hook and sweep after one task; a rollback after a message | one booking pending; its consequence happens once and was told |
| Watch check (`watch/src/check.ts`, `core/src/watch/*`) | the watch row, observations | check, record, notify | a patch computed from the row as it was at the start; a notice before the write it reports | every news reaches the person |
| Watch scheduler (`watch/src/scheduler.ts`) | pg-boss schedules | reconcile, tick | rows that change while schedules are written | active watches are checked, paused ones are not |
| Fetch ladder (`watch/src/fetch/*`, `core/src/watch/ladder.ts`) | the tier floor of a watch | fetch, escalate, reset | the floor learned against a reset meanwhile | the floor rises by itself and falls by a person only |
| Extraction and healing (`agent/src/healing.ts`, `extractor.ts`) | extractor and health of a watch | replay, create, heal, park | the state is written before the person is told | one model call per incident, one message per incident |
| Outbound door and notifier (`bot/src/outbound.ts`, `notifier.ts`) | `deliveries`, unique by dedup key | reserve, send, settle | a send that arrives and is reported failed; a reservation outliving its process; keys that outlive their event | a key comes again only for copies that were reported failed |
| Chat binding (`bot/src/binding.ts`) | binding codes, the user's chat | `bindChat` | two codes of one user at once | a chat belongs to one user, a user has one chat |
| Routing and bot runtime (`bot/src/routing.ts`, `runtime.ts`) | transcript | route a message to a question, a command or the agent | a question that closes between lookup and reply; two tasks waiting | a reply answers the question the person saw |
| Rate limit, notice gate (`bot/src/rate-limit.ts`, `notice-gate.ts`) | in-memory buckets | take, due | - | bounds per chat |
| Connect attempts (`api/src/connect-attempts.ts`, `routes/site-connections.ts`) | attempts in memory, timers, provider sessions | start, open, confirm, cancel, expire, close | a confirm awaiting its commit while the attempt is cancelled or closed | no profile is lost, and no row names a deleted one |
| Site connections (`db/src/site-connections.ts`) | one row per user and site | link, expire, read | two links at once; an expiry by a run with an old connection | one live profile per row |
| Watch rules (`core/src/watch/config.ts`, `condition.ts`, `value.ts`, `replay.ts`, `comparator.ts`) | the row's configuration and last value | accept, read back, replay, compare | two parsers at the two ends of a row; prices read by guessing | what is accepted can fire, and fires on news only |
| Playbooks (`playbooks/src/runner/*`, `fakegym`, `fakedmv`) | the task's trail; the site | choose, sign in, step after step, ask | a death after the site acted; steps walked again | the outcome is what became of the site |
| Guardrails (`playbooks/src/guardrails/*`) | the first stop, submissions | hold, judge, abort, release | requests side by side, redirects that the browser follows by itself, a stop in the middle of a step | nothing is let go on off the list, unconfirmed, or after a stop; what the browser follows has an origin that was |
| Agentic runner (`playbooks/src/agentic/*`) | budgets, usage, refs | ask the model, use a tool, digest the page | budgets at their boundary; pages that move under a ref | within budget; what is acted on was shown |
| Browser providers (`solari/src/*`) | sessions, profiles | acquire, release, dispose, delete | a launch that goes through unheard, a context or a close that fails, a disposal in between | no session that reached a caller is held that nobody will release |
| Chat agent (`agent/src/chat-agent.ts`, `crud.ts`) | a turn, a budget of calls | ask the model, call the API, reply | calls side by side, answers lost after their effect | the reply owns up to what was done |
| Sign-in (`api/src/auth/*`, `web/src/middleware.ts`) | links, cookies | issue, spend, resolve, guard | a link spent twice at once, restarts | one link, one session |
| API routes (`api/src/routes/*`) | rows | REST | - | scoping by owner |
| Dashboard (`web/src/*`) | none | renders the API | - | - |

**How they interact.** A check or the calendar scan inserts a task and enqueues
its run; the worker claims it, passes the confirm gate and runs the mission in
a browser session; a mission may park the task on a question, which the bot
carries to the person and whose reply the bot or the API writes back with
`answerTask` or `declineTask`; the engine's settled hook, or a sweep, applies
what the ended task means for the watch that caused it; the calendar scan reads
it off the task. Messages to the person go through the outbound door.

## 2. The modules

| Module | What it is |
|---|---|
| `TaskTransitions` | the transition table; a constant module |
| `TaskLifecycle` | abstract: what the ledger promises of one task |
| `TaskEngine` | the task engine, ledger, queue, gate and sweep around one task |
| `TaskEngineProofs` | theorems about `TaskEngine` under overruns, and that it implements `TaskLifecycle` |
| `TaskOwnershipProofs` | theorems about `TaskEngine` without overruns |
| `RenewalLedger` | abstract: what the calendar promises of one renewal |
| `CalendarScan` | scans over one calendar entry |
| `CalendarScanProofs` | theorems about `CalendarScan`, and that it implements `RenewalLedger` |
| `SlotSnipe` | overlapping checks, bookings and their consequences on one slot watch |
| `SlotSnipeProofs` | theorems about `SlotSnipe` |
| `Outbound` | the outbound door: the row of a dedup key, its claim, its sends |
| `WatchNotices` | overlapping checks of a price or change watch with healing, telling the person through `Outbound`, which it extends |
| `WatchNoticesProofs` | theorems about both |
| `Connections` | connect attempts, the connection's row and the vendor's profiles, for one person and one site |
| `ConnectionsProofs` | theorems about `Connections` and `Chat` |
| `Chat` | binding, routing, the rate limit and the notices of the bot |
| `PaymentGate`, `Guardrails` | the rules over one request; the requests of a session, held, judged and stopped |
| `BrowserSessions` | a provider's ledger of sessions and its callers |
| `Playbooks` | the runner, the two playbooks and the sites they act on |
| `AgenticMission`, `BrowserToolset` | the agent's loop and budgets; its tools and the refs they aim by |
| `ChatAgent` | one turn of the assistant |
| `SignIn` | links, sessions and the dashboard's guard |
| `WatchSchedules` | the sweep over rows and schedules |
| `FetchLadder` | tiers, and the floor that is learned |
| `WatchRules` | what a watch means, from the door to the trigger |
| `MissionProofs` | theorems about `Guardrails`, `BrowserSessions`, `BrowserToolset`, `AgenticMission`, `Playbooks` and `ChatAgent` |
| `DoorProofs` | theorems about `SignIn`, `WatchSchedules`, `FetchLadder` and `WatchRules` |
| `MCTaskEngine`, `MCCalendarScan`, `MCWatchNotices`, `MCConnections`, `MCMissions` | instances for TLC |

An operator whose comment starts with *Variant:* is a wrong form of the
definition that follows it, the way a bug in the code would have it. No action
uses it. Put in the place of that definition it makes TLC find a violation,
which shows that the property it is listed with in `PROJECT.json` depends on
what the code does there.

### TaskEngine

One task stands for all: tasks share only the workers. `task` is the row;
`asked` and `answers` are the `ask_user` and `user_reply` events of its trail
(a question's id is its place); `jobs` are the run jobs ever sent, `timers` the
held timeout jobs, `sends` the calls of `enqueueTaskRun` that follow a commit
and are not made yet, `runs` the handlers in flight, `sweep` the reconcile
sweep with the row it read. A transaction of the ledger locks the row before
anything else and is one action; what the code does between transactions is an
action of its own, so that other actors, or death, come between.

- `Claim` is `claimTaskRun`; `Gate` is `withConfirmation`; `Act` and
  `MissionEnds` are the mission, of which only two things matter here: that it
  does something that cannot be undone, and how it returns.
- `SettleTask`, `AskUser`, `HoldTimer`, `Return` are `settle` and `askUser`
  with the send after its commit; `HandlerFails` and `WorkerDies` are how a
  delivery ends otherwise.
- `AnswerTask`, `DeclineTask` take any question ever asked, from a channel that
  may be late; a reply after the deadline expires the question on the spot.
- `SendRun` is the enqueue after a commit. The queue has its own connection, so
  the job may be there and the row may not name it (`EnqueueTaskRun`).
- `SweepReads`, `SweepInspects`, `SweepActs` are `reconcileTasks`: it reads
  rows, asks the queue, and writes with each condition looked at again.
- `JobExpires` gives an abandoned job out again. `JobOverruns` (only with
  `Overrun`) does so while the handler lives: pg-boss cannot stop a handler.

### CalendarScan

One entry, one person, a reminder row, a renewal row, and scans that are each
somewhere between two statements of `runCalendarScan`. A day is a number: the
notice periods become `DueOn..RenewOn` and `(RenewOn - CancelLead)..RenewOn`.
What a scan read (the mark, whether the person can be reached, the attempt
count, the task's ending) is in its own record and may be stale when it writes.
`Annotate` compares ranks in the UPDATE itself, as the SQL does. A reminder whose
send is reported failed may have arrived, as in `Outbound`; `sent` counts sends,
however many copies each brought.

### SlotSnipe

One watch, the site's page, checks that overlap, and the bookings they queue.
A booking is open until `BookingEnds`, which is all that is left of TaskEngine
here; then its consequence is due, and either the settled hook or a sweep
applies it. `Settled`, `RolledBack` and `Skipped` are the three ways through
`settleSnipe`. The notifier is called before the commit, so `RolledBack` may
leave a message behind.

### Outbound and WatchNotices

The door is modelled for callers that tell events; an event is its dedup key,
and `deliveries` has the one row a key can have. `Reserve` is the insert or the
conditional update that claims a failed row, `ReadExisting` what a caller reads
when it got neither, `SendTo` all attempts of one send, `SettleDelivery` the
row's outcome with what the notifier makes of it. Death between the last two
leaves the message sent and the row pending.

A failed attempt is not one that did not arrive. A timeout or a lost answer is
retryable (`runtime.ts:338-344`), and the sender also rejects when the transcript
cannot be written after the delivery (`runtime.ts:480-495`). `SendTo` therefore
picks an outcome and the copies that arrive: a send that is acknowledged adds one
copy and any number of unacknowledged ones before it, a send that fails adds
unacknowledged ones only. `unheard` counts those. Up to `SendAttempts` arrive in one
send; `MaxUnheard` (per key) and `Unreliable` (the keys it happens to) are bounds.

In `WatchNotices` the callers are checks of one watch. Each works from the row
as it was when its tick began (`check[c]` holds it) while the others write
`watch`. A page is a design and a value, or a refusal; an extractor is the
design it reads, so "replay fails" is "another design" and a healed extractor
is the design of the page it was made from. `ReplayExtractor`, `ReportSpent`,
`CallModel`, `StoreExtractor`, `ParkWatch`, `DegradeWatch` are the branches of
`extractWatchValue`; `CompareValue` and `RecordValue` are a value's way through
`checkWatch`, with the notifier called in between and its answer awaited
(`NotifierAnswers`). A throw anywhere ends the check, and the next tick begins
anew. The condition is fixed (a person may edit it; that changes the keys), and
tiers, error texts and failure counts are left out.

### Connections

`attempt` and `armed` are the ledger's memory, `request` the confirmations under
way, `row` the `site_connections` row of one person and one site (the schema
allows one), `live` the profiles at the vendor and `deleting` those whose
deletion was asked for. A profile has the name of the attempt it was minted
for. `ConfirmAttempt`, `ReadPrevious`, `LinkConnection`, `CloseConfirmed` are the
confirm route from `confirm` through the two statements of
`linkSiteConnection` and back; `CommitFails` is its catch, also for a commit
that was written and whose answer was lost. `Discard` writes the status and
leaves the deletion to happen later. `ProcessDies` forgets everything but the
row and the profiles; `CloseServer` is `close`, which Fastify calls when its
requests have ended.

`meddled`, `shadowed` and `givenUp` are history. No action reads them. They name
the three ways in which the code does lose a profile or delete one that is in
use, so that the properties can say that there is no other way:

- the attempt was cancelled, or confirmed a second time, while its commit was
  out (`open` lets both in, since the status is still `started`), or its commit
  was written and answered with an error, and the attempt was put back on the
  clock;
- two links overlapped and saw the same previous profile, or one was in doubt;
- the vendor refused the deletion, which is reported and not retried, or the
  process died, or the profile was minted and the answer lost (`MintUnanswered`):
  `start` fails, and nobody here knows of the profile.

### Chat

A message is at one handler of the chain in `runtime.ts` and goes on in steps;
others come between. `ReadCode`, `ReadOwner` and `Bind` are the transaction of
`bindChat`, which locks its code's row and nothing else; `Route` looks the
newest open question up, and `Deliver` is the ledger's answer to it. `messages`
also keeps what each handler learned: whether it was written down (`heard`), what
the ledger did (`taken`), which redemptions of the same user it overlapped
(`rivals`).

### Guardrails and PaymentGate

`PaymentGate` is the judgement over facts: a form's fields by the vocabularies
that match them, a host by its labels. In `Guardrails` a request is raised,
read (its page may answer late), admitted or refused, and sent; a navigation is
served from this side, hop by hop. `Verdict` is the race of `runGuarded`.

The route handler does not see everything that leaves. What it lets go on is
followed by the browser through its redirects (`guardrails.ts:346-352`), with the
method and the body or as a GET, and also after a stop. `FollowedHop` is such a hop of a
navigation, which the listener judges once it is out; `FollowedUnseen` is one of
any other request, which `hopFacts` has no facts of, so that nobody judges it.
`sent` logs both beside what the handler let go on, each with who sent it and
whether a stop stood.

### BrowserSessions

`slots` is what the vendor holds and `live` what the provider knows of. An
acquire launches, opens a context and is tracked in three steps; `KeptOnFailure`
is that a close that fails leaves the session in the ledger for another try.
`LaunchUnanswered` is a create that succeeds at the vendor and fails here
(`solari.ts:99-105`): the slot is held under an id nobody saw (`unseen`), the caller
is told of a failure, and the create is not sent again. `Reaped` is the vendor's
reaper, modelled for the sessions that nobody here can close.

### Playbooks

A run is at a step of its playbook; `site` is what the two fixtures keep. What a
run does to the site and what it hears of it are two steps, between which it may
die (`RunDies`), be stopped, or lose the answer, and a session that cannot be
released costs the run its outcome (`SessionThrows`). `OutcomeOf` is how the runner
reads a step's outcome, `Expires` when it expires the connection, `Confirm` the
question of a booking.

### AgenticMission and BrowserToolset

`AgenticMission` is the loop: budgets looked at before each turn and each tool,
answers that cost what they like, retries, deaths, and usage added to the row.
`BrowserToolset` is one page under it: `Digest` stamps refs and keeps how each
element looked, `Found` compares before an action, and the page moves at any
point between.

### ChatAgent

`Speaks`, `WantsCalls`, calls that are answered, refused or lost, and the four
endings of a turn. `effects` counts what the API did, `unheard` what of it was
never answered.

### SignIn

A link is issued, mailed, and spent by the first visit in one UPDATE; the visit
leaves a cookie signed with the process's secret. `pages` are the dashboard's
requests to its guard, which asks the API.

### WatchSchedules, FetchLadder, WatchRules

The sweep reads rows, then schedules, then writes one by one; `settled` is
history: the watches that did not change since a sweep that was alone. In
`FetchLadder` each check has a copy of the floor from its beginning; `refused`,
`learned` and `outrun` are history. `WatchRules` is `POST /watches` and a check
without its failures: a JSON value is a record with its type, a printed price is
its groups of digits with what stands between them, and `Boards` pair what a page
means (`price`, `words`) with how it prints it (`print`, `text`). The frequency
floor looks at the runs up to the first that is past the horizon or completes the
sample, as the loop with its `break` does.

## 3. What is checked

| Run | Bounds | Shows |
|---|---|---|
| `task_engine` | 2 handlers, 2 jobs, 2 questions, 1 retry, 2 faults, no overrun | one mission at a time, nothing it relies on goes stale, and no act without a standing yes |
| `task_engine_overrun` | the same with overruns and 1 fault | the gate, the trail, the deadlines, and `TaskLifecycle!Spec` (which has it that a settled task stays), even with two handlers inside |
| `task_settles` | 1 handler, 8 jobs, 1 question, no retry, 1 fault | every task is settled in the end |
| `task_zombie` | as `task_engine_overrun` | finds two missions of one task side by side |
| `calendar` | 2 scans, 3 days, 2 attempts, 1 fault | sends are covered by attempts, marks are earned and stay, `RenewalLedger!Spec`, endings are recorded |
| `calendar_twice` | 1 scan, otherwise the same | finds a reminder sent twice |
| `slot_snipe` | 2 checks, 1 slot, 2 bookings, 1 fault | one booking pending, told and applied once, and applied in the end |
| `watch_notices` | 2 checks, 2 designs, 2 values, both kinds, 1 death, 1 change of the page or reset, 2 attempts per send, 1 copy of one key's message unheard of | a key comes again only for a copy reported failed, and what the rows tell of is out |
| `connections` | 3 attempts, 2 confirmations at once, 1 fault; or 2 users, 2 chats, 2 codes, 1 task, 3 messages, 1 tick | the row names a profile that exists, no profile is lost sight of, no attempt stays open unwatched; a chat speaks for one user, and every message is answered with what was done |
| `missions` | one of ten parts in each behaviour, see below | what is let go on is within the policy, what follows it has an origin there, and a stop wins; sessions held are tracked, or their caller was told of a failure; outcomes are the site's; the person is heard; expiry is earned; what is acted on was shown; budgets hold; a turn is owned up to; one link is one session; schedules settle; the floor is earned; accepted watches can fire and fire on news |
| `degraded_untold` | 1 check, 1 value, 1 change, no death | finds a degraded watch nobody was told of |
| `snipe_declined` | 1 check, 2 slots, 3 bookings, no fault | finds a declined slot offered again |

**Why the bounds are enough.** A race needs two actors and two jobs. The second
question is what makes a reply late for another question; the second job is
what makes a claim stale. One fault is every single crash or lost call at every
point, and two are a crash during the recovery from a crash. `MaxJobs` is 8 in
`task_settles` because the sweep gives a task whose enqueue was lost another
job, and a bound it ran into would look like a task that never settles.
Three days are before, on and after the day a reminder is due. The two bookings
of `slot_snipe` are an old consequence and a new booking; two slots were
explored once, without the liveness property, and add nothing to it (4.2
million states). In `watch_notices` checks are unlimited; only the page's
changes and deaths are counted, and checks and designs are symmetric. One key has
copies that are not acknowledged: keys have rows of their own and the same door,
so that a second would repeat the first. In
`connections` the third attempt is what two overlapping links replace, and the
fault is a commit in doubt, a lost mint, a refused deletion or a death; two faults
were explored once, without the chat, and held too. Its behaviours have one of four
parts: the site's connection, or the chat with codes redeemed at once, with a crowd
that meets the limits, or with questions.

`missions` checks ten modules side by side, since they share no state: the part
is chosen at the start, and the others rest. Their bounds:

| Part | Bounds | The case they are for |
|---|---|---|
| guardrails | 2 requests of 5 kinds, 1 redirect, answers that confirm, refuse or are absent | one request judged while the other stops the session; a hop that the browser follows by itself |
| sessions | 2 callers, 3 closes each | an unanswered launch, an early release, a failed close, a disposal |
| tools | 2 documents, 2 elements, 2 changes of the page | a ref of an element that was replaced, relabelled or copied |
| agent | 3 tool calls, 4 tokens, 2 ticks, 2 attempts, 2 runs | every budget met exactly and overrun by one |
| playbook | 7 tasks, 4 runs, 2 profiles | a death after the act and the retry that meets it |
| assistant | 3 calls, 2 at once | a lost answer beside one that came |
| sign-in | 2 accounts, 2 browsers, 2 links, 2 ticks, 1 restart | one link in two browsers as it expires |
| schedules | 2 watches, 2 crons, 2 sweeps at once of 3, 1 change | a change between a sweep's read and its write |
| ladder | 3 checks, 6 answers of the site, 1 reset | a floor learned while another check or a reset changes it |
| rules | some 60 bodies, 6 pages, 3 checks | every door rule violated alone; the same price printed in another way |

**Deadlock** is not checked: attempts that were all used and closed, a task that is settled, a calendar at its last day
and a watch whose person does nothing are where these systems may stop.

**Fairness.** In `TaskEngine` a running handler goes on, pg-boss polls for due
jobs and expires abandoned ones, the sweep's schedule fires, clocks advance.
Nothing is assumed of the person, of held timers, or of the enqueue after a
commit. In `CalendarScan` scans are started by a schedule and go on unless they
die. In `SlotSnipe` only the sweep is fair: the hook is not, and neither is any
check. Weak fairness is enough each time, since the step stays enabled until it
is taken. The other modules state no liveness.

### Where the code and its words differ

1. *Two missions at once* (`task_zombie`). `task-engine.ts:60-62` says that
   whatever an earlier run held died with its worker. A job whose handler lives
   can be delivered again, by expiry or by a drain that ran out.
2. *Never sends twice* (`calendar_twice`). `README.md:77-78`. What is recorded
   before the send is the attempt, and a pending row is tried again.
3. *A declined slot* (`snipe_declined`). `slot-trigger.ts:92-95`. The baseline
   is one value; clearing it for a slot that went forgets the declined one.
4. *Tells the person once* (`degraded_untold`). `healing.ts:25-28, 140-142`. The
   state comes before the message; when the message fails, every later check
   finds the state and tells nobody.

Not runs of their own, and seen while the code was translated:

- *A key once.* `notifier.ts:12-14` has it that the door delivers a key once. What
  is reported failed is sent again, by the loop (`outbound.ts:108-117`) or by the
  next caller over the failed row, and may have arrived each time.
  `OnlyTheUnheardRepeat` is what holds.
- *Nothing else leaves.* `guardrails.ts:47-48, 435`. A subresource that was let go
  on is redirected after the stop, and its hop leaves (`FollowedUnseen`) before the
  session is released.
- *Exactly that submission.* `guardrails.ts:33-38`. A confirmed payment that a page
  fetches goes on by `route.continue()`; a redirect that keeps its method takes its
  body to an address nobody was asked about. That body was let go on once is all that
  `SentWithinPolicy` can say of it.
- *Owed nothing more.* `calendar-scan.ts:192-193`. The row's ending and the
  entry's mark are two statements (371-372), and a later scan looks for enqueued
  rows only: a death between them leaves an entry that goes on being reminded of
  a renewal already cancelled. `EndingsAreRecorded` is about the row.
- *Refs.* `digest.ts:10-14` has it that a ref is never reused; a page that clones
  an element copies its ref. The comparison before an action catches it unless
  the copy looks the same.
- *A violation ends the task.* `guardrails.ts:33-34`, `tools.ts:77`. After one
  allowlist violation the agent's run goes on; the second ends it.
- *A booking's retry.* `booking.ts:22-24`, `playbook.ts:17-19`. A run that dies
  after the booking finds its own slot gone, and the task fails as refused, for a slot that is gone.
- *A confirmation* of a payment (`guardrails.ts:38-40`) admits that submission in
  every later run of the task.
- *Silent rebind.* `binding.ts:89-91` rules it out; two codes of one user
  redeemed at once do it.
- *Which question.* `routing.ts`: words sent before a question was asked may be
  read as its answer; a recorded answer whose enqueue failed is told to the
  person as unavailable.
- *I have not acted.* `replies.ts:19-24`, `crud.ts:79`. An answer may be lost
  after its effect. The check of the call budget precedes an await, so that the
  calls of one answer may overrun it.
- *It only ever rises.* `ladder.ts:150-157`, `watches.ts:127-129`. A check that
  began earlier writes a floor over a higher one, or over a reset.
- *Not one the scheduler can run* is also what a row is told when the queue was
  briefly away (`scheduler.ts:117-123`), and its schedule is gone until the next
  sweep.
- *The frequency floor* (`config.ts:29-34`) is measured on the runs within a year
  and five hundred of them; closer runs after those pass.
- *Prices* (`value.ts:73-76`). With two thousands separators ("1,299,000") the
  last is taken for the decimal point: `FiresOnNews` is checked below a million.

Also, `healing.ts:25-30` gives one model call to an incident,
which the health remembers. A refusal in between overwrites `degraded` (or
`needs_extractor`) with `blocked` (`check.ts:143`), and the page that comes back
still broken buys another. And `Out` says what dedup keys without an episode
mean: a price that falls to the same value a second time is told by its first
message.

## 4. What is proved

All for any number of handlers, jobs, checks, scans, bookings, designs, values,
retries, requests, callers, runs, users, chats, codes, messages, links, watches
and failures.

| Theorem | States | Assumes |
|---|---|---|
| **`TaskEngineProofs`** | | |
| `TypeCorrect` | `TypeOK` of `TaskEngine` | - |
| `NobodyActsUnasked` | `NeverPastGateUnasked` | - |
| `OneOpenQuestion` | `AnsweredInOrder` | - |
| `DeadlinesDecide` | `DeadlineDecides` | - |
| `EngineKeepsTheLedger` | `ImplementsLifecycle`: `TaskLifecycle!Spec` | - |
| **`TaskOwnershipProofs`** | | |
| `NeverTwoMissions` | `OneMissionAtATime` | `~Overrun` |
| `MissionNeverStale` | `MissionOwnsTask` | `~Overrun` |
| `NothingWithoutAYes` | `ActOnStandingYes` | `~Overrun` |
| **`CalendarScanProofs`** | | |
| `SendsAreClaimed` | `AttemptsCoverSends` | - |
| `SendsAreBounded` | `sent <= MaxAttempts` | - |
| `MarksTellTheTruth` | `MarksAreEarned` | - |
| `DecisionsOutlive` | `DecisionsStay` | - |
| `ScansImplementTheLedger` | `ImplementsLedger`: `RenewalLedger!Spec` | - |
| **`SlotSnipeProofs`** | | |
| `NeverTwoBookings` | `OneBookingPending` | `~ResumesEarly` |
| `ToldBeforeSettled` | `SettledWasTold` | `~ResumesEarly` |
| `BookedWatchesRest` | `BookedRests` | `~ResumesEarly` |
| `SightingsAreBookings` | `SightingMeansBooking` | - |
| **`WatchNoticesProofs`** | | |
| `WatchTypeCorrect` | `TypeOK` of `WatchNotices` | - |
| `RepeatsAreUnheard` | `OnlyTheUnheardRepeat` | - |
| `NewsIsNeverLost` | `RecordedNewsIsOut` | - |
| **`ConnectionsProofs`** | | |
| `ConnectionTypeCorrect` | `TypeOK` of `Connections` | - |
| `NeverADeadProfile` | `RowNamesALiveProfile` | - |
| `NoProfileIsLost` | `EveryProfileIsAccountedFor` | - |
| `NoneLeftOpen` | `OpenIsWatched` | - |
| `CodesBindOnce` | `BindingHolds` of `Chat` | - |
| `EveryoneIsAnswered` | `NobodyIsIgnored` of `Chat` | - |
| **`MissionProofs`** | | |
| `NothingOutsideThePolicy` | `SentWithinPolicy` | - |
| `TheFirstStopWins` | `StopWins` | - |
| `NoSlotIsLost` | `HeldIsTracked` | - |
| `WithinMeans` | `AgentWithinMeans` | - |
| `OutcomesAreTheSites` | `OutcomeIsTheSites` | - |
| `PeopleAreHeard` | `PersonIsHeard` | - |
| `ExpiriesAreEarned` | `ExpiryIsEarned` | - |
| `NothingIsHidden` | `TurnIsOwnedUp` | - |
| `ActionsAreAimed` | `AimedAsShown` | - |
| **`DoorProofs`** | | |
| `OneSession` | `OneSessionPerLink` | - |
| `SchedulesSettled` | `SchedulesSettle` | - |
| `FloorEarned` | `FloorIsEarned` | - |
| `TakenWatchesFire` | `AcceptedCanFire` | - |
| `ChecksFireOnNews` | `FiresOnNews` | `ReadsTruly` |

`~Overrun` is that pg-boss gives up on no job whose handler lives; the run
`task_zombie` shows that it cannot be dropped. `~ResumesEarly` is that the
person does not set a watch active while its booking is pending, which
`PATCH /watches/:id` would let them do. `ReadsTruly` is that the readers of a
page (`ParsePrice`, `NormalizeText`, `ReplaySlots`) get from it what it says; TLC
evaluates it for the boards of the run `missions`, and it leaves out the prices
that `value.ts:73-76` misreads (section 3).

The other assumptions are those the modules declare about their constants:

| Assumption | Says |
|---|---|
| `RetryAssumption`, `OverrunAssumption`, `BoundsAssumption` of `TaskEngine` | the retry limit and the bounds are naturals, `Overrun` is a truth value |
| `DaysAssumption`, `ScansAssumption` | the days follow each other; the scans are finitely many (their number is unbounded) |
| `BoundsAssumption` of `SlotSnipe`, `WatchAssumption`, `ConnectionsAssumption` | bounds are naturals; the value that stands for "none" is not one of the others |
| `DoorAssumption` | the attempts of a send and the bound on unheard copies are naturals |
| `ChatsAssumption` | `Nobody` is neither a user nor a chat; the limiter's numbers are naturals; what a message holds is one of the kinds the router tells apart |
| `AgentBudgets`, `TurnBounds`, `LinksExpire` | budgets are naturals, an answer of the model has some width, a link's life is a natural |
| `RaisedAreRequests` | what a page raises has the facts of a request |
| `TasksCome`, `ScheduleCrons` | "no task" is no task; "no schedule" is no cron, and what can be run is a cron |
| `RulesAssumption` | what is posted is JSON with a known kind; a printed price is read as a natural |
| `PagesAssumption` | whatever bound is asked for, the site may show a price on either side of it, and it may show other words and other slots |

The last is what `AcceptedCanFire` needs to say anything: a watch can fire only
if some page would make it.

### The arguments

**The trail of a task** (`NobodyActsUnasked`, `OneOpenQuestion`,
`DeadlinesDecide`). These hold even when two handlers are inside, so nothing can
rest on who owns the task. `TrailInv` says that each question but the newest is
answered (`AnsweredInOrder`), that what a handler took with it is the beginning
of the trail's answers (`TakenFromTrail`; the trail only grows, so a yes found
there is one still, `YesGiven`), and that a task which may still run was not
ended by its deadline or a no (`NotEnded`). The sweep acts on a reading it made
before; `SweepSawItPass` says that the deadline it saw pass has passed for good.
`TrailMoves` then lists the six things that can happen to the row and its
trail, each with the deadline it needs. One lemma (`TrailStep`) shows that every
action of the engine is one of the six, and what follows goes through the six and
not through the actions again.

**Refinement of `TaskLifecycle`.** The abstract state reads the row's status and
cause, which question is open and which are answered. Each of the six moves is
one abstract action, or none of it (`RowRests`), under `TrailInv`: only the
newest question can be open, so that the question the ledger closes is the one
the abstract task waits for.

**`NeverTwoMissions`.** That the row names one job is not
enough: what matters is that a job has one handler. `OwnInv` says that every
busy handler's job is active (`Attached`), that no two handlers have the same
job (`Exclusive`), that whoever is inside the mission holds the running row
under its own job with all the answers there are (`MissionOwnsTask`), that a
running task has a job at all (`RunningHasJob`; without it `StaleClaim` would
let a second job in), that the job the sweep is about to orphan a task for will
not be delivered again (`OrphanIsDead`; else the sweep could settle a task
under its handler), and that past the gate there is a yes (`PastGateOnYes`).
Two handlers inside would hold the same row under the same job, against
`Exclusive`.

**The calendar** (`ScanInv`). `Shape` are the types. `Earned` follows one fact
through the copies that are made of it: the renewal row ends as its task did
(`RowFollowsTask`), a scan that read an ending carries a true one, however old
(`EndingsAreTrue`), and so the mark is earned (`MarksAreEarned`). `Counted` is
that sends and scans about to send are covered by the attempts
(`AttemptsCoverSends`), where each scan that may still send is one of a finite
set; a claim adds one to both sides, a send or a death moves or removes one; so no
reminder is sent more than `MaxAttempts` times (`SendsAreBounded`).
`DecisionsStay` is not a matter of ranks alone, for `handled` ranks above
`declined`: lower marks are refused by their rank, and the other decision cannot
come, since marks are earned and a row has one ending. The refinement of
`RenewalLedger` rests on `Earned`: a scan that records an ending has the true one,
and a decided renewal is not decided again.

**`NeverTwoBookings`, `ToldBeforeSettled`.** `Inv` adds to the property the shape
of the variables and, for each booking, that it is told of in the words of its
ending only, and settled only after that. A booking is appended only by an arm
whose WHERE found the watch active, and then, by the property itself, nothing
is pending; the watch becomes active again only in the step that settles the
one pending booking.

**`BookedWatchesRest`, `SightingsAreBookings`.** The first needs that only the
newest booking can be pending (`BookedInv`): an older one that settled late could
otherwise set the watch active after the newest one has its slot. The second
counts (`SightingInv`): there are as many triggered observations as bookings, and
the sightings told, together with the checks that armed and have yet to tell
(`Telling`), are no more. It holds with early resumes too, so it assumes nothing.

**`RepeatsAreUnheard`.** A caller between the claim and the settlement holds the
row (`Holds`). Its row is pending, and the copies that arrived are the unheard ones,
plus the acknowledged one once the send says sent (`ClaimsArePending`); no two
callers hold one row (`OneClaim`). A row that anyone may claim, new or failed,
has therefore had unheard copies only, which is the second half of
`OnlyTheUnheardRepeat`; without it the claim after a failed send could add a
second acknowledged copy. Once one is acknowledged the row is pending, for good if
its caller died, or sent, and nobody can claim it.

**`NewsIsNeverLost`.** `DoorIsHonest` is that a sent row's
message arrived and that a caller told the event is out is told the truth;
`KnownIsOut` carries that from the notifier's answer to the write: whoever knows
of a refusal, be it the row, a check that loaded it, or a check about to write
it, and a check about to record a crossing, has it out. Nothing received, logged
or assumed is ever taken back (`NoneIsTakenBack`).

**`NeverADeadProfile`.** A profile is linked once. `SpentAttempt` says
of a profile that its one link is done, or written and about to close, and that
no timer of it runs. What the row names is spent and kept (`RowIsKept`); so is
what a link found there, which is gone from the row once that link has written
(`SeenIsSpent`), so that deleting it as replaced is safe. An unmeddled commit is
its attempt's only one and off the clock (`CommitsAlone`), and its profile is
kept until it is written (`OpenIsKept`).

**`NoProfileIsLost`.** A link lets go of what the row names. It
found just that (`LinksSeeTheRow`), or it overlapped the link that changed it,
and then both are shadowed (`OverlapsAreShadowed`). A link that closes lets go of
its attempt, which the row names (`WrittenStands`).

**The chat** (`CodesBindOnce`, `EveryoneIsAnswered`). `ChatInv` has four parts.
`MessagesRight` says of each message, stage by stage, what its handler may have
found (`Rightly`): a reply about a question is what became of the question.
`NoticesTold` is that whenever the notice gate or the limiter remembers having told
a chat at some time, a message of that chat was answered so at that time, so that
a message left without an answer has one before it within the window.
`BindInv` has what the lock on a code's row gives (one redemption at a time
has it, and finds it fresh; once spent it stays so), what it does not (the
occupant of a chat and the owner's chat are read before the write, which is all
a redemption of another code for the same user needs to slip in between), and
the way around that: who was bound with no rival under way keeps the chat,
because whoever comes to bind the same account later reads it first.

**Guardrails** (`GuardInv`). What the handler lets go on is admitted by its last look
at the stop and the answers (`Admit`), whatever was seen before it was held: the
lemma `JudgedWell` shows what a verdict of that look amounts to. What the browser
follows by itself needs more than `SentWithinPolicy`: each request that is beyond
the handler goes on from one that was let go on (`LeftDescends`), so that its next
hop does too, with that one's body or none (`HopContinues`); and a hop off the
lane raises a stop in the step that the listener hears of it (`OffLaneStops`).
`StopWins` is an action property, proved action by action.

**Sessions** (`SessionInv`). A session is in the ledger from its opening to its
release (`LedgerFollows`), so that a slot the vendor holds without an entry is
with the acquire that launched it, or is one of two sorts whose caller was told of
a failure: dropped by a context and a close that both failed, or launched
unheard.

**The agent** (`AgentInv`). The budget of tool calls is checked between
answers and spent inside one, so what bounds the turns is a relation between
the counters that changes with the stage (`Paced`): one more turn than calls
while an answer is worked on, none more before the next is asked for.

**Playbooks** (`PlaybookInv`). What the site did, somebody is about to hear
of, or has missed in a way the property names (`Heeded`); a reply is used only
under the question it was given to, and a step that acts comes after the
question (`PastTheQuestion`); and one run at a time is on the site
(`OneAtATime`), which is the theorem `NeverTwoMissions` of the engine and part of
the model here.

**The assistant** (`TurnInv`). Every effect was answered or is unheard, and
what is under way is counted before the budget is asked (`CallsAccounted`); the
overrun is then less than one answer's width.

**The tools** (`ToolInv`). Between the lookup and the action the element looks
as the model was last shown, unless the page changed. The lookup takes the first
element with the ref, whose choice must be the same in both.

**Sign-in** (`SignInv`). A link is minted into at most one cookie, which only
the UPDATE that spends it does (`LinksSpentOnce`); a cookie, and whatever a page
was served on, is signed over the link's own account (`CookiesGenuine`).

**Schedules** (`ScheduleInv`). For a sweep that is alone, each watch that did not
change since it began is on its track (`OnTrack`): either the queue already has
what the row asks, or the sweep still has it to write, and which of its four sets
it is in says what the queue has now. For every other sweep, no write of it can
hurt a watch that is settled (`Harmless`). A schedule that was refused is removed
before anything else (`OneRefused`), else a later write could be undone.

**The ladder** (`LadderInv`). Until a check writes from an outdated copy
(`outrun`), a check whose copy is the row's stands at or above it and every tier
below was refused (`WellBegun`); it therefore writes a floor that was earned.

**The rules** (`RuleInv`). The row's last value is the reading of the page the
last check saw (`Remembered`), so that comparing values is comparing pages, which
`ReadsTruly` turns into news. That an accepted watch can fire is proved from
what the door refuses: each bound it lets through has a page on either side of
it, and two bounds exclude each other.

### Only model-checked

- *Liveness*: `EventuallySettled`, `EndingsAreRecorded`, `ConsequencesLand`. The
  prover has no ENABLED, and so no fairness.
- *What the readers compute of a page*: `ReadsTruly` quantifies over pages, and
  `ParsePrice`, `NormalizeText` and `ReplaySlots` fold over their parts; for all
  pages that is induction over data, which is out of the prover's reach. TLC
  evaluates it on each board of `missions`.
- The four disagreements of section 3, each by a counterexample.

Every other property of every run is stated by a theorem above. No module here
uses a RECURSIVE operator.

## 5. What is left out

Wording, timestamps, prompts, the layout of page digests, the dashboard's pages,
the live operations report, the evaluation of the agent, migrations and process
entry points, since no state depends on them or they only report. Of the parts
that are modelled in part: the calendar's dates and time zones are numbers; the
transcript is a record that a message was heard, not a prompt; the wire format
of the vendor's API is taken from its use; a service worker's requests are
outside the promise of `SentWithinPolicy`, and the hops that the browser follows by
itself are bound by two of its parts only, `HopsAreCaught` and `HopsHaveOrigins`.
The vendor's reaper is modelled for sessions nobody here can close, and its deadline
for the others is not.
`components` in `PROJECT.json` lists every part with what is and what is not
modelled of it, and `hazards` what can go wrong in it.

## 6. Plan

1. A watch resumed by hand under its booking (`ResumesEarly`), once the code says
   what should become of it; the theorems of `SlotSnipe` that assume otherwise
   would be proved again without the assumption.
2. Abstract specifications of the door (`Outbound`: one acknowledged message per key) and of
   the sessions of a provider, and refinements of them as `TaskLifecycle` and
   `RenewalLedger` have theirs.
3. `FiresOnNews` without `ReadsTruly`, for the readers whose computation a proof
   can follow.
