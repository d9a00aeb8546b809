-------------------------------- MODULE Playbooks ------------------------------
(***************************************************************************)
(* The missions of a task that a playbook runs: which playbook, with which *)
(* access, and its steps against the site, run after run (playbooks/src/   *)
(* runner, fakegym/cancellation.ts, fakedmv/booking.ts).  A run starts     *)
(* from the top with the replies so far; it may die anywhere, be stopped   *)
(* by the guard, ask, fail, or finish, and its outcome is settled after    *)
(* its session is released.  The sites are the two fixtures the playbooks  *)
(* are written against; they keep what was done to them.                   *)
(***************************************************************************)
EXTENDS Naturals, Sequences

CONSTANTS
    Tasks,        \* the tasks that may come
    MaxRuns,      \* bound: deliveries of the task's run
    MaxProfiles   \* bound: profiles the person links, one after another

VARIABLES
    task,        \* the task, or NoTask before it comes
    status,      \* of the task's row, with the question or cause
    replies,     \* the latest accepted reply to each question
    run,         \* the run inside the mission, or Idle
    runs,        \* runs started
    connection,  \* the person's connection to the gym
    alive,       \* the profiles whose session the gym honours
    site,        \* what the sites keep
    deafened,    \* history: a run ended without hearing what it had made the site do
    expiredBy    \* history: the profile of the run that expired the connection last

playbookVars == <<task, status, replies, run, runs, connection, alive, site, deafened, expiredBy>>

NoTask == [mode |-> "none"]

ASSUME TasksCome == NoTask \notin Tasks

Idle == [stage |-> "idle"]

Questions == {"code", "retry", "confirm"}

Profiles == 1..MaxProfiles

\* One playbook per site and kind of task: two that claimed the same pair
\* would keep the registry from being built.
Registry == {[site |-> "gym", kind |-> "cancel", access |-> "connection",
              steps |-> <<"login", "retention", "are-you-sure", "confirmation-code">>],
             [site |-> "dmv", kind |-> "book_slot", access |-> "open",
              steps |-> <<"availability", "confirm", "book">>]}

Lookup(site_, kind) == {p \in Registry : p.site = site_ /\ p.kind = kind}

\* "refused", "unmatched", or "chosen" with the playbook.
ChoosePlaybook(t) ==
    CASE t.mode # "playbook"            -> [kind |-> "unmatched"]
      [] ~t.inputIsRecord               -> [kind |-> "refused"]
      [] t.site = "none"                -> [kind |-> "unmatched"]
      [] Lookup(t.site, t.kind) = {}    -> [kind |-> "unmatched"]
      [] OTHER -> [kind |-> "chosen", playbook |-> CHOOSE p \in Lookup(t.site, t.kind) : TRUE]

Failed(cause) == [kind |-> "failed", cause |-> cause]

Returned(outcome) == [stage |-> "returned", outcome |-> outcome]

PlaybookInit ==
    /\ task = NoTask /\ status = [is |-> "none"] /\ run = Idle /\ runs = 0
    /\ replies = [q \in Questions |-> "none"]
    /\ connection = [status |-> "none", profile |-> 0]
    /\ alive = {}
    /\ site = [mode |-> "normal", member |-> "active", progress |-> 0,
               slot |-> "open", ours |-> FALSE, transient |-> FALSE]
    /\ deafened = FALSE /\ expiredBy = 0

TaskComes ==
    /\ task = NoTask
    /\ task' \in Tasks
    /\ status' = [is |-> "queued"]
    /\ UNCHANGED <<replies, run, runs, connection, alive, site, deafened, expiredBy>>

\* The run picks its playbook.  What no playbook claims is the fallback's, and
\* fails here when there is none; neither opens a browser.
Start ==
    /\ status.is = "queued" /\ run = Idle /\ runs < MaxRuns
    /\ runs' = runs + 1
    /\ status' = [is |-> "running"]
    /\ LET choice == ChoosePlaybook(task)
       IN  run' = IF choice.kind = "chosen" THEN [stage |-> "access", playbook |-> choice.playbook]
                  ELSE Returned(Failed("error"))
    /\ UNCHANGED <<task, replies, connection, alive, site, deafened, expiredBy>>

\* A playbook that signs in needs the connection, and it must be connected;
\* the session then carries the profile the connection names by now.
Access ==
    /\ run.stage = "access"
    /\ run' = IF run.playbook.access = "connection" /\ connection.status # "connected"
              THEN Returned(Failed("error"))
              ELSE [stage |-> "step", at |-> 1, page |-> 2, playbook |-> run.playbook,
                    profile |-> IF run.playbook.access = "connection" THEN connection.profile ELSE 0]
    /\ UNCHANGED <<task, status, replies, runs, connection, alive, site, deafened, expiredBy>>

--------------------------------------------------------------------------------
(* The sites (fixtures/src). *)

\* Any page of a blocked site is its blocked shell.
Blocked == site.mode = "blocked"

\* The gym knows a request by its session: that of a profile it still honours,
\* or the one a password has opened.
SignedIn == run.profile \in alive \/ task.credential = "password"

\* The gym lets nobody skip a step of the cancellation, and remembers how far it got.
Skipped(step) == site.progress < step

Advanced(step) == [site EXCEPT !.progress = step]

\* A member already cancelled is cancelled, whatever the code.
CodeAccepted(code) == site.member = "cancelled" \/ code = "right"

\* The dmv's calendar shows what is open, and awards it to the first who asks.
SlotOpen == site.slot = "open"

\* It has spells in which it awards nothing.
AwardsSlot == ~site.transient

--------------------------------------------------------------------------------
Doing(step) == run.stage = "step" /\ run.playbook.steps[run.at] = step

\* What the step came to; it is acted on in a step of its own.
Says(said) ==
    /\ run' = [stage |-> "said", said |-> said, at |-> run.at, page |-> run.page,
               playbook |-> run.playbook, profile |-> run.profile]
    /\ UNCHANGED <<task, status, replies, runs, connection, alive, deafened, expiredBy>>

Done    == [kind |-> "done"]
Asks(q) == [kind |-> "ask", question |-> q]
Broken  == [kind |-> "failed", reconnect |-> FALSE]
Refused(code) == [kind |-> "refused", code |-> code]
Stopped == [kind |-> "stopped"]

\* A profile the site does not recognise asks for a reconnect; a password
\* opens a session of its own, with no progress.
Login ==
    /\ Doing("login")
    /\ \/ Blocked /\ Says(Broken) /\ UNCHANGED site
       \/ ~Blocked /\ task.credential = "password" /\ Says(Done) /\ site' = Advanced(0)
       \/ /\ ~Blocked /\ task.credential # "password"
          /\ Says(IF run.profile \in alive THEN Done ELSE [kind |-> "failed", reconnect |-> TRUE])
          /\ UNCHANGED site

\* The redesigned site hands the offer to a partner off the lane: the guard stops the run.
Retention ==
    /\ Doing("retention")
    /\ \/ (Blocked \/ ~SignedIn) /\ Says(Broken) /\ UNCHANGED site
       \/ site.mode = "redesign" /\ SignedIn /\ Says(Stopped) /\ UNCHANGED site
       \/ site.mode = "normal" /\ SignedIn /\ Says(Done) /\ site' = Advanced(1)

\* Two pages, one after the other, neither of which may be skipped.
AreYouSure ==
    /\ Doing("are-you-sure")
    /\ IF Blocked \/ ~SignedIn \/ Skipped(run.page - 1) THEN Says(Broken) /\ UNCHANGED site
       ELSE \/ /\ run.page = 2
               /\ run' = [run EXCEPT !.page = 3]
               /\ site' = Advanced(2)
               /\ UNCHANGED <<task, status, replies, runs, connection, alive, deafened, expiredBy>>
            \/ run.page = 3 /\ Says(Done) /\ site' = Advanced(3)

\* The reply to the retry question wins over the one the site already refused.
CodeToTry == IF replies["retry"] # "none" THEN replies["retry"] ELSE replies["code"]

\* Without a code to try the person is asked, after a wrong one once more.
ConfirmationCode ==
    /\ Doing("confirmation-code")
    /\ IF CodeToTry = "none" THEN Says(Asks("code")) /\ UNCHANGED site
       ELSE IF Blocked \/ ~SignedIn \/ Skipped(3) THEN Says(Broken) /\ UNCHANGED site
       ELSE \/ CodeAccepted(CodeToTry) /\ Says(Done) /\ site' = [site EXCEPT !.member = "cancelled"]
            \/ /\ ~CodeAccepted(CodeToTry)
               /\ Says(IF replies["retry"] = "none" THEN Asks("retry") ELSE Broken)
               /\ UNCHANGED site

Availability ==
    /\ Doing("availability")
    /\ Says(CASE Blocked                -> Broken
              [] ~Blocked /\ ~SlotOpen -> Refused("slot-gone")
              [] OTHER                  -> Done)
    /\ UNCHANGED site

\* Variant: the question is what counts, not the reply.
ConfirmedByAnyReply ==
    /\ Doing("confirm")
    /\ Says(CASE task.autoBook               -> Done
              [] replies["confirm"] = "none" -> Asks("confirm")
              [] OTHER                       -> Done)
    /\ UNCHANGED site

\* A reply that is not a yes is a no.
Confirm ==
    /\ Doing("confirm")
    /\ Says(CASE task.autoBook                -> Done
              [] replies["confirm"] = "none"  -> Asks("confirm")
              [] replies["confirm"] = "right" -> Done
              [] OTHER                        -> Refused("not-confirmed"))
    /\ UNCHANGED site

\* The form on the page that availability loaded is sent: the site decides.
Book ==
    /\ Doing("book")
    /\ \/ ~AwardsSlot /\ Says(Broken) /\ UNCHANGED site
       \/ AwardsSlot /\ ~SlotOpen /\ Says(Refused("slot-gone")) /\ UNCHANGED site
       \/ AwardsSlot /\ SlotOpen /\ Says(Done) /\ site' = [site EXCEPT !.slot = "taken", !.ours = TRUE]

\* The site has done what the task asked of it.
Acted == site.ours \/ site.member = "cancelled"

\* The step threw instead, before or after the site had done its part: that is
\* a failure like any other.
StepThrows ==
    /\ run.stage = "said" /\ run.playbook.steps[run.at] # "confirm"
    /\ run.said \notin {Stopped, Broken, Asks("code")}
    /\ run' = [run EXCEPT !.said = Broken]
    /\ deafened' = (deafened \/ Acted)
    /\ UNCHANGED <<task, status, replies, runs, connection, alive, site, expiredBy>>

\* Variant: a refusal of the site ends the steps as if they were done.
OutcomeIgnoringRefusals(said) ==
    CASE said.kind = "stopped" -> Failed("violation")
      [] said.kind = "ask"     -> [kind |-> "ask", question |-> said.question]
      [] said.kind = "failed"  -> Failed("error")
      [] OTHER                 -> [kind |-> "succeeded"]

\* What the mission returns once its last step has spoken.
OutcomeOf(said) ==
    CASE said.kind = "stopped" -> Failed("violation")
      [] said.kind = "ask"     -> [kind |-> "ask", question |-> said.question]
      [] said.kind = "failed"  -> Failed("error")
      [] said.kind = "refused" -> Failed("refused")
      [] OTHER                 -> [kind |-> "succeeded"]

\* Variant: any failed step says so.
ExpiresOnFailure(said) == said.kind = "failed"

\* Only a step that asks for a reconnect says that the session is dead.
Expires(said) == said.kind = "failed" /\ said.reconnect

\* What the step said is acted on before the next one starts.  A dead session
\* expires the connection, by id, whatever profile it names by now.
Heard ==
    /\ run.stage = "said"
    /\ IF Expires(run.said)
       THEN /\ connection' = [connection EXCEPT !.status = "expired"]
            /\ expiredBy' = run.profile
       ELSE UNCHANGED <<connection, expiredBy>>
    /\ run' = IF run.said.kind = "done" /\ run.at < Len(run.playbook.steps)
              THEN [stage |-> "step", at |-> run.at + 1, page |-> 2,
                    playbook |-> run.playbook, profile |-> run.profile]
              ELSE Returned(OutcomeOf(run.said))
    /\ UNCHANGED <<task, status, replies, runs, alive, site, deafened>>

\* The session is released and the engine settles what the mission returned.
Settle ==
    /\ run.stage = "returned"
    /\ status' = CASE run.outcome.kind = "ask"    -> [is |-> "parked", question |-> run.outcome.question]
                   [] run.outcome.kind = "failed" -> [is |-> "failed", cause |-> run.outcome.cause]
                   [] OTHER                       -> [is |-> "succeeded"]
    /\ run' = Idle
    /\ UNCHANGED <<task, replies, runs, connection, alive, site, deafened, expiredBy>>

\* The session cannot be opened, or cannot be released: what the mission would
\* have returned is lost, and the engine takes it for failed.
SessionThrows ==
    /\ run.stage \in {"access", "returned"}
    /\ run' = Returned(Failed("error"))
    /\ deafened' = (deafened \/ Acted)
    /\ UNCHANGED <<task, status, replies, runs, connection, alive, site, expiredBy>>

\* The worker dies: the run is delivered again, or given up when its
\* deliveries are used up.
RunDies ==
    /\ run # Idle
    /\ run' = Idle
    /\ status' = IF runs < MaxRuns THEN [is |-> "queued"] ELSE [is |-> "failed", cause |-> "orphaned"]
    /\ deafened' = (deafened \/ Acted)
    /\ UNCHANGED <<task, replies, runs, connection, alive, site, expiredBy>>

Answered(reply) ==
    /\ status.is = "parked"
    /\ replies' = [replies EXCEPT ![status.question] = reply]
    /\ status' = [is |-> "queued"]
    /\ UNCHANGED <<task, run, runs, connection, alive, site, deafened, expiredBy>>

\* The person links the site, for the first time or again.
Link ==
    /\ connection.profile < MaxProfiles
    /\ connection' = [status |-> "connected", profile |-> connection.profile + 1]
    /\ alive' = alive \union {connection'.profile}
    /\ UNCHANGED <<task, status, replies, run, runs, site, deafened, expiredBy>>

\* What sites do on their own.
SiteForgets(p) ==
    /\ p \in alive
    /\ alive' = alive \ {p}
    /\ UNCHANGED <<task, status, replies, run, runs, connection, site, deafened, expiredBy>>

SiteChanges ==
    /\ \/ \E mode \in {"blocked", "redesign"} : site.mode = "normal" /\ site' = [site EXCEPT !.mode = mode]
       \/ site.slot = "open" /\ site' = [site EXCEPT !.slot = "taken"]
       \/ site' = [site EXCEPT !.transient = ~@]
    /\ UNCHANGED <<task, status, replies, run, runs, connection, alive, deafened, expiredBy>>

PlaybookNext ==
    \/ TaskComes \/ Start \/ Access
    \/ Login \/ Retention \/ AreYouSure \/ ConfirmationCode
    \/ Availability \/ Confirm \/ Book
    \/ StepThrows \/ Heard \/ SessionThrows \/ Settle \/ RunDies
    \/ \E reply \in {"right", "wrong"} : Answered(reply)
    \/ Link \/ SiteChanges
    \/ \E p \in Profiles : SiteForgets(p)

PlaybookSpec == PlaybookInit /\ [][PlaybookNext]_playbookVars

--------------------------------------------------------------------------------
(* What is checked *)

\* A task that succeeded has what it asked for from the site, and one that
\* failed left the site as it was, unless a run died, or could not read the
\* answer, after the site had acted: over all runs, replies, deaths, and
\* changes of the site under them.  The playbooks do look for what an earlier
\* run did at the gym; at the dmv its own booking is a slot that is gone.
OutcomeIsTheSites ==
    /\ status.is = "succeeded" => IF task.site = "gym" THEN site.member = "cancelled" ELSE site.ours
    /\ status.is = "failed" => ~Acted \/ deafened

\* Nothing is booked but on the person's yes, or on the word they gave the
\* watch, and no run parks the task on a question it has the answer to.
PersonIsHeard ==
    /\ site.ours => task.autoBook \/ replies["confirm"] = "right"
    /\ status.is = "parked" => replies[status.question] = "none"

\* A connection is expired only by a run that held a profile the site no longer
\* honours.  Whether it still names that profile is not looked at: a link made
\* while the run was going may be expired with it.
ExpiryIsEarned == connection.status = "expired" => expiredBy \notin alive
================================================================================
