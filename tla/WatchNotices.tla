---------------------------- MODULE WatchNotices ----------------------------
(***************************************************************************)
(* The check of a price or change watch (packages/watch/src/check.ts) with *)
(* its extract step and healing budget (packages/agent/src/healing.ts),    *)
(* telling the person through the outbound door.  Checks of one watch may  *)
(* overlap, fail and die; each works from the row as it was at its start.  *)
(*                                                                         *)
(* A page has a layout, which the stored extractor reads or does not, and  *)
(* a value.  A fetch that errs and a page that is gone change nothing this *)
(* module keeps, and are one outcome.  Left out: tiers, error texts,       *)
(* failure counts.                                                         *)
(***************************************************************************)
EXTENDS Outbound

CONSTANTS
  Checks,     \* checks of the watch that can be under way at once
  Kinds,      \* the kinds the watch may be of: "price", "change"
  Layouts,    \* the page's designs; an extractor is the design it reads
  Values,     \* what the page can say
  Past,       \* the pairs of a value and a bound of the condition that it is past
  MaxMoves,   \* bound: changes of the page, and resets
  MaxFaults   \* bound: processes that die

None == "none"

VARIABLES
  watch,     \* the row: kind, health, last value and extractor
  page,      \* what the site serves now: a page, or a refusal
  check,     \* where each check is, the row it loaded and what it found
  recorded,  \* the keys of the news the rows tell of
  moves,     \* changes and resets so far
  faults     \* deaths so far

watchVars == <<watch, page, check, recorded, moves, faults>>
vars == <<watch, page, check, recorded, moves, faults, bound, deliveries, received, unheard,
          logged, assumed, call>>

Blocked == [layout |-> "refusal", value |-> None]
Pages == [layout : Layouts, value : Values]

\* The dedup keys: a trigger's has the value in it, the others' the reason.
TriggerKey(value) == <<"triggered", value>>
BlockedKey == <<"blocked">>
DegradedKey == <<"degraded">>

WatchKeys == {TriggerKey(value) : value \in Values} \cup {BlockedKey, DegradedKey}

ASSUME WatchAssumption ==
  /\ Kinds \subseteq {"price", "change"}
  /\ Past \subseteq Values \X {"below", "above"}
  /\ None \notin Values \cup Layouts
  /\ "refusal" \notin Layouts
  /\ MaxMoves \in Nat
  /\ MaxFaults \in Nat
  /\ Callers = Checks
  /\ Keys = WatchKeys

-----------------------------------------------------------------------------
(* One check *)

IdleCheck ==
  [pc |-> "idle", health |-> None, last |-> None, extractor |-> None, page |-> Blocked]

Ends(c) == check' = [check EXCEPT ![c] = IdleCheck]
Turns(c, pc) == check' = [check EXCEPT ![c].pc = pc]

\* The bounds a value is past; no value is past none.
SidesOf(value) == {side \in {"below", "above"} : <<value, side>> \in Past}

\* comparePrice: a bound the value is past and the last one was not.
\* compareChange: another value than the last one, which there has to be.
Triggered(last, value) ==
  IF watch.kind = "price" THEN SidesOf(value) \ SidesOf(last) # {}
                          ELSE last # None /\ last # value

\* A tick: the row is read afresh, and then the page.
LoadWatch(c) ==
  /\ check[c].pc = "idle"
  /\ call[c] = IdleCall
  /\ check' = [check EXCEPT ![c] = [IdleCheck EXCEPT
                 !.pc = "fetch", !.health = watch.health, !.last = watch.last,
                 !.extractor = watch.extractor]]
  /\ UNCHANGED <<watch, page, recorded, moves, faults, doorVars>>

\* The page as it is now.
FetchPage(c) ==
  /\ check[c].pc = "fetch"
  /\ check' = [check EXCEPT ![c].pc = IF page = Blocked THEN "blocked" ELSE "extract",
                            ![c].page = page]
  /\ UNCHANGED <<watch, page, recorded, moves, faults, doorVars>>

\* An error, or a page that is gone.
FetchFails(c) ==
  /\ check[c].pc = "fetch"
  /\ Ends(c)
  /\ UNCHANGED <<watch, page, recorded, moves, faults, doorVars>>

\* The transition is the news: a watch known to be blocked is not reported again.
FindBlocked(c) ==
  /\ check[c].pc = "blocked"
  /\ IF check[c].health # "blocked"
     THEN Turns(c, "telling") /\ Notify(c, BlockedKey)
     ELSE Turns(c, "block") /\ UNCHANGED <<call, logged>>
  /\ UNCHANGED <<watch, page, recorded, moves, faults, bound, deliveries, received, unheard, assumed>>

RecordBlocked(c) ==
  /\ check[c].pc = "block"
  /\ watch' = [watch EXCEPT !.health = "blocked"]
  /\ recorded' = recorded \cup {BlockedKey}
  /\ Ends(c)
  /\ UNCHANGED <<page, moves, faults, doorVars>>

Replays(c) == check[c].extractor = check[c].page.layout

\* What a value in hand settles, a blocked verdict too.
Recovers(health) == health # "healthy"

ReplayExtractor(c) ==
  /\ check[c].pc = "extract"
  /\ Replays(c)
  /\ watch' = IF Recovers(check[c].health) THEN [watch EXCEPT !.health = "healthy"] ELSE watch
  /\ Turns(c, "compare")
  /\ UNCHANGED <<page, recorded, moves, faults, doorVars>>

\* The health at which a failed extraction costs no model call.
SpentHealth(c) == IF check[c].extractor = None THEN "needs_extractor" ELSE "degraded"

\* A watch known to be parked or degraded gets no new extractor.
ReportSpent(c) ==
  /\ check[c].pc = "extract"
  /\ ~Replays(c)
  /\ check[c].health = SpentHealth(c)
  /\ Turns(c, "failed")
  /\ UNCHANGED <<watch, page, recorded, moves, faults, doorVars>>

\* createFirst and heal: one model call, and what it came to.
CallModel(c) ==
  /\ check[c].pc = "extract"
  /\ ~Replays(c)
  /\ check[c].health # SpentHealth(c)
  /\ Turns(c, "created") \/ Turns(c, "uncreated")
  /\ UNCHANGED <<watch, page, recorded, moves, faults, doorVars>>

\* The proposal reads the page it was made from: the watch goes on with it.
StoreExtractor(c) ==
  /\ check[c].pc = "created"
  /\ watch' = [watch EXCEPT !.extractor = check[c].page.layout, !.health = "healthy"]
  /\ Turns(c, "compare")
  /\ UNCHANGED <<page, recorded, moves, faults, doorVars>>

\* No proposal does.  A watch without extractor is parked...
ParkWatch(c) ==
  /\ check[c].pc = "uncreated"
  /\ check[c].extractor = None
  /\ watch' = [watch EXCEPT !.health = "needs_extractor"]
  /\ Turns(c, "failed")
  /\ UNCHANGED <<page, recorded, moves, faults, doorVars>>

\* ...and one whose extractor broke is degraded: state first, then the message.
DegradeWatch(c) ==
  /\ check[c].pc = "uncreated"
  /\ check[c].extractor # None
  /\ watch' = [watch EXCEPT !.health = "degraded"]
  /\ Turns(c, "telling")
  /\ Notify(c, DegradedKey)
  /\ UNCHANGED <<page, recorded, moves, faults, bound, deliveries, received, unheard, assumed>>

\* The value against the last one, as the check loaded it.
CompareValue(c) ==
  /\ check[c].pc = "compare"
  /\ IF Triggered(check[c].last, check[c].page.value)
     THEN Turns(c, "telling") /\ Notify(c, TriggerKey(check[c].page.value))
     ELSE Turns(c, "record") /\ UNCHANGED <<call, logged>>
  /\ UNCHANGED <<watch, page, recorded, moves, faults, bound, deliveries, received, unheard, assumed>>

\* What the notifier returned to goes on; what it threw into fails the job.
AfterNotify(key) ==
  IF key = BlockedKey THEN "block" ELSE IF key = DegradedKey THEN "failed" ELSE "record"

NotifierAnswers(c) ==
  /\ check[c].pc = "telling"
  /\ call[c].pc \in {"told", "threw"}
  /\ IF call[c].pc = "told" THEN Turns(c, AfterNotify(call[c].key)) ELSE Ends(c)
  /\ call' = [call EXCEPT ![c] = IdleCall]
  /\ UNCHANGED <<watch, page, recorded, moves, faults, bound, deliveries, received, unheard, logged, assumed>>

\* The observation and the patch: the value is what the next check compares with.
RecordValue(c) ==
  /\ check[c].pc = "record"
  /\ watch' = [watch EXCEPT !.last = check[c].page.value]
  /\ recorded' = IF Triggered(check[c].last, check[c].page.value)
                 THEN recorded \cup {TriggerKey(check[c].page.value)} ELSE recorded
  /\ Ends(c)
  /\ UNCHANGED <<page, moves, faults, doorVars>>

\* A failed check moves neither the value nor the health.
RecordFailure(c) ==
  /\ check[c].pc = "failed"
  /\ Ends(c)
  /\ UNCHANGED <<watch, page, recorded, moves, faults, doorVars>>

CheckDies(c) ==
  /\ check[c].pc # "idle"
  /\ faults < MaxFaults
  /\ faults' = faults + 1
  /\ Ends(c)
  /\ call' = [call EXCEPT ![c] = IdleCall]
  /\ UNCHANGED <<watch, page, recorded, moves, bound, deliveries, received, unheard, logged, assumed>>

-----------------------------------------------------------------------------
(* The world *)

Moves == moves < MaxMoves /\ moves' = moves + 1

PageChanges ==
  /\ Moves
  /\ page' \in (Pages \cup {Blocked}) \ {page}
  /\ UNCHANGED <<watch, check, recorded, faults, doorVars>>

\* POST /watches/:id/tier-reset, the way a person resets a watch.
ResetWatch ==
  /\ Moves
  /\ watch' = [watch EXCEPT !.health = "healthy"]
  /\ UNCHANGED <<page, check, recorded, faults, doorVars>>

Init ==
  /\ \E kind \in Kinds, extractor \in Layouts \cup {None} :
       watch = [kind |-> kind, health |-> "healthy", last |-> None, extractor |-> extractor]
  /\ page \in Pages \cup {Blocked}
  /\ check = [c \in Checks |-> IdleCheck]
  /\ recorded = {}
  /\ moves = 0
  /\ faults = 0
  /\ DoorInit

CheckStep(c) ==
  \/ LoadWatch(c) \/ FetchPage(c) \/ FetchFails(c) \/ FindBlocked(c) \/ RecordBlocked(c)
  \/ ReplayExtractor(c) \/ ReportSpent(c) \/ CallModel(c) \/ StoreExtractor(c)
  \/ ParkWatch(c) \/ DegradeWatch(c) \/ CompareValue(c) \/ NotifierAnswers(c)
  \/ RecordValue(c) \/ RecordFailure(c)
  \/ DoorStep(c) /\ UNCHANGED watchVars

Next ==
  \/ \E c \in Checks : CheckStep(c) \/ CheckDies(c)
  \/ ChatBound /\ UNCHANGED watchVars
  \/ PageChanges
  \/ ResetWatch

Spec == Init /\ [][Next]_vars

-----------------------------------------------------------------------------
(* What is checked *)

Healths == {"healthy", "blocked", "degraded", "needs_extractor"}

WatchRows ==
  [kind : Kinds, health : Healths, last : Values \cup {None}, extractor : Layouts \cup {None}]

CheckPcs == {"idle", "fetch", "blocked", "block", "extract", "created", "uncreated", "compare",
             "telling", "record", "failed"}

CheckRecords ==
  [pc : CheckPcs, health : Healths \cup {None}, last : Values \cup {None},
   extractor : Layouts \cup {None}, page : Pages \cup {Blocked}]

\* Every variable keeps its type, and what is extracted, compared and recorded is a page.
TypeOK ==
  /\ DoorTypeOK
  /\ watch \in WatchRows
  /\ page \in Pages \cup {Blocked}
  /\ check \in [Checks -> CheckRecords]
  /\ \A c \in Checks : check[c].pc \in {"extract", "created", "uncreated", "compare", "record"} =>
                       check[c].page \in Pages
  /\ recorded \subseteq Keys
  /\ moves \in 0..MaxMoves
  /\ faults \in 0..MaxFaults

\* A crossing or a refusal that is on record has reached the person or the log;
\* if not, its check left it to a row another one had pending.  No failed
\* delivery, crash or overlapping check loses it otherwise (check.ts:41-46).
RecordedNewsIsOut == \A key \in recorded : Out(key)

\* healing.ts:140-142, "the retry finds a degraded watch to report on": a check
\* that is done with a degraded watch leaves a person who was told.
DegradedIsTold ==
  \A c \in Checks :
    (check[c].pc = "failed" /\ check[c].extractor # None) => Out(DegradedKey)

=============================================================================
