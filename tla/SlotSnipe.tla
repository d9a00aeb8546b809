------------------------------ MODULE SlotSnipe ------------------------------
(***************************************************************************)
(* The slot watch's reflex (packages/watch): checks of one slot watch that *)
(* may overlap and die, the trigger that arms a booking (slot-trigger.ts), *)
(* and the consequence of that booking on the watch (snipe.ts), applied by *)
(* the task engine's hook or by the sweep.  The person pauses and resumes  *)
(* the watch through the API meanwhile.                                    *)
(*                                                                         *)
(* The booking task itself is TaskEngine's: here it is open and then ends. *)
(* Fetching, extracting and healing change nothing this module keeps and   *)
(* are one step with two outcomes.  A null last value and an empty listing *)
(* compare alike (compareSlots), so both are {}.                           *)
(***************************************************************************)
EXTENDS Naturals, Sequences

CONSTANTS
  Checks,        \* checks of the watch that can be under way at once
  Slots,         \* the appointments the site can list
  ResumesEarly,  \* whether the person may resume the watch under a booking
  MaxBookings,   \* bound: booking tasks ever queued
  MaxFaults      \* bound: deliveries that fail, processes that die

ASSUME BoundsAssumption ==
  /\ ResumesEarly \in BOOLEAN
  /\ MaxBookings \in Nat
  /\ MaxFaults \in Nat

VARIABLES
  watch,      \* the row: its status, and the slots its last value lists
  page,       \* the slots the site lists now
  check,      \* where each check is, what it loaded and what it saw
  bookings,   \* the book_slot tasks, in the order they were queued
  due,        \* the tasks a sweep has read and not come to yet
  triggered,  \* observations written as triggered
  sightings,  \* sightings the person was told of
  byHand,     \* whether the person resumed the watch since the last booking was queued
  declined,   \* slots the person said no to, and that were listed ever since
  faults      \* failures so far

vars == <<watch, page, check, bookings, due, triggered, sightings, byHand, declined, faults>>

None == "none"

-----------------------------------------------------------------------------
(* What a booking comes to *)

Endings ==
  {"reference", "no_reference", "declined", "timeout", "slot_gone", "not_confirmed", "failed"}

BookingOutcomes == {"booked", "rearmed", "paused"}

\* The consequence table: what the watch does, and whether it forgets its baseline.
SnipeConsequence(ending) ==
  CASE ending = "reference" -> [outcome |-> "booked", clearBaseline |-> FALSE]
    [] ending = "slot_gone" -> [outcome |-> "rearmed", clearBaseline |-> TRUE]
    [] ending \in {"declined", "timeout", "not_confirmed"} ->
         [outcome |-> "rearmed", clearBaseline |-> FALSE]
    [] OTHER -> [outcome |-> "paused", clearBaseline |-> FALSE]

Booking(slot) ==
  [slot |-> slot, ending |-> None, hook |-> FALSE, told |-> {}, settled |-> None]

Faulted == faults < MaxFaults /\ faults' = faults + 1

-----------------------------------------------------------------------------
(* One check *)

IdleCheck == [pc |-> "idle", listed |-> {}, seen |-> {}]

Ends(c) == check' = [check EXCEPT ![c] = IdleCheck]

\* The tick reads the row again before it does anything.
RunWatchCheckJob(c) ==
  /\ check[c].pc = "idle"
  /\ watch.status = "active"
  /\ check' = [check EXCEPT ![c] = [IdleCheck EXCEPT !.pc = "fetch", !.listed = watch.listed]]
  /\ UNCHANGED <<watch, page, bookings, due, triggered, sightings, byHand, declined, faults>>

\* compareSlots: a slot that the last value does not list.
CompareSlots(listed, seen) == seen \ listed

\* The page as it is now, or no value at all: then the baseline does not move.
Observe(c) ==
  /\ check[c].pc = "fetch"
  /\ \/ Ends(c)
     \/ IF CompareSlots(check[c].listed, page) = {}
        THEN check' = [check EXCEPT ![c] = [IdleCheck EXCEPT !.pc = "record", !.seen = page]]
        ELSE check' = [check EXCEPT ![c].pc = "arm", ![c].seen = page]
  /\ UNCHANGED <<watch, page, bookings, due, triggered, sightings, byHand, declined, faults>>

\* Nothing fresh: the value becomes the baseline, whatever the row says by now.
Record(c) ==
  /\ check[c].pc = "record"
  /\ watch' = [watch EXCEPT !.listed = check[c].seen]
  /\ Ends(c)
  /\ UNCHANGED <<page, bookings, due, triggered, sightings, byHand, declined, faults>>

\* Variant: the pause is not conditional on the watch being active.
ArmsRegardless == TRUE

\* The WHERE of the pause.
Arms == watch.status = "active"

\* Variant: the loser's observation keeps the mark its check gave it.
MarkedAnyway(armed) == 1

\* The loser's observation is written as not triggered.
Marked(armed) == IF armed THEN 1 ELSE 0

\* arm: pause, observation and task in one transaction.  The enqueue after the
\* commit is TaskEngine's; a death before it leaves a queued task there.
Arm(c) ==
  /\ check[c].pc = "arm"
  /\ Len(bookings) < MaxBookings
  /\ triggered' = triggered + Marked(Arms)
  /\ IF Arms
     THEN /\ \E slot \in CompareSlots(check[c].listed, check[c].seen) :
               bookings' = Append(bookings, Booking(slot))
          /\ watch' = [status |-> "paused", listed |-> check[c].seen]
          /\ check' = [check EXCEPT ![c] = [IdleCheck EXCEPT !.pc = "tell"]]
          /\ byHand' = FALSE
     ELSE /\ Ends(c)
          /\ UNCHANGED <<watch, bookings, byHand>>
  /\ UNCHANGED <<page, due, sightings, declined, faults>>

\* The heads-up, after the arm: one that fails is lost, and the booking is not.
TellSighting(c) ==
  /\ check[c].pc = "tell"
  /\ \/ sightings' = sightings + 1 /\ UNCHANGED faults
     \/ Faulted /\ UNCHANGED sightings
  /\ Ends(c)
  /\ UNCHANGED <<watch, page, bookings, due, triggered, byHand, declined>>

CheckDies(c) ==
  /\ check[c].pc # "idle"
  /\ Faulted
  /\ Ends(c)
  /\ UNCHANGED <<watch, page, bookings, due, triggered, sightings, byHand, declined>>

-----------------------------------------------------------------------------
(* The consequence *)

\* Variant: the trail is not searched for a snipe step.
NeverMarked(b) == b.ending # None

\* A terminal task with no snipe step on its trail.
Unsettled(b) == b.ending # None /\ b.settled = None

\* rearmWatch: a paused row, and only that, is set active again.
RearmWatch(clearBaseline) ==
  watch' = IF watch.status = "paused"
           THEN [status |-> "active", listed |-> IF clearBaseline THEN {} ELSE watch.listed]
           ELSE watch

\* Variant: the step is committed first and the person told afterwards, if at all.
ToldLater(b, outcome) == {b.told, b.told \cup {outcome}}

\* The notifier is told before the commit: a settled task was told of.
ToldWithin(b, outcome) == {b.told \cup {outcome}}

\* The transaction goes through.
Settled(t) ==
  LET consequence == SnipeConsequence(bookings[t].ending)
  IN  /\ IF consequence.outcome = "rearmed"
         THEN RearmWatch(consequence.clearBaseline)
         ELSE UNCHANGED watch
      /\ \E told \in ToldWithin(bookings[t], consequence.outcome) :
           bookings' = [bookings EXCEPT ![t].settled = consequence.outcome,
                                        ![t].told = told,
                                        ![t].hook = FALSE]
      /\ UNCHANGED faults

\* It is rolled back: the delivery failed, or the commit after it did.
RolledBack(t) ==
  /\ Faulted
  /\ \E told \in {bookings[t].told,
                  bookings[t].told \cup {SnipeConsequence(bookings[t].ending).outcome}} :
       bookings' = [bookings EXCEPT ![t].told = told, ![t].hook = FALSE]
  /\ UNCHANGED watch

\* Somebody was here first.
Skipped(t) ==
  /\ bookings' = [bookings EXCEPT ![t].hook = FALSE]
  /\ UNCHANGED <<watch, faults>>

SettleSnipe(t) ==
  IF Unsettled(bookings[t]) THEN Settled(t) \/ RolledBack(t) ELSE Skipped(t)

\* The task engine's settled hook, in the worker that settled the run.
SettledHook(t) ==
  /\ bookings[t].hook
  /\ SettleSnipe(t)
  /\ UNCHANGED <<page, check, due, triggered, sightings, byHand, declined>>

HookLost(t) ==
  /\ bookings[t].hook
  /\ Faulted
  /\ bookings' = [bookings EXCEPT ![t].hook = FALSE]
  /\ UNCHANGED <<watch, page, check, due, triggered, sightings, byHand, declined>>

\* Variant: cancelled is not among the terminal statuses the sweep asks for.
DueUncancelled ==
  {t \in DOMAIN bookings : Unsettled(bookings[t]) /\ bookings[t].ending # "declined"}

Due == {t \in DOMAIN bookings : Unsettled(bookings[t])}

\* settleSnipes reads its list, and then settles one after the other.
SweepReads ==
  /\ due = {}
  /\ Due # {}
  /\ due' = Due
  /\ UNCHANGED <<watch, page, check, bookings, triggered, sightings, byHand, declined, faults>>

SweepSettles ==
  /\ \E t \in due : SettleSnipe(t) /\ due' = due \ {t}
  /\ UNCHANGED <<page, check, triggered, sightings, byHand, declined>>

-----------------------------------------------------------------------------
(* The world *)

\* The task comes to its end.  A decline is a channel's; the others may be the
\* worker's own, with its hook, or a timer's or an orphan's elsewhere.
BookingEnds(t) ==
  /\ bookings[t].ending = None
  /\ \E ending \in Endings, hook \in BOOLEAN :
       /\ ending \in {"reference", "no_reference"} => bookings[t].slot \in page
       /\ ending = "slot_gone" => bookings[t].slot \notin page
       /\ ending = "declined" => ~hook
       /\ bookings' = [bookings EXCEPT ![t].ending = ending, ![t].hook = hook]
       /\ page' = IF ending = "reference" THEN page \ {bookings[t].slot} ELSE page
       /\ declined' = IF ending = "declined"
                      THEN declined \cup ({bookings[t].slot} \cap page)
                      ELSE declined \cap page'
  /\ UNCHANGED <<watch, check, due, triggered, sightings, byHand, faults>>

\* The site lists a slot, or withdraws one.
PageChanges ==
  /\ \E slot \in Slots :
       page' = IF slot \in page THEN page \ {slot} ELSE page \cup {slot}
  /\ declined' = declined \cap page'
  /\ UNCHANGED <<watch, check, bookings, due, triggered, sightings, byHand, faults>>

\* PATCH /watches/:id asks nothing of the row.  Resuming under a booking is
\* something only a person who overrides the reflex does.
PersonPauses ==
  /\ watch' = [watch EXCEPT !.status = "paused"]
  /\ UNCHANGED <<page, check, bookings, due, triggered, sightings, byHand, declined, faults>>

PersonResumes ==
  /\ ResumesEarly \/ \A t \in DOMAIN bookings : bookings[t].settled # None
  /\ watch' = [watch EXCEPT !.status = "active"]
  /\ byHand' = TRUE
  /\ UNCHANGED <<page, check, bookings, due, triggered, sightings, declined, faults>>

-----------------------------------------------------------------------------
Init ==
  /\ watch = [status |-> "active", listed |-> {}]
  /\ page \in SUBSET Slots
  /\ check = [c \in Checks |-> IdleCheck]
  /\ bookings = <<>>
  /\ due = {}
  /\ triggered = 0
  /\ sightings = 0
  /\ byHand = FALSE
  /\ declined = {}
  /\ faults = 0

CheckStep(c) == RunWatchCheckJob(c) \/ Observe(c) \/ Record(c) \/ Arm(c) \/ TellSighting(c)

SweepStep == SweepReads \/ SweepSettles

Next ==
  \/ \E c \in Checks : CheckStep(c) \/ CheckDies(c)
  \/ \E t \in DOMAIN bookings : SettledHook(t) \/ HookLost(t) \/ BookingEnds(t)
  \/ SweepStep
  \/ PageChanges \/ PersonPauses \/ PersonResumes

Spec == Init /\ [][Next]_vars

\* The sweep is on a cron, and comes to everything on its list.
FairSpec == Spec /\ WF_vars(SweepStep)

-----------------------------------------------------------------------------
(* What is checked *)

Pending == {t \in DOMAIN bookings : bookings[t].settled = None}

\* While a booking is pending the watch is paused, so that no other one can be
\* queued, however many checks saw the slot and however often a consequence is
\* tried (slot-snipe-path.md:45-46, the conditional pause of slot-trigger.ts).
OneBookingPending ==
  /\ \A s, t \in Pending : s = t
  /\ Pending # {} => watch.status = "paused"

\* Once a slot is booked, nothing but the person makes the watch look again: no
\* consequence that is late, retried or swept twice (snipe.ts:34-35, 41-47).
BookedRests ==
  \A t \in DOMAIN bookings :
    (t = Len(bookings) /\ bookings[t].ending = "reference") => (watch.status = "paused" \/ byHand)

\* A triggered observation and a sighting told of stand for a booking that was
\* queued, also when the check that saw the slot lost it (check.ts:48-53).
SightingMeansBooking == triggered = Len(bookings) /\ sightings <= triggered

\* What became of a booking was told before it counts as settled, in its own
\* words and no others, through every rollback and retry (snipe.ts:46-48).
SettledWasTold ==
  \A t \in DOMAIN bookings : bookings[t].settled # None => bookings[t].told = {bookings[t].settled}

\* The consequence of a booking that ended is applied in the end, though the
\* hook was never called, died or failed (snipe.ts:43-45).
ConsequencesLand ==
  \A t \in 1..MaxBookings :
    (t \in DOMAIN bookings /\ bookings[t].ending # None)
      ~> (t \in DOMAIN bookings /\ bookings[t].settled # None)

\* slot-trigger.ts:92-95: the same slot listed again is the one they said no to.
DeclinedStaysDeclined ==
  [][Len(bookings') > Len(bookings) => bookings'[Len(bookings')].slot \notin declined]_vars

=============================================================================
