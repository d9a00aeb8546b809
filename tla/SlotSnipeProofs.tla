--------------------------- MODULE SlotSnipeProofs ---------------------------
(***************************************************************************)
(* What the reflex guarantees for any number of checks, slots, bookings    *)
(* and failures.  The induction is over Inv: the booking pending is the    *)
(* only one and keeps the watch paused, and whatever was told of a booking *)
(* is the one outcome its ending has.  BookedInv adds which booking can    *)
(* be pending; SightingInv stands alone, and counts the checks that armed. *)
(***************************************************************************)
EXTENDS SlotSnipe, FiniteSetTheorems, TLAPS

BookingRecord ==
  [slot : Slots, ending : {None} \cup Endings, hook : BOOLEAN,
   told : SUBSET BookingOutcomes, settled : {None} \cup BookingOutcomes]

\* The part of the type the argument needs.
Shape ==
  /\ watch \in [status : {"active", "paused"}, listed : SUBSET Slots]
  /\ page \in SUBSET Slots
  /\ check \in [Checks -> [pc : {"idle", "fetch", "record", "arm", "tell"},
                           listed : SUBSET Slots, seen : SUBSET Slots]]
  /\ bookings \in Seq(BookingRecord)
  /\ due \subseteq DOMAIN bookings

\* What one booking says of itself.
Consistent(b) ==
  /\ b.settled # None => b.told = {b.settled}
  /\ b.told \subseteq {SnipeConsequence(b.ending).outcome}
  /\ b.settled = None \/ b.settled = SnipeConsequence(b.ending).outcome
  /\ b.ending = None => b.told = {} /\ b.settled = None

Inv ==
  /\ Shape
  /\ OneBookingPending
  /\ \A t \in DOMAIN bookings : Consistent(bookings[t])

-----------------------------------------------------------------------------

\* A booking that ended has an outcome, and no outcome is None.
LEMMA ConsequenceType ==
  ASSUME NEW ending \in Endings \cup {None}
  PROVE  /\ SnipeConsequence(ending).outcome \in BookingOutcomes
         /\ SnipeConsequence(ending).clearBaseline \in BOOLEAN
         /\ SnipeConsequence(ending).outcome # None
BY DEF SnipeConsequence, Endings, BookingOutcomes, None

\* One booking rewritten: the others, and how many there are, stay.
LEMMA Rewritten ==
  ASSUME NEW t \in DOMAIN bookings, NEW b \in BookingRecord, bookings \in Seq(BookingRecord),
         bookings' = [bookings EXCEPT ![t] = b]
  PROVE  /\ bookings[t] \in BookingRecord
         /\ bookings' \in Seq(BookingRecord)
         /\ DOMAIN bookings' = DOMAIN bookings
         /\ bookings'[t] = b
         /\ \A s \in DOMAIN bookings : s # t => bookings'[s] = bookings[s]
OBVIOUS

\* The first state.
LEMMA InitInv == Init => Inv
<1> SUFFICES ASSUME Init PROVE Inv
  OBVIOUS
<1>1. DOMAIN bookings = {}
  BY DEF Init
<1>2. Shape
  BY <1>1 DEF Init, Shape, IdleCheck
<1>3. OneBookingPending
  BY <1>1 DEF OneBookingPending, Pending
<1> QED
  BY <1>1, <1>2, <1>3 DEF Inv

\* A booking of the ledger is a record of the right shape, and its outcome an outcome.
LEMMA Member ==
  ASSUME Inv, NEW t \in DOMAIN bookings
  PROVE  /\ bookings[t] \in BookingRecord
         /\ Consistent(bookings[t])
         /\ SnipeConsequence(bookings[t].ending).outcome \in BookingOutcomes
         /\ SnipeConsequence(bookings[t].ending).outcome # None
<1>1. bookings[t] \in BookingRecord
  BY DEF Inv, Shape
<1>2. bookings[t].ending \in Endings \cup {None}
  BY <1>1 DEF BookingRecord
<1> QED
  BY <1>1, <1>2, ConsequenceType DEF Inv

\* Rewriting one booking keeps the invariant if it stays consistent, if it does
\* not become pending again, and if the watch stays as it was or nothing is
\* pending any more.
LEMMA RewrittenKeepsInv ==
  ASSUME Inv, NEW t \in DOMAIN bookings, NEW b \in BookingRecord,
         bookings' = [bookings EXCEPT ![t] = b], Consistent(b),
         b.settled = None => bookings[t].settled = None,
         watch' \in [status : {"active", "paused"}, listed : SUBSET Slots],
         watch' = watch \/ (bookings[t].settled = None /\ b.settled # None),
         page' \in SUBSET Slots, check' = check, due' \subseteq DOMAIN bookings
  PROVE  Inv'
<1>1. bookings \in Seq(BookingRecord)
  BY DEF Inv, Shape
<1>2. /\ bookings' \in Seq(BookingRecord)
      /\ DOMAIN bookings' = DOMAIN bookings
      /\ bookings'[t] = b
      /\ \A s \in DOMAIN bookings : s # t => bookings'[s] = bookings[s]
  BY <1>1, Rewritten
<1>3. Shape'
  BY <1>2 DEF Inv, Shape
<1>4. Pending' \subseteq Pending
  BY <1>2 DEF Pending
<1>5. OneBookingPending'
  <2>1. CASE watch' = watch
    BY <1>4, <2>1 DEF Inv, OneBookingPending
  <2>2. CASE bookings[t].settled = None /\ b.settled # None
    <3>1. t \in Pending /\ t \notin Pending'
      BY <1>2, <2>2 DEF Pending
    <3>2. Pending' = {}
      BY <1>4, <3>1 DEF Inv, OneBookingPending
    <3> QED
      BY <3>2 DEF OneBookingPending
  <2> QED
    BY <2>1, <2>2
<1>6. \A s \in DOMAIN bookings' : Consistent(bookings'[s])
  BY <1>2 DEF Inv
<1> QED
  BY <1>3, <1>5, <1>6 DEF Inv

\* Dropping a hook is such a rewriting.
LEMMA HookDropped ==
  ASSUME Inv, NEW t \in DOMAIN bookings,
         bookings' = [bookings EXCEPT ![t].hook = FALSE],
         watch' = watch, page' = page, check' = check, due' \subseteq DOMAIN bookings
  PROVE  Inv'
<1> DEFINE b == [bookings[t] EXCEPT !.hook = FALSE]
<1>1. bookings[t] \in BookingRecord /\ Consistent(bookings[t])
  BY Member
<1>2. b \in BookingRecord /\ b.settled = bookings[t].settled
  BY <1>1 DEF BookingRecord
<1>3. Consistent(b)
  BY <1>1 DEF Consistent, BookingRecord
<1>4. bookings' = [bookings EXCEPT ![t] = b]
  OBVIOUS
<1>5. watch' \in [status : {"active", "paused"}, listed : SUBSET Slots] /\ page' \in SUBSET Slots
  BY DEF Inv, Shape
<1> HIDE DEF b
<1> QED
  BY <1>2, <1>3, <1>4, <1>5, RewrittenKeepsInv

\* Settling, failing to settle and skipping.
LEMMA SettleKeepsInv ==
  ASSUME Inv, NEW t \in DOMAIN bookings, SettleSnipe(t),
         page' = page, check' = check, due' \subseteq due
  PROVE  Inv'
<1> DEFINE outcome == SnipeConsequence(bookings[t].ending).outcome
<1>0. /\ bookings[t] \in BookingRecord
      /\ Consistent(bookings[t])
      /\ outcome \in BookingOutcomes
      /\ outcome # None
  BY Member
<1>a. page' \in SUBSET Slots /\ due' \subseteq DOMAIN bookings
  BY DEF Inv, Shape
<1>b. watch \in [status : {"active", "paused"}, listed : SUBSET Slots]
  BY DEF Inv, Shape
<1>1. CASE ~Unsettled(bookings[t])
  BY <1>1, <1>a, HookDropped DEF SettleSnipe, Skipped
<1>2. CASE Unsettled(bookings[t]) /\ RolledBack(t)
  <2>1. PICK told \in {bookings[t].told, bookings[t].told \cup {outcome}} :
          bookings' = [bookings EXCEPT ![t].told = told, ![t].hook = FALSE]
    BY <1>2 DEF RolledBack
  <2> DEFINE b == [bookings[t] EXCEPT !.told = told, !.hook = FALSE]
  <2>2. bookings' = [bookings EXCEPT ![t] = b]
    BY <2>1
  <2>3. watch' = watch
    BY <1>2 DEF RolledBack
  <2>4. bookings[t].settled = None /\ bookings[t].ending # None
    BY <1>2 DEF Unsettled
  <2>5. told \subseteq {outcome} /\ told \subseteq BookingOutcomes
    BY <1>0 DEF Consistent
  <2>6. b \in BookingRecord
    BY <1>0, <2>5 DEF BookingRecord
  <2>7. b.settled = None /\ b.told = told /\ b.ending = bookings[t].ending
    BY <1>0, <2>4 DEF BookingRecord
  <2> HIDE DEF b
  <2>8. Consistent(b)
    BY <2>4, <2>5, <2>7 DEF Consistent
  <2> QED
    BY <1>a, <1>b, <2>2, <2>3, <2>4, <2>6, <2>8, RewrittenKeepsInv
<1>3. CASE Unsettled(bookings[t]) /\ Settled(t)
  <2>1. PICK told \in {bookings[t].told \cup {outcome}} :
          bookings' = [bookings EXCEPT ![t].settled = outcome, ![t].told = told, ![t].hook = FALSE]
    BY <1>3 DEF Settled, ToldWithin
  <2> DEFINE b == [bookings[t] EXCEPT !.settled = outcome, !.told = told, !.hook = FALSE]
  <2>2. bookings' = [bookings EXCEPT ![t] = b]
    BY <2>1
  <2>3. watch' \in [status : {"active", "paused"}, listed : SUBSET Slots]
    BY <1>3, <1>b DEF Settled, RearmWatch
  <2>4. bookings[t].settled = None /\ bookings[t].ending # None
    BY <1>3 DEF Unsettled
  <2>5. told = {outcome}
    BY <1>0, <2>1 DEF Consistent
  <2>6. b \in BookingRecord
    BY <1>0, <2>5 DEF BookingRecord
  <2>7. b.settled = outcome /\ b.told = {outcome} /\ b.ending = bookings[t].ending
    BY <1>0, <2>5 DEF BookingRecord
  <2> HIDE DEF b
  <2>8. Consistent(b)
    BY <2>4, <2>7 DEF Consistent
  <2>9. b.settled # None
    BY <1>0, <2>7
  <2> QED
    BY <1>a, <2>2, <2>3, <2>4, <2>6, <2>8, <2>9, RewrittenKeepsInv
<1> QED
  BY <1>1, <1>2, <1>3 DEF SettleSnipe

\* Every step, as long as the person does not resume the watch under a booking.
LEMMA StepInv ==
  ASSUME ~ResumesEarly
  PROVE  Inv /\ [Next]_vars => Inv'
<1> SUFFICES ASSUME Inv, [Next]_vars PROVE Inv'
  OBVIOUS
<1> USE DEF Inv
<1>1. ASSUME NEW c \in Checks, RunWatchCheckJob(c) PROVE Inv'
  BY <1>1 DEF RunWatchCheckJob, IdleCheck, Shape, OneBookingPending, Pending, Consistent
<1>2. ASSUME NEW c \in Checks, Observe(c) PROVE Inv'
  <2> DEFINE Positions == [pc : {"idle", "fetch", "record", "arm", "tell"},
                           listed : SUBSET Slots, seen : SUBSET Slots]
  <2>1. PICK position \in Positions : check' = [check EXCEPT ![c] = position]
    <3>1. IdleCheck \in Positions /\ [IdleCheck EXCEPT !.pc = "record", !.seen = page] \in Positions
      BY DEF IdleCheck, Shape
    <3>2. [check[c] EXCEPT !.pc = "arm", !.seen = page] \in Positions
      BY DEF Shape
    <3>3. \/ check' = [check EXCEPT ![c] = IdleCheck]
          \/ check' = [check EXCEPT ![c] = [IdleCheck EXCEPT !.pc = "record", !.seen = page]]
          \/ check' = [check EXCEPT ![c].pc = "arm", ![c].seen = page]
      BY <1>2 DEF Observe, Ends
    <3>4. CASE check' = [check EXCEPT ![c].pc = "arm", ![c].seen = page]
      <4>1. check' = [check EXCEPT ![c] = [check[c] EXCEPT !.pc = "arm", !.seen = page]]
        BY <3>4
      <4> QED
        BY <3>2, <4>1
    <3> QED
      BY <3>1, <3>3, <3>4
  <2>2. check' \in [Checks -> Positions]
    BY <2>1 DEF Shape
  <2> QED
    BY <1>2, <2>2 DEF Observe, Shape, OneBookingPending, Pending, Consistent
<1>3. ASSUME NEW c \in Checks, Record(c) PROVE Inv'
  BY <1>3 DEF Record, Ends, IdleCheck, Shape, OneBookingPending, Pending, Consistent
<1>4. ASSUME NEW c \in Checks, Arm(c) PROVE Inv'
  <2>1. CASE watch.status # "active"
    BY <1>4, <2>1 DEF Arm, Arms, Ends, IdleCheck, Shape, OneBookingPending, Pending, Consistent
  <2>2. CASE watch.status = "active"
    <3>1. Pending = {}
      BY <2>2 DEF OneBookingPending
    <3>2. PICK slot \in CompareSlots(check[c].listed, check[c].seen) :
            bookings' = Append(bookings, Booking(slot))
      BY <1>4, <2>2 DEF Arm, Arms
    <3>3. Booking(slot) \in BookingRecord /\ Consistent(Booking(slot))
      BY <3>2 DEF CompareSlots, Booking, BookingRecord, Shape, Consistent, None
    <3>4. /\ bookings' \in Seq(BookingRecord)
          /\ DOMAIN bookings' = DOMAIN bookings \cup {Len(bookings) + 1}
          /\ bookings'[Len(bookings) + 1] = Booking(slot)
          /\ \A t \in DOMAIN bookings : bookings'[t] = bookings[t]
      BY <3>2, <3>3 DEF Shape
    <3>5. watch' = [status |-> "paused", listed |-> check[c].seen]
      BY <1>4, <2>2 DEF Arm, Arms
    <3>6. Shape'
      <4>1. check' = [check EXCEPT ![c] = [IdleCheck EXCEPT !.pc = "tell"]]
        BY <1>4, <2>2 DEF Arm, Arms
      <4>2. check' \in [Checks -> [pc : {"idle", "fetch", "record", "arm", "tell"},
                                   listed : SUBSET Slots, seen : SUBSET Slots]]
        BY <4>1 DEF IdleCheck, Shape
      <4>3. page' = page /\ due' = due
        BY <1>4 DEF Arm
      <4> QED
        BY <3>4, <3>5, <4>2, <4>3 DEF Shape
    <3>7. OneBookingPending'
      BY <3>1, <3>4, <3>5 DEF OneBookingPending, Pending
    <3> QED
      BY <3>3, <3>4, <3>6, <3>7
  <2> QED
    BY <2>1, <2>2
<1>5. ASSUME NEW c \in Checks, TellSighting(c) \/ CheckDies(c) PROVE Inv'
  BY <1>5 DEF TellSighting, CheckDies, Ends, IdleCheck, Shape, OneBookingPending, Pending, Consistent
<1>6. ASSUME NEW t \in DOMAIN bookings, SettledHook(t) PROVE Inv'
  BY <1>6, SettleKeepsInv DEF SettledHook
<1>7. ASSUME SweepSettles PROVE Inv'
  <2>1. PICK t \in due : SettleSnipe(t) /\ due' = due \ {t}
    BY <1>7 DEF SweepSettles
  <2>2. t \in DOMAIN bookings /\ page' = page /\ check' = check /\ due' \subseteq due
    BY <1>7, <2>1 DEF SweepSettles, Shape
  <2> QED
    BY <2>1, <2>2, SettleKeepsInv
<1>8. ASSUME NEW t \in DOMAIN bookings, HookLost(t) PROVE Inv'
  BY <1>8, HookDropped DEF HookLost, Shape
<1>9. ASSUME NEW t \in DOMAIN bookings, BookingEnds(t) PROVE Inv'
  <2>1. PICK ending \in Endings, hook \in BOOLEAN :
          /\ bookings' = [bookings EXCEPT ![t].ending = ending, ![t].hook = hook]
          /\ page' = IF ending = "reference" THEN page \ {bookings[t].slot} ELSE page
    BY <1>9 DEF BookingEnds
  <2> DEFINE b == [bookings[t] EXCEPT !.ending = ending, !.hook = hook]
  <2>2. bookings' = [bookings EXCEPT ![t] = b]
    BY <2>1
  <2>3. bookings[t] \in BookingRecord /\ Consistent(bookings[t])
    BY Member
  <2>4. bookings[t].told = {} /\ bookings[t].settled = None
    BY <1>9, <2>3 DEF BookingEnds, Consistent
  <2>5. b \in BookingRecord /\ b.ending = ending /\ b.told = {} /\ b.settled = None
    BY <2>3, <2>4 DEF BookingRecord
  <2>6. ending # None
    BY DEF Endings, None
  <2>7. watch' = watch /\ check' = check /\ due' = due /\ page' \in SUBSET Slots
    BY <1>9, <2>1 DEF BookingEnds, Shape
  <2> HIDE DEF b
  <2>8. Consistent(b)
    BY <2>5, <2>6 DEF Consistent
  <2> QED
    BY <2>2, <2>4, <2>5, <2>7, <2>8, RewrittenKeepsInv DEF Shape
<1>10. ASSUME SweepReads \/ PageChanges \/ PersonPauses PROVE Inv'
  BY <1>10 DEF SweepReads, Due, PageChanges, PersonPauses, Shape, OneBookingPending, Pending, Consistent
<1>11. ASSUME PersonResumes PROVE Inv'
  BY <1>11 DEF PersonResumes, Shape, OneBookingPending, Pending, Consistent
<1>12. ASSUME UNCHANGED vars PROVE Inv'
  BY <1>12 DEF vars, Shape, OneBookingPending, Pending, Consistent
<1> QED
  BY <1>1, <1>2, <1>3, <1>4, <1>5, <1>6, <1>7, <1>8, <1>9, <1>10, <1>11, <1>12
     DEF Next, CheckStep, SweepStep

-----------------------------------------------------------------------------

\* Never a second booking while one is pending, for any number of overlapping
\* checks and of consequences tried again: the conditional pause of
\* slot-trigger.ts and the marked trail of snipe.ts are enough for it.
THEOREM NeverTwoBookings ==
  ASSUME ~ResumesEarly
  PROVE  Spec => []OneBookingPending
<1>1. Inv => OneBookingPending
  BY DEF Inv
<1> QED
  BY <1>1, InitInv, StepInv, PTL DEF Spec

\* A booking that counts as settled was told of, in the words of its ending
\* and in no others, through any number of rollbacks (settleSnipe).
THEOREM ToldBeforeSettled ==
  ASSUME ~ResumesEarly
  PROVE  Spec => []SettledWasTold
<1>1. Inv => SettledWasTold
  BY DEF Inv, Consistent, SettledWasTold
<1> QED
  BY <1>1, InitInv, StepInv, PTL DEF Spec

-----------------------------------------------------------------------------
(* The booked slot *)

\* Only the newest booking can be pending.
BookedInv ==
  /\ Inv
  /\ \A t \in Pending : t = Len(bookings)
  /\ BookedRests

\* A step that ends no booking, queues none and settles none keeps it, if it does
\* not set the watch active, or is the person's.
LEMMA RestKept ==
  ASSUME BookedInv, bookings' = bookings,
         watch'.status = watch.status \/ watch'.status = "paused" \/ byHand' = TRUE,
         byHand' = byHand \/ byHand' = TRUE
  PROVE  (\A t \in Pending : t = Len(bookings))' /\ BookedRests'
BY DEF BookedInv, BookedRests, Pending

\* A booking rewritten in anything but its settlement or its ending.
LEMMA EndingKept ==
  ASSUME BookedInv, NEW t \in DOMAIN bookings, NEW b \in BookingRecord,
         bookings' = [bookings EXCEPT ![t] = b], b.ending = bookings[t].ending,
         b.settled = None => bookings[t].settled = None,
         watch'.status # watch.status =>
           bookings[t].settled = None /\ bookings[t].ending # "reference",
         byHand' = byHand
  PROVE  (\A s \in Pending : s = Len(bookings))' /\ BookedRests'
<1>1. bookings \in Seq(BookingRecord)
  BY DEF BookedInv, Inv, Shape
<1>2. /\ DOMAIN bookings' = DOMAIN bookings /\ Len(bookings') = Len(bookings)
      /\ bookings'[t] = b
      /\ \A s \in DOMAIN bookings : s # t => bookings'[s] = bookings[s]
  BY <1>1, Rewritten
<1>3. Pending' \subseteq Pending
  BY <1>2 DEF Pending
<1>4. CASE watch'.status = watch.status
  BY <1>2, <1>3, <1>4 DEF BookedInv, BookedRests
<1>5. CASE watch'.status # watch.status
  <2>1. t \in Pending
    BY <1>5 DEF Pending
  <2>2. t = Len(bookings)
    BY <2>1 DEF BookedInv
  <2> QED
    BY <1>2, <1>3, <1>5, <2>2 DEF BookedInv, BookedRests
<1> QED
  BY <1>4, <1>5

LEMMA SettleRests ==
  ASSUME BookedInv, NEW t \in DOMAIN bookings, SettleSnipe(t), byHand' = byHand
  PROVE  (\A s \in Pending : s = Len(bookings))' /\ BookedRests'
<1> DEFINE outcome == SnipeConsequence(bookings[t].ending).outcome
<1>0. /\ bookings[t] \in BookingRecord /\ Consistent(bookings[t])
      /\ outcome \in BookingOutcomes /\ outcome # None
  BY Member DEF BookedInv
<1>w. watch \in [status : {"active", "paused"}, listed : SUBSET Slots]
  BY DEF BookedInv, Inv, Shape
<1>1. CASE ~Unsettled(bookings[t])
  <2> DEFINE b == [bookings[t] EXCEPT !.hook = FALSE]
  <2>1. bookings' = [bookings EXCEPT ![t].hook = FALSE] /\ watch' = watch
    BY <1>1 DEF SettleSnipe, Skipped
  <2>2. bookings' = [bookings EXCEPT ![t] = b]
    BY <2>1
  <2>3. b \in BookingRecord /\ b.ending = bookings[t].ending /\ b.settled = bookings[t].settled
    BY <1>0 DEF BookingRecord
  <2> HIDE DEF b
  <2> QED
    BY <2>1, <2>2, <2>3, EndingKept
<1>2. CASE Unsettled(bookings[t]) /\ RolledBack(t)
  <2>1. PICK told \in {bookings[t].told, bookings[t].told \cup {outcome}} :
          bookings' = [bookings EXCEPT ![t].told = told, ![t].hook = FALSE]
    BY <1>2 DEF RolledBack
  <2> DEFINE b == [bookings[t] EXCEPT !.told = told, !.hook = FALSE]
  <2>2. bookings' = [bookings EXCEPT ![t] = b] /\ watch' = watch
    BY <1>2, <2>1 DEF RolledBack
  <2>3. told \subseteq BookingOutcomes
    BY <1>0 DEF BookingRecord
  <2>4. b \in BookingRecord /\ b.ending = bookings[t].ending /\ b.settled = bookings[t].settled
    BY <1>0, <2>3 DEF BookingRecord
  <2> HIDE DEF b
  <2> QED
    BY <2>2, <2>4, EndingKept
<1>3. CASE Unsettled(bookings[t]) /\ Settled(t)
  <2>1. PICK told \in {bookings[t].told \cup {outcome}} :
          bookings' = [bookings EXCEPT ![t].settled = outcome, ![t].told = told, ![t].hook = FALSE]
    BY <1>3 DEF Settled, ToldWithin
  <2> DEFINE b == [bookings[t] EXCEPT !.settled = outcome, !.told = told, !.hook = FALSE]
  <2>2. bookings' = [bookings EXCEPT ![t] = b]
    BY <2>1
  <2>3. told \subseteq BookingOutcomes
    BY <1>0, <2>1 DEF BookingRecord
  <2>4. b \in BookingRecord /\ b.ending = bookings[t].ending /\ b.settled = outcome
    BY <1>0, <2>3 DEF BookingRecord
  <2>5. bookings[t].settled = None
    BY <1>3 DEF Unsettled
  <2>6. outcome # "rearmed" => watch' = watch
    BY <1>3 DEF Settled
  <2>7. bookings[t].ending = "reference" => outcome = "booked"
    BY DEF SnipeConsequence
  <2> HIDE DEF b
  <2> QED
    BY <1>0, <2>2, <2>4, <2>5, <2>6, <2>7, EndingKept
<1> QED
  BY <1>1, <1>2, <1>3 DEF SettleSnipe

\* Consequences that are late, retried or swept, beside checks that still arm.
LEMMA BookedStep ==
  ASSUME ~ResumesEarly
  PROVE  BookedInv /\ [Next]_vars => BookedInv'
<1> SUFFICES ASSUME BookedInv, [Next]_vars PROVE BookedInv'
  OBVIOUS
<1> DEFINE Rests == (\A t \in Pending : t = Len(bookings))' /\ BookedRests'
<1>0. Inv'
  BY StepInv DEF BookedInv
<1>s. bookings \in Seq(BookingRecord) /\ watch \in [status : {"active", "paused"}, listed : SUBSET Slots]
  BY DEF BookedInv, Inv, Shape
<1>1. ASSUME NEW c \in Checks, RunWatchCheckJob(c) \/ Observe(c) \/ TellSighting(c) \/ CheckDies(c) PROVE Rests
  BY <1>1, RestKept DEF RunWatchCheckJob, Observe, TellSighting, CheckDies
<1>2. ASSUME NEW c \in Checks, Record(c) PROVE Rests
  <2>1. watch'.status = watch.status /\ bookings' = bookings /\ byHand' = byHand
    BY <1>2, <1>s DEF Record
  <2> QED
    BY <2>1, RestKept
<1>3. ASSUME NEW c \in Checks, Arm(c) PROVE Rests
  <2>1. CASE ~Arms
    <3>1. watch' = watch /\ bookings' = bookings /\ byHand' = byHand
      BY <1>3, <2>1 DEF Arm
    <3> QED
      BY <3>1, RestKept
  <2>2. CASE Arms
    <3>1. Pending = {}
      BY <2>2 DEF Arms, BookedInv, Inv, OneBookingPending
    <3>2. PICK slot \in CompareSlots(check[c].listed, check[c].seen) :
            bookings' = Append(bookings, Booking(slot))
      BY <1>3, <2>2 DEF Arm
    <3>3. Booking(slot).ending = None /\ Booking(slot).settled = None /\ None # "reference"
      BY DEF Booking, None
    <3>4. /\ Len(bookings') = Len(bookings) + 1
          /\ DOMAIN bookings' = DOMAIN bookings \cup {Len(bookings) + 1}
          /\ bookings'[Len(bookings) + 1] = Booking(slot)
          /\ \A t \in DOMAIN bookings : bookings'[t] = bookings[t]
      BY <1>s, <3>2
    <3> QED
      BY <3>1, <3>3, <3>4 DEF Pending, BookedRests
  <2> QED
    BY <2>1, <2>2
<1>4. ASSUME NEW t \in DOMAIN bookings, SettledHook(t) PROVE Rests
  BY <1>4, SettleRests DEF SettledHook
<1>5. CASE SweepSettles
  <2>1. PICK t \in due : SettleSnipe(t) /\ due' = due \ {t}
    BY <1>5 DEF SweepSettles
  <2>2. t \in DOMAIN bookings /\ byHand' = byHand
    BY <1>5, <2>1 DEF SweepSettles, BookedInv, Inv, Shape
  <2>3. Rests
    BY <2>1, <2>2, SettleRests
  <2> QED
    BY <1>0, <2>3 DEF BookedInv
<1>6. ASSUME NEW t \in DOMAIN bookings, HookLost(t) PROVE Rests
  <2> DEFINE b == [bookings[t] EXCEPT !.hook = FALSE]
  <2>1. bookings' = [bookings EXCEPT ![t] = b] /\ watch' = watch /\ byHand' = byHand
    BY <1>6 DEF HookLost
  <2>2. bookings[t] \in BookingRecord
    BY <1>s
  <2>3. b \in BookingRecord /\ b.ending = bookings[t].ending /\ b.settled = bookings[t].settled
    BY <2>2 DEF BookingRecord
  <2> HIDE DEF b
  <2> QED
    BY <2>1, <2>3, EndingKept
<1>7. ASSUME NEW t \in DOMAIN bookings, BookingEnds(t) PROVE Rests
  <2>1. PICK ending \in Endings, hook \in BOOLEAN :
          bookings' = [bookings EXCEPT ![t].ending = ending, ![t].hook = hook]
    BY <1>7 DEF BookingEnds
  <2>2. bookings[t] \in BookingRecord /\ Consistent(bookings[t])
    BY Member DEF BookedInv
  <2>3. bookings[t].settled = None
    BY <1>7, <2>2 DEF BookingEnds, Consistent
  <2>4. t \in Pending /\ watch.status = "paused" /\ watch' = watch
    BY <1>7, <2>3 DEF Pending, BookedInv, Inv, OneBookingPending, BookingEnds
  <2>5. /\ DOMAIN bookings' = DOMAIN bookings /\ Len(bookings') = Len(bookings)
        /\ \A s \in DOMAIN bookings : bookings'[s].settled = bookings[s].settled
    BY <1>s, <2>1 DEF BookingRecord
  <2>6. Pending' = Pending
    BY <2>5 DEF Pending
  <2> QED
    BY <2>4, <2>5, <2>6 DEF BookedInv, BookedRests
<1>8. CASE SweepReads \/ PageChanges \/ PersonPauses
  <2>1. bookings' = bookings /\ byHand' = byHand /\ (watch' = watch \/ watch'.status = "paused")
    BY <1>8, <1>s DEF SweepReads, PageChanges, PersonPauses
  <2>2. Rests
    BY <2>1, RestKept
  <2> QED
    BY <1>0, <2>2 DEF BookedInv
<1>9. CASE PersonResumes
  <2>1. bookings' = bookings /\ byHand' = TRUE
    BY <1>9 DEF PersonResumes
  <2>2. Rests
    BY <2>1, RestKept
  <2> QED
    BY <1>0, <2>2 DEF BookedInv
<1>10. CASE UNCHANGED vars
  <2>1. bookings' = bookings /\ byHand' = byHand /\ watch' = watch
    BY <1>10 DEF vars
  <2>2. Rests
    BY <2>1, RestKept
  <2> QED
    BY <1>0, <2>2 DEF BookedInv
<1>11. Rests => BookedInv'
  BY <1>0 DEF BookedInv
<1> HIDE DEF Rests
<1> QED
  BY <1>1, <1>2, <1>3, <1>4, <1>5, <1>6, <1>7, <1>8, <1>9, <1>10, <1>11 DEF Next, CheckStep, SweepStep

\* Once a slot is booked, no consequence that is late, tried again or swept twice
\* makes the watch look again (snipe.ts, settleSnipe and rearmWatch).
THEOREM BookedWatchesRest ==
  ASSUME ~ResumesEarly
  PROVE  Spec => []BookedRests
<1>1. Init => BookedInv
  <2>1. Init => bookings = <<>>
    BY DEF Init
  <2> QED
    BY <2>1, InitInv DEF BookedInv, Pending, BookedRests
<1>2. BookedInv => BookedRests
  BY DEF BookedInv
<1> QED
  BY <1>1, <1>2, BookedStep, PTL DEF Spec

-----------------------------------------------------------------------------
(* Sightings, also of a watch that is resumed under its booking *)

\* The shape is kept whatever the person does.
LEMMA ShapeStep == Shape /\ [Next]_vars => Shape'
<1> SUFFICES ASSUME Shape, [Next]_vars PROVE Shape'
  OBVIOUS
<1> DEFINE Positions == [pc : {"idle", "fetch", "record", "arm", "tell"},
                         listed : SUBSET Slots, seen : SUBSET Slots]
           Watches == [status : {"active", "paused"}, listed : SUBSET Slots]
<1>0. /\ watch \in Watches /\ page \in SUBSET Slots /\ check \in [Checks -> Positions]
      /\ bookings \in Seq(BookingRecord) /\ due \subseteq DOMAIN bookings
  BY DEF Shape
<1>i. /\ IdleCheck \in Positions
      /\ \A seen \in SUBSET Slots : [IdleCheck EXCEPT !.pc = "record", !.seen = seen] \in Positions
      /\ \A listed \in SUBSET Slots : [IdleCheck EXCEPT !.pc = "fetch", !.listed = listed] \in Positions
      /\ [IdleCheck EXCEPT !.pc = "tell"] \in Positions
  BY DEF IdleCheck
<1>c. ASSUME NEW c \in Checks, NEW position \in Positions, check' = [check EXCEPT ![c] = position]
      PROVE  check' \in [Checks -> Positions]
  BY <1>0, <1>c
<1>b. ASSUME NEW t \in DOMAIN bookings, NEW b \in BookingRecord, bookings' = [bookings EXCEPT ![t] = b]
      PROVE  bookings' \in Seq(BookingRecord) /\ DOMAIN bookings' = DOMAIN bookings
  BY <1>0, <1>b, Rewritten
<1>r. \A t \in DOMAIN bookings : bookings[t] \in BookingRecord
  BY <1>0
<1>h. ASSUME NEW t \in DOMAIN bookings, bookings' = [bookings EXCEPT ![t].hook = FALSE]
      PROVE  bookings' \in Seq(BookingRecord) /\ DOMAIN bookings' = DOMAIN bookings
  <2> DEFINE b == [bookings[t] EXCEPT !.hook = FALSE]
  <2>1. bookings' = [bookings EXCEPT ![t] = b] /\ b \in BookingRecord
    BY <1>h, <1>r DEF BookingRecord
  <2> HIDE DEF b
  <2> QED
    BY <1>b, <2>1
<1>s. ASSUME NEW t \in DOMAIN bookings, SettleSnipe(t)
      PROVE  bookings' \in Seq(BookingRecord) /\ DOMAIN bookings' = DOMAIN bookings /\ watch' \in Watches
  <2> DEFINE outcome == SnipeConsequence(bookings[t].ending).outcome
  <2>0. bookings[t] \in BookingRecord /\ outcome \in BookingOutcomes
    BY <1>r, ConsequenceType DEF BookingRecord
  <2>1. CASE Settled(t)
    <3>1. PICK told \in {bookings[t].told \cup {outcome}} :
            bookings' = [bookings EXCEPT ![t].settled = outcome, ![t].told = told, ![t].hook = FALSE]
      BY <2>1 DEF Settled, ToldWithin
    <3> DEFINE b == [bookings[t] EXCEPT !.settled = outcome, !.told = told, !.hook = FALSE]
    <3>2. bookings' = [bookings EXCEPT ![t] = b]
      BY <3>1
    <3>3. told \subseteq BookingOutcomes
      BY <2>0 DEF BookingRecord
    <3>4. b \in BookingRecord
      BY <2>0, <3>3 DEF BookingRecord
    <3>5. watch' \in Watches
      BY <1>0, <2>1 DEF Settled, RearmWatch
    <3> HIDE DEF b
    <3> QED
      BY <1>b, <3>2, <3>4, <3>5
  <2>2. CASE RolledBack(t)
    <3>1. PICK told \in {bookings[t].told, bookings[t].told \cup {outcome}} :
            bookings' = [bookings EXCEPT ![t].told = told, ![t].hook = FALSE]
      BY <2>2 DEF RolledBack
    <3> DEFINE b == [bookings[t] EXCEPT !.told = told, !.hook = FALSE]
    <3>2. bookings' = [bookings EXCEPT ![t] = b]
      BY <3>1
    <3>3. told \subseteq BookingOutcomes
      BY <2>0 DEF BookingRecord
    <3>4. b \in BookingRecord
      BY <2>0, <3>3 DEF BookingRecord
    <3>5. watch' \in Watches
      BY <1>0, <2>2 DEF RolledBack
    <3> HIDE DEF b
    <3> QED
      BY <1>b, <3>2, <3>4, <3>5
  <2>3. CASE Skipped(t)
    <3>1. bookings' = [bookings EXCEPT ![t].hook = FALSE] /\ watch' = watch
      BY <2>3 DEF Skipped
    <3> QED
      BY <1>0, <1>h, <3>1
  <2> QED
    BY <1>s, <2>1, <2>2, <2>3 DEF SettleSnipe
<1>1. ASSUME NEW c \in Checks, RunWatchCheckJob(c) PROVE Shape'
  BY <1>0, <1>1, <1>c, <1>i DEF RunWatchCheckJob, Shape
<1>2. ASSUME NEW c \in Checks, Observe(c) PROVE Shape'
  <2>1. [check[c] EXCEPT !.pc = "arm", !.seen = page] \in Positions
    BY <1>0
  <2>2. \/ check' = [check EXCEPT ![c] = IdleCheck]
        \/ check' = [check EXCEPT ![c] = [IdleCheck EXCEPT !.pc = "record", !.seen = page]]
        \/ check' = [check EXCEPT ![c] = [check[c] EXCEPT !.pc = "arm", !.seen = page]]
    <3>1. \/ check' = [check EXCEPT ![c] = IdleCheck]
          \/ check' = [check EXCEPT ![c] = [IdleCheck EXCEPT !.pc = "record", !.seen = page]]
          \/ check' = [check EXCEPT ![c].pc = "arm", ![c].seen = page]
      BY <1>2 DEF Observe, Ends
    <3>2. CASE check' = [check EXCEPT ![c].pc = "arm", ![c].seen = page]
      BY <3>2
    <3> QED
      BY <3>1, <3>2
  <2>3. check' \in [Checks -> Positions]
    <3>1. PICK position \in Positions : check' = [check EXCEPT ![c] = position]
      BY <1>0, <1>i, <2>1, <2>2
    <3> QED
      BY <1>0, <3>1
  <2> QED
    BY <1>0, <1>2, <2>3 DEF Observe, Shape
<1>3. ASSUME NEW c \in Checks, Record(c) \/ TellSighting(c) \/ CheckDies(c) PROVE Shape'
  <2>1. check' = [check EXCEPT ![c] = IdleCheck]
    BY <1>3 DEF Record, TellSighting, CheckDies, Ends
  <2>c. check' \in [Checks -> Positions]
    BY <1>0, <1>i, <2>1
  <2>2. watch' \in Watches
    BY <1>0, <1>3 DEF Record, TellSighting, CheckDies
  <2> QED
    BY <1>0, <1>3, <2>c, <2>2 DEF Record, TellSighting, CheckDies, Shape
<1>4. ASSUME NEW c \in Checks, Arm(c) PROVE Shape'
  <2>1. CASE ~Arms
    <3>0. check' = [check EXCEPT ![c] = IdleCheck]
      BY <1>4, <2>1 DEF Arm, Ends
    <3>1. check' \in [Checks -> Positions]
      BY <1>0, <1>i, <3>0
    <3> QED
      BY <1>0, <1>4, <2>1, <3>1 DEF Arm, Shape
  <2>2. CASE Arms
    <3>1. PICK slot \in CompareSlots(check[c].listed, check[c].seen) :
            bookings' = Append(bookings, Booking(slot))
      BY <1>4, <2>2 DEF Arm
    <3>2. Booking(slot) \in BookingRecord
      BY <1>0, <3>1 DEF CompareSlots, Booking, BookingRecord
    <3>3. bookings' \in Seq(BookingRecord) /\ due \subseteq DOMAIN bookings'
      BY <1>0, <3>1, <3>2
    <3>a. check' = [check EXCEPT ![c] = [IdleCheck EXCEPT !.pc = "tell"]]
      BY <1>4, <2>2 DEF Arm
    <3>4. check' \in [Checks -> Positions]
      <4> DEFINE told == [IdleCheck EXCEPT !.pc = "tell"]
      <4>1. told \in Positions /\ check' = [check EXCEPT ![c] = told]
        BY <1>i, <3>a
      <4> HIDE DEF told
      <4> QED
        BY <1>0, <4>1
    <3>5. watch' \in Watches
      BY <1>0, <1>4, <2>2 DEF Arm
    <3> QED
      BY <1>0, <1>4, <3>3, <3>4, <3>5 DEF Arm, Shape
  <2> QED
    BY <2>1, <2>2
<1>5. ASSUME NEW t \in DOMAIN bookings, SettledHook(t) PROVE Shape'
  BY <1>0, <1>5, <1>s DEF SettledHook, Shape
<1>6. CASE SweepSettles
  <2>1. PICK t \in due : SettleSnipe(t) /\ due' = due \ {t}
    BY <1>6 DEF SweepSettles
  <2> QED
    BY <1>0, <1>6, <1>s, <2>1 DEF SweepSettles, Shape
<1>7. ASSUME NEW t \in DOMAIN bookings, HookLost(t) PROVE Shape'
  BY <1>0, <1>7, <1>h DEF HookLost, Shape
<1>8. ASSUME NEW t \in DOMAIN bookings, BookingEnds(t) PROVE Shape'
  <2>1. PICK ending \in Endings, hook \in BOOLEAN :
          /\ bookings' = [bookings EXCEPT ![t].ending = ending, ![t].hook = hook]
          /\ page' = IF ending = "reference" THEN page \ {bookings[t].slot} ELSE page
    BY <1>8 DEF BookingEnds
  <2> DEFINE b == [bookings[t] EXCEPT !.ending = ending, !.hook = hook]
  <2>2. bookings' = [bookings EXCEPT ![t] = b] /\ b \in BookingRecord
    BY <1>r, <2>1 DEF BookingRecord
  <2> HIDE DEF b
  <2>3. bookings' \in Seq(BookingRecord) /\ DOMAIN bookings' = DOMAIN bookings
    BY <1>b, <2>2
  <2> QED
    BY <1>0, <1>8, <2>1, <2>3 DEF BookingEnds, Shape
<1>9. CASE SweepReads \/ PageChanges \/ PersonPauses \/ PersonResumes \/ UNCHANGED vars
  BY <1>0, <1>9 DEF SweepReads, Due, PageChanges, PersonPauses, PersonResumes, vars, Shape
<1> QED
  BY <1>1, <1>2, <1>3, <1>4, <1>5, <1>6, <1>7, <1>8, <1>9 DEF Next, CheckStep, SweepStep

\* The checks that armed and have yet to tell the person.
Telling == {c \in Checks : check[c].pc = "tell"}

SightingInv ==
  /\ Shape
  /\ IsFiniteSet(Telling)
  /\ triggered = Len(bookings)
  /\ sightings \in Nat
  /\ sightings + Cardinality(Telling) <= triggered

\* Each of them has a booking of its own that no sighting was told for.
LEMMA SightingStep == SightingInv /\ [Next]_vars => SightingInv'
<1> SUFFICES ASSUME SightingInv, [Next]_vars PROVE SightingInv'
  OBVIOUS
<1>0. /\ Shape /\ Shape' /\ IsFiniteSet(Telling) /\ Cardinality(Telling) \in Nat
      /\ triggered = Len(bookings) /\ sightings \in Nat /\ sightings + Cardinality(Telling) <= triggered
      /\ Len(bookings) \in Nat
  BY ShapeStep, FS_CardinalityType DEF SightingInv, Shape
<1>l. DOMAIN bookings' = DOMAIN bookings => Len(bookings') = Len(bookings)
  BY <1>0 DEF Shape
<1>k. ASSUME Telling' \subseteq Telling, UNCHANGED <<triggered, sightings>>, Len(bookings') = Len(bookings)
      PROVE  SightingInv'
  <2>1. IsFiniteSet(Telling') /\ Cardinality(Telling') <= Cardinality(Telling) /\ Cardinality(Telling') \in Nat
    BY <1>0, <1>k, FS_Subset, FS_CardinalityType
  <2> QED
    BY <1>0, <1>k, <2>1 DEF SightingInv
<1>c. ASSUME NEW c \in Checks, \A o \in Checks : o # c => check'[o] = check[o], check'[c].pc # "tell",
             UNCHANGED <<bookings, triggered, sightings>>
      PROVE  SightingInv'
  <2>1. Telling' \subseteq Telling
    BY <1>c DEF Telling
  <2> QED
    BY <1>c, <1>k, <2>1
<1>n. ASSUME NEW t \in DOMAIN bookings, SettleSnipe(t), UNCHANGED <<check, triggered, sightings>>
      PROVE  SightingInv'
  <2>1. DOMAIN bookings' = DOMAIN bookings
    BY <1>n DEF SettleSnipe, Settled, RolledBack, Skipped
  <2>2. Len(bookings') = Len(bookings)
    BY <1>l, <2>1
  <2> QED
    BY <1>k, <1>n, <2>2 DEF Telling
<1>1. ASSUME NEW c \in Checks, RunWatchCheckJob(c) \/ Observe(c) \/ Record(c) \/ CheckDies(c) PROVE SightingInv'
  <2>1. \A o \in Checks : o # c => check'[o] = check[o]
    BY <1>0, <1>1 DEF RunWatchCheckJob, Observe, Record, CheckDies, Ends, Shape
  <2>2. check'[c].pc # "tell"
    <3>1. CASE RunWatchCheckJob(c)
      BY <1>0, <3>1 DEF RunWatchCheckJob, IdleCheck, Shape
    <3>2. CASE Record(c) \/ CheckDies(c)
      BY <1>0, <3>2 DEF Record, CheckDies, Ends, IdleCheck, Shape
    <3>3. CASE Observe(c)
      <4>1. \/ check' = [check EXCEPT ![c] = IdleCheck]
            \/ check' = [check EXCEPT ![c] = [IdleCheck EXCEPT !.pc = "record", !.seen = page]]
            \/ check' = [check EXCEPT ![c].pc = "arm", ![c].seen = page]
        BY <3>3 DEF Observe, Ends
      <4>2. CASE check' = [check EXCEPT ![c] = IdleCheck]
        BY <1>0, <4>2 DEF IdleCheck, Shape
      <4>3. CASE check' = [check EXCEPT ![c] = [IdleCheck EXCEPT !.pc = "record", !.seen = page]]
        BY <1>0, <4>3 DEF IdleCheck, Shape
      <4>4. CASE check' = [check EXCEPT ![c].pc = "arm", ![c].seen = page]
        BY <1>0, <4>4 DEF Shape
      <4> QED
        BY <4>1, <4>2, <4>3, <4>4
    <3> QED
      BY <1>1, <3>1, <3>2, <3>3
  <2>3. UNCHANGED <<bookings, triggered, sightings>>
    BY <1>1 DEF RunWatchCheckJob, Observe, Record, CheckDies
  <2> QED
    BY <1>c, <2>1, <2>2, <2>3
<1>2. ASSUME NEW c \in Checks, TellSighting(c) PROVE SightingInv'
  <2>1. c \in Telling /\ Telling' = Telling \ {c}
    BY <1>0, <1>2 DEF TellSighting, Ends, IdleCheck, Telling, Shape
  <2>2. IsFiniteSet(Telling') /\ Cardinality(Telling') = Cardinality(Telling) - 1
    BY <1>0, <2>1, FS_RemoveElement
  <2>3. sightings' \in {sightings, sightings + 1} /\ UNCHANGED <<bookings, triggered>>
    BY <1>2 DEF TellSighting
  <2> QED
    BY <1>0, <2>2, <2>3 DEF SightingInv
<1>3. ASSUME NEW c \in Checks, Arm(c) PROVE SightingInv'
  <2>1. CASE ~Arms
    <3>1. triggered' = triggered
      BY <1>0, <1>3, <2>1 DEF Arm, Marked
    <3>2. /\ \A o \in Checks : o # c => check'[o] = check[o]
          /\ check'[c].pc # "tell" /\ UNCHANGED <<bookings, sightings>>
      BY <1>0, <1>3, <2>1 DEF Arm, Ends, IdleCheck, Shape
    <3> QED
      BY <1>c, <3>1, <3>2
  <2>2. CASE Arms
    <3>1. triggered' = triggered + 1 /\ sightings' = sightings
      BY <1>3, <2>2 DEF Arm, Marked
    <3>2. PICK slot : bookings' = Append(bookings, Booking(slot))
      BY <1>3, <2>2 DEF Arm
    <3>3. Len(bookings') = Len(bookings) + 1
      BY <1>0, <3>2 DEF Shape
    <3>4. Telling' = Telling \cup {c} /\ c \notin Telling
      BY <1>0, <1>3, <2>2 DEF Arm, IdleCheck, Telling, Shape
    <3>5. IsFiniteSet(Telling') /\ Cardinality(Telling') = Cardinality(Telling) + 1
      BY <1>0, <3>4, FS_AddElement
    <3> QED
      BY <1>0, <3>1, <3>3, <3>5 DEF SightingInv
  <2> QED
    BY <2>1, <2>2
<1>4. ASSUME NEW t \in DOMAIN bookings, SettledHook(t) PROVE SightingInv'
  BY <1>4, <1>n DEF SettledHook
<1>5. CASE SweepSettles
  <2>1. PICK t \in due : SettleSnipe(t) /\ due' = due \ {t}
    BY <1>5 DEF SweepSettles
  <2>2. t \in DOMAIN bookings /\ UNCHANGED <<check, triggered, sightings>>
    BY <1>0, <1>5 DEF SweepSettles, Shape
  <2> QED
    BY <1>n, <2>1, <2>2
<1>6. ASSUME NEW t \in DOMAIN bookings, HookLost(t) \/ BookingEnds(t) PROVE SightingInv'
  <2>1. DOMAIN bookings' = DOMAIN bookings
    BY <1>6 DEF HookLost, BookingEnds
  <2>3. Len(bookings') = Len(bookings)
    BY <1>l, <2>1
  <2>2. UNCHANGED <<check, triggered, sightings>>
    BY <1>6 DEF HookLost, BookingEnds
  <2> QED
    BY <1>k, <2>2, <2>3 DEF Telling
<1>7. CASE SweepReads \/ PageChanges \/ PersonPauses \/ PersonResumes \/ UNCHANGED vars
  <2>1. UNCHANGED <<bookings, check, triggered, sightings>>
    BY <1>7 DEF SweepReads, PageChanges, PersonPauses, PersonResumes, vars
  <2> QED
    BY <1>k, <2>1 DEF Telling
<1> QED
  BY <1>1, <1>2, <1>3, <1>4, <1>5, <1>6, <1>7 DEF Next, CheckStep, SweepStep

\* A triggered observation and a sighting told of stand for a booking that was
\* queued, for any number of overlapping checks, and even if the person resumes the
\* watch under a booking (check.ts, the loser's observation).
THEOREM SightingsAreBookings == Spec => []SightingMeansBooking
<1>1. Init => SightingInv
  <2> SUFFICES ASSUME Init PROVE SightingInv
    OBVIOUS
  <2>1. Telling = {} /\ triggered = 0 /\ sightings = 0 /\ Len(bookings) = 0
    BY DEF Init, Telling, IdleCheck
  <2>2. Shape
    BY InitInv DEF Inv
  <2> QED
    BY <2>1, <2>2, FS_EmptySet DEF SightingInv
<1>2. SightingInv => SightingMeansBooking
  BY FS_CardinalityType DEF SightingInv, SightingMeansBooking
<1> QED
  BY <1>1, <1>2, SightingStep, PTL DEF Spec

=============================================================================
