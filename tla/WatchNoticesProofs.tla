------------------------- MODULE WatchNoticesProofs -------------------------
(***************************************************************************)
(* What holds of the checks of one watch and of the outbound door for any  *)
(* number of checks, designs, values, deaths and changes of the page.      *)
(***************************************************************************)
EXTENDS WatchNotices, TLAPS

\* A check that is telling tells what it found.
TellsItsFinding ==
  \A c \in Checks : check[c].pc = "telling" =>
    \/ call[c].key \in {BlockedKey, DegradedKey}
    \/ call[c].key = TriggerKey(check[c].page.value) /\ check[c].page \in Pages

Typed == TypeOK /\ TellsItsFinding

\* A caller that holds the claim on a row.
Holds(c) == call[c].pc \in {"send", "sent", "failed"}

\* The row of a claim is pending, and one copy of its message is acknowledged when
\* the send says so, none before.
ClaimsArePending ==
  \A c \in Callers : Holds(c) =>
    /\ call[c].key \in Keys
    /\ deliveries[call[c].key] = "pending"
    /\ received[call[c].key] = unheard[call[c].key] + IF call[c].pc = "sent" THEN 1 ELSE 0

\* A row has one claim.
OneClaim == \A c, d \in Callers : Holds(c) /\ Holds(d) /\ c # d => call[c].key # call[d].key

DoorInv == ClaimsArePending /\ OneClaim /\ OnlyTheUnheardRepeat

-----------------------------------------------------------------------------
(* The door *)

\* Every step of the door keeps its types.
LEMMA DoorStepType ==
  ASSUME DoorTypeOK, NEW c \in Callers, DoorStep(c)
  PROVE  DoorTypeOK'
<1>1. \A d \in Callers : call[d] \in [pc : CallPcs, key : Keys \cup {NoKey}]
  BY DEF DoorTypeOK
<1>2. ASSUME NEW pc \in CallPcs, Goes(c, pc), call[c].pc # "idle"
      PROVE  /\ call' \in [Callers -> [pc : CallPcs, key : Keys \cup {NoKey}]]
             /\ \A d \in Callers : call'[d].pc # "idle" => call'[d].key \in Keys
  <2>1. [call[c] EXCEPT !.pc = pc] \in [pc : CallPcs, key : Keys \cup {NoKey}]
    BY <1>1
  <2>2. call' = [call EXCEPT ![c] = [call[c] EXCEPT !.pc = pc]]
    BY <1>2 DEF Goes
  <2>3. call' \in [Callers -> [pc : CallPcs, key : Keys \cup {NoKey}]]
    BY <2>1, <2>2 DEF DoorTypeOK
  <2>4. \A d \in Callers : call'[d].key = call[d].key /\ (d # c => call'[d].pc = call[d].pc)
    BY <1>1, <2>2 DEF DoorTypeOK
  <2>5. QED
    BY <1>2, <2>3, <2>4 DEF DoorTypeOK
<1>3. CASE Reserve(c)
  <2>1. deliveries' \in [Keys -> Deliveries]
    BY <1>3 DEF Reserve, DoorTypeOK, Deliveries
  <2>2. Goes(c, "send") \/ Goes(c, "existing")
    BY <1>3 DEF Reserve
  <2>3. QED
    BY <1>2, <1>3, <2>1, <2>2 DEF Reserve, DoorTypeOK, CallPcs
<1>4. CASE ReadExisting(c)
  <2>1. Goes(c, "threw") \/ Goes(c, "told")
    BY <1>4 DEF ReadExisting
  <2>2. assumed' \subseteq Keys
    BY <1>4 DEF ReadExisting, DoorTypeOK
  <2>3. QED
    BY <1>2, <1>4, <2>1, <2>2 DEF ReadExisting, DoorTypeOK, CallPcs
<1>5. CASE SendTo(c)
  <2>1. received' \in [Keys -> Nat] /\ unheard' \in [Keys -> 0..MaxUnheard]
    <3>1. call[c].key \in Keys
      BY <1>5 DEF SendTo, DoorTypeOK
    <3>2. PICK outcome \in {"sent", "failed"}, copies \in 0..SendAttempts :
             LET heard == IF outcome = "sent" THEN 1 ELSE 0
             IN  /\ heard <= copies
                 /\ unheard[call[c].key] + copies - heard <= MaxUnheard
                 /\ received' = [received EXCEPT ![call[c].key] = @ + copies]
                 /\ unheard' = [unheard EXCEPT ![call[c].key] = @ + copies - heard]
      BY <1>5 DEF SendTo
    <3> QED
      BY <3>1, <3>2, DoorAssumption DEF DoorTypeOK
  <2>2. Goes(c, "sent") \/ Goes(c, "failed")
    BY <1>5 DEF SendTo
  <2>3. QED
    BY <1>2, <1>5, <2>1, <2>2 DEF SendTo, DoorTypeOK, CallPcs
<1>6. CASE SettleDelivery(c)
  <2>1. deliveries' \in [Keys -> Deliveries]
    BY <1>6 DEF SettleDelivery, DoorTypeOK, Deliveries
  <2>2. Goes(c, "told") \/ Goes(c, "threw")
    BY <1>6 DEF SettleDelivery, Returned
  <2>3. QED
    BY <1>2, <1>6, <2>1, <2>2 DEF SettleDelivery, DoorTypeOK, CallPcs
<1>7. QED
  BY <1>3, <1>4, <1>5, <1>6 DEF DoorStep

\* Where a step of the door leaves its own call and the others.
LEMMA GoesAlone ==
  ASSUME DoorTypeOK, NEW c \in Callers, NEW pc, Goes(c, pc)
  PROVE  /\ call'[c].pc = pc
         /\ \A d \in Callers : call'[d].key = call[d].key
         /\ \A d \in Callers : d # c => call'[d].pc = call[d].pc
<1>1. \A d \in Callers : call[d] \in [pc : CallPcs, key : Keys \cup {NoKey}]
  BY DEF DoorTypeOK
<1>2. call' = [call EXCEPT ![c] = [call[c] EXCEPT !.pc = pc]]
  BY DEF Goes
<1>3. QED
  BY <1>1, <1>2 DEF DoorTypeOK

\* Every step of the door keeps what is acknowledged from being sent again.
LEMMA DoorStepKeeps ==
  ASSUME DoorTypeOK, DoorInv, NEW c \in Callers, DoorStep(c)
  PROVE  DoorInv'
<1> USE DEF DoorInv, OnlyTheUnheardRepeat
<1>k. call[c].pc # "idle" => call[c].key \in Keys
  BY DEF DoorTypeOK
<1>n. \A key \in Keys : received[key] \in Nat /\ unheard[key] \in Nat
  BY DoorAssumption DEF DoorTypeOK
<1>1. CASE Reserve(c) /\ Reservable(deliveries[call[c].key])
  <2>1. /\ Goes(c, "send") /\ UNCHANGED <<received, unheard>>
        /\ call[c].pc = "reserve" /\ call[c].key \in Keys
    BY <1>1, <1>k DEF Reserve
  <2>2. \A key \in Keys : deliveries'[key] = IF key = call[c].key THEN "pending" ELSE deliveries[key]
    BY <1>1 DEF Reserve, DoorTypeOK
  <2>3. received[call[c].key] = unheard[call[c].key]
    BY <1>1, <2>1 DEF Reservable
  <2>4. \A d \in Callers : d # c /\ Holds(d) => call[d].key # call[c].key
    BY <1>1 DEF ClaimsArePending, Reservable
  <2>5. ClaimsArePending'
    BY <1>n, <2>1, <2>2, <2>3, GoesAlone DEF ClaimsArePending, Holds
  <2>6. OneClaim'
    BY <2>1, <2>4, GoesAlone DEF OneClaim, Holds
  <2>7. OnlyTheUnheardRepeat'
    BY <2>1, <2>2
  <2>8. QED
    BY <2>5, <2>6, <2>7
<1>2. CASE UNCHANGED <<deliveries, received, unheard>> /\ ~Holds(c) /\ ~Holds(c)' /\ \E pc : Goes(c, pc)
  BY <1>2, GoesAlone DEF ClaimsArePending, OneClaim, Holds
<1>3. CASE SendTo(c)
  <2>1. /\ call[c].key \in Keys /\ deliveries[call[c].key] = "pending"
        /\ received[call[c].key] = unheard[call[c].key] /\ UNCHANGED deliveries
    BY <1>3, <1>n DEF SendTo, ClaimsArePending, Holds
  <2>2. \A d \in Callers : d # c /\ Holds(d) => call[d].key # call[c].key
    BY <1>3 DEF SendTo, OneClaim, Holds
  <2>3. PICK outcome \in {"sent", "failed"}, copies \in 0..SendAttempts :
           LET heard == IF outcome = "sent" THEN 1 ELSE 0
           IN  /\ received' = [received EXCEPT ![call[c].key] = @ + copies]
               /\ unheard' = [unheard EXCEPT ![call[c].key] = @ + copies - heard]
               /\ Goes(c, outcome)
    BY <1>3 DEF SendTo
  <2>4. /\ \A key \in Keys \ {call[c].key} : received'[key] = received[key] /\ unheard'[key] = unheard[key]
        /\ received'[call[c].key] = unheard'[call[c].key] + IF outcome = "sent" THEN 1 ELSE 0
    BY <1>n, <2>1, <2>3, DoorAssumption DEF DoorTypeOK
  <2>5. ClaimsArePending'
    BY <2>1, <2>2, <2>3, <2>4, GoesAlone DEF ClaimsArePending, Holds
  <2>6. OneClaim'
    BY <1>3, <2>2, <2>3, GoesAlone DEF SendTo, OneClaim, Holds
  <2>t. unheard'[call[c].key] \in Nat
    <3>1. DoorTypeOK'
      BY <1>3, DoorStepType DEF DoorStep
    <3> QED
      BY <2>1, <3>1, DoorAssumption DEF DoorTypeOK
  <2>7. OnlyTheUnheardRepeat'
    BY <1>n, <2>1, <2>4, <2>t
  <2>8. QED
    BY <2>5, <2>6, <2>7
<1>4. CASE SettleDelivery(c)
  <2>1. /\ call[c].key \in Keys
        /\ received[call[c].key] = unheard[call[c].key] + IF call[c].pc = "sent" THEN 1 ELSE 0
        /\ Holds(c) /\ UNCHANGED <<received, unheard>>
    BY <1>4 DEF SettleDelivery, ClaimsArePending, Holds
  <2>2. \A key \in Keys : deliveries'[key] = IF key = call[c].key THEN call[c].pc ELSE deliveries[key]
    BY <1>4 DEF SettleDelivery, DoorTypeOK
  <2>3. \A d \in Callers : d # c /\ Holds(d) => call[d].key # call[c].key
    BY <2>1 DEF OneClaim
  <2>4. (Goes(c, "told") \/ Goes(c, "threw"))
    BY <1>4 DEF SettleDelivery, Returned
  <2>5. ClaimsArePending' /\ OneClaim'
    BY <2>1, <2>2, <2>3, <2>4, GoesAlone DEF ClaimsArePending, OneClaim, Holds
  <2>6. OnlyTheUnheardRepeat'
    BY <1>4, <1>n, <2>1, <2>2 DEF SettleDelivery
  <2>7. QED
    BY <2>5, <2>6
<1>5. CASE Reserve(c) /\ ~Reservable(deliveries[call[c].key])
  <2>1. call[c].pc = "reserve" /\ Goes(c, "existing") /\ UNCHANGED <<deliveries, received, unheard>>
    BY <1>5 DEF Reserve
  <2>2. QED
    BY <1>2, <2>1, GoesAlone DEF Holds
<1>6. CASE ReadExisting(c)
  <2>1. /\ call[c].pc = "existing" /\ UNCHANGED <<deliveries, received, unheard>>
        /\ Goes(c, "threw") \/ Goes(c, "told")
    BY <1>6 DEF ReadExisting
  <2>2. QED
    BY <1>2, <2>1, GoesAlone DEF Holds
<1>7. QED
  BY <1>1, <1>3, <1>4, <1>5, <1>6 DEF DoorStep

-----------------------------------------------------------------------------
(* The checks *)

\* A check moves on to another step, and nothing else of it changes.
LEMMA TurnsType ==
  ASSUME check \in [Checks -> CheckRecords], NEW c \in Checks, NEW pc \in CheckPcs, Turns(c, pc)
  PROVE  /\ check' \in [Checks -> CheckRecords]
         /\ check'[c].pc = pc
         /\ \A d \in Checks : d # c => check'[d] = check[d]
         /\ \A d \in Checks : /\ check'[d].health = check[d].health
                              /\ check'[d].last = check[d].last
                              /\ check'[d].extractor = check[d].extractor
                              /\ check'[d].page = check[d].page
<1>1. \A d \in Checks : check[d] \in CheckRecords
  OBVIOUS
<1>2. check' = [check EXCEPT ![c] = [check[c] EXCEPT !.pc = pc]]
  BY DEF Turns
<1>3. [check[c] EXCEPT !.pc = pc] \in CheckRecords
  BY <1>1 DEF CheckRecords
<1>4. QED
  BY <1>1, <1>2, <1>3 DEF CheckRecords

\* An idle check is a check.
LEMMA IdleCheckType == IdleCheck \in CheckRecords /\ IdleCheck.pc = "idle"
BY DEF IdleCheck, CheckRecords, CheckPcs, None

\* A check that has ended is idle.
LEMMA EndsType ==
  ASSUME check \in [Checks -> CheckRecords], NEW c \in Checks, Ends(c)
  PROVE  /\ check' \in [Checks -> CheckRecords]
         /\ check'[c] = IdleCheck
         /\ \A d \in Checks : d # c => check'[d] = check[d]
BY IdleCheckType DEF Ends

\* The events of a check are keys.
LEMMA KeysOfEvents ==
  /\ BlockedKey \in Keys /\ DegradedKey \in Keys
  /\ \A value \in Values : TriggerKey(value) \in Keys
  /\ Callers = Checks
BY WatchAssumption DEF WatchKeys

\* A check that tells an event enters the door with it, and the door keeps its types.
LEMMA NotifyType ==
  ASSUME DoorTypeOK, NEW c \in Callers, NEW key \in Keys, Notify(c, key),
         UNCHANGED <<bound, deliveries, received, unheard, assumed>>
  PROVE  /\ DoorTypeOK'
         /\ call'[c].key = key /\ call'[c].pc \in {"reserve", "told"}
         /\ call'[c].pc = "told" => key \in logged'
         /\ logged \subseteq logged'
         /\ \A d \in Callers : d # c => call'[d] = call[d]
<1>1. [pc |-> IF bound THEN "reserve" ELSE "told", key |-> key]
        \in [pc : CallPcs, key : Keys \cup {NoKey}]
  BY DEF CallPcs
<1>2. QED
  BY <1>1 DEF Notify, DoorTypeOK

\* The patches of the row keep its type.
LEMMA RowType ==
  ASSUME watch \in WatchRows
  PROVE  /\ \A h \in Healths : [watch EXCEPT !.health = h] \in WatchRows
         /\ \A l \in Layouts : [watch EXCEPT !.extractor = l, !.health = "healthy"] \in WatchRows
         /\ \A v \in Values : [watch EXCEPT !.last = v] \in WatchRows
BY DEF WatchRows, Healths

\* The first state.
LEMMA TypedInit == Init => Typed
<1> SUFFICES ASSUME Init PROVE Typed
  OBVIOUS
<1>1. watch \in WatchRows
  BY DEF Init, WatchRows, Healths
<1>2. check \in [Checks -> CheckRecords] /\ \A c \in Checks : check[c].pc = "idle"
  BY IdleCheckType DEF Init
<1>3. DoorTypeOK
  BY DoorAssumption DEF Init, DoorInit, DoorTypeOK, Deliveries, CallPcs, IdleCall
<1>4. QED
  BY <1>1, <1>2, <1>3, WatchAssumption DEF Init, Typed, TypeOK, TellsItsFinding

\* Every step, one action at a time.
LEMMA TypedStep == Typed /\ [Next]_vars => Typed'
<1> SUFFICES ASSUME Typed, [Next]_vars PROVE Typed'
  OBVIOUS
<1> USE DEF Typed
<1>c. check \in [Checks -> CheckRecords] /\ \A d \in Checks : check[d] \in CheckRecords
  BY DEF TypeOK
<1>w. watch \in WatchRows /\ DoorTypeOK
  BY DEF TypeOK
<1>k. Callers = Checks
  BY KeysOfEvents
<1>p. \A d \in Checks : check[d].pc \in {"extract", "created", "uncreated", "compare", "record"} =>
                      check[d].page \in Pages
  BY DEF TypeOK
\* A check that moves on within what it already found.
<1>t. ASSUME NEW c \in Checks, NEW pc \in CheckPcs \ {"telling"}, Turns(c, pc),
             pc \in {"extract", "created", "uncreated", "compare", "record"} => check[c].page \in Pages,
             watch' \in WatchRows, UNCHANGED <<page, recorded, moves, faults>>, DoorTypeOK',
             \A d \in Checks : d # c => call'[d].key = call[d].key
      PROVE  Typed'
  <2>1. TypeOK'
    BY <1>t, <1>c, <1>p, TurnsType DEF TypeOK
  <2>2. TellsItsFinding'
    BY <1>t, <1>c, TurnsType DEF TellsItsFinding
  <2>3. QED
    BY <2>1, <2>2
\* The same, with the door left alone.
<1>u. ASSUME NEW c \in Checks, NEW pc \in CheckPcs \ {"telling"}, Turns(c, pc),
             pc \in {"extract", "created", "uncreated", "compare", "record"} => check[c].page \in Pages,
             watch' \in WatchRows, UNCHANGED <<page, recorded, moves, faults, doorVars>>
      PROVE  Typed'
  <2>1. DoorTypeOK'
    BY <1>u, <1>w DEF doorVars, DoorTypeOK
  <2>2. QED
    BY <1>u, <1>t, <2>1 DEF doorVars
\* A check that ends.
<1>e. ASSUME NEW c \in Checks, Ends(c), watch' \in WatchRows, recorded' \subseteq Keys,
             call' = call \/ call' = [call EXCEPT ![c] = IdleCall],
             DoorTypeOK', faults' \in 0..MaxFaults, UNCHANGED <<page, moves>>
      PROVE  Typed'
  <2>1. TypeOK'
    BY <1>e, <1>c, <1>p, EndsType, IdleCheckType DEF TypeOK
  <2>2. TellsItsFinding'
    BY <1>e, <1>c, <1>k, EndsType, IdleCheckType DEF TellsItsFinding, TypeOK, DoorTypeOK
  <2>3. QED
    BY <2>1, <2>2
\* A check that tells what it found.
<1>n. ASSUME NEW c \in Checks, Turns(c, "telling"), NEW key \in Keys, Notify(c, key),
             \/ key = BlockedKey
             \/ key = DegradedKey
             \/ key = TriggerKey(check[c].page.value) /\ check[c].page \in Pages,
             watch' \in WatchRows,
             UNCHANGED <<page, recorded, moves, faults, bound, deliveries, received, unheard, assumed>>
      PROVE  Typed'
  <2>1. TypeOK'
    BY <1>n, <1>c, <1>k, <1>p, <1>w, TurnsType, NotifyType DEF TypeOK, CheckPcs
  <2>2. TellsItsFinding'
    BY <1>n, <1>c, <1>k, <1>w, TurnsType, NotifyType DEF TellsItsFinding, CheckPcs
  <2>3. QED
    BY <2>1, <2>2
<1>q. {"block", "created", "uncreated", "compare", "record", "failed"} \subseteq CheckPcs \ {"telling"}
  BY DEF CheckPcs
<1>d. ASSUME UNCHANGED doorVars PROVE DoorTypeOK'
  BY <1>d, <1>w DEF doorVars, DoorTypeOK
<1>0. CASE UNCHANGED vars
  BY <1>0, <1>d DEF vars, doorVars, TypeOK, TellsItsFinding
<1>1. ASSUME NEW c \in Checks, LoadWatch(c) PROVE Typed'
  <2>1. [IdleCheck EXCEPT !.pc = "fetch", !.health = watch.health, !.last = watch.last,
                          !.extractor = watch.extractor] \in CheckRecords
    BY <1>w DEF IdleCheck, CheckRecords, CheckPcs, WatchRows
  <2>2. check' = [check EXCEPT ![c] = [IdleCheck EXCEPT !.pc = "fetch", !.health = watch.health,
                                         !.last = watch.last, !.extractor = watch.extractor]]
    BY <1>1 DEF LoadWatch
  <2>3. check' \in [Checks -> CheckRecords] /\ check'[c].pc = "fetch" /\ \A d \in Checks : d # c => check'[d] = check[d]
    BY <1>c, <2>1, <2>2 DEF IdleCheck
  <2>4. QED
    BY <1>1, <1>d, <2>3 DEF LoadWatch, TypeOK, TellsItsFinding, doorVars
<1>2. ASSUME NEW c \in Checks, FetchPage(c) PROVE Typed'
  <2> DEFINE pc == IF page = Blocked THEN "blocked" ELSE "extract"
  <2>1. [check[c] EXCEPT !.pc = pc, !.page = page] \in CheckRecords
    BY <1>c DEF CheckRecords, CheckPcs, TypeOK
  <2>2. check' = [check EXCEPT ![c] = [check[c] EXCEPT !.pc = pc, !.page = page]]
    BY <1>2 DEF FetchPage
  <2>3. /\ check' \in [Checks -> CheckRecords]
        /\ check'[c].pc = pc /\ check'[c].page = page
        /\ \A d \in Checks : d # c => check'[d] = check[d]
    BY <1>c, <2>1, <2>2 DEF CheckRecords
  <2>4. QED
    BY <1>2, <1>d, <1>p, <2>3 DEF FetchPage, TypeOK, TellsItsFinding, doorVars
<1>3. ASSUME NEW c \in Checks, FetchFails(c) \/ RecordFailure(c) PROVE Typed'
  BY <1>3, <1>d, <1>e, <1>w DEF FetchFails, RecordFailure, TypeOK, doorVars
<1>4. ASSUME NEW c \in Checks, FindBlocked(c) PROVE Typed'
  <2>1. CASE check[c].health # "blocked"
    <3>1. /\ Turns(c, "telling") /\ Notify(c, BlockedKey)
          /\ UNCHANGED <<watch, page, recorded, moves, faults, bound, deliveries, received, unheard, assumed>>
      BY <1>4, <2>1 DEF FindBlocked
    <3>2. BlockedKey \in Keys
      BY KeysOfEvents
    <3>3. QED
      BY <1>n, <1>w, <3>1, <3>2
  <2>2. CASE check[c].health = "blocked"
    <3>1. Turns(c, "block") /\ UNCHANGED <<watch, page, recorded, moves, faults, doorVars>>
      BY <1>4, <2>2 DEF FindBlocked, doorVars
    <3>2. QED
      BY <3>1, <1>u, <1>q, <1>w
  <2>3. QED
    BY <2>1, <2>2
<1>5. ASSUME NEW c \in Checks, RecordBlocked(c) PROVE Typed'
  <2>1. watch' \in WatchRows /\ recorded' \subseteq Keys
    BY <1>5, <1>w, RowType, KeysOfEvents DEF RecordBlocked, TypeOK, Healths
  <2>2. QED
    BY <1>5, <1>d, <1>e, <2>1 DEF RecordBlocked, TypeOK, doorVars
<1>6. ASSUME NEW c \in Checks, ReplayExtractor(c) PROVE Typed'
  <2>1. watch' \in WatchRows
    BY <1>6, <1>w, RowType DEF ReplayExtractor, Healths
  <2>2. QED
    BY <1>6, <1>p, <1>u, <1>q, <2>1 DEF ReplayExtractor
<1>7. ASSUME NEW c \in Checks, ReportSpent(c) PROVE Typed'
  BY <1>7, <1>u, <1>q, <1>w DEF ReportSpent
<1>8. ASSUME NEW c \in Checks, CallModel(c) PROVE Typed'
  <2>1. check[c].page \in Pages
    BY <1>8, <1>p DEF CallModel
  <2>2. QED
    BY <1>8, <1>u, <1>q, <1>w, <2>1 DEF CallModel
<1>9. ASSUME NEW c \in Checks, StoreExtractor(c) PROVE Typed'
  <2>1. check[c].page \in Pages
    BY <1>9, <1>p DEF StoreExtractor
  <2>2. watch' \in WatchRows
    BY <1>9, <1>w, <2>1, RowType DEF StoreExtractor, Pages
  <2>3. QED
    BY <1>9, <1>u, <1>q, <2>1, <2>2 DEF StoreExtractor
<1>10. ASSUME NEW c \in Checks, ParkWatch(c) PROVE Typed'
  <2>1. watch' \in WatchRows
    BY <1>10, <1>w, RowType DEF ParkWatch, Healths
  <2>2. QED
    BY <1>10, <1>u, <1>q, <2>1 DEF ParkWatch
<1>11. ASSUME NEW c \in Checks, DegradeWatch(c) PROVE Typed'
  <2>1. watch' \in WatchRows
    BY <1>11, <1>w, RowType DEF DegradeWatch, Healths
  <2>2. /\ Turns(c, "telling") /\ Notify(c, DegradedKey)
        /\ UNCHANGED <<page, recorded, moves, faults, bound, deliveries, received, unheard, assumed>>
    BY <1>11 DEF DegradeWatch
  <2>3. DegradedKey \in Keys
    BY KeysOfEvents
  <2>4. QED
    BY <1>n, <2>1, <2>2, <2>3
<1>12. ASSUME NEW c \in Checks, CompareValue(c) PROVE Typed'
  <2>0. check[c].page \in Pages /\ TriggerKey(check[c].page.value) \in Keys
    BY <1>12, <1>p, KeysOfEvents DEF CompareValue, Pages
  <2>1. CASE Triggered(check[c].last, check[c].page.value)
    BY <1>12, <1>n, <1>w, <2>0, <2>1 DEF CompareValue
  <2>2. CASE ~Triggered(check[c].last, check[c].page.value)
    <3>1. Turns(c, "record") /\ UNCHANGED <<watch, page, recorded, moves, faults, doorVars>>
      BY <1>12, <2>2 DEF CompareValue, doorVars
    <3>2. QED
      BY <3>1, <1>u, <1>q, <1>w, <2>0
  <2>3. QED
    BY <2>1, <2>2
<1>13. ASSUME NEW c \in Checks, call' = [call EXCEPT ![c] = IdleCall],
              UNCHANGED <<bound, deliveries, received, unheard, logged, assumed>>
       PROVE  DoorTypeOK'
  <2>1. IdleCall \in [pc : CallPcs, key : Keys \cup {NoKey}] /\ IdleCall.pc = "idle"
    BY DEF IdleCall, CallPcs
  <2>2. QED
    BY <1>13, <1>k, <1>w, <2>1 DEF DoorTypeOK
<1>14. ASSUME NEW c \in Checks, NotifierAnswers(c) PROVE Typed'
  <2>1. call' = [call EXCEPT ![c] = IdleCall] /\ check[c].pc = "telling" /\ DoorTypeOK'
        /\ UNCHANGED <<watch, page, recorded, moves, faults>>
    BY <1>13, <1>14 DEF NotifierAnswers
  <2>2. CASE Ends(c)
    BY <2>1, <2>2, <1>e, <1>w DEF TypeOK
  <2>4. \A d \in Checks : d # c => call'[d].key = call[d].key
    BY <2>1, <1>k, <1>w DEF DoorTypeOK
  <2>3. CASE Turns(c, AfterNotify(call[c].key))
    <3>1. AfterNotify(call[c].key) = "record" => check[c].page \in Pages
      BY <2>1 DEF AfterNotify, TellsItsFinding
    <3>2. AfterNotify(call[c].key) \in {"block", "failed", "record"}
      BY DEF AfterNotify
    <3>3. QED
      BY <2>1, <2>3, <2>4, <3>1, <3>2, <1>t, <1>q, <1>w
  <2>5. QED
    BY <1>14, <2>2, <2>3 DEF NotifierAnswers
<1>15. ASSUME NEW c \in Checks, RecordValue(c) PROVE Typed'
  <2>1. check[c].page \in Pages /\ check[c].page.value \in Values
    BY <1>15, <1>p DEF RecordValue, Pages
  <2>2. watch' \in WatchRows /\ recorded' \subseteq Keys
    BY <1>15, <1>w, <2>1, RowType, KeysOfEvents DEF RecordValue, TypeOK
  <2>3. QED
    BY <1>15, <1>d, <1>e, <2>2 DEF RecordValue, TypeOK, doorVars
<1>16. ASSUME NEW c \in Checks, CheckDies(c) PROVE Typed'
  <2>1. faults' \in 0..MaxFaults
    BY <1>16, WatchAssumption DEF CheckDies, TypeOK
  <2>2. QED
    BY <1>16, <1>13, <1>e, <1>w, <2>1 DEF CheckDies, TypeOK
<1>17. ASSUME NEW c \in Checks, DoorStep(c), UNCHANGED watchVars PROVE Typed'
  <2>1. DoorTypeOK'
    BY <1>17, <1>k, <1>w, DoorStepType
  <2>2. \A d \in Checks : call'[d].key = call[d].key
    BY <1>17, <1>k, <1>w, GoesAlone
    DEF DoorStep, Reserve, ReadExisting, SendTo, SettleDelivery
  <2>3. QED
    BY <1>17, <2>1, <2>2 DEF watchVars, TypeOK, TellsItsFinding
<1>18. ASSUME ChatBound, UNCHANGED watchVars PROVE Typed'
  BY <1>18, <1>w DEF ChatBound, watchVars, TypeOK, TellsItsFinding, DoorTypeOK
<1>19. ASSUME PageChanges \/ ResetWatch PROVE Typed'
  <2>1. watch' \in WatchRows /\ page' \in Pages \cup {Blocked}
    BY <1>19, <1>w, RowType DEF PageChanges, ResetWatch, TypeOK, Healths
  <2>2. moves' \in 0..MaxMoves
    BY <1>19, WatchAssumption DEF PageChanges, ResetWatch, Moves, TypeOK
  <2>3. QED
    BY <1>19, <1>d, <2>1, <2>2 DEF PageChanges, ResetWatch, TypeOK, TellsItsFinding, doorVars
<1>20. QED
  BY <1>0, <1>1, <1>2, <1>3, <1>4, <1>5, <1>6, <1>7, <1>8, <1>9, <1>10, <1>11, <1>12,
     <1>14, <1>15, <1>16, <1>17, <1>18, <1>19
  DEF Next, CheckStep

\* The types, for any number of checks and any page.
THEOREM WatchTypeCorrect == Spec => []TypeOK
<1>1. Spec => []Typed
  BY TypedInit, TypedStep, PTL DEF Spec
<1>2. QED
  BY <1>1, PTL DEF Typed

-----------------------------------------------------------------------------
(* One acknowledged message per key *)

\* A caller that enters the door, leaves it or dies in it holds no claim.
LEMMA LettingGo ==
  ASSUME DoorInv, NEW c \in Callers, UNCHANGED <<deliveries, received, unheard>>,
         call'[c].pc \in {"idle", "reserve", "told"},
         \A d \in Callers : d # c => call'[d] = call[d]
  PROVE  DoorInv'
BY DEF DoorInv, ClaimsArePending, OneClaim, OnlyTheUnheardRepeat, Holds

\* The claims hold over every step of the checks and of the world.
LEMMA DoorInvStep == Typed /\ DoorInv /\ [Next]_vars => DoorInv'
<1> SUFFICES ASSUME Typed, DoorInv, [Next]_vars PROVE DoorInv'
  OBVIOUS
<1>w. DoorTypeOK /\ Callers = Checks
  BY KeysOfEvents DEF Typed, TypeOK
<1>1. CASE UNCHANGED <<deliveries, received, unheard, call>>
  BY <1>1 DEF DoorInv, ClaimsArePending, OneClaim, OnlyTheUnheardRepeat, Holds
<1>2. ASSUME NEW c \in Checks, NEW key, Notify(c, key), UNCHANGED <<deliveries, received, unheard>>
      PROVE  DoorInv'
  <2>1. call'[c].pc \in {"reserve", "told"} /\ \A d \in Callers : d # c => call'[d] = call[d]
    BY <1>2, <1>w DEF Notify, DoorTypeOK
  <2>2. QED
    BY <1>2, <1>w, <2>1, LettingGo
<1>3. ASSUME NEW c \in Checks, call' = [call EXCEPT ![c] = IdleCall], UNCHANGED <<deliveries, received, unheard>>
      PROVE  DoorInv'
  <2>1. call'[c].pc = "idle" /\ \A d \in Callers : d # c => call'[d] = call[d]
    BY <1>3, <1>w DEF IdleCall, DoorTypeOK
  <2>2. QED
    BY <1>3, <1>w, <2>1, LettingGo
<1>4. ASSUME NEW c \in Checks, CheckStep(c) \/ CheckDies(c) PROVE DoorInv'
  <2>1. CASE FindBlocked(c)
    BY <2>1, <1>1, <1>2 DEF FindBlocked
  <2>2. CASE CompareValue(c)
    BY <2>2, <1>1, <1>2 DEF CompareValue
  <2>3. CASE DegradeWatch(c)
    BY <2>3, <1>2 DEF DegradeWatch
  <2>4. CASE NotifierAnswers(c) \/ CheckDies(c)
    BY <2>4, <1>3 DEF NotifierAnswers, CheckDies
  <2>5. CASE DoorStep(c)
    BY <2>5, <1>w, DoorStepKeeps
  <2>6. CASE \/ LoadWatch(c) \/ FetchPage(c) \/ FetchFails(c) \/ RecordBlocked(c)
             \/ ReplayExtractor(c) \/ ReportSpent(c) \/ CallModel(c) \/ StoreExtractor(c)
             \/ ParkWatch(c) \/ RecordValue(c) \/ RecordFailure(c)
    BY <2>6, <1>1 DEF LoadWatch, FetchPage, FetchFails, RecordBlocked, ReplayExtractor,
                      ReportSpent, CallModel, StoreExtractor, ParkWatch, RecordValue,
                      RecordFailure, doorVars
  <2>7. QED
    BY <1>4, <2>1, <2>2, <2>3, <2>4, <2>5, <2>6 DEF CheckStep
<1>5. CASE ChatBound \/ PageChanges \/ ResetWatch \/ UNCHANGED vars
  BY <1>5, <1>1 DEF ChatBound, PageChanges, ResetWatch, vars, doorVars
<1>6. QED
  BY <1>4, <1>5 DEF Next

\* Nobody holds a claim at first.
LEMMA DoorInvInit == Init => DoorInv
BY DEF Init, DoorInit, DoorInv, ClaimsArePending, OneClaim, OnlyTheUnheardRepeat,
       Holds, IdleCall

\* An event reaches the person again only for a copy that was reported failed, for
\* any number of checks that overlap, retry and die, and any number of attempts
\* that arrive and are lost sight of (outbound.ts, reserve).
THEOREM RepeatsAreUnheard == Spec => []OnlyTheUnheardRepeat
<1>1. Typed /\ DoorInv /\ [Next]_vars => (Typed /\ DoorInv)'
  BY TypedStep, DoorInvStep
<1>2. Init => Typed /\ DoorInv
  BY TypedInit, DoorInvInit
<1>3. Spec => [](Typed /\ DoorInv)
  BY <1>1, <1>2, PTL DEF Spec
<1>4. QED
  BY <1>3, PTL DEF DoorInv

-----------------------------------------------------------------------------
(* News on record is out *)

\* What the door answers is true of the event.
DoorIsHonest ==
  /\ \A key \in Keys : deliveries[key] = "sent" => received[key] > 0
  /\ \A c \in Callers : call[c].pc = "existing" => deliveries[call[c].key] # "none"
  /\ \A c \in Callers : call[c].pc = "told" => Out(call[c].key)

\* A refusal that a row or a check knows of, and a crossing about to be recorded, are out.
KnownIsOut ==
  /\ watch.health = "blocked" => Out(BlockedKey)
  /\ \A c \in Checks : check[c].health = "blocked" \/ check[c].pc = "block" => Out(BlockedKey)
  /\ \A c \in Checks, value \in Values :
       check[c].pc = "record" /\ check[c].page.value = value /\ Triggered(check[c].last, value) =>
         Out(TriggerKey(value))

NewsInv == DoorIsHonest /\ KnownIsOut /\ RecordedNewsIsOut

\* A send adds to what was received, or adds nothing.
LEMMA NoneIsTakenBack ==
  ASSUME DoorTypeOK, NEW c \in Callers, SendTo(c)
  PROVE  \A key \in Keys : received'[key] \in Nat /\ received'[key] >= received[key]
<1>1. PICK copies \in 0..SendAttempts : received' = [received EXCEPT ![call[c].key] = @ + copies]
  BY DEF SendTo
<1>2. QED
  BY <1>1, DoorAssumption DEF DoorTypeOK

\* What was received, logged and assumed stays so.
LEMMA NothingIsTakenBack ==
  ASSUME Typed, [Next]_vars
  PROVE  \A key \in Keys : Out(key) => Out(key)'
<1>r. \A key \in Keys : received[key] \in Nat
  BY DEF Typed, TypeOK, DoorTypeOK
<1>w. Callers = Checks
  BY KeysOfEvents
<1>1. CASE UNCHANGED <<received, logged, assumed>>
  BY <1>1 DEF Out
<1>2. ASSUME NEW c \in Checks, NEW key, Notify(c, key), UNCHANGED <<received, assumed>>
      PROVE  \A k \in Keys : Out(k) => Out(k)'
  BY <1>2 DEF Notify, Out
<1>3. ASSUME NEW c \in Checks, CheckStep(c) \/ CheckDies(c)
      PROVE  \A key \in Keys : Out(key) => Out(key)'
  <2>1. CASE FindBlocked(c)
    BY <2>1, <1>1, <1>2 DEF FindBlocked
  <2>2. CASE CompareValue(c)
    BY <2>2, <1>1, <1>2 DEF CompareValue
  <2>3. CASE DegradeWatch(c)
    BY <2>3, <1>2 DEF DegradeWatch
  <2>4. CASE NotifierAnswers(c) \/ CheckDies(c) \/ Reserve(c) \/ SettleDelivery(c)
    BY <2>4, <1>1 DEF NotifierAnswers, CheckDies, Reserve, SettleDelivery
  <2>5. CASE ReadExisting(c)
    BY <2>5 DEF ReadExisting, Out
  <2>6. CASE SendTo(c)
    <3>1. \A key \in Keys : received'[key] >= received[key]
      BY <1>w, <2>6, NoneIsTakenBack DEF Typed, TypeOK
    <3>2. \A key \in Keys : received'[key] \in Nat
      BY <1>w, <2>6, NoneIsTakenBack DEF Typed, TypeOK
    <3>3. QED
      BY <2>6, <3>1, <3>2, <1>r DEF SendTo, Out
  <2>7. CASE \/ LoadWatch(c) \/ FetchPage(c) \/ FetchFails(c) \/ RecordBlocked(c)
             \/ ReplayExtractor(c) \/ ReportSpent(c) \/ CallModel(c) \/ StoreExtractor(c)
             \/ ParkWatch(c) \/ RecordValue(c) \/ RecordFailure(c)
    BY <2>7, <1>1 DEF LoadWatch, FetchPage, FetchFails, RecordBlocked, ReplayExtractor,
                      ReportSpent, CallModel, StoreExtractor, ParkWatch, RecordValue,
                      RecordFailure, doorVars
  <2>8. QED
    BY <1>3, <2>1, <2>2, <2>3, <2>4, <2>5, <2>6, <2>7 DEF CheckStep, DoorStep
<1>4. CASE ChatBound \/ PageChanges \/ ResetWatch \/ UNCHANGED vars
  BY <1>4, <1>1 DEF ChatBound, PageChanges, ResetWatch, vars, doorVars
<1>5. QED
  BY <1>3, <1>4 DEF Next

\* Every step of the door is honest.
LEMMA DoorStepHonest ==
  ASSUME Typed, DoorInv, DoorIsHonest, [Next]_vars, NEW c \in Callers, DoorStep(c)
  PROVE  DoorIsHonest'
<1>w. /\ DoorTypeOK /\ \A d \in Callers : call[d].pc # "idle" => call[d].key \in Keys
      /\ \A key \in Keys : received[key] \in Nat
  BY DEF Typed, TypeOK, DoorTypeOK
<1>o. \A key \in Keys : Out(key) => Out(key)'
  BY NothingIsTakenBack
<1>k. PICK own \in Keys : own = call[c].key
  BY <1>w DEF DoorStep, Reserve, ReadExisting, SendTo, SettleDelivery
\* What a step of the caller must show.
<1>g. ASSUME NEW pc, Goes(c, pc), call[c].pc # "idle",
             \A k \in Keys : deliveries'[k] = "sent" => received'[k] > 0,
             \A k \in Keys : deliveries[k] # "none" => deliveries'[k] # "none",
             pc = "existing" => deliveries'[own] # "none",
             pc = "told" => Out(own)'
      PROVE  DoorIsHonest'
  <2>1. /\ call'[c].pc = pc
        /\ \A d \in Callers : call'[d].key = call[d].key
        /\ \A d \in Callers : d # c => call'[d].pc = call[d].pc
    BY <1>g, <1>w, GoesAlone
  <2>2. \A d \in Callers : call'[d].pc = "existing" => deliveries'[call'[d].key] # "none"
    BY <1>g, <1>k, <1>w, <2>1 DEF DoorIsHonest
  <2>3. ASSUME NEW d \in Callers, call'[d].pc = "told" PROVE Out(call[d].key)'
    <3>1. PICK k \in Keys : k = call[d].key
      BY <1>g, <1>w, <2>1, <2>3
    <3>2. k = call'[d].key
      BY <2>1, <3>1
    <3>3. Out(k)'
      BY <1>g, <1>k, <1>o, <2>1, <2>3, <3>1 DEF DoorIsHonest
    <3>4. QED
      BY <3>2, <3>3 DEF Out
  <2>4. QED
    BY <1>g, <2>2, <2>3 DEF DoorIsHonest
<1>1. CASE Reserve(c)
  <2>1. CASE Reservable(deliveries[call[c].key])
    <3>1. /\ Goes(c, "send") /\ UNCHANGED received /\ call[c].pc = "reserve"
          /\ deliveries' = [deliveries EXCEPT ![call[c].key] = "pending"]
      BY <1>1, <2>1 DEF Reserve
    <3>2. \A key \in Keys : deliveries'[key] \in {deliveries[key], "pending"}
      BY <3>1 DEF Typed, TypeOK, DoorTypeOK
    <3>3. QED
      BY <1>g, <3>1, <3>2 DEF DoorIsHonest
  <2>2. CASE ~Reservable(deliveries[call[c].key])
    BY <1>1, <1>g, <1>k, <2>2 DEF Reserve, Reservable, DoorIsHonest
  <2>3. QED
    BY <2>1, <2>2
<1>2. CASE ReadExisting(c)
  <2>1. /\ call[c].pc = "existing" /\ UNCHANGED <<deliveries, received, unheard>>
        /\ call[c].key \in Keys /\ deliveries[call[c].key] \in {"pending", "sent", "failed"}
    BY <1>2, <1>w DEF ReadExisting, DoorIsHonest, DoorTypeOK, Deliveries
  <2>2. CASE deliveries[call[c].key] = "failed"
    BY <1>2, <1>g, <2>1, <2>2 DEF ReadExisting, DoorIsHonest
  <2>3. CASE deliveries[call[c].key] = "sent"
    <3>1. Goes(c, "told") /\ Out(own)'
      BY <1>2, <1>k, <2>1, <2>3 DEF ReadExisting, DoorIsHonest, Out
    <3>2. QED
      BY <1>g, <2>1, <3>1 DEF DoorIsHonest
  <2>4. CASE deliveries[call[c].key] = "pending"
    <3>1. Goes(c, "told") /\ Out(own)'
      BY <1>2, <1>k, <2>1, <2>4 DEF ReadExisting, Out
    <3>2. QED
      BY <1>g, <2>1, <3>1 DEF DoorIsHonest
  <2>5. QED
    BY <2>1, <2>2, <2>3, <2>4
<1>3. CASE SendTo(c)
  <2>1. \A key \in Keys : received'[key] \in Nat /\ received'[key] >= received[key]
    BY <1>3, <1>w, NoneIsTakenBack
  <2>2. \A key \in Keys : deliveries'[key] = "sent" => received'[key] > 0
    BY <1>3, <1>w, <2>1 DEF SendTo, DoorIsHonest
  <2>3. (Goes(c, "sent") \/ Goes(c, "failed")) /\ UNCHANGED deliveries /\ call[c].pc = "send"
    BY <1>3 DEF SendTo
  <2>4. QED
    BY <1>g, <2>2, <2>3
<1>4. CASE SettleDelivery(c)
  <2>1. /\ call[c].pc \in {"sent", "failed"} /\ UNCHANGED received
        /\ call[c].key \in Keys
        /\ call[c].pc = "sent" => received[call[c].key] > 0
    BY <1>4, <1>w, DoorAssumption DEF SettleDelivery, DoorInv, ClaimsArePending, Holds, DoorTypeOK
  <2>2. \A key \in Keys : deliveries'[key] = IF key = call[c].key THEN call[c].pc ELSE deliveries[key]
    BY <1>4 DEF SettleDelivery, Typed, TypeOK, DoorTypeOK
  <2>3. \A k \in Keys : deliveries'[k] = "sent" => received'[k] > 0
    BY <2>1, <2>2 DEF DoorIsHonest
  <2>n. \A k \in Keys : deliveries[k] # "none" => deliveries'[k] # "none"
    BY <2>1, <2>2
  <2>4. CASE call[c].pc = "sent"
    <3>1. Goes(c, "told") /\ Out(own)'
      BY <1>4, <1>k, <2>1, <2>4 DEF SettleDelivery, Returned, Out
    <3>2. QED
      BY <1>g, <2>3, <2>n, <2>4, <3>1
  <2>5. CASE call[c].pc = "failed"
    <3>1. Goes(c, "threw")
      BY <1>4, <2>5 DEF SettleDelivery, Returned
    <3>2. QED
      BY <1>g, <2>3, <2>n, <2>5, <3>1
  <2>6. QED
    BY <2>1, <2>4, <2>5
<1>5. QED
  BY <1>1, <1>2, <1>3, <1>4 DEF DoorStep

\* A check that enters the door or leaves it finds it honest.
LEMMA DoorStaysHonest ==
  ASSUME Typed, DoorIsHonest, NEW c \in Callers, NEW key \in Keys, UNCHANGED <<deliveries, received, unheard, assumed>>,
         \/ Notify(c, key)
         \/ call' = [call EXCEPT ![c] = IdleCall] /\ UNCHANGED logged
         \/ UNCHANGED <<call, logged>>
  PROVE  DoorIsHonest'
<1>1. /\ \A d \in Callers : d # c => call'[d] = call[d]
      /\ \/ call'[c].pc \in {"idle", "reserve"}
         \/ call'[c] = call[c]
         \/ call'[c].pc = "told" /\ call'[c].key = key /\ key \in logged'
      /\ logged \subseteq logged'
  BY DEF Typed, TypeOK, DoorTypeOK, Notify, IdleCall
<1>2. \A k : Out(k) => Out(k)'
  BY <1>1 DEF Out
<1>3. ASSUME NEW d \in Callers, call'[d].pc = "told" PROVE Out(call[d].key)'
  <2>1. CASE call'[d] = call[d]
    BY <1>1, <1>3, <2>1 DEF DoorIsHonest, Out
  <2>2. CASE call'[d].key = key /\ key \in logged'
    BY <2>2 DEF Out
  <2>3. QED
    BY <1>1, <1>3, <2>1, <2>2
<1>4. \A d \in Callers : call'[d].pc = "existing" => deliveries'[call'[d].key] # "none"
  BY <1>1 DEF DoorIsHonest
<1>5. QED
  BY <1>3, <1>4 DEF DoorIsHonest

\* What is known stays out when one check moves on, if what it learns is out.
LEMMA KnownStaysOut ==
  ASSUME Typed, KnownIsOut, [Next]_vars, NEW c \in Checks,
         \A d \in Checks : d # c => check'[d] = check[d],
         watch'.kind = watch.kind,
         watch'.health = "blocked" => watch.health = "blocked" \/ Out(BlockedKey),
         check'[c].health = "blocked" => check[c].health = "blocked" \/ watch.health = "blocked",
         check'[c].pc = "block" => Out(BlockedKey),
         \A value \in Values :
           check'[c].pc = "record" /\ check'[c].page.value = value /\ Triggered(check'[c].last, value) =>
             Out(TriggerKey(value))
  PROVE  KnownIsOut'
<1>o. \A key \in Keys : Out(key) => Out(key)'
  BY NothingIsTakenBack
<1>1. Out(BlockedKey) => Out(BlockedKey)'
  BY <1>o, KeysOfEvents
<1>2. \A value \in Values : Out(TriggerKey(value)) => Out(TriggerKey(value))'
  BY <1>o, KeysOfEvents
<1>3. \A last, value : Triggered(last, value)' <=> Triggered(last, value)
  BY DEF Triggered
<1>4. watch'.health = "blocked" => Out(BlockedKey)'
  BY <1>1 DEF KnownIsOut
<1>5. \A d \in Checks : check'[d].health = "blocked" \/ check'[d].pc = "block" => Out(BlockedKey)'
  BY <1>1 DEF KnownIsOut
<1>6. \A d \in Checks, value \in Values :
        check'[d].pc = "record" /\ check'[d].page.value = value /\ Triggered(check'[d].last, value) =>
          Out(TriggerKey(value))'
  BY <1>2 DEF KnownIsOut
<1>7. QED
  BY <1>3, <1>4, <1>5, <1>6 DEF KnownIsOut, Triggered

\* The news over every step of the checks and of the world.
LEMMA NewsStep == Typed /\ DoorInv /\ NewsInv /\ [Next]_vars => NewsInv'
<1> SUFFICES ASSUME Typed, DoorInv, NewsInv, [Next]_vars PROVE NewsInv'
  OBVIOUS
<1>i. DoorIsHonest /\ KnownIsOut /\ RecordedNewsIsOut
  BY DEF NewsInv
<1>c. /\ check \in [Checks -> CheckRecords] /\ \A d \in Checks : check[d] \in CheckRecords
      /\ watch \in WatchRows /\ DoorTypeOK /\ recorded \subseteq Keys
      /\ \A d \in Checks : check[d].pc \in {"compare", "record"} => check[d].page \in Pages
  BY DEF Typed, TypeOK
<1>k. Callers = Checks /\ BlockedKey \in Keys /\ DegradedKey \in Keys
  BY KeysOfEvents
<1>o. \A key \in Keys : Out(key) => Out(key)'
  BY NothingIsTakenBack
\* What is on record stays out, and so does what is recorded now.
<1>r. ASSUME UNCHANGED recorded PROVE RecordedNewsIsOut'
  <2>1. \A key \in recorded : Out(key)'
    BY <1>c, <1>i, <1>o DEF RecordedNewsIsOut
  <2>2. QED
    BY <1>r, <2>1 DEF RecordedNewsIsOut
<1>n. ASSUME NEW new \in Keys, Out(new), recorded' = recorded \cup {new} PROVE RecordedNewsIsOut'
  <2>1. \A key \in recorded \cup {new} : Out(key)'
    BY <1>n, <1>c, <1>i, <1>o DEF RecordedNewsIsOut
  <2>2. QED
    BY <1>n, <2>1 DEF RecordedNewsIsOut
\* A step that leaves the door alone.
<1>d. ASSUME UNCHANGED doorVars PROVE DoorIsHonest'
  BY <1>d, <1>i DEF doorVars, DoorIsHonest, Out
\* A check that moves on to where nothing need be out, its row well or as it was.
<1>t. ASSUME NEW c \in Checks, NEW pc \in CheckPcs, Turns(c, pc), pc \notin {"block", "record"},
             watch'.kind = watch.kind, watch'.health # "blocked" \/ watch'.health = watch.health
      PROVE  KnownIsOut'
  BY <1>t, <1>c, <1>i, TurnsType, KnownStaysOut
<1>e. ASSUME NEW c \in Checks, Ends(c), watch'.kind = watch.kind,
             watch'.health # "blocked" \/ watch'.health = watch.health \/ Out(BlockedKey)
      PROVE  KnownIsOut'
  <2>1. check'[c].health # "blocked" /\ check'[c].pc = "idle"
    BY <1>e, <1>c, EndsType DEF IdleCheck, None
  <2>2. QED
    BY <1>e, <1>c, <1>i, <2>1, EndsType, KnownStaysOut
<1>0. CASE UNCHANGED vars
  BY <1>0 DEF vars, NewsInv, DoorIsHonest, KnownIsOut, RecordedNewsIsOut, Out, Triggered
<1>1. ASSUME NEW c \in Checks, LoadWatch(c) PROVE NewsInv'
  <2>1. /\ check'[c].pc = "fetch" /\ check'[c].health = watch.health
        /\ \A d \in Checks : d # c => check'[d] = check[d]
    BY <1>1, <1>c DEF LoadWatch, IdleCheck
  <2>2. KnownIsOut'
    BY <1>1, <1>i, <2>1, KnownStaysOut DEF LoadWatch
  <2>3. QED
    BY <1>1, <1>d, <1>r, <2>2 DEF LoadWatch, NewsInv
<1>2. ASSUME NEW c \in Checks, FetchPage(c) PROVE NewsInv'
  <2>1. /\ check'[c].pc \in {"blocked", "extract"} /\ check'[c].health = check[c].health
        /\ \A d \in Checks : d # c => check'[d] = check[d]
    BY <1>2, <1>c DEF FetchPage, CheckRecords
  <2>2. KnownIsOut'
    BY <1>2, <1>i, <2>1, KnownStaysOut DEF FetchPage
  <2>3. QED
    BY <1>2, <1>d, <1>r, <2>2 DEF FetchPage, NewsInv
<1>3. ASSUME NEW c \in Checks, FetchFails(c) \/ RecordFailure(c) PROVE NewsInv'
  BY <1>3, <1>d, <1>e, <1>r DEF FetchFails, RecordFailure, NewsInv
<1>4. ASSUME NEW c \in Checks, FindBlocked(c) PROVE NewsInv'
  <2>1. DoorIsHonest'
    BY <1>4, <1>i, <1>k, DoorStaysHonest DEF FindBlocked
  <2>2. RecordedNewsIsOut'
    BY <1>4, <1>r DEF FindBlocked
  <2>3. CASE check[c].health # "blocked"
    BY <1>4, <1>t, <2>1, <2>2, <2>3 DEF FindBlocked, NewsInv, CheckPcs
  <2>4. CASE check[c].health = "blocked"
    <3>1. Turns(c, "block") /\ Out(BlockedKey) /\ watch' = watch
      BY <1>4, <1>i, <2>4 DEF FindBlocked, KnownIsOut
    <3>2. "block" \in CheckPcs
      BY DEF CheckPcs
    <3>3. KnownIsOut'
      BY <1>c, <1>i, <3>1, <3>2, TurnsType, KnownStaysOut
    <3>4. QED
      BY <2>1, <2>2, <3>3 DEF NewsInv
  <2>5. QED
    BY <2>3, <2>4
<1>5. ASSUME NEW c \in Checks, RecordBlocked(c) PROVE NewsInv'
  <2>1. Out(BlockedKey)
    BY <1>5, <1>i DEF RecordBlocked, KnownIsOut
  <2>2. watch'.kind = watch.kind
    BY <1>5, <1>c DEF RecordBlocked, WatchRows
  <2>3. RecordedNewsIsOut'
    BY <1>5, <1>k, <1>n, <2>1 DEF RecordBlocked
  <2>4. QED
    BY <1>5, <1>d, <1>e, <2>1, <2>2, <2>3 DEF RecordBlocked, NewsInv
<1>6. ASSUME NEW c \in Checks,
             ReplayExtractor(c) \/ ReportSpent(c) \/ CallModel(c) \/ StoreExtractor(c) \/ ParkWatch(c)
      PROVE  NewsInv'
  <2>1. watch'.kind = watch.kind /\ (watch'.health # "blocked" \/ watch'.health = watch.health)
    BY <1>6, <1>c DEF ReplayExtractor, ReportSpent, CallModel, StoreExtractor, ParkWatch, WatchRows
  <2>2. /\ \E pc \in {"compare", "failed", "created", "uncreated"} : Turns(c, pc)
        /\ UNCHANGED doorVars /\ UNCHANGED recorded
    BY <1>6 DEF ReplayExtractor, ReportSpent, CallModel, StoreExtractor, ParkWatch
  <2>3. KnownIsOut'
    BY <1>t, <2>1, <2>2 DEF CheckPcs
  <2>4. QED
    BY <1>d, <1>r, <2>2, <2>3 DEF NewsInv
<1>7. ASSUME NEW c \in Checks, DegradeWatch(c) PROVE NewsInv'
  <2>1. watch'.kind = watch.kind /\ watch'.health # "blocked"
    BY <1>7, <1>c DEF DegradeWatch, WatchRows
  <2>2. DoorIsHonest'
    BY <1>7, <1>i, <1>k, DoorStaysHonest DEF DegradeWatch
  <2>3. KnownIsOut'
    BY <1>7, <1>t, <2>1 DEF DegradeWatch, CheckPcs
  <2>4. QED
    BY <1>7, <1>r, <2>2, <2>3 DEF DegradeWatch, NewsInv
<1>8. ASSUME NEW c \in Checks, CompareValue(c) PROVE NewsInv'
  <2> DEFINE value == check[c].page.value
  <2>1. value \in Values /\ TriggerKey(value) \in Keys
    BY <1>8, <1>c, KeysOfEvents DEF CompareValue, Pages
  <2>2. DoorIsHonest'
    BY <1>8, <1>i, <1>k, <2>1, DoorStaysHonest DEF CompareValue
  <2>3. RecordedNewsIsOut'
    BY <1>8, <1>r DEF CompareValue
  <2>4. CASE Triggered(check[c].last, value)
    BY <1>8, <1>t, <2>2, <2>3, <2>4 DEF CompareValue, NewsInv, CheckPcs
  <2>5. CASE ~Triggered(check[c].last, value)
    <3>1. Turns(c, "record") /\ watch' = watch /\ "record" \in CheckPcs
      BY <1>8, <2>5 DEF CompareValue, CheckPcs
    <3>2. KnownIsOut'
      BY <1>c, <1>i, <2>5, <3>1, TurnsType, KnownStaysOut
    <3>3. QED
      BY <2>2, <2>3, <3>2 DEF NewsInv
  <2>6. QED
    BY <2>4, <2>5
<1>9. ASSUME NEW c \in Checks, NotifierAnswers(c) PROVE NewsInv'
  <2>1. check[c].pc = "telling" /\ watch' = watch /\ UNCHANGED <<recorded, deliveries, received, unheard, logged, assumed>>
        /\ call' = [call EXCEPT ![c] = IdleCall]
    BY <1>9 DEF NotifierAnswers
  <2>2. DoorIsHonest'
    BY <1>i, <1>k, <2>1, DoorStaysHonest
  <2>3. RecordedNewsIsOut'
    BY <1>r, <2>1
  <2>4. CASE call[c].pc # "told"
    BY <1>9, <1>e, <2>1, <2>2, <2>3, <2>4 DEF NotifierAnswers, NewsInv
  <2>5. CASE call[c].pc = "told"
    <3>1. Turns(c, AfterNotify(call[c].key)) /\ Out(call[c].key)
      BY <1>9, <1>i, <1>k, <2>5 DEF NotifierAnswers, DoorIsHonest
    <3>2. AfterNotify(call[c].key) \in CheckPcs
      BY DEF AfterNotify, CheckPcs
    <3>3. AfterNotify(call[c].key) = "block" => Out(BlockedKey)
      BY <3>1 DEF AfterNotify
    <3>4. AfterNotify(call[c].key) = "record" => Out(TriggerKey(check[c].page.value))
      BY <2>1, <3>1 DEF AfterNotify, Typed, TellsItsFinding
    <3>5. KnownIsOut'
      BY <1>c, <1>i, <2>1, <3>1, <3>2, <3>3, <3>4, TurnsType, KnownStaysOut
    <3>6. QED
      BY <2>2, <2>3, <3>5 DEF NewsInv
  <2>6. QED
    BY <2>4, <2>5
<1>10. ASSUME NEW c \in Checks, RecordValue(c) PROVE NewsInv'
  <2>1. check[c].page.value \in Values /\ TriggerKey(check[c].page.value) \in Keys
    BY <1>10, <1>c, KeysOfEvents DEF RecordValue, Pages
  <2>2. Triggered(check[c].last, check[c].page.value) => Out(TriggerKey(check[c].page.value))
    BY <1>10, <1>i, <2>1 DEF RecordValue, KnownIsOut
  <2>3. RecordedNewsIsOut'
    BY <1>10, <1>n, <1>r, <2>1, <2>2 DEF RecordValue
  <2>4. watch'.kind = watch.kind /\ watch'.health = watch.health
    BY <1>10, <1>c DEF RecordValue, WatchRows
  <2>5. QED
    BY <1>10, <1>d, <1>e, <2>3, <2>4 DEF RecordValue, NewsInv
<1>11. ASSUME NEW c \in Checks, CheckDies(c) PROVE NewsInv'
  <2>1. DoorIsHonest'
    BY <1>11, <1>i, <1>k, DoorStaysHonest DEF CheckDies
  <2>2. QED
    BY <1>11, <1>e, <1>r, <2>1 DEF CheckDies, NewsInv
<1>s. ASSUME UNCHANGED check, watch'.kind = watch.kind,
             watch'.health # "blocked" \/ watch'.health = watch.health
      PROVE  KnownIsOut'
  \* A step of somebody else.
  <2>1. Out(BlockedKey) => Out(BlockedKey)'
    BY <1>k, <1>o
  <2>2. \A value \in Values : Out(TriggerKey(value)) => Out(TriggerKey(value))'
    BY <1>o, KeysOfEvents
  <2>3. \A last, value : Triggered(last, value)' <=> Triggered(last, value)
    BY <1>s DEF Triggered
  <2>4. QED
    BY <1>i, <1>s, <2>1, <2>2, <2>3 DEF KnownIsOut, Triggered
<1>12. ASSUME NEW c \in Checks, DoorStep(c), UNCHANGED watchVars PROVE NewsInv'
  <2>1. DoorIsHonest'
    BY <1>12, <1>i, <1>k, DoorStepHonest
  <2>2. QED
    BY <1>12, <1>r, <1>s, <2>1 DEF watchVars, NewsInv
<1>13. ASSUME ChatBound, UNCHANGED watchVars PROVE NewsInv'
  <2>1. DoorIsHonest'
    BY <1>13, <1>i DEF ChatBound, DoorIsHonest, Out
  <2>2. QED
    BY <1>13, <1>r, <1>s, <2>1 DEF watchVars, NewsInv
<1>14. ASSUME PageChanges \/ ResetWatch PROVE NewsInv'
  <2>1. watch'.kind = watch.kind /\ (watch'.health # "blocked" \/ watch'.health = watch.health)
    BY <1>14, <1>c DEF PageChanges, ResetWatch, WatchRows
  <2>2. QED
    BY <1>14, <1>d, <1>r, <1>s, <2>1 DEF PageChanges, ResetWatch, NewsInv
<1>15. QED
  BY <1>0, <1>1, <1>2, <1>3, <1>4, <1>5, <1>6, <1>7, <1>8, <1>9, <1>10, <1>11, <1>12, <1>13, <1>14
  DEF Next, CheckStep

\* Nothing is known or recorded at first.
LEMMA NewsInit == Init => NewsInv
BY DEF Init, DoorInit, NewsInv, DoorIsHonest, KnownIsOut, RecordedNewsIsOut, IdleCall, IdleCheck, None

\* What the rows tell of is with the person, in the log or with another check's
\* pending delivery, through any number of failed deliveries, deaths and
\* overlapping checks (check.ts:41-46).
THEOREM NewsIsNeverLost == Spec => []RecordedNewsIsOut
<1>1. Typed /\ DoorInv /\ NewsInv /\ [Next]_vars => (Typed /\ DoorInv /\ NewsInv)'
  BY TypedStep, DoorInvStep, NewsStep
<1>2. Init => Typed /\ DoorInv /\ NewsInv
  BY TypedInit, DoorInvInit, NewsInit
<1>3. Spec => [](Typed /\ DoorInv /\ NewsInv)
  BY <1>1, <1>2, PTL DEF Spec
<1>4. QED
  BY <1>3, PTL DEF NewsInv

=============================================================================
