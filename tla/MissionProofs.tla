---------------------------- MODULE MissionProofs ----------------------------
(***************************************************************************)
(* What the parts of a mission guarantee for any number of callers,        *)
(* requests, runs and messages.  Each part has an inductive invariant of   *)
(* its own, named before its step lemma; the theorems follow from it.      *)
(***************************************************************************)
EXTENDS BrowserSessions, Guardrails, AgenticMission, BrowserToolset, Playbooks, ChatAgent, TLAPS

--------------------------------------------------------------------------------
(* Browser sessions: the ledger of held slots (solari/src/provider.ts). *)

\* Where a caller may stand while its session is none, being made, or its own.
BeforeSession == {"idle", "launching", "refused", "transport", "capacity", "configuration", "internal"}

WithSession == {"working", "stopping", "releasing", "done"}

SessionShape ==
  /\ slots \in [Callers -> {"none", "held", "freed"}]
  /\ caller \in [Callers -> BeforeSession \cup {"opening"} \cup WithSession]
  /\ live \subseteq Callers /\ released \subseteq Callers

\* A session is in the ledger from its opening to its release, and not before.
LedgerFollows ==
  \A c \in Callers :
    /\ caller[c] \in {"idle", "launching"} => slots[c] = "none"
    /\ caller[c] = "opening" => slots[c] = "held"
    /\ caller[c] \in BeforeSession \cup {"opening"} => c \notin live /\ c \notin released
    /\ caller[c] \in WithSession => c \in live \cup released
    /\ c \in released => slots[c] = "freed"
    /\ c \in abandoned \cup unseen => caller[c] \in {"internal", "transport"}

SessionInv == SessionShape /\ LedgerFollows /\ HeldIsTracked

\* Whoever asks for a release has a session that is in the ledger or released.
LEMMA AskedIsLive ==
  ASSUME SessionInv, NEW c \in Callers, caller[c] \in WithSession, AskRelease(c)
  PROVE  closing' \subseteq live
BY DEF SessionInv, LedgerFollows, HeldIsTracked, AskRelease, Releases

\* Every step of a caller, of the vendor and of a release keeps the ledger.
LEMMA SessionStep == SessionInv /\ [SessionNext]_sessionVars => SessionInv'
<1> SUFFICES ASSUME SessionInv, [SessionNext]_sessionVars PROVE SessionInv'
  OBVIOUS
<1> USE DEF SessionInv, SessionShape, LedgerFollows, HeldIsTracked, BeforeSession, WithSession
<1>1. ASSUME NEW c \in Callers, Acquire(c) PROVE SessionInv'
  BY <1>1 DEF Acquire, Goes
<1>2. ASSUME NEW c \in Callers, Launched(c) PROVE SessionInv'
  BY <1>2 DEF Launched, Goes
<1>3. ASSUME NEW c \in Callers, LaunchFails(c) PROVE SessionInv'
  BY <1>3 DEF LaunchFails, Goes, Retryable, FailureKind
<1>4. ASSUME NEW c \in Callers, Opened(c) PROVE SessionInv'
  BY <1>4 DEF Opened, Goes
<1>5. ASSUME NEW c \in Callers, OpenFails(c) PROVE SessionInv'
  BY <1>5 DEF OpenFails, Goes
<1>6. ASSUME NEW c \in Callers, ReleaseEarly(c) PROVE SessionInv'
  <2>1. closing' \subseteq live
    BY <1>6, AskedIsLive DEF ReleaseEarly
  <2> QED
    BY <1>6, <2>1 DEF ReleaseEarly, Goes
<1>7. ASSUME NEW c \in Callers, BodyOver(c) PROVE SessionInv'
  <2>1. closing' \subseteq live
    BY <1>7, AskedIsLive DEF BodyOver
  <2> QED
    BY <1>7, <2>1 DEF BodyOver, Goes
<1>8. ASSUME NEW c \in Callers, CloseLands(c) PROVE SessionInv'
  BY <1>8 DEF CloseLands
<1>9. ASSUME NEW c \in Callers, CloseFails(c) PROVE SessionInv'
  BY <1>9 DEF CloseFails, KeptOnFailure
<1>10. ASSUME NEW c \in Callers, CallerDone(c) PROVE SessionInv'
  BY <1>10 DEF CallerDone, Goes
<1>11. CASE Dispose
  BY <1>11 DEF Dispose, Releases
<1>12. ASSUME NEW c \in Callers, LaunchUnanswered(c) PROVE SessionInv'
  BY <1>12 DEF LaunchUnanswered, Goes
<1>13. ASSUME NEW c \in Callers, Reaped(c) PROVE SessionInv'
  <2>1. caller[c] \in {"internal", "transport"} /\ c \notin live
    BY <1>13 DEF Reaped
  <2> QED
    BY <1>13, <2>1 DEF Reaped
<1>14. CASE UNCHANGED sessionVars
  BY <1>14 DEF sessionVars
<1> QED
  BY <1>1, <1>2, <1>3, <1>4, <1>5, <1>6, <1>7, <1>8, <1>9, <1>10, <1>11, <1>12, <1>13, <1>14 DEF SessionNext

\* For any number of callers: a slot the vendor still holds is in the ledger or in
\* the hands of the acquire that launched it, unless its caller was told of a failure
\* and either both its context and its close failed or the launch failed only here;
\* and a session is closed by one caller at a time, never after a close went through.
THEOREM NoSlotIsLost == SessionSpec => []HeldIsTracked
<1>1. SessionInit => SessionInv
  BY DEF SessionInit, SessionInv, SessionShape, LedgerFollows, HeldIsTracked, BeforeSession, WithSession
<1>2. SessionInv => HeldIsTracked
  BY DEF SessionInv
<1> QED
  BY <1>1, <1>2, SessionStep, PTL DEF SessionSpec

--------------------------------------------------------------------------------
(* Guardrails: what leaves the browser (guardrails.ts). *)

\* What a judgement lets go on is in the lane, and a payment only when its very
\* submission was confirmed.
LEMMA JudgedWell ==
  ASSUME NEW facts, JudgeRequest(Policy, facts) = NoStop
  PROVE  /\ facts.topLevel => CheckUrl(facts.url, Allowlist) = "allowed"
         /\ facts.method \in MUTATING /\ LooksLikePayment(facts) =>
              \E i \in DOMAIN answers :
                 /\ answers[i].affirmative
                 /\ PaymentFingerprint(ParseSubmission(facts)) \in answers[i].tags
<1>1. AllowlistStop(facts, CheckUrl(facts.url, Allowlist)) # NoStop
  <2>1. AllowlistStop(facts, CheckUrl(facts.url, Allowlist)).kind = "allowlist" /\ NoStop.kind = "none"
    BY DEF AllowlistStop, NoStop
  <2> QED
    BY <2>1
<1>2. PaymentStop(facts) # NoStop
  <2>1. PaymentStop(facts).kind = "payment" /\ NoStop.kind = "none"
    BY DEF PaymentStop, NoStop
  <2> QED
    BY <2>1
<1>3. facts.topLevel => CheckUrl(facts.url, Allowlist) = "allowed"
  <2>1. Policy.allowlist = Allowlist
    BY DEF Policy
  <2>2. ASSUME facts.topLevel, CheckUrl(facts.url, Allowlist) # "allowed" PROVE FALSE
    <3> QED
      BY <1>1, <2>1, <2>2 DEF JudgeRequest
  <2> QED
    BY <2>2
<1>4. ASSUME facts.method \in MUTATING, LooksLikePayment(facts)
      PROVE PaymentFingerprint(ParseSubmission(facts)) \in PaymentConfirmations(answers)
  <2>1. Policy.allowlist = Allowlist /\ Policy.confirmed = PaymentConfirmations(answers)
    BY DEF Policy
  <2>2. PaymentStop(facts).fingerprint = PaymentFingerprint(ParseSubmission(facts))
    BY DEF PaymentStop
  <2> QED
    BY <1>1, <1>2, <1>3, <1>4, <2>1, <2>2 DEF JudgeRequest
<1>5. \A tag \in PaymentConfirmations(answers) :
         \E i \in DOMAIN answers : answers[i].affirmative /\ tag \in answers[i].tags
  BY DEF PaymentConfirmations
<1> QED
  BY <1>3, <1>4, <1>5

\* A stop that was raised stays, and a navigation off the lane raises one.
LEMMA OffLaneStops ==
  ASSUME NEW facts, stop # NoStop \/ ~InLane(facts)
  PROVE  StopAfter(facts) # NoStop
<1>1. CASE stop # NoStop
  BY <1>1 DEF StopAfter
<1>2. CASE stop = NoStop
  <2>1. AllowlistStop(facts, CheckUrl(facts.url, Allowlist)).kind = "allowlist" /\ NoStop.kind = "none"
    BY DEF AllowlistStop, NoStop
  <2>2. facts.topLevel /\ CheckUrl(facts.url, Allowlist) # "allowed" /\ Policy.allowlist = Allowlist
    BY <1>2 DEF Policy, InLane
  <2>3. JudgeRequest(Policy, facts) = AllowlistStop(facts, CheckUrl(facts.url, Allowlist))
    BY <2>2 DEF JudgeRequest
  <2> QED
    BY <1>2, <2>1, <2>3 DEF StopAfter
<1> QED
  BY <1>1, <1>2

Beyond == {"serving", "left"}

\* What is held of every request: its facts, and, once it is beyond the handler,
\* the one the handler let go on that it goes on from.
RequestShape ==
  /\ DOMAIN requests = Requests
  /\ \A r \in Requests : requests[r].stage # "none" => DOMAIN requests[r].facts = FactFields

LeftDescends ==
  \A r \in Requests :
     requests[r].stage \in Beyond /\ ~requests[r].facts.worker =>
        \E origin \in Admitted : Continues(requests[r].facts, origin.facts)

GuardInv == RequestShape /\ LeftDescends /\ SentWithinPolicy

\* Changing some facts of a request leaves the others alone.
LEMMA PageRead ==
  ASSUME NEW facts, DOMAIN facts = FactFields, NEW seen
  PROVE  LET read == [facts EXCEPT !.page = seen]
         IN  Continues(facts, read) /\ read.worker = facts.worker
BY DEF FactFields, Continues

LEMMA HopFacts ==
  ASSUME NEW facts, DOMAIN facts = FactFields, NEW url
  PROVE  /\ DOMAIN Hop(facts, url) = FactFields
         /\ DOMAIN [Hop(facts, url) EXCEPT !.redirected = FALSE] = FactFields
BY DEF FactFields, Hop

\* A hop that the browser makes of a request goes on from what that one goes on from.
LEMMA HopContinues ==
  ASSUME NEW facts, DOMAIN facts = FactFields, NEW url, NEW hop \in FollowUps(facts, url)
  PROVE  /\ DOMAIN hop = FactFields
         /\ hop.worker = facts.worker /\ hop.topLevel = facts.topLevel
         /\ \A from : Continues(facts, from) => Continues(hop, from)
<1> DEFINE again == [facts EXCEPT !.url = url, !.redirected = TRUE, !.page = NoPage]
           plain == [again EXCEPT !.method = "GET", !.contentType = "none", !.body = <<>>]
<1>1. /\ DOMAIN again = FactFields /\ again.worker = facts.worker /\ again.topLevel = facts.topLevel
      /\ again.method = facts.method /\ again.body = facts.body
  BY DEF FactFields
<1>2. /\ DOMAIN plain = FactFields /\ plain.worker = facts.worker /\ plain.topLevel = facts.topLevel
      /\ plain.method = "GET"
  BY DEF FactFields
<1>3. hop = again \/ hop = plain
  BY DEF FollowUps
<1> HIDE DEF again, plain
<1> QED
  BY <1>1, <1>2, <1>3 DEF Continues, MUTATING

\* A step that sends nothing: at most one request moves, and beyond the handler
\* only one that was there, or a service worker's.
LEMMA NothingSent ==
  ASSUME GuardInv, sent' = sent, answers' = answers, stop # NoStop => stop' # NoStop,
         \/ requests' = requests
         \/ \E r \in Requests : \E stage, hops, facts :
               /\ requests' = [requests EXCEPT ![r] = [stage |-> stage, hops |-> hops, facts |-> facts]]
               /\ DOMAIN facts = FactFields
               /\ stage \in Beyond => requests[r].stage \in Beyond /\ facts = requests[r].facts
  PROVE  GuardInv'
<1>1. Departed' = Departed /\ Admitted' = Admitted
  BY DEF Departed, Admitted
<1>2. SentWithinPolicy'
  BY <1>1 DEF GuardInv, SentWithinPolicy, NothingNewAfterStop, LaneKept, PaymentsConfirmed,
              HopsAreCaught, HopsHaveOrigins, AgreedTo
<1>3. RequestShape' /\ LeftDescends'
  <2>1. CASE requests' = requests
    BY <1>1, <2>1 DEF GuardInv, RequestShape, LeftDescends
  <2>2. ASSUME NEW r \in Requests, NEW stage, NEW hops, NEW facts,
               requests' = [requests EXCEPT ![r] = [stage |-> stage, hops |-> hops, facts |-> facts]],
               DOMAIN facts = FactFields,
               stage \in Beyond => requests[r].stage \in Beyond /\ facts = requests[r].facts
        PROVE  RequestShape' /\ LeftDescends'
    BY <1>1, <2>2 DEF GuardInv, RequestShape, LeftDescends
  <2> QED
    BY <2>1, <2>2
<1> QED
  BY <1>2, <1>3 DEF GuardInv

\* A request that is let go on: a service worker's, or one that was admitted.
LEMMA WellSent ==
  ASSUME GuardInv, answers' = answers, stop' = stop,
         NEW r \in Requests, NEW stage, NEW hops, NEW asked, DOMAIN asked = FactFields,
         requests' = [requests EXCEPT ![r] = [stage |-> stage, hops |-> hops, facts |-> asked]],
         NEW facts, Log(facts, "route"), facts.worker = asked.worker,
         facts.worker \/ (Admit(facts) /\ Continues(asked, facts))
  PROVE  GuardInv'
<1> DEFINE item == [facts |-> facts, by |-> "route", stopped |-> stop # NoStop]
<1>0. sent' = sent \cup {item} /\ item.facts = facts /\ item.by = "route"
  BY DEF Log
<1>1. RequestShape'
  BY DEF GuardInv, RequestShape
<1>2. CASE facts.worker
  <2>1. Departed' = Departed /\ Admitted' = Admitted
    BY <1>0, <1>2 DEF Departed, Admitted
  <2>2. SentWithinPolicy'
    BY <2>1 DEF GuardInv, SentWithinPolicy, NothingNewAfterStop, LaneKept, PaymentsConfirmed,
                HopsAreCaught, HopsHaveOrigins, AgreedTo
  <2>3. LeftDescends'
    BY <1>2, <2>1 DEF GuardInv, RequestShape, LeftDescends
  <2> QED
    BY <1>1, <2>2, <2>3 DEF GuardInv
<1>3. CASE ~facts.worker
  <2>1. stop = NoStop /\ JudgeRequest(Policy, facts) = NoStop /\ Continues(asked, facts)
    BY <1>3 DEF Admit
  <2>2. item.stopped = FALSE
    BY <2>1
  <2>3. Departed' = Departed \cup {item} /\ Admitted' = Admitted \cup {item}
    BY <1>0, <1>3 DEF Departed, Admitted
  <2> HIDE DEF item
  <2>4. InLane(facts) /\ (IsPayment(facts) => AgreedTo(facts))
    BY <2>1, JudgedWell DEF InLane, IsPayment, AgreedTo
  <2>5. Continues(facts, facts)
    BY DEF Continues
  <2>6. NothingNewAfterStop' /\ LaneKept' /\ PaymentsConfirmed' /\ HopsAreCaught'
    BY <1>0, <2>2, <2>3, <2>4 DEF GuardInv, SentWithinPolicy, NothingNewAfterStop, LaneKept, PaymentsConfirmed,
                HopsAreCaught, AgreedTo
  <2>7. HopsHaveOrigins'
    BY <1>0, <2>3, <2>5 DEF GuardInv, SentWithinPolicy, HopsHaveOrigins
  <2>8. LeftDescends'
    BY <1>0, <2>1, <2>3 DEF GuardInv, RequestShape, LeftDescends
  <2> QED
    BY <1>1, <2>6, <2>7, <2>8 DEF GuardInv, SentWithinPolicy
<1> QED
  BY <1>2, <1>3

\* What the browser follows on its own has the origin of what it followed, and off
\* the lane it has raised a stop.
LEMMA Followed ==
  ASSUME GuardInv, answers' = answers, NEW r \in Requests, NEW url,
         NEW hop \in FollowUps(requests[r].facts, url), GoesOn(r, hop),
         stop # NoStop => stop' # NoStop, InLane(hop) \/ stop' # NoStop
  PROVE  GuardInv'
<1> DEFINE item == [facts |-> hop, by |-> "browser", stopped |-> stop # NoStop]
           asked == requests[r].facts
<1>0. sent' = sent \cup {item} /\ item.facts = hop /\ item.by = "browser"
  BY DEF Log, GoesOn
<1>1. requests[r].stage = "left" /\ DOMAIN asked = FactFields
  BY DEF GoesOn, GuardInv, RequestShape
<1>2. /\ DOMAIN hop = FactFields /\ hop.worker = asked.worker
      /\ \A from : Continues(asked, from) => Continues(hop, from)
  BY <1>1, HopContinues
<1>3. requests' = [requests EXCEPT ![r] = [stage |-> "left", hops |-> requests[r].hops + 1, facts |-> hop]]
  BY DEF GoesOn
<1> HIDE DEF item
<1>4. RequestShape'
  BY <1>2, <1>3 DEF GuardInv, RequestShape
<1>5. Admitted' = Admitted /\ Departed' = Departed \cup (IF hop.worker THEN {} ELSE {item})
  BY <1>0 DEF Departed, Admitted
<1>6. ~hop.worker => \E origin \in Admitted : Continues(hop, origin.facts)
  BY <1>1, <1>2 DEF GuardInv, LeftDescends, Beyond
<1>7. LeftDescends'
  BY <1>3, <1>5, <1>6 DEF GuardInv, RequestShape, LeftDescends
<1>8. NothingNewAfterStop' /\ LaneKept' /\ PaymentsConfirmed'
  BY <1>5 DEF GuardInv, SentWithinPolicy, NothingNewAfterStop, LaneKept, PaymentsConfirmed, AgreedTo
<1>9. HopsAreCaught' /\ HopsHaveOrigins'
  BY <1>0, <1>5, <1>6 DEF GuardInv, SentWithinPolicy, HopsAreCaught, HopsHaveOrigins
<1> QED
  BY <1>4, <1>7, <1>8, <1>9 DEF GuardInv, SentWithinPolicy

\* Judging before every hop the handler makes, from the page's reading before the
\* look and after it, and after every one the browser makes of a navigation.
LEMMA GuardStep == GuardInv /\ [GuardNext]_guardVars => GuardInv'
<1> SUFFICES ASSUME GuardInv, [GuardNext]_guardVars PROVE GuardInv'
  OBVIOUS
<1>0. ASSUME NEW r \in Requests, requests[r].stage # "none" PROVE DOMAIN requests[r].facts = FactFields
  BY <1>0 DEF GuardInv, RequestShape
<1>1. ASSUME NEW r \in Requests, NEW facts \in Raised, Route(r, facts) PROVE GuardInv'
  <2>0. DOMAIN facts = FactFields
    BY RaisedAreRequests
  <2>1. CASE facts.worker
    BY <1>1, <2>0, <2>1, WellSent DEF Route, Put
  <2>2. CASE ~facts.worker
    <3>1. PICK stage \in {"aborted", "reading"} : Put(r, stage, facts) /\ UNCHANGED <<sent, answers, stop>>
      BY <1>1, <2>2 DEF Route, Abort
    <3> QED
      BY <2>0, <3>1, NothingSent DEF Put, Beyond
  <2> QED
    BY <2>1, <2>2
<1>2. ASSUME NEW r \in Requests, Judge(r) PROVE GuardInv'
  <2> DEFINE asked == requests[r].facts
  <2>0. DOMAIN asked = FactFields
    BY <1>0, <1>2 DEF Judge
  <2>1. PICK seen \in Readings(asked) :
           LET facts == [asked EXCEPT !.page = seen]
           IN  /\ stop' = StopAfter(facts)
               /\ IF ~Admit(facts) THEN Abort(r, asked)
                  ELSE /\ Put(r, IF asked.topLevel THEN "serving" ELSE "left", asked)
                       /\ Log(facts, "route")
    BY <1>2 DEF Judge
  <2> DEFINE facts == [asked EXCEPT !.page = seen]
  <2>2. answers' = answers
    BY <1>2 DEF Judge
  <2>3. Continues(asked, facts) /\ facts.worker = asked.worker
    BY <2>0, PageRead
  <2>4. CASE Admit(facts)
    <3>1. stop' = stop
      BY <2>1, <2>4 DEF Admit, StopAfter
    <3>2. Put(r, IF asked.topLevel THEN "serving" ELSE "left", asked) /\ Log(facts, "route")
      BY <2>1, <2>4
    <3> HIDE DEF facts, asked
    <3> QED
      BY <2>0, <2>2, <2>3, <2>4, <3>1, <3>2, WellSent DEF Put, asked
  <2>5. CASE ~Admit(facts)
    <3>1. stop # NoStop => stop' # NoStop
      BY <2>1, OffLaneStops
    <3>2. /\ requests' = [requests EXCEPT ![r] = [stage |-> "aborted", hops |-> requests[r].hops, facts |-> asked]]
          /\ sent' = sent /\ "aborted" \notin Beyond
      BY <2>1, <2>5 DEF Abort, Put, Beyond
    <3> HIDE DEF facts, asked
    <3> QED
      BY <2>0, <2>2, <3>1, <3>2, NothingSent
  <2> QED
    BY <2>4, <2>5
<1>3. ASSUME NEW r \in Requests, Dropped(r) PROVE GuardInv'
  <2>1. DOMAIN requests[r].facts = FactFields
    BY <1>0, <1>3 DEF Dropped
  <2>2. /\ requests' = [requests EXCEPT ![r] =
              [stage |-> "aborted", hops |-> requests[r].hops, facts |-> requests[r].facts]]
        /\ UNCHANGED <<answers, sent, stop>> /\ "aborted" \notin Beyond
    BY <1>3 DEF Dropped, Abort, Put, Beyond
  <2> QED
    BY <2>1, <2>2, NothingSent
<1>4. ASSUME NEW r \in Requests, Served(r) PROVE GuardInv'
  <2>1. DOMAIN requests[r].facts = FactFields /\ requests[r].stage \in Beyond
    BY <1>0, <1>4 DEF Served, Beyond
  <2> QED
    BY <1>4, <2>1, NothingSent DEF Served, Put
<1>5. ASSUME NEW r \in Requests, NEW url \in Targets, Redirected(r, url) PROVE GuardInv'
  <2> DEFINE hop == Hop(requests[r].facts, url)
             next == [hop EXCEPT !.redirected = FALSE]
  <2>1. DOMAIN requests[r].facts = FactFields
    BY <1>0, <1>5 DEF Redirected
  <2>2. DOMAIN next = FactFields
    BY <2>1, HopFacts
  <2>3. stop # NoStop => stop' # NoStop
    BY <1>5, OffLaneStops DEF Redirected
  <2>4. PICK stage \in {"reading", "aborted"} :
           requests' = [requests EXCEPT ![r] = [stage |-> stage, hops |-> requests[r].hops + 1, facts |-> next]]
    BY <1>5 DEF Redirected
  <2>5. sent' = sent /\ answers' = answers /\ stage \notin Beyond
    BY <1>5 DEF Redirected, Beyond
  <2> HIDE DEF next
  <2> QED
    BY <2>2, <2>3, <2>4, <2>5, NothingSent
<1>6. ASSUME NEW r \in Requests, NEW url \in Targets, FollowedHop(r, url) PROVE GuardInv'
  <2>1. PICK hop \in FollowUps(requests[r].facts, url) :
           GoesOn(r, hop) /\ stop' = StopAfter([hop EXCEPT !.contentType = "none", !.body = <<>>])
    BY <1>6 DEF FollowedHop
  <2> DEFINE heard == [hop EXCEPT !.contentType = "none", !.body = <<>>]
  <2>2. DOMAIN hop = FactFields
    BY <1>0, <1>6, HopContinues DEF FollowedHop
  <2>3. InLane(heard) <=> InLane(hop)
    BY <2>2 DEF FactFields, InLane
  <2>4. (stop # NoStop => stop' # NoStop) /\ (InLane(hop) \/ stop' # NoStop)
    BY <2>1, <2>3, OffLaneStops
  <2>5. answers' = answers
    BY <1>6 DEF FollowedHop
  <2> QED
    BY <2>1, <2>4, <2>5, Followed
<1>7. ASSUME NEW r \in Requests, NEW url \in Targets, FollowedUnseen(r, url) PROVE GuardInv'
  <2>1. PICK hop \in FollowUps(requests[r].facts, url) : GoesOn(r, hop)
    BY <1>7 DEF FollowedUnseen
  <2>2. hop.topLevel = requests[r].facts.topLevel
    BY <1>0, <1>7, HopContinues DEF FollowedUnseen
  <2>3. InLane(hop) /\ stop' = stop /\ answers' = answers
    BY <1>7, <2>2 DEF FollowedUnseen, InLane
  <2> QED
    BY <2>1, <2>3, Followed
<1>8. CASE RequestContext \/ BodySettles \/ Conclude \/ Release
  <2>1. UNCHANGED <<requests, sent, answers>>
    BY <1>8 DEF RequestContext, BodySettles, Conclude, Release
  <2>2. stop # NoStop => stop' # NoStop
    BY <1>8 DEF RequestContext, BodySettles, Conclude, Release
  <2> QED
    BY <2>1, <2>2, NothingSent
<1>9. CASE UNCHANGED guardVars
  BY <1>9, NothingSent DEF guardVars
<1> QED
  BY <1>1, <1>2, <1>3, <1>4, <1>5, <1>6, <1>7, <1>8, <1>9 DEF GuardNext

\* For any requests, hops and answers: what the handler lets go on is in the lane,
\* a payment only on an affirmative answer to that very submission, and nothing once
\* a stop stands; what the browser follows on its own, service workers' requests
\* aside, ends the session when it is a navigation off the lane, and has no body
\* but one the handler let go on.
THEOREM NothingOutsideThePolicy == GuardSpec => []SentWithinPolicy
<1>1. GuardInit => GuardInv
  <2> SUFFICES ASSUME GuardInit PROVE GuardInv
    OBVIOUS
  <2>1. Departed = {} /\ Admitted = {}
    BY DEF GuardInit, Departed, Admitted
  <2>2. \A r \in Requests : requests[r].stage = "none"
    BY DEF GuardInit, Unsent
  <2>3. RequestShape /\ LeftDescends
    BY <2>2 DEF GuardInit, RequestShape, LeftDescends, Beyond
  <2> QED
    BY <2>1, <2>3 DEF GuardInv, SentWithinPolicy, NothingNewAfterStop, LaneKept, PaymentsConfirmed,
                      HopsAreCaught, HopsHaveOrigins
<1>2. GuardInv => SentWithinPolicy
  BY DEF GuardInv
<1> QED
  BY <1>1, <1>2, GuardStep, PTL DEF GuardSpec

\* The stop a run ends with is the first one its guard raised: a later one, on
\* another request or another hop, never takes its place.
THEOREM TheFirstStopWins == GuardSpec => StopWins
<1>1. ASSUME [GuardNext]_guardVars
      PROVE  /\ stop # NoStop => stop' = stop
             /\ (stop # NoStop /\ result = Pending /\ result' # Pending) =>
                   result'.kind = "lost" \/ result' = [kind |-> "stopped", stop |-> stop]
  <2>1. ASSUME NEW r \in Requests, NEW facts \in Raised, Route(r, facts)
        PROVE  stop' = stop /\ result' = result
    BY <2>1 DEF Route
  <2>2. ASSUME NEW r \in Requests, Judge(r)
        PROVE  (stop # NoStop => stop' = stop) /\ result' = result
    BY <2>2 DEF Judge, StopAfter
  <2>3. ASSUME NEW r \in Requests, Dropped(r) \/ Served(r)
        PROVE  stop' = stop /\ result' = result
    BY <2>3 DEF Dropped, Served
  <2>4. ASSUME NEW r \in Requests, NEW url \in Targets, Redirected(r, url)
        PROVE  (stop # NoStop => stop' = stop) /\ result' = result
    BY <2>4 DEF Redirected, StopAfter
  <2>5. ASSUME NEW r \in Requests, NEW url \in Targets, FollowedHop(r, url) \/ FollowedUnseen(r, url)
        PROVE  (stop # NoStop => stop' = stop) /\ result' = result
    BY <2>5 DEF FollowedHop, FollowedUnseen, StopAfter
  <2>6. CASE RequestContext \/ BodySettles
    BY <2>6 DEF RequestContext, BodySettles
  <2>7. CASE Conclude
    BY <2>7 DEF Conclude, Verdict
  <2>8. CASE Release
    BY <2>8 DEF Release, Pending
  <2>9. CASE UNCHANGED guardVars
    BY <2>9 DEF guardVars
  <2> QED
    BY <1>1, <2>1, <2>2, <2>3, <2>4, <2>5, <2>6, <2>7, <2>8, <2>9 DEF GuardNext
<1> QED
  BY <1>1, PTL DEF GuardSpec, StopWins

--------------------------------------------------------------------------------
(* The agentic runner: its budgets (agentic/runner.ts, budget.ts). *)

ChargingShape == [stage : {"charging"}, usage : Nat, uses : Nat, refusal : BOOLEAN]
ToolsShape == [stage : {"tools"}, left : Nat \ {0}]

AgentShape ==
  /\ \/ agent.stage \in {"resting", "ended", "turn", "asking", "waiting"}
     \/ agent \in ChargingShape
     \/ agent \in ToolsShape
  /\ ledger \in [toolCalls : Nat, tokens : Nat, elapsed : Nat]
  /\ clock \in Nat /\ total \in Nat /\ rowUsage \in Nat /\ violations \in Nat
  /\ spent \in Nat /\ unrecorded \in Nat /\ turns \in Nat /\ lastUsage \in Nat /\ lastStart \in Nat

\* What is left of the budgets at each stage of a run, and what an answer that
\* has not been charged for yet may still take.
Paced ==
  /\ total = rowUsage
  /\ agent.stage \in {"turn", "asking", "waiting"} => turns <= ledger.toolCalls
  /\ agent.stage \in {"charging", "tools"} => turns <= ledger.toolCalls + 1
  /\ agent.stage \in {"asking", "waiting", "charging"} => ledger.toolCalls < MaxToolCalls
  /\ agent.stage \in {"turn", "asking", "waiting", "charging", "tools"} => ledger.tokens < MaxTokens
  /\ agent.stage = "charging" => lastUsage = agent.usage

AgentInv == AgentShape /\ Paced /\ AgentWithinMeans

\* A check that finds nothing used up.
LEMMA WithinBudgets ==
  ASSUME NEW l, NEW about, CheckBudgets(l, about) = "none"
  PROVE  /\ ~(l.elapsed >= MaxWall) /\ ~(l.tokens >= MaxTokens)
         /\ about # "tokens" => ~(l.toolCalls >= MaxToolCalls)
BY DEF CheckBudgets

\* What one charge does to the run's ledger.
LEMMA Charged ==
  ASSUME NEW l \in [toolCalls : Nat, tokens : Nat, elapsed : Nat], NEW tokens \in Nat, NEW now \in Nat
  PROVE  /\ [l EXCEPT !.tokens = tokens, !.elapsed = now] \in [toolCalls : Nat, tokens : Nat, elapsed : Nat]
         /\ [l EXCEPT !.tokens = tokens, !.elapsed = now].toolCalls = l.toolCalls
         /\ [l EXCEPT !.tokens = tokens, !.elapsed = now].tokens = tokens
OBVIOUS

\* Every step of the loop, and a death between an answer and its charge, keeps the
\* invariant.
LEMMA AgentStep == AgentInv /\ [AgentNext]_agentVars => AgentInv'
<1> SUFFICES ASSUME AgentInv, [AgentNext]_agentVars PROVE AgentInv'
  OBVIOUS
<1> USE AgentBudgets
<1>0. /\ ledger.toolCalls \in Nat /\ ledger.tokens \in Nat /\ ledger.elapsed \in Nat
      /\ ledger = [toolCalls |-> ledger.toolCalls, tokens |-> ledger.tokens, elapsed |-> ledger.elapsed]
      /\ clock \in Nat /\ total \in Nat /\ rowUsage \in Nat /\ violations \in Nat
      /\ spent \in Nat /\ unrecorded \in Nat /\ turns \in Nat /\ lastUsage \in Nat /\ lastStart \in Nat
      /\ turns <= MaxToolCalls /\ ledger.toolCalls <= MaxToolCalls
      /\ total = rowUsage
      /\ agent.stage # "charging" => ledger.tokens < MaxTokens + lastUsage
      /\ lastStart < MaxWall
      /\ spent = rowUsage + unrecorded + IF agent.stage = "charging" THEN agent.usage ELSE 0
  BY DEF AgentInv, AgentShape, Paced, AgentWithinMeans
<1>p. Paced
  BY DEF AgentInv
<1>g. agent.stage = "charging" => agent \in ChargingShape
  BY DEF AgentInv, AgentShape, ToolsShape
<1>t. agent.stage = "tools" => agent \in ToolsShape
  BY DEF AgentInv, AgentShape, ChargingShape
\* A step that only takes time, or ends the run.
<1>e. ASSUME agent.stage # "charging", agent'.stage \in {"resting", "ended"},
             UNCHANGED <<total, rowUsage, spent, unrecorded, turns, lastUsage>>, 
             ledger' \in [toolCalls : Nat, tokens : Nat, elapsed : Nat],
             ledger'.toolCalls = ledger.toolCalls, ledger'.tokens = ledger.tokens,
             clock' \in Nat, violations' \in Nat, lastStart' \in Nat, lastStart' < MaxWall
      PROVE  AgentInv'
  BY <1>0, <1>e DEF AgentInv, AgentShape, Paced, AgentWithinMeans
<1>1. CASE BeginRun
  <2>1. agent'.stage \in {"turn", "ended"} /\ agent.stage \in {"resting", "ended"}
    BY <1>1 DEF BeginRun, Ends
  <2>2. /\ ledger' = NothingSpent /\ clock' = 0 /\ violations' = 0 /\ total' = rowUsage
        /\ turns' = 0 /\ lastUsage' = 0 /\ lastStart' = 0
        /\ UNCHANGED <<rowUsage, spent, unrecorded>>
    BY <1>1 DEF BeginRun
  <2>3. ledger' \in [toolCalls : Nat, tokens : Nat, elapsed : Nat] /\ ledger'.toolCalls = 0 /\ ledger'.tokens = 0
    BY <2>2 DEF NothingSpent
  <2> QED
    BY <1>0, <2>1, <2>2, <2>3 DEF AgentInv, AgentShape, Paced, AgentWithinMeans
<1>2. CASE BeforeTurn
  <2>1. /\ agent.stage = "turn" /\ ledger' = [ledger EXCEPT !.elapsed = clock]
        /\ UNCHANGED <<clock, total, rowUsage, violations, spent, unrecorded, turns, lastUsage, lastStart>>
    BY <1>2 DEF BeforeTurn
  <2>2. /\ ledger' \in [toolCalls : Nat, tokens : Nat, elapsed : Nat]
        /\ ledger'.toolCalls = ledger.toolCalls /\ ledger'.tokens = ledger.tokens
    BY <1>0, <2>1
  <2>3. CASE CheckBudgets(ledger', "turn") # "none"
    <3>1. agent'.stage = "ended"
      BY <1>2, <2>3 DEF BeforeTurn, Ends
    <3> QED
      BY <1>0, <1>e, <2>1, <2>2, <3>1
  <2>4. CASE CheckBudgets(ledger', "turn") = "none"
    <3>1. agent'.stage = "asking"
      BY <1>2, <2>4 DEF BeforeTurn
    <3>2. ledger.toolCalls < MaxToolCalls
      <4>1. ~(ledger'.toolCalls >= MaxToolCalls)
        BY <2>4, WithinBudgets
      <4> QED
        BY <1>0, <2>2, <4>1
    <3> QED
      BY <1>0, <1>p, <2>1, <2>2, <3>1, <3>2 DEF AgentInv, AgentShape, Paced, AgentWithinMeans
  <2> QED
    BY <2>3, <2>4
<1>3. CASE Call
  <2>1. /\ agent.stage = "asking" /\ lastStart' = clock /\ Remaining > 0
        /\ UNCHANGED <<ledger, total, rowUsage, violations, unrecorded>>
    BY <1>3 DEF Call
  <2>2. clock < MaxWall /\ clock' \in Nat
    <3>1. clock < MaxWall
      BY <1>0, <2>1 DEF Remaining
    <3>2. Remaining \in Nat
      BY <1>0, <3>1 DEF Remaining
    <3>3. PICK d \in 0..(IF Remaining > 1 THEN Remaining ELSE 1) : clock' = clock + d
      BY <1>3 DEF Call, Passes
    <3> QED
      BY <1>0, <3>1, <3>2, <3>3
  <2>3. ASSUME NEW usage \in Usages, NEW uses \in 0..MaxUses, NEW refusal \in BOOLEAN,
               agent' = [stage |-> "charging", usage |-> usage, uses |-> uses, refusal |-> refusal],
               spent' = spent + usage, lastUsage' = usage, turns' = turns + 1
        PROVE  AgentInv'
    <3>1. agent' \in ChargingShape /\ agent'.stage = "charging" /\ agent'.usage = usage /\ usage \in Nat
      BY <2>3 DEF ChargingShape
    <3>2. AgentShape'
      BY <1>0, <2>1, <2>2, <2>3, <3>1 DEF AgentShape
    <3>3. Paced'
      BY <1>0, <1>p, <2>1, <2>2, <2>3, <3>1 DEF Paced
    <3>4. AgentWithinMeans'
      BY <1>0, <1>p, <2>1, <2>2, <2>3, <3>1 DEF AgentWithinMeans, Paced
    <3> QED
      BY <3>2, <3>3, <3>4 DEF AgentInv
  <2>4. ASSUME agent'.stage \in {"ended", "waiting"}, UNCHANGED <<spent, turns, lastUsage>> PROVE AgentInv'
    BY <1>0, <1>p, <2>1, <2>2, <2>4 DEF AgentInv, AgentShape, Paced, AgentWithinMeans
  <2>5. \/ \E usage \in Usages, uses \in 0..MaxUses, refusal \in BOOLEAN :
             /\ agent' = [stage |-> "charging", usage |-> usage, uses |-> uses, refusal |-> refusal]
             /\ spent' = spent + usage /\ lastUsage' = usage
             /\ turns' = turns + 1
        \/ agent'.stage \in {"ended", "waiting"} /\ UNCHANGED <<spent, turns, lastUsage>>
    BY <1>3 DEF Call, Ends
  <2> QED
    BY <2>3, <2>4, <2>5
<1>4. CASE OutOfTime
  <2>1. agent'.stage = "ended" /\ agent.stage # "charging"
    BY <1>4 DEF OutOfTime, Ends
  <2> QED
    BY <1>0, <1>4, <1>e, <2>1 DEF OutOfTime
<1>5. CASE Backoff
  <2>1. /\ agent.stage = "waiting" /\ agent'.stage = "asking" /\ Remaining > 0
        /\ UNCHANGED <<ledger, total, rowUsage, violations, spent, unrecorded, turns, lastUsage, lastStart>>
    BY <1>5 DEF Backoff
  <2>2. clock' \in Nat
    <3>1. Remaining \in Nat
      BY <1>0 DEF Remaining
    <3>2. PICK d \in 0..Remaining : clock' = clock + d
      BY <1>5 DEF Backoff, Passes
    <3> QED
      BY <1>0, <3>1, <3>2
  <2> QED
    BY <1>0, <1>p, <2>1, <2>2 DEF AgentInv, AgentShape, Paced, AgentWithinMeans
<1>6. CASE Charge
  <2> DEFINE charged == [ledger EXCEPT !.tokens = @ + agent.usage, !.elapsed = clock]
             dumb == CheckBudgets(charged, "tokens") = "none" /\ ~agent.refusal /\ agent.uses = 0
  <2>1. /\ agent.stage = "charging" /\ total' = total + agent.usage /\ rowUsage' = total + agent.usage
        /\ ledger' = IF dumb THEN [charged EXCEPT !.toolCalls = @ + 1] ELSE charged
        /\ UNCHANGED <<clock, violations, spent, unrecorded, turns, lastUsage, lastStart>>
    BY <1>6 DEF Charge
  <2>2. agent.usage \in Nat /\ agent.uses \in Nat /\ lastUsage = agent.usage
    BY <1>g, <1>p, <2>1 DEF ChargingShape, Paced
  <2>3. /\ charged \in [toolCalls : Nat, tokens : Nat, elapsed : Nat]
        /\ charged.toolCalls = ledger.toolCalls /\ charged.tokens = ledger.tokens + agent.usage
    <3>1. ledger \in [toolCalls : Nat, tokens : Nat, elapsed : Nat]
      BY DEF AgentInv, AgentShape
    <3>2. ledger.tokens + agent.usage \in Nat
      BY <1>0, <2>2
    <3> QED
      BY <1>0, <3>1, <3>2, Charged
  <2>4. /\ ledger' \in [toolCalls : Nat, tokens : Nat, elapsed : Nat]
        /\ ledger'.tokens = ledger.tokens + agent.usage
        /\ dumb => ledger'.toolCalls = ledger.toolCalls + 1
        /\ ~dumb => ledger'.toolCalls = ledger.toolCalls
    <3> HIDE DEF charged, dumb
    <3>1. CASE dumb
      <4>1. ledger' = [toolCalls |-> charged.toolCalls + 1, tokens |-> charged.tokens, elapsed |-> charged.elapsed]
        BY <2>1, <2>3, <3>1
      <4> QED
        BY <1>0, <2>3, <3>1, <4>1
    <3>2. CASE ~dumb
      BY <2>1, <2>3, <3>2
    <3> QED
      BY <3>1, <3>2
  <2>5. CheckBudgets(charged, "tokens") = "none" => ledger.tokens + agent.usage < MaxTokens
    <3>1. CheckBudgets(charged, "tokens") = "none" => ~(charged.tokens >= MaxTokens)
      BY WithinBudgets
    <3> QED
      BY <1>0, <2>2, <2>3, <3>1
  <2>6. /\ ledger.toolCalls < MaxToolCalls /\ ledger.tokens < MaxTokens
        /\ turns <= ledger.toolCalls + 1 /\ spent = rowUsage + unrecorded + agent.usage
    BY <1>0, <1>p, <2>1 DEF Paced
  <2>7. \/ agent'.stage = "ended"
        \/ /\ CheckBudgets(charged, "tokens") = "none" /\ dumb
           /\ agent'.stage = "turn"
        \/ /\ CheckBudgets(charged, "tokens") = "none" /\ ~dumb
           /\ agent' = [stage |-> "tools", left |-> agent.uses] /\ agent.uses # 0
    BY <1>6 DEF Charge, Ends
  <2> HIDE DEF charged, dumb
  <2>8. CASE agent'.stage = "ended"
    BY <1>0, <2>1, <2>2, <2>4, <2>6, <2>8 DEF AgentInv, AgentShape, Paced, AgentWithinMeans
  <2>9. CASE CheckBudgets(charged, "tokens") = "none" /\ dumb /\ agent'.stage = "turn"
    BY <1>0, <2>1, <2>2, <2>4, <2>5, <2>6, <2>9 DEF AgentInv, AgentShape, Paced, AgentWithinMeans
  <2>10. CASE /\ CheckBudgets(charged, "tokens") = "none" /\ ~dumb
              /\ agent' = [stage |-> "tools", left |-> agent.uses] /\ agent.uses # 0
    <3>1. agent' \in ToolsShape /\ agent'.stage = "tools"
      BY <2>2, <2>10 DEF ToolsShape
    <3> QED
      BY <1>0, <2>1, <2>2, <2>4, <2>5, <2>6, <2>10, <3>1 DEF AgentInv, AgentShape, Paced, AgentWithinMeans
  <2> QED
    BY <2>7, <2>8, <2>9, <2>10
<1>7. CASE Tool
  <2> DEFINE checked == [ledger EXCEPT !.elapsed = clock]
  <2>1. agent.stage = "tools" /\ UNCHANGED <<total, rowUsage, spent, unrecorded, turns, lastUsage>>
    BY <1>7 DEF Tool
  <2>2. /\ checked \in [toolCalls : Nat, tokens : Nat, elapsed : Nat]
        /\ checked.toolCalls = ledger.toolCalls /\ checked.tokens = ledger.tokens /\ checked.elapsed = clock
    BY <1>0
  <2>3. CASE CheckBudgets(checked, "tool") # "none"
    <3>1. agent'.stage = "ended" /\ ledger' = checked /\ UNCHANGED <<clock, violations, lastStart>>
      BY <1>7, <2>3 DEF Tool, Ends
    <3> QED
      BY <1>0, <1>e, <2>1, <2>2, <3>1
  <2>4. CASE CheckBudgets(checked, "tool") = "none"
    <3>1. clock < MaxWall /\ ledger.toolCalls < MaxToolCalls
      BY <1>0, <2>2, <2>4, WithinBudgets
    <3>2. PICK said \in {"ok", "error", "ask", "outcome", "payment", "allowlist"} :
             /\ violations' = violations + IF said = "allowlist" THEN 1 ELSE 0
             /\ AfterTool(said)
      BY <1>7, <2>4 DEF Tool
    <3>3. /\ ledger' = [checked EXCEPT !.toolCalls = @ + 1] /\ lastStart' = clock
          /\ \E d \in 0..1 : clock' = clock + d
      BY <1>7, <2>4 DEF Tool, Passes
    <3>4. /\ clock' \in Nat /\ violations' \in Nat
      BY <1>0, <3>2, <3>3
    <3>5. /\ ledger' \in [toolCalls : Nat, tokens : Nat, elapsed : Nat]
          /\ ledger'.toolCalls = ledger.toolCalls + 1 /\ ledger'.tokens = ledger.tokens
      <4> HIDE DEF checked
      <4>1. ledger' = [toolCalls |-> checked.toolCalls + 1, tokens |-> checked.tokens, elapsed |-> checked.elapsed]
        BY <2>2, <3>3
      <4> QED
        BY <1>0, <2>2, <4>1
    <3>6. agent \in ToolsShape
      BY <1>t, <2>1
    <3>7. agent'.stage \in {"ended", "turn"} \/ (agent' \in ToolsShape /\ agent'.stage = "tools")
      <4>1. CASE agent' = IF agent.left = 1 THEN [stage |-> "turn"] ELSE [agent EXCEPT !.left = @ - 1]
        <5>1. CASE agent.left = 1
          BY <4>1, <5>1
        <5>2. CASE agent.left # 1
          <6>1. agent' = [stage |-> "tools", left |-> agent.left - 1] /\ agent.left - 1 \in Nat \ {0}
            BY <3>6, <4>1, <5>2 DEF ToolsShape
          <6> QED
            BY <6>1 DEF ToolsShape
        <5> QED
          BY <5>1, <5>2
      <4>2. CASE agent'.stage = "ended"
        BY <4>2
      <4>3. ASSUME NEW outcome, Ends(outcome) PROVE agent'.stage = "ended"
        BY <4>3 DEF Ends
      <4> QED
        BY <3>2, <4>1, <4>2, <4>3 DEF AfterTool
    <3>8. turns <= ledger.toolCalls + 1 /\ ledger.tokens < MaxTokens
      BY <1>p, <2>1 DEF Paced
    <3> QED
      BY <1>0, <2>1, <3>1, <3>3, <3>4, <3>5, <3>7, <3>8 DEF AgentInv, AgentShape, Paced, AgentWithinMeans
  <2> QED
    BY <2>3, <2>4
<1>8. CASE AgentDies
  <2>1. /\ agent'.stage \in {"resting", "ended"}
        /\ unrecorded' = unrecorded + IF agent.stage = "charging" THEN agent.usage ELSE 0
        /\ UNCHANGED <<ledger, clock, total, rowUsage, violations, spent, turns, lastUsage, lastStart>>
    BY <1>8 DEF AgentDies, Ends, Resting
  <2>2. agent.stage = "charging" => agent.usage \in Nat /\ ledger.tokens < MaxTokens
    BY <1>g, <1>p DEF ChargingShape, Paced
  <2> QED
    BY <1>0, <2>1, <2>2 DEF AgentInv, AgentShape, Paced, AgentWithinMeans
<1>9. CASE UNCHANGED agentVars
  BY <1>9 DEF agentVars, AgentInv, AgentShape, Paced, AgentWithinMeans
<1> QED
  BY <1>1, <1>2, <1>3, <1>4, <1>5, <1>6, <1>7, <1>8, <1>9 DEF AgentNext

\* For any budgets and any answers of the model: a run never puts more turns to the
\* model than its tool calls allow, overspends its tokens by less than the one
\* answer that exhausts them, begins no turn past its time, and the row's usage
\* misses exactly what died unrecorded.
THEOREM WithinMeans == AgentSpec => []AgentWithinMeans
<1>1. AgentInit => AgentInv
  BY AgentBudgets DEF AgentInit, AgentInv, AgentShape, Paced, AgentWithinMeans, Resting, NothingSpent
<1>2. AgentInv => AgentWithinMeans
  BY DEF AgentInv
<1> QED
  BY <1>1, <1>2, AgentStep, PTL DEF AgentSpec

--------------------------------------------------------------------------------
(* The playbooks: what the person hears and what the site did (fakegym, fakedmv). *)

Gym == [site |-> "gym", kind |-> "cancel", access |-> "connection",
        steps |-> <<"login", "retention", "are-you-sure", "confirmation-code">>]
Dmv == [site |-> "dmv", kind |-> "book_slot", access |-> "open",
        steps |-> <<"availability", "confirm", "book">>]

\* What the task asked of the site.
Goal == IF task.site = "gym" THEN site.member = "cancelled" ELSE site.ours

\* The person said yes, or the watch did in their name.
Permitted == task.autoBook \/ replies["confirm"] = "right"

SiteShape ==
  site \in [mode : {"normal", "blocked", "redesign"}, member : {"active", "cancelled"}, progress : Nat,
            slot : {"open", "taken"}, ours : BOOLEAN, transient : BOOLEAN]

StepShape(r) ==
  r = [stage |-> "step", at |-> r.at, page |-> r.page, playbook |-> r.playbook, profile |-> r.profile]

SaidShape(r) ==
  r = [stage |-> "said", said |-> r.said, at |-> r.at, page |-> r.page, playbook |-> r.playbook, profile |-> r.profile]

PlaybookShape ==
  /\ replies \in [Questions -> {"none", "right", "wrong"}]
  /\ connection \in [status : {"none", "connected", "expired"}, profile : Nat]
  /\ alive \subseteq 1..connection.profile
  /\ SiteShape /\ deafened \in BOOLEAN
  /\ run.stage \in {"idle", "access", "step", "said", "returned"}
  /\ run.stage = "idle" => run = Idle
  /\ run.stage = "step" => StepShape(run)
  /\ run.stage = "said" => SaidShape(run)

\* A run goes on only while its task's row says so.
OneAtATime ==
  /\ run.stage # "idle" => status.is = "running"
  /\ task = NoTask => status.is = "none" /\ run = Idle /\ ~site.ours
  /\ status.is = "parked" => status.question \in Questions /\ replies[status.question] = "none"

\* A run follows the playbook of its task's site.
Follows ==
  /\ run.stage \in {"access", "step", "said"} => run.playbook \in {Gym, Dmv} /\ run.playbook.site = task.site
  /\ run.stage \in {"step", "said"} =>
       /\ run.at \in 1..Len(run.playbook.steps)
       /\ run.profile \in Nat /\ run.profile <= connection.profile

LastStep == run.at = Len(run.playbook.steps)

\* Past the question of whether to book only what was permitted goes on.
PastTheQuestion ==
  run.stage \in {"step", "said"} /\ run.playbook = Dmv =>
    ((run.at = 3 \/ (run.at = 2 /\ run.stage = "said" /\ run.said.kind = "done")) => Permitted)

\* What a step says, while nobody has acted on it.
SaidWell(said) ==
  /\ said.kind \in {"done", "ask", "failed", "refused", "stopped"}
  /\ said.kind = "ask" => said.question \in Questions /\ replies[said.question] = "none"
  /\ Expires(said) => run.profile \notin alive

ReturnedWell(outcome) ==
  /\ outcome.kind \in {"succeeded", "failed", "ask"}
  /\ outcome.kind = "ask" => outcome.question \in Questions /\ replies[outcome.question] = "none"
  /\ outcome.kind = "succeeded" => Goal

\* What the site has done, somebody is about to hear of, or has missed.
Heeded ==
  Acted => \/ deafened
           \/ run.stage = "said" /\ run.said.kind = "done" /\ LastStep
           \/ run.stage = "returned" /\ run.outcome.kind = "succeeded"
           \/ status.is = "succeeded"

PlaybookInv ==
  /\ PlaybookShape /\ OneAtATime /\ Follows /\ PastTheQuestion /\ Heeded
  /\ run.stage = "said" => SaidWell(run.said) /\ (run.said.kind = "done" /\ LastStep => Goal)
  /\ run.stage = "returned" => ReturnedWell(run.outcome)
  /\ status.is = "succeeded" => Goal
  /\ site.ours => Permitted
  /\ ExpiryIsEarned /\ (connection.status = "expired" => expiredBy <= connection.profile)
  /\ expiredBy \in Nat

\* The registry holds the two playbooks, no two for one site.
LEMMA TwoPlaybooks == Registry = {Gym, Dmv} /\ Len(Gym.steps) = 4 /\ Len(Dmv.steps) = 3 /\ Gym # Dmv
<1>1. Gym.site = "gym" /\ Dmv.site = "dmv"
  BY DEF Gym, Dmv
<1>2. Len(<<"login", "retention", "are-you-sure", "confirmation-code">>) = 4 /\ Len(<<"availability", "confirm", "book">>) = 3
  OBVIOUS
<1> QED
  BY <1>1, <1>2 DEF Registry, Gym, Dmv

\* What their steps are.
LEMMA Steps ==
  /\ Gym.steps[1] = "login" /\ Gym.steps[2] = "retention" /\ Gym.steps[3] = "are-you-sure" /\ Gym.steps[4] = "confirmation-code"
  /\ Dmv.steps[1] = "availability" /\ Dmv.steps[2] = "confirm" /\ Dmv.steps[3] = "book"
  /\ Gym.site = "gym" /\ Dmv.site = "dmv"
BY DEF Gym, Dmv

\* The playbook a task gets is one of the registry, for the task's own site.
LEMMA Chosen ==
  ASSUME NEW t, ChoosePlaybook(t).kind = "chosen"
  PROVE  ChoosePlaybook(t).playbook \in {Gym, Dmv} /\ ChoosePlaybook(t).playbook.site = t.site
<1>1. Lookup(t.site, t.kind) # {} => (CHOOSE p \in Lookup(t.site, t.kind) : TRUE) \in Lookup(t.site, t.kind)
  OBVIOUS
<1>2. \A p \in Lookup(t.site, t.kind) : p \in {Gym, Dmv} /\ p.site = t.site
  BY TwoPlaybooks DEF Lookup
<1> DEFINE p == CHOOSE q \in Lookup(t.site, t.kind) : TRUE
<1>3. ChoosePlaybook(t) = [kind |-> "chosen", playbook |-> p] /\ Lookup(t.site, t.kind) # {}
  BY DEF ChoosePlaybook
<1> HIDE DEF p
<1> QED
  BY <1>1, <1>2, <1>3 DEF p

\* One step per action: those in the middle of a run through <1>r and <1>s, those of
\* the person's connection and of the sites through <1>o.
LEMMA PlaybookStep == PlaybookInv /\ [PlaybookNext]_playbookVars => PlaybookInv'
<1> SUFFICES ASSUME PlaybookInv, [PlaybookNext]_playbookVars PROVE PlaybookInv'
  OBVIOUS
<1>0. /\ PlaybookShape /\ OneAtATime /\ Follows /\ PastTheQuestion /\ Heeded
      /\ run.stage = "said" => SaidWell(run.said) /\ (run.said.kind = "done" /\ LastStep => Goal)
      /\ run.stage = "returned" => ReturnedWell(run.outcome)
      /\ status.is = "succeeded" => Goal
      /\ site.ours => Permitted
      /\ ExpiryIsEarned /\ (connection.status = "expired" => expiredBy <= connection.profile)
      /\ expiredBy \in Nat
  BY DEF PlaybookInv
<1>i. Idle.stage = "idle"
  BY DEF Idle
<1>1. CASE TaskComes
  <2>1. /\ task = NoTask /\ task' \in Tasks /\ status' = [is |-> "queued"] /\ status'.is = "queued"
        /\ UNCHANGED <<replies, run, runs, connection, alive, site, deafened, expiredBy>>
    BY <1>1 DEF TaskComes
  <2>2. run = Idle /\ run.stage = "idle" /\ ~site.ours /\ status.is = "none" /\ task' # NoTask
    BY <1>0, <1>i, <2>1, TasksCome DEF OneAtATime
  <2>3. PlaybookShape' /\ OneAtATime' /\ Follows' /\ PastTheQuestion'
    BY <1>0, <2>1, <2>2 DEF PlaybookShape, SiteShape, StepShape, SaidShape, OneAtATime, Follows, PastTheQuestion
  <2>4. Heeded' /\ ExpiryIsEarned'
    BY <1>0, <2>1, <2>2 DEF Heeded, Acted, ExpiryIsEarned
  <2> QED
    BY <1>0, <2>1, <2>2, <2>3, <2>4 DEF PlaybookInv
\* A step that leaves the person, the sites and the connection alone and gives
\* the run another stage than that of having said something.
<1>r. ASSUME UNCHANGED <<task, replies, connection, alive, site, expiredBy>>, task # NoTask,
             run'.stage \in {"idle", "access", "step", "returned"},
             run'.stage = "idle" => run' = Idle,
             run'.stage # "idle" => status'.is = "running",
             run'.stage = "access" => run'.playbook \in {Gym, Dmv} /\ run'.playbook.site = task.site,
             run'.stage = "step" =>
                /\ StepShape(run') /\ run'.playbook \in {Gym, Dmv} /\ run'.playbook.site = task.site
                /\ run'.at \in 1..Len(run'.playbook.steps)
                /\ run'.profile \in Nat /\ run'.profile <= connection.profile
                /\ (run'.playbook = Dmv /\ run'.at = 3 => Permitted),
             run'.stage = "returned" => ReturnedWell(run'.outcome),
             status'.is = "parked" => status'.question \in Questions /\ replies[status'.question] = "none",
             status'.is = "succeeded" => Goal,
             deafened' \in BOOLEAN,
             Acted => \/ deafened'
                      \/ run'.stage = "returned" /\ run'.outcome.kind = "succeeded"
                      \/ status'.is = "succeeded"
      PROVE  PlaybookInv'
  <2>1. PlaybookShape'
    BY <1>0, <1>r DEF PlaybookShape, SiteShape, StepShape
  <2>2. OneAtATime'
    BY <1>0, <1>r DEF OneAtATime
  <2>3. Follows' /\ PastTheQuestion'
    BY <1>0, <1>r DEF Follows, PastTheQuestion, Permitted
  <2>4. Heeded'
    BY <1>r DEF Heeded, Acted
  <2>5. (run.stage = "returned" => ReturnedWell(run.outcome))'
    BY <1>r DEF ReturnedWell, Goal
  <2>6. (status.is = "succeeded" => Goal)' /\ (site.ours => Permitted)'
    BY <1>0, <1>r DEF Goal, Permitted
  <2>7. ExpiryIsEarned' /\ (connection.status = "expired" => expiredBy <= connection.profile)' /\ expiredBy' \in Nat
    BY <1>0, <1>r DEF ExpiryIsEarned
  <2> QED
    BY <1>r, <2>1, <2>2, <2>3, <2>4, <2>5, <2>6, <2>7 DEF PlaybookInv
<1>n. run.stage # "idle" \/ status.is # "none" => task # NoTask
  BY <1>0, <1>i DEF OneAtATime
<1>f. ReturnedWell(Failed("error")) /\ Returned(Failed("error")).stage = "returned"
      /\ Returned(Failed("error")).outcome = Failed("error")
  BY DEF ReturnedWell, Failed, Returned
<1>h. Acted => \/ deafened
               \/ run.stage = "said" /\ run.said.kind = "done" /\ LastStep
               \/ run.stage = "returned" /\ run.outcome.kind = "succeeded"
               \/ status.is = "succeeded"
  BY <1>0 DEF Heeded
<1>2. CASE Start
  <2>1. /\ status.is = "queued" /\ run = Idle /\ status' = [is |-> "running"] /\ status'.is = "running"
        /\ UNCHANGED <<task, replies, connection, alive, site, deafened, expiredBy>>
    BY <1>2 DEF Start
  <2>2. task # NoTask /\ (Acted => deafened')
    BY <1>h, <1>i, <1>n, <2>1
  <2>3. CASE ChoosePlaybook(task).kind = "chosen"
    <3>1. run' = [stage |-> "access", playbook |-> ChoosePlaybook(task).playbook]
      BY <1>2, <2>3 DEF Start
    <3>2. run'.stage = "access" /\ run'.playbook \in {Gym, Dmv} /\ run'.playbook.site = task.site
      BY <2>3, <3>1, Chosen
    <3> QED
      BY <1>0, <1>r, <2>1, <2>2, <3>2 DEF PlaybookShape
  <2>4. CASE ChoosePlaybook(task).kind # "chosen"
    <3>1. run' = Returned(Failed("error"))
      BY <1>2, <2>4 DEF Start
    <3> QED
      BY <1>0, <1>f, <1>r, <2>1, <2>2, <3>1 DEF PlaybookShape
  <2> QED
    BY <2>3, <2>4
<1>3. CASE Access
  <2>1. run.stage = "access" /\ UNCHANGED <<task, status, replies, runs, connection, alive, site, deafened, expiredBy>>
    BY <1>3 DEF Access
  <2>2. task # NoTask /\ status.is = "running" /\ (Acted => deafened')
    BY <1>0, <1>h, <1>n, <2>1 DEF OneAtATime
  <2> DEFINE r == [stage |-> "step", at |-> 1, page |-> 2, playbook |-> run.playbook,
                   profile |-> IF run.playbook.access = "connection" THEN connection.profile ELSE 0]
  <2>3. run' = r \/ run' = Returned(Failed("error"))
    BY <1>3 DEF Access
  <2>4. CASE run' = r
    <3>1. /\ run'.stage = "step" /\ run'.at = 1 /\ run'.playbook = run.playbook /\ StepShape(run')
          /\ run'.profile \in {0, connection.profile}
      BY <2>4 DEF StepShape
    <3>2. connection.profile \in Nat
      BY <1>0 DEF PlaybookShape
    <3>3. run.playbook \in {Gym, Dmv} /\ run.playbook.site = task.site
      BY <1>0, <2>1 DEF Follows
    <3>4. 1 \in 1..Len(run.playbook.steps)
      <4>1. Len(run.playbook.steps) \in {3, 4}
        BY <3>3, TwoPlaybooks
      <4> QED
        BY <4>1
    <3>5. run'.profile \in Nat /\ run'.profile <= connection.profile
      BY <3>1, <3>2
    <3> QED
      BY <1>0, <1>r, <2>1, <2>2, <3>1, <3>3, <3>4, <3>5 DEF PlaybookShape
  <2>5. CASE run' = Returned(Failed("error"))
    BY <1>0, <1>f, <1>r, <2>1, <2>2, <2>5 DEF PlaybookShape
  <2> QED
    BY <2>3, <2>4, <2>5
\* A step of the playbook that speaks: what makes its words good.
<1>s. ASSUME NEW said, run.stage = "step", Says(said),
             SaidWell(said), SiteShape', site.member = "cancelled" => site'.member = "cancelled",
             said.kind = "done" /\ LastStep => Goal',
             Acted' => Acted \/ (said.kind = "done" /\ LastStep),
             site'.ours => site.ours \/ Permitted,
             run.playbook = Dmv /\ run.at = 2 /\ said.kind = "done" => Permitted
      PROVE  PlaybookInv'
  <2>1. /\ run'.stage = "said" /\ run'.said = said /\ run'.at = run.at /\ run'.playbook = run.playbook
        /\ run'.profile = run.profile /\ SaidShape(run')
        /\ UNCHANGED <<task, status, replies, runs, connection, alive, deafened, expiredBy>>
    BY <1>s DEF Says, SaidShape
  <2>2. status.is = "running" /\ task # NoTask
    BY <1>0, <1>n, <1>s DEF OneAtATime
  <2>3. PlaybookShape'
    BY <1>0, <1>s, <2>1 DEF PlaybookShape
  <2>4. OneAtATime'
    BY <2>1, <2>2 DEF OneAtATime
  <2>5. Follows'
    BY <1>0, <1>s, <2>1 DEF Follows
  <2>6. PastTheQuestion'
    BY <1>0, <1>s, <2>1 DEF PastTheQuestion, Permitted
  <2>7. Heeded'
    <3>1. Acted => deafened
      BY <1>h, <1>s, <2>2
    <3> QED
      BY <1>s, <2>1, <3>1 DEF Heeded, LastStep
  <2>8. (run.stage = "said" => SaidWell(run.said) /\ (run.said.kind = "done" /\ LastStep => Goal))'
    BY <1>s, <2>1 DEF SaidWell, LastStep, Expires
  <2>9. (site.ours => Permitted)'
    BY <1>0, <1>s, <2>1 DEF Permitted
  <2>10. ExpiryIsEarned' /\ (connection.status = "expired" => expiredBy <= connection.profile)' /\ expiredBy' \in Nat
    BY <1>0, <2>1 DEF ExpiryIsEarned
  <2> QED
    BY <2>1, <2>2, <2>3, <2>4, <2>5, <2>6, <2>7, <2>8, <2>9, <2>10 DEF PlaybookInv
<1>b. SaidWell(Done) /\ SaidWell(Broken) /\ SaidWell(Stopped) /\ SaidWell(Refused("slot-gone")) /\ SaidWell(Refused("not-confirmed"))
  BY DEF SaidWell, Done, Broken, Stopped, Refused, Expires
<1>k. /\ Done.kind = "done" /\ Broken.kind = "failed" /\ Stopped.kind = "stopped"
      /\ \A c : Refused(c).kind = "refused" /\ \A q : Asks(q).kind = "ask" /\ Asks(q).question = q
  BY DEF Done, Broken, Stopped, Refused, Asks
<1>q. \A q \in Questions : replies[q] = "none" => SaidWell(Asks(q))
  BY <1>k DEF SaidWell, Expires
<1>d. ASSUME NEW step, Doing(step)
      PROVE  /\ run.stage = "step" /\ run.playbook \in {Gym, Dmv} /\ run.playbook.steps[run.at] = step
             /\ run.playbook.site = task.site
             /\ run.playbook = Gym => run.at \in 1..4 /\ (LastStep <=> run.at = 4)
             /\ run.playbook = Dmv => run.at \in 1..3 /\ (LastStep <=> run.at = 3)
  BY <1>0, <1>d, TwoPlaybooks DEF Doing, Follows, LastStep
<1>a. \A n \in Nat : /\ Advanced(n).member = site.member /\ Advanced(n).ours = site.ours
                      /\ Advanced(n) \in [mode : {"normal", "blocked", "redesign"}, member : {"active", "cancelled"}, progress : Nat,
                                           slot : {"open", "taken"}, ours : BOOLEAN, transient : BOOLEAN]
  BY <1>0 DEF Advanced, PlaybookShape, SiteShape
<1>v. SiteShape /\ (site' = site => SiteShape' /\ (Acted' <=> Acted))
  BY <1>0 DEF PlaybookShape, SiteShape, Acted
<1>w. ASSUME NEW n \in Nat, site' = Advanced(n)
      PROVE  SiteShape' /\ (Acted' <=> Acted) /\ site'.member = site.member /\ site'.ours = site.ours
  BY <1>a, <1>w DEF SiteShape, Acted
<1>4. CASE Login
  <2>1. run.stage = "step" /\ run.playbook = Gym /\ ~LastStep
    BY <1>4, <1>d, Steps DEF Login
  <2>2. CASE Says(Broken) /\ UNCHANGED site
    BY <1>b, <1>k, <1>s, <1>v, <2>1, <2>2
  <2>3. CASE Says(Done) /\ site' = Advanced(0)
    BY <1>b, <1>k, <1>s, <1>w, <2>1, <2>3, TwoPlaybooks
  <2>4. CASE Says(IF run.profile \in alive THEN Done ELSE [kind |-> "failed", reconnect |-> TRUE]) /\ UNCHANGED site
    <3>1. CASE run.profile \in alive
      BY <1>b, <1>k, <1>s, <1>v, <2>1, <2>4, <3>1, TwoPlaybooks
    <3>2. CASE run.profile \notin alive
      <4> DEFINE dead == [kind |-> "failed", reconnect |-> TRUE]
      <4>1. SaidWell(dead) /\ dead.kind = "failed"
        BY <3>2 DEF SaidWell
      <4>2. Says(dead)
        BY <2>4, <3>2
      <4> HIDE DEF dead
      <4> QED
        BY <1>s, <1>v, <2>1, <2>4, <4>1, <4>2
    <3> QED
      BY <3>1, <3>2
  <2> QED
    BY <1>4, <2>2, <2>3, <2>4 DEF Login
<1>5. CASE Retention
  <2>1. run.stage = "step" /\ run.playbook = Gym /\ ~LastStep
    BY <1>5, <1>d, Steps DEF Retention
  <2>2. CASE (Says(Broken) \/ Says(Stopped)) /\ UNCHANGED site
    BY <1>b, <1>k, <1>s, <1>v, <2>1, <2>2
  <2>3. CASE Says(Done) /\ site' = Advanced(1)
    BY <1>b, <1>k, <1>s, <1>w, <2>1, <2>3, TwoPlaybooks
  <2> QED
    BY <1>5, <2>2, <2>3 DEF Retention
<1>6. CASE AreYouSure
  <2>1. run.stage = "step" /\ run.playbook = Gym /\ ~LastStep
    BY <1>6, <1>d, Steps DEF AreYouSure
  <2>2. CASE Says(Broken) /\ UNCHANGED site
    BY <1>b, <1>k, <1>s, <1>v, <2>1, <2>2
  <2>3. CASE Says(Done) /\ site' = Advanced(3)
    BY <1>b, <1>k, <1>s, <1>w, <2>1, <2>3, TwoPlaybooks
  <2>4. CASE /\ run' = [run EXCEPT !.page = 3] /\ site' = Advanced(2)
             /\ UNCHANGED <<task, status, replies, runs, connection, alive, deafened, expiredBy>>
    <3>1. StepShape(run)
      BY <1>0, <2>1 DEF PlaybookShape
    <3>2. /\ StepShape(run') /\ run'.stage = "step" /\ run'.at = run.at /\ run'.playbook = run.playbook
          /\ run'.profile = run.profile
      BY <2>1, <2>4, <3>1 DEF StepShape
    <3>3. status.is = "running" /\ task # NoTask /\ (Acted => deafened)
      BY <1>0, <1>h, <1>n, <2>1 DEF OneAtATime
    <3>4. SiteShape' /\ (Acted' <=> Acted) /\ site'.member = site.member /\ site'.ours = site.ours
      BY <1>w, <2>4
    <3>5. PlaybookShape' /\ OneAtATime'
      BY <1>0, <2>4, <3>2, <3>3, <3>4 DEF PlaybookShape, OneAtATime
    <3>6. Follows' /\ PastTheQuestion'
      BY <1>0, <2>1, <2>4, <3>2, TwoPlaybooks DEF Follows, PastTheQuestion
    <3>7. Heeded'
      BY <2>4, <3>3, <3>4 DEF Heeded
    <3>8. (site.ours => Permitted)' /\ ExpiryIsEarned'
      BY <1>0, <2>4, <3>4 DEF Permitted, ExpiryIsEarned
    <3> QED
      BY <1>0, <2>4, <3>2, <3>3, <3>5, <3>6, <3>7, <3>8 DEF PlaybookInv
  <2> QED
    BY <1>6, <2>2, <2>3, <2>4 DEF AreYouSure
<1>7. CASE ConfirmationCode
  <2>1. run.stage = "step" /\ run.playbook = Gym /\ task.site = "gym" /\ run.playbook # Dmv
    BY <1>7, <1>d, Steps, TwoPlaybooks DEF ConfirmationCode
  <2>2. CASE CodeToTry = "none" /\ Says(Asks("code")) /\ UNCHANGED site
    <3>1. SaidWell(Asks("code"))
      BY <1>q, <2>2 DEF CodeToTry, Questions
    <3> QED
      BY <1>k, <1>s, <1>v, <2>1, <2>2, <3>1
  <2>3. CASE Says(Broken) /\ UNCHANGED site
    BY <1>b, <1>k, <1>s, <1>v, <2>1, <2>3
  <2>4. CASE replies["retry"] = "none" /\ Says(Asks("retry")) /\ UNCHANGED site
    <3>1. SaidWell(Asks("retry"))
      BY <1>q, <2>4 DEF Questions
    <3> QED
      BY <1>k, <1>s, <1>v, <2>1, <2>4, <3>1
  <2>5. CASE Says(Done) /\ site' = [site EXCEPT !.member = "cancelled"]
    <3>1. SiteShape' /\ site'.member = "cancelled" /\ site'.ours = site.ours
      BY <1>v, <2>5 DEF SiteShape
    <3>2. task' = task
      BY <2>5 DEF Says
    <3>3. Goal'
      BY <2>1, <3>1, <3>2 DEF Goal
    <3>4. LastStep
      BY <1>7, <1>d, <2>1, Steps DEF ConfirmationCode
    <3> QED
      BY <1>b, <1>k, <1>s, <2>1, <2>5, <3>1, <3>3, <3>4
  <2> QED
    BY <1>7, <2>2, <2>3, <2>4, <2>5 DEF ConfirmationCode
<1>8. CASE Availability
  <2>1. run.stage = "step" /\ run.playbook = Dmv /\ ~LastStep /\ run.at = 1 /\ UNCHANGED site
    BY <1>8, <1>d, Steps DEF Availability
  <2>2. Says(Broken) \/ Says(Refused("slot-gone")) \/ Says(Done)
    BY <1>8 DEF Availability
  <2> QED
    BY <1>b, <1>k, <1>s, <1>v, <2>1, <2>2
<1>9. CASE Confirm
  <2>1. run.stage = "step" /\ run.playbook = Dmv /\ ~LastStep /\ run.at = 2 /\ UNCHANGED site
    BY <1>9, <1>d, Steps DEF Confirm
  <2>2. \/ Permitted /\ Says(Done)
        \/ replies["confirm"] = "none" /\ Says(Asks("confirm"))
        \/ Says(Refused("not-confirmed"))
    BY <1>9 DEF Confirm, Permitted
  <2>3. replies["confirm"] = "none" => SaidWell(Asks("confirm"))
    BY <1>q DEF Questions
  <2> QED
    BY <1>b, <1>k, <1>s, <1>v, <2>1, <2>2, <2>3
<1>10. CASE Book
  <2>1. run.stage = "step" /\ run.playbook = Dmv /\ run.at = 3 /\ task.site = "dmv" /\ LastStep
    BY <1>10, <1>d, Steps DEF Book
  <2>2. Permitted
    BY <1>0, <2>1 DEF PastTheQuestion
  <2>3. CASE Says(Broken) /\ UNCHANGED site
    BY <1>b, <1>k, <1>s, <1>v, <2>1, <2>3
  <2>4. CASE Says(Refused("slot-gone")) /\ UNCHANGED site
    BY <1>b, <1>k, <1>s, <1>v, <2>1, <2>4
  <2>5. CASE Says(Done) /\ site' = [site EXCEPT !.slot = "taken", !.ours = TRUE]
    <3>1. SiteShape' /\ site'.member = site.member /\ site'.ours = TRUE
      BY <1>v, <2>5 DEF SiteShape
    <3>2. task' = task
      BY <2>5 DEF Says
    <3>3. Goal'
      BY <2>1, <3>1, <3>2 DEF Goal
    <3> QED
      BY <1>b, <1>k, <1>s, <2>1, <2>2, <2>5, <3>1, <3>3
  <2> QED
    BY <1>10, <2>3, <2>4, <2>5 DEF Book
<1>11. CASE StepThrows
  <2>1. /\ run.stage = "said" /\ run' = [run EXCEPT !.said = Broken]
        /\ (deafened' <=> (deafened \/ Acted)) /\ deafened' \in BOOLEAN
        /\ UNCHANGED <<task, status, replies, runs, connection, alive, site, expiredBy>>
    BY <1>0, <1>11 DEF StepThrows, PlaybookShape, Acted
  <2>2. SaidShape(run)
    BY <1>0, <2>1 DEF PlaybookShape
  <2>3. /\ SaidShape(run') /\ run'.stage = "said" /\ run'.said = Broken /\ run'.at = run.at
        /\ run'.playbook = run.playbook /\ run'.profile = run.profile
    BY <2>1, <2>2 DEF SaidShape
  <2>4. PlaybookShape'
    BY <1>0, <2>1, <2>3 DEF PlaybookShape, SiteShape
  <2>5. OneAtATime'
    BY <1>0, <2>1, <2>3 DEF OneAtATime, Idle
  <2>6. Follows' /\ PastTheQuestion'
    BY <1>0, <1>k, <2>1, <2>3 DEF Follows, PastTheQuestion, Permitted
  <2>7. Heeded'
    BY <2>1 DEF Heeded, Acted
  <2>8. SaidWell(Broken)' /\ Broken.kind # "done"
    BY DEF SaidWell, Broken, Expires
  <2>9. (status.is = "succeeded" => Goal)' /\ (site.ours => Permitted)' /\ ExpiryIsEarned'
    BY <1>0, <2>1 DEF Goal, Permitted, ExpiryIsEarned
  <2> QED
    BY <1>0, <2>1, <2>3, <2>4, <2>5, <2>6, <2>7, <2>8, <2>9 DEF PlaybookInv
<1>12. CASE Heard
  <2>1. run.stage = "said" /\ UNCHANGED <<task, status, replies, runs, alive, site, deafened>>
    BY <1>12 DEF Heard
  <2>2. /\ status.is = "running" /\ task # NoTask /\ SaidWell(run.said) /\ (run.said.kind = "done" /\ LastStep => Goal)
        /\ run.playbook \in {Gym, Dmv} /\ run.playbook.site = task.site /\ run.at \in 1..Len(run.playbook.steps)
        /\ run.profile \in Nat /\ run.profile <= connection.profile
    BY <1>0, <1>n, <2>1 DEF OneAtATime, Follows
  <2>3. /\ connection' \in [status : {"none", "connected", "expired"}, profile : Nat]
        /\ connection'.profile = connection.profile /\ expiredBy' \in Nat
        /\ connection'.status = "expired" => expiredBy' \notin alive /\ expiredBy' <= connection.profile
    <3>1. CASE Expires(run.said)
      <4>1. connection' = [connection EXCEPT !.status = "expired"] /\ expiredBy' = run.profile
        BY <1>12, <3>1 DEF Heard
      <4>2. run.profile \notin alive
        BY <2>2, <3>1 DEF SaidWell
      <4> QED
        BY <1>0, <2>2, <4>1, <4>2 DEF PlaybookShape
    <3>2. CASE ~Expires(run.said)
      <4>1. UNCHANGED <<connection, expiredBy>>
        BY <1>12, <3>2 DEF Heard
      <4> QED
        BY <1>0, <4>1 DEF PlaybookShape, ExpiryIsEarned
    <3> QED
      BY <3>1, <3>2
  <2> DEFINE r == [stage |-> "step", at |-> run.at + 1, page |-> 2, playbook |-> run.playbook, profile |-> run.profile]
             o == OutcomeOf(run.said)
  <2>4. /\ run'.stage \in {"step", "returned"}
        /\ run'.stage = "step" =>
             /\ StepShape(run') /\ run'.at = run.at + 1 /\ run'.playbook = run.playbook /\ run'.profile = run.profile
             /\ run.said.kind = "done" /\ run.at < Len(run.playbook.steps)
        /\ run'.stage = "returned" => run'.outcome = o /\ ~(run.said.kind = "done" /\ run.at < Len(run.playbook.steps))
    <3>1. CASE run.said.kind = "done" /\ run.at < Len(run.playbook.steps)
      <4>1. run' = r
        BY <1>12, <3>1 DEF Heard
      <4> QED
        BY <3>1, <4>1 DEF StepShape
    <3>2. CASE ~(run.said.kind = "done" /\ run.at < Len(run.playbook.steps))
      <4>1. run' = Returned(o)
        BY <1>12, <3>2 DEF Heard
      <4>2. run'.stage = "returned" /\ run'.outcome = o
        BY <4>1 DEF Returned
      <4> QED
        BY <3>2, <4>2
    <3> QED
      BY <3>1, <3>2
  <2>5. run.said.kind = "done" /\ ~(run.at < Len(run.playbook.steps)) => LastStep
    BY <2>2, TwoPlaybooks DEF LastStep
  <2>6. /\ o.kind \in {"succeeded", "failed", "ask"}
        /\ o.kind = "ask" => o.question \in Questions /\ replies[o.question] = "none"
        /\ o.kind = "succeeded" <=> run.said.kind = "done"
    BY <2>2 DEF OutcomeOf, SaidWell, Failed
  <2> HIDE DEF o, r
  <2>7. PlaybookShape' /\ OneAtATime'
    BY <1>0, <2>1, <2>2, <2>3, <2>4 DEF PlaybookShape, OneAtATime, SiteShape
  <2>8. run'.stage = "step" => run'.at \in 1..Len(run'.playbook.steps)
    BY <2>2, <2>4, TwoPlaybooks
  <2>9. Follows'
    BY <2>1, <2>2, <2>3, <2>4, <2>8 DEF Follows
  <2>10. PastTheQuestion'
    <3>1. run'.stage = "step" /\ run'.playbook = Dmv /\ run'.at = 3 => run.at = 2
      BY <2>2, <2>4, TwoPlaybooks
    <3> QED
      BY <1>0, <2>1, <2>4, <3>1 DEF PastTheQuestion, Permitted
  <2>11. Heeded'
    <3>1. Acted => deafened \/ (run.said.kind = "done" /\ LastStep)
      BY <1>h, <2>1, <2>2
    <3>2. LastStep => ~(run.at < Len(run.playbook.steps))
      BY <2>2, TwoPlaybooks DEF LastStep
    <3> QED
      BY <2>1, <2>4, <2>6, <3>1, <3>2 DEF Heeded, Acted
  <2>12. (run.stage = "returned" => ReturnedWell(run.outcome))'
    BY <2>1, <2>2, <2>4, <2>5, <2>6 DEF ReturnedWell, Goal
  <2>13. (site.ours => Permitted)' /\ ExpiryIsEarned' /\ (connection.status = "expired" => expiredBy <= connection.profile)'
    BY <1>0, <2>1, <2>3 DEF Permitted, ExpiryIsEarned
  <2> QED
    BY <2>1, <2>2, <2>3, <2>4, <2>7, <2>9, <2>10, <2>11, <2>12, <2>13 DEF PlaybookInv
<1>13. CASE SessionThrows
  <2>1. /\ run.stage \in {"access", "returned"} /\ run' = Returned(Failed("error"))
        /\ (deafened' <=> (deafened \/ Acted)) /\ deafened' \in BOOLEAN
        /\ UNCHANGED <<task, status, replies, runs, connection, alive, site, expiredBy>>
    BY <1>0, <1>13 DEF SessionThrows, PlaybookShape, Acted
  <2>2. status.is = "running" /\ task # NoTask
    BY <1>0, <1>n, <2>1 DEF OneAtATime
  <2> QED
    BY <1>f, <1>r, <2>1, <2>2
<1>14. CASE Settle
  <2>1. /\ run.stage = "returned" /\ run' = Idle
        /\ UNCHANGED <<task, replies, runs, connection, alive, site, deafened, expiredBy>>
    BY <1>14 DEF Settle
  <2>2. status.is = "running" /\ task # NoTask /\ ReturnedWell(run.outcome) /\ (Acted => deafened \/ run.outcome.kind = "succeeded")
    BY <1>0, <1>h, <1>n, <2>1 DEF OneAtATime
  <2>3. /\ run.outcome.kind = "ask" => status'.is = "parked" /\ status'.question = run.outcome.question
        /\ run.outcome.kind = "failed" => status'.is = "failed"
        /\ run.outcome.kind = "succeeded" => status'.is = "succeeded"
    BY <1>14 DEF Settle
  <2>4. /\ status'.is = "parked" => status'.question \in Questions /\ replies[status'.question] = "none"
        /\ status'.is = "succeeded" => Goal
        /\ Acted => deafened' \/ status'.is = "succeeded"
    BY <2>1, <2>2, <2>3 DEF ReturnedWell
  <2> QED
    BY <1>0, <1>i, <1>r, <2>1, <2>2, <2>4 DEF PlaybookShape
<1>15. CASE RunDies
  <2>1. /\ run # Idle /\ run' = Idle /\ status'.is \in {"queued", "failed"}
        /\ (deafened' <=> (deafened \/ Acted)) /\ deafened' \in BOOLEAN
        /\ UNCHANGED <<task, replies, runs, connection, alive, site, expiredBy>>
    BY <1>0, <1>15 DEF RunDies, PlaybookShape, Acted
  <2>2. task # NoTask
    BY <1>0, <2>1 DEF OneAtATime
  <2> QED
    BY <1>i, <1>r, <2>1, <2>2
<1>16. ASSUME NEW words \in {"right", "wrong"}, Answered(words) PROVE PlaybookInv'
  <2>1. /\ status.is = "parked" /\ replies' = [replies EXCEPT ![status.question] = words]
        /\ status' = [is |-> "queued"] /\ status'.is = "queued"
        /\ UNCHANGED <<task, run, runs, connection, alive, site, deafened, expiredBy>>
    BY <1>16 DEF Answered
  <2>2. run.stage = "idle" /\ status.question \in Questions /\ replies[status.question] = "none" /\ task # NoTask
    BY <1>0, <2>1 DEF OneAtATime, PlaybookShape
  <2>3. /\ replies' \in [Questions -> {"none", "right", "wrong"}]
        /\ replies["confirm"] = "right" => replies'["confirm"] = "right"
    BY <1>0, <2>1, <2>2 DEF PlaybookShape, Questions
  <2>4. PlaybookShape' /\ OneAtATime'
    BY <1>0, <2>1, <2>2, <2>3 DEF PlaybookShape, SiteShape, OneAtATime
  <2>5. Follows' /\ PastTheQuestion'
    BY <2>1, <2>2 DEF Follows, PastTheQuestion
  <2>6. Heeded'
    BY <1>h, <2>1, <2>2 DEF Heeded, Acted
  <2>7. (site.ours => Permitted)' /\ ExpiryIsEarned'
    BY <1>0, <2>1, <2>3 DEF Permitted, ExpiryIsEarned
  <2> QED
    BY <1>0, <2>1, <2>2, <2>4, <2>5, <2>6, <2>7 DEF PlaybookInv
\* A step of the person at the connection, or of the sites.
<1>o. ASSUME UNCHANGED <<task, status, replies, run, deafened, expiredBy>>,
             SiteShape', Acted' <=> Acted, site'.member = site.member, site'.ours = site.ours,
             connection' \in [status : {"none", "connected", "expired"}, profile : Nat],
             connection.profile <= connection'.profile, alive' \subseteq 1..connection'.profile,
             \A p \in Nat : p <= connection.profile /\ p \notin alive => p \notin alive',
             connection'.status = "expired" => connection.status = "expired"
      PROVE  PlaybookInv'
  <2>0. connection.profile \in Nat /\ connection'.profile \in Nat
    BY <1>0, <1>o DEF PlaybookShape
  <2>1. PlaybookShape' /\ OneAtATime'
    BY <1>0, <1>o DEF PlaybookShape, OneAtATime
  <2>2. run.stage \in {"step", "said"} => run.profile \in Nat /\ run.profile <= connection.profile /\ run.profile <= connection'.profile
    BY <1>0, <1>o, <2>0 DEF Follows
  <2>3. Follows' /\ PastTheQuestion'
    BY <1>0, <1>o, <2>2 DEF Follows, PastTheQuestion, Permitted
  <2>4. Heeded' /\ (Goal' <=> Goal) /\ (Permitted' <=> Permitted)
    BY <1>h, <1>o DEF Heeded, LastStep, Goal, Permitted
  <2>5. run.stage = "said" => SaidWell(run.said)'
    <3>1. ASSUME run.stage = "said" PROVE SaidWell(run.said)'
      <4>1. SaidWell(run.said) /\ (Expires(run.said) => run.profile \notin alive')
        BY <1>0, <1>o, <2>2, <3>1 DEF SaidWell
      <4> QED
        BY <1>o, <4>1 DEF SaidWell, Expires
    <3> QED
      BY <3>1
  <2>6. run.stage = "returned" => ReturnedWell(run.outcome)'
    BY <1>0, <1>o, <2>4 DEF ReturnedWell
  <2>7. ExpiryIsEarned' /\ (connection.status = "expired" => expiredBy <= connection.profile)'
    BY <1>0, <1>o, <2>0 DEF ExpiryIsEarned
  <2>8. LastStep' <=> LastStep
    BY <1>o DEF LastStep
  <2> QED
    BY <1>0, <1>o, <2>1, <2>3, <2>4, <2>5, <2>6, <2>7, <2>8 DEF PlaybookInv
<1>17. CASE Link
  <2> DEFINE p == connection.profile
  <2>1. /\ connection' = [status |-> "connected", profile |-> p + 1] /\ alive' = alive \cup {p + 1}
        /\ UNCHANGED <<task, status, replies, run, runs, site, deafened, expiredBy>>
    BY <1>17 DEF Link
  <2>2. p \in Nat /\ alive \subseteq 1..p
    BY <1>0 DEF PlaybookShape
  <2>3. /\ connection' \in [status : {"none", "connected", "expired"}, profile : Nat]
        /\ connection'.profile = p + 1 /\ connection'.status = "connected"
    BY <2>1, <2>2
  <2>4. /\ connection.profile <= connection'.profile /\ alive' \subseteq 1..connection'.profile
        /\ \A q \in Nat : q <= connection.profile /\ q \notin alive => q \notin alive'
    <3>1. alive' = alive \cup {p + 1}
      BY <2>1
    <3>2. connection.profile = p /\ connection'.profile = p + 1
      BY <2>3
    <3> HIDE DEF p
    <3> QED
      BY <2>2, <3>1, <3>2
  <2>5. connection'.status # "expired"
    BY <2>3
  <2>6. SiteShape' /\ (Acted' <=> Acted) /\ site'.member = site.member /\ site'.ours = site.ours
    BY <1>v, <2>1
  <2>7. UNCHANGED <<task, status, replies, run, deafened, expiredBy>>
    BY <2>1
  <2> HIDE DEF p
  <2> QED
    BY <1>o, <2>3, <2>4, <2>5, <2>6, <2>7
<1>18. ASSUME NEW p \in Profiles, SiteForgets(p) PROVE PlaybookInv'
  <2>1. alive' = alive \ {p} /\ UNCHANGED <<task, status, replies, run, runs, connection, site, deafened, expiredBy>>
    BY <1>18 DEF SiteForgets
  <2>2. connection.profile \in Nat /\ alive \subseteq 1..connection.profile
        /\ connection \in [status : {"none", "connected", "expired"}, profile : Nat]
    BY <1>0 DEF PlaybookShape
  <2>3. /\ connection.profile <= connection'.profile /\ alive' \subseteq 1..connection'.profile
        /\ \A q \in Nat : q <= connection.profile /\ q \notin alive => q \notin alive'
        /\ connection' = connection
    <3>1. connection' = connection
      BY <2>1
    <3>2. alive' \subseteq alive
      BY <2>1
    <3>3. connection'.profile = connection.profile
      BY <3>1
    <3>4. connection.profile <= connection'.profile
      BY <2>2, <3>3
    <3>5. alive' \subseteq 1..connection'.profile
      BY <2>2, <3>2, <3>3
    <3> QED
      BY <3>1, <3>2, <3>4, <3>5
  <2>4. SiteShape' /\ (Acted' <=> Acted) /\ site'.member = site.member /\ site'.ours = site.ours
    BY <1>v, <2>1
  <2>5. UNCHANGED <<task, status, replies, run, deafened, expiredBy>>
    BY <2>1
  <2> QED
    BY <1>o, <2>2, <2>3, <2>4, <2>5
<1>19. CASE SiteChanges
  <2>1. UNCHANGED <<task, status, replies, run, runs, connection, alive, deafened, expiredBy>>
    BY <1>19 DEF SiteChanges
  <2>2. SiteShape' /\ site'.member = site.member /\ site'.ours = site.ours
    <3>1. CASE \E mode \in {"blocked", "redesign"} : site' = [site EXCEPT !.mode = mode]
      BY <1>v, <3>1 DEF SiteShape
    <3>2. CASE site' = [site EXCEPT !.slot = "taken"]
      BY <1>v, <3>2 DEF SiteShape
    <3>3. CASE site' = [site EXCEPT !.transient = ~@]
      BY <1>v, <3>3 DEF SiteShape
    <3> QED
      BY <1>19, <3>1, <3>2, <3>3 DEF SiteChanges
  <2>3. Acted' <=> Acted
    BY <2>2 DEF Acted
  <2>4. connection.profile \in Nat /\ alive \subseteq 1..connection.profile
        /\ connection \in [status : {"none", "connected", "expired"}, profile : Nat]
    BY <1>0 DEF PlaybookShape
  <2> QED
    BY <1>o, <2>1, <2>2, <2>3, <2>4
<1>20. CASE UNCHANGED playbookVars
  <2>1. connection.profile \in Nat /\ alive \subseteq 1..connection.profile
        /\ connection \in [status : {"none", "connected", "expired"}, profile : Nat]
    BY <1>0 DEF PlaybookShape
  <2> QED
    BY <1>20, <1>o, <1>v, <2>1 DEF playbookVars
<1> QED
  BY <1>1, <1>2, <1>3, <1>4, <1>5, <1>6, <1>7, <1>8, <1>9, <1>10, <1>11, <1>12, <1>13, <1>14, <1>15, <1>16,
     <1>17, <1>18, <1>19, <1>20 DEF PlaybookNext

\* The invariant of a task, its run, its person and the sites.
THEOREM PlaybookInvariant == PlaybookSpec => []PlaybookInv
<1>1. PlaybookInit => PlaybookInv
  <2> SUFFICES ASSUME PlaybookInit PROVE PlaybookInv
    OBVIOUS
  <2>1. run.stage = "idle" /\ run = Idle /\ status.is = "none" /\ site.ours = FALSE /\ site.member = "active"
        /\ connection.status = "none" /\ SiteShape
    BY DEF PlaybookInit, Idle, SiteShape
  <2>2. PlaybookShape
    BY <2>1 DEF PlaybookInit, PlaybookShape
  <2>3. OneAtATime /\ Follows /\ PastTheQuestion /\ Heeded /\ ExpiryIsEarned
    BY <2>1 DEF OneAtATime, Follows, PastTheQuestion, Heeded, Acted, ExpiryIsEarned
  <2> QED
    BY <2>1, <2>2, <2>3 DEF PlaybookInv, PlaybookInit
<1> QED
  BY <1>1, PlaybookStep, PTL DEF PlaybookSpec

\* A task that succeeded has what it asked for from the site, and one that failed
\* left the site as it was, unless a run that had acted died or could not read the
\* answer: for any number of runs, replies, links and changes of the site.
THEOREM OutcomesAreTheSites == PlaybookSpec => []OutcomeIsTheSites
<1>1. PlaybookInv => OutcomeIsTheSites
  <2> SUFFICES ASSUME PlaybookInv PROVE OutcomeIsTheSites
    OBVIOUS
  <2>1. status.is = "failed" => run.stage = "idle"
    BY DEF PlaybookInv, OneAtATime
  <2>2. status.is = "failed" => ~Acted \/ deafened
    BY <2>1 DEF PlaybookInv, Heeded
  <2> QED
    BY <2>2 DEF PlaybookInv, OutcomeIsTheSites, Goal
<1> QED
  BY <1>1, PlaybookInvariant, PTL

\* A slot is booked only on the person's yes or on the word they gave the watch, and
\* no run parks the task on a question it has the answer to.
THEOREM PeopleAreHeard == PlaybookSpec => []PersonIsHeard
<1>1. PlaybookInv => PersonIsHeard
  BY DEF PlaybookInv, PersonIsHeard, OneAtATime, Permitted
<1> QED
  BY <1>1, PlaybookInvariant, PTL

\* A connection is expired only by a run that held a profile the site no longer
\* honoured, however many profiles are linked and forgotten meanwhile.
THEOREM ExpiriesAreEarned == PlaybookSpec => []ExpiryIsEarned
<1>1. PlaybookInv => ExpiryIsEarned
  BY DEF PlaybookInv
<1> QED
  BY <1>1, PlaybookInvariant, PTL

--------------------------------------------------------------------------------
(* The assistant's turn: what it did and what it says (agent/src/chat-agent.ts). *)

TurnShape ==
  /\ turn \in [stage : {"thinking", "calling"}]
         \cup [stage : {"over"}, reply : {"budget_spent", "no_reply", "spoken", "midway", "not_acted"}]
  /\ iteration \in Nat /\ inFlight \in Nat /\ effects \in Nat /\ unheard \in Nat
  /\ calls \in [ok : Nat, refused : Nat]
  /\ overBudget \in BOOLEAN

\* Calls are under way only while they are waited for; what the API did and was
\* heard of is on the record; and what is under way is counted in advance.
CallsAccounted ==
  /\ turn.stage # "calling" => inFlight = 0
  /\ effects = calls.ok + unheard
  /\ Recorded + inFlight < ToolBudget + MaxWidth

TurnInv == TurnShape /\ CallsAccounted /\ TurnIsOwnedUp

\* Calls that succeed, fail or stay unanswered, side by side, keep the account.
LEMMA TurnStep == TurnInv /\ [TurnNext]_turnVars => TurnInv'
<1> SUFFICES ASSUME TurnInv, [TurnNext]_turnVars PROVE TurnInv'
  OBVIOUS
<1> USE TurnBounds
<1>0. /\ inFlight \in Nat /\ effects \in Nat /\ unheard \in Nat /\ iteration \in Nat
      /\ calls.ok \in Nat /\ calls.refused \in Nat /\ calls = [ok |-> calls.ok, refused |-> calls.refused]
      /\ effects = calls.ok + unheard
      /\ calls.ok + calls.refused + inFlight < ToolBudget + MaxWidth
      /\ overBudget \in BOOLEAN
      /\ overBudget => calls.ok + calls.refused >= ToolBudget
  BY DEF TurnInv, TurnShape, CallsAccounted, TurnIsOwnedUp, Recorded
<1>i. iteration' = iteration + 1 => iteration' \in Nat
  BY <1>0
<1>a. ASSUME turn.stage # "calling", UNCHANGED <<inFlight, calls, overBudget, effects, unheard>>,
             iteration' \in Nat,
             NEW words \in {"budget_spent", "no_reply", "spoken", "midway", "not_acted"},
             TurnEnds(words),
             words = "not_acted" => calls.ok = 0,
             words = "midway" => calls.ok > 0,
             overBudget => words \in {"budget_spent", "not_acted", "midway"},
             words = "budget_spent" => overBudget
      PROVE  TurnInv'
  <2>1. turn'.stage = "over" /\ turn'.reply = words
    BY <1>a DEF TurnEnds
  <2>2. TurnShape'
    BY <1>a, <1>0, <2>1 DEF TurnShape, TurnInv, TurnEnds
  <2>3. inFlight = 0
    BY <1>a DEF TurnInv, CallsAccounted
  <2>4. CallsAccounted'
    BY <1>a, <1>0, <2>1, <2>3 DEF CallsAccounted, Recorded
  <2>5. TurnIsOwnedUp'
    BY <1>a, <1>0, <2>1, <2>3 DEF TurnIsOwnedUp, Recorded
  <2> QED
    BY <2>2, <2>4, <2>5 DEF TurnInv
<1>b. ASSUME inFlight > 0, inFlight' = inFlight - 1, UNCHANGED <<turn, iteration, overBudget>>,
             NEW ok \in {0, 1}, NEW refused \in {0, 1}, ok + refused <= 1, 
             calls' = [ok |-> calls.ok + ok, refused |-> calls.refused + refused],
             NEW missed \in {0, 1}, effects' = effects + ok + missed, unheard' = unheard + missed
      PROVE  TurnInv'
  <2>1. turn.stage = "calling"
    BY <1>b, <1>0 DEF TurnInv, CallsAccounted
  <2>2. calls'.ok = calls.ok + ok /\ calls'.refused = calls.refused + refused
    BY <1>b
  <2>3. TurnShape'
    BY <1>b, <1>0 DEF TurnShape, TurnInv
  <2>4. CallsAccounted'
    BY <1>b, <1>0, <2>1, <2>2 DEF CallsAccounted, Recorded
  <2>5. TurnIsOwnedUp'
    BY <1>b, <1>0, <2>1, <2>2 DEF TurnIsOwnedUp, Recorded
  <2> QED
    BY <2>3, <2>4, <2>5 DEF TurnInv
<1>1. ASSUME NEW words \in {"", "said"}, Speaks(words) PROVE TurnInv'
  <2>1. /\ Closing(words) \in {"budget_spent", "no_reply", "spoken"}
        /\ Closing(words) = "budget_spent" <=> overBudget
    BY <1>0 DEF Closing
  <2>2. iteration' = iteration + 1 /\ turn.stage = "thinking"
    BY <1>1, Zenon DEF Speaks
  <2>3. TurnEnds(Closing(words)) /\ UNCHANGED <<inFlight, calls, overBudget, effects, unheard>>
    BY <1>1, Zenon DEF Speaks
  <2>4. /\ Closing(words) \in {"budget_spent", "no_reply", "spoken", "midway", "not_acted"}
        /\ Closing(words) # "not_acted" /\ Closing(words) # "midway"
    BY <2>1
  <2>5. overBudget => Closing(words) \in {"budget_spent", "not_acted", "midway"}
    BY <2>1
  <2>6. iteration' \in Nat
    BY <1>i, <2>2
  <2>7. turn.stage # "calling"
    BY <2>2
  <2> QED
    BY <1>a, <2>1, <2>3, <2>4, <2>5, <2>6, <2>7, Zenon
<1>2. ASSUME NEW words \in {"", "said"}, CallsReturned(words) PROVE TurnInv'
  <2>1. CASE iteration <= ToolBudget
    <3>1. turn' = [stage |-> "thinking"] /\ inFlight = 0
          /\ UNCHANGED <<iteration, inFlight, calls, overBudget, effects, unheard>>
      BY <1>2, <2>1, Zenon DEF CallsReturned
    <3>2. turn'.stage = "thinking"
      BY <3>1
    <3> QED
      BY <1>0, <3>1, <3>2 DEF CallsReturned, TurnInv, TurnShape, CallsAccounted, TurnIsOwnedUp, Recorded
  <2>2. CASE ~(iteration <= ToolBudget)
    <3>1. inFlight = 0 /\ TurnEnds(Closing(words)) /\ UNCHANGED <<iteration, inFlight, calls, overBudget, effects, unheard>>
      BY <1>2, <2>2, Zenon DEF CallsReturned
    <3>2. turn'.stage = "over" /\ turn' = [stage |-> "over", reply |-> Closing(words)] /\ turn'.reply = Closing(words)
      BY <3>1 DEF TurnEnds
    <3>3. Closing(words) \in {"budget_spent", "no_reply", "spoken"} /\ (Closing(words) = "budget_spent" <=> overBudget)
      BY <1>0 DEF Closing
    <3>4. TurnShape'
      BY <1>0, <3>1, <3>2, <3>3 DEF TurnShape, TurnInv
    <3>5. CallsAccounted'
      BY <1>0, <3>1, <3>2 DEF CallsAccounted, Recorded
    <3>6. Recorded' = Recorded /\ overBudget' = overBudget /\ Recorded < ToolBudget + MaxWidth
      BY <1>0, <3>1 DEF Recorded, TurnInv, TurnIsOwnedUp
    <3>7. TurnIsOwnedUp'
      BY <1>0, <3>2, <3>3, <3>6 DEF TurnIsOwnedUp, TurnInv
    <3> QED
      BY <3>4, <3>5, <3>7 DEF TurnInv
  <2> QED
    BY <2>1, <2>2
<1>3. ASSUME NEW n \in 1..MaxWidth, WantsCalls(n) PROVE TurnInv'
  <2>1. turn' = [stage |-> "calling"] /\ turn'.stage = "calling" /\ inFlight = 0 /\ n \in Nat /\ n <= MaxWidth
    BY <1>3 DEF WantsCalls, TurnInv, CallsAccounted
  <2>2. CASE Recorded >= ToolBudget
    BY <1>0, <1>3, <2>1, <2>2 DEF WantsCalls, TurnInv, TurnShape, CallsAccounted, TurnIsOwnedUp, Recorded
  <2>3. CASE ~(Recorded >= ToolBudget)
    <3>1. inFlight' = n /\ UNCHANGED <<calls, overBudget, effects, unheard>> /\ iteration' = iteration + 1
      BY <1>3, <2>3 DEF WantsCalls
    <3>2. TurnShape'
      BY <1>0, <2>1, <3>1 DEF TurnInv, TurnShape
    <3>3. CallsAccounted' /\ TurnIsOwnedUp'
      BY <1>0, <2>1, <2>3, <3>1 DEF CallsAccounted, TurnIsOwnedUp, Recorded
    <3> QED
      BY <3>2, <3>3 DEF TurnInv
  <2> QED
    BY <2>2, <2>3
<1>4. CASE CallAnswered
  <2>1. CASE calls' = [calls EXCEPT !.ok = @ + 1] /\ effects' = effects + 1
    <3>1. calls' = [ok |-> calls.ok + 1, refused |-> calls.refused + 0] /\ effects' = effects + 1 + 0 /\ unheard' = unheard + 0
      BY <1>0, <1>4, <2>1 DEF CallAnswered
    <3> QED
      BY <1>4, <3>1, <1>b DEF CallAnswered
  <2>2. CASE calls' = [calls EXCEPT !.refused = @ + 1] /\ UNCHANGED effects
    <3>1. calls' = [ok |-> calls.ok + 0, refused |-> calls.refused + 1] /\ effects' = effects + 0 + 0 /\ unheard' = unheard + 0
      BY <1>0, <1>4, <2>2 DEF CallAnswered
    <3> QED
      BY <1>4, <3>1, <1>b DEF CallAnswered
  <2> QED
    BY <1>4, <2>1, <2>2 DEF CallAnswered
<1>5. CASE AnswerLost
  <2>0. effects' = effects + 0 + 1 /\ unheard' = unheard + 1
    BY <1>0, <1>5 DEF AnswerLost
  <2>1. CASE calls' = [calls EXCEPT !.refused = @ + 1]
    <3>1. calls' = [ok |-> calls.ok + 0, refused |-> calls.refused + 1]
      BY <1>0, <2>1
    <3> QED
      BY <1>5, <2>0, <3>1, <1>b DEF AnswerLost
  <2>2. CASE UNCHANGED calls
    <3>1. calls' = [ok |-> calls.ok + 0, refused |-> calls.refused + 0]
      BY <1>0, <2>2
    <3> QED
      BY <1>5, <2>0, <3>1, <1>b DEF AnswerLost
  <2> QED
    BY <1>5, <2>1, <2>2 DEF AnswerLost
<1>6. CASE NotSent
  <2>1. calls' = [ok |-> calls.ok + 0, refused |-> calls.refused + 0] /\ effects' = effects + 0 + 0 /\ unheard' = unheard + 0
    BY <1>0, <1>6 DEF NotSent
  <2> QED
    BY <1>6, <2>1, <1>b DEF NotSent
<1>7. CASE ModelGone
  <2>1. overBudget => Outage \in {"not_acted", "midway"}
    BY DEF Outage
  <2> QED
    BY <1>0, <1>7, <1>a, <2>1 DEF ModelGone, Outage
<1>8. CASE UNCHANGED turnVars
  BY <1>8 DEF turnVars, TurnInv, TurnShape, CallsAccounted, TurnIsOwnedUp, Recorded
<1> QED
  BY <1>1, <1>2, <1>3, <1>4, <1>5, <1>6, <1>7, <1>8 DEF TurnNext

\* For any budget and any number of calls at once: a turn says that nothing was
\* done only if no call it heard of succeeded, and makes fewer calls than its budget
\* and one answer's width together.
THEOREM NothingIsHidden == TurnSpec => []TurnIsOwnedUp
<1>1. TurnInit => TurnInv
  <2> SUFFICES ASSUME TurnInit PROVE TurnInv
    OBVIOUS
  <2>1. turn.stage = "thinking" /\ turn \in [stage : {"thinking", "calling"}] /\ calls.ok = 0 /\ calls.refused = 0
    BY DEF TurnInit
  <2>2. TurnShape
    BY <2>1 DEF TurnInit, TurnShape
  <2>3. CallsAccounted /\ TurnIsOwnedUp
    BY TurnBounds, <2>1 DEF TurnInit, CallsAccounted, TurnIsOwnedUp, Recorded
  <2> QED
    BY <2>2, <2>3 DEF TurnInv
<1>2. TurnInv => TurnIsOwnedUp
  BY DEF TurnInv
<1> QED
  BY <1>1, <1>2, TurnStep, PTL DEF TurnSpec

--------------------------------------------------------------------------------
(* The tools of the agent and the refs they aim by (playbooks/src/agentic/tools.ts). *)

\* What the locator of a ref finds.
Aimed(ref) == page[CHOOSE i \in FirstWith(ref) : TRUE]

\* Every call is at some stage.
Staged == "stage" \in DOMAIN call

\* Between the lookup and the action, the element is the one that was shown,
\* unless the page changed.
ToolInv ==
  /\ AimedAsShown
  /\ call.stage = "act" /\ ~stirred => Signature(Aimed(call.ref)) = signatures[call.ref]

\* A step that acts on nothing and looks nothing up.
LEMMA AimKept ==
  ASSUME ToolInv, hit' = hit,
         \/ UNCHANGED <<call, page, signatures, stirred>>
         \/ stirred' = TRUE
         \/ call'.stage # "act"
  PROVE  ToolInv'
<1>1. CASE UNCHANGED <<call, page, signatures, stirred>>
  BY <1>1 DEF ToolInv, AimedAsShown, Aimed, FirstWith, Signature
<1>2. CASE stirred' = TRUE \/ call'.stage # "act"
  BY <1>2 DEF ToolInv, AimedAsShown
<1> QED
  BY <1>1, <1>2

\* What is answered is a call no more.
LEMMA ReplyEndsCall == ASSUME NEW said, Answer(said) \/ AnswerOnPage(said) PROVE call'.stage # "act"
BY DEF Answer, AnswerOnPage, NoCall

LEMMA StagedStep == Staged /\ [ToolNext]_toolVars => Staged'
<1> SUFFICES ASSUME Staged, [ToolNext]_toolVars PROVE Staged'
  OBVIOUS
<1>1. ASSUME NEW said, Answer(said) \/ AnswerOnPage(said) PROVE Staged'
  BY <1>1 DEF Answer, AnswerOnPage, NoCall, Staged
<1>2. \A stage : call' = [call EXCEPT !.stage = stage] => Staged'
  BY DEF Staged
<1>3. \A stage, tries : call' = [call EXCEPT !.stage = stage, !.tries = tries] => Staged'
  BY DEF Staged
<1>4. ASSUME NEW said, NoPageNeeded(said) PROVE Staged'
  BY <1>1, <1>4 DEF NoPageNeeded
<1>5. ASSUME NEW tool, NEW ref, Execute(tool, ref) PROVE Staged'
  <2> DEFINE stage == CASE tool = "navigate" -> "goto" [] tool = "read" -> "digest" [] OTHER -> "locate"
  <2>1. \/ Answer("guardrail")
        \/ call' = [stage |-> stage, tool |-> tool, ref |-> ref, tries |-> 1]
    BY <1>5 DEF Execute
  <2> HIDE DEF stage
  <2> QED
    BY <1>1, <2>1 DEF Staged
<1>6. CASE Digest \/ ActFails \/ GotoFails
  BY <1>1, <1>6 DEF Digest, ActFails, GotoFails
<1>7. CASE Locate
  <2>1. call' = [call EXCEPT !.stage = "act"] \/ \E said : AnswerOnPage(said)
    BY <1>7 DEF Locate
  <2> QED
    BY <1>1, <1>2, <2>1
<1>8. CASE Act
  <2>1. call' = [call EXCEPT !.stage = "digest"] \/ \E said : AnswerOnPage(said)
    BY <1>8 DEF Act
  <2> QED
    BY <1>1, <1>2, <2>1
<1>9. CASE GotoLoads
  BY <1>2, <1>9 DEF GotoLoads
<1>10. CASE GotoInterrupted
  <2>1. \/ call' = [call EXCEPT !.stage = "digest", !.tries = 2]
        \/ call' = [call EXCEPT !.stage = "goto", !.tries = 2]
        \/ \E said : AnswerOnPage(said)
    BY <1>10 DEF GotoInterrupted
  <2> QED
    BY <1>1, <1>3, <2>1
<1>11. CASE PageLoads \/ PageStirs \/ GuardStops \/ UNCHANGED toolVars
  BY <1>11 DEF PageLoads, PageStirs, GuardStops, toolVars, Staged
<1> QED
  BY <1>4, <1>5, <1>6, <1>7, <1>8, <1>9, <1>10, <1>11 DEF ToolNext

\* Looking up, acting, and a page that goes on living between the two.
LEMMA ToolStep == Staged /\ ToolInv /\ [ToolNext]_toolVars => ToolInv'
<1> SUFFICES ASSUME Staged, ToolInv, [ToolNext]_toolVars PROVE ToolInv'
  OBVIOUS
<1>1. ASSUME NEW said, NoPageNeeded(said) PROVE ToolInv'
  <2>1. call'.stage # "act" /\ hit' = hit
    BY <1>1, ReplyEndsCall DEF NoPageNeeded
  <2> QED
    BY <2>1, AimKept
<1>2. ASSUME NEW tool, NEW ref, Execute(tool, ref) PROVE ToolInv'
  <2>1. hit' = hit
    BY <1>2 DEF Execute
  <2>2. call'.stage # "act"
    <3>1. CASE guardStop # "none"
      BY <1>2, <3>1, ReplyEndsCall DEF Execute
    <3>2. CASE guardStop = "none"
      <4> DEFINE stage == CASE tool = "navigate" -> "goto" [] tool = "read" -> "digest" [] OTHER -> "locate"
      <4>1. call'.stage = stage
        BY <1>2, <3>2 DEF Execute
      <4>2. stage # "act"
        OBVIOUS
      <4> QED
        BY <4>1, <4>2
    <3> QED
      BY <3>1, <3>2
  <2> QED
    BY <2>1, <2>2, AimKept
<1>3. CASE Digest \/ ActFails
  <2>1. call'.stage # "act" /\ hit' = hit
    BY <1>3, ReplyEndsCall DEF Digest, ActFails
  <2> QED
    BY <2>1, AimKept
<1>4. CASE Locate
  <2>1. hit' = hit /\ UNCHANGED <<page, signatures>>
    BY <1>4 DEF Locate
  <2>2. CASE Found(call.ref) = "found"
    <3>1. Signature(Aimed(call.ref)) = signatures[call.ref]
      BY <2>2 DEF Found, Aimed
    <3>2. call' = [call EXCEPT !.stage = "act"] \/ call'.stage # "act"
      BY <1>4, <2>2, ReplyEndsCall DEF Locate
    <3>3. call' = [call EXCEPT !.stage = "act"] => call'.ref = call.ref
      OBVIOUS
    <3>4. ASSUME call' = [call EXCEPT !.stage = "act"]
          PROVE  Signature(Aimed(call.ref))' = signatures'[call'.ref]
      BY <2>1, <3>1, <3>3, <3>4 DEF Aimed, FirstWith, Signature
    <3> QED
      BY <2>1, <3>2, <3>4 DEF ToolInv, AimedAsShown
  <2>3. CASE Found(call.ref) # "found"
    BY <1>4, <2>1, <2>3, ReplyEndsCall, AimKept DEF Locate
  <2> QED
    BY <2>2, <2>3
<1>5. CASE Act
  <2>1. CASE FirstWith(call.ref) = {}
    <3>1. call'.stage # "act" /\ hit' = hit
      BY <1>5, <2>1, ReplyEndsCall DEF Act
    <3> QED
      BY <3>1, AimKept
  <2>2. CASE FirstWith(call.ref) # {}
    <3>1. hit' = [as |-> Signature(Aimed(call.ref)), shown |-> signatures[call.ref], stirred |-> stirred]
      BY <1>5, <2>2 DEF Act, Aimed
    <3>2. call.stage = "act"
      BY <1>5 DEF Act
    <3>3. AimedAsShown'
      BY <3>1, <3>2 DEF AimedAsShown, ToolInv
    <3>4. call' = [call EXCEPT !.stage = "digest"] \/ call'.stage # "act"
      BY <1>5, <2>2, ReplyEndsCall DEF Act
    <3>5. call'.stage # "act"
      BY <3>4 DEF Staged
    <3> QED
      BY <3>3, <3>5 DEF ToolInv
  <2> QED
    BY <2>1, <2>2
<1>6. CASE GotoLoads \/ PageLoads \/ PageStirs
  BY <1>6, AimKept DEF GotoLoads, PageLoads, PageStirs
<1>7. CASE GotoInterrupted
  <2>1. hit' = hit
    BY <1>7 DEF GotoInterrupted
  <2>2. call'.stage # "act"
    <3>1. \/ call' = [call EXCEPT !.stage = "digest", !.tries = 2]
          \/ call' = [call EXCEPT !.stage = "goto", !.tries = 2]
          \/ call'.stage # "act"
      BY <1>7, ReplyEndsCall DEF GotoInterrupted
    <3> QED
      BY <3>1 DEF Staged
  <2> QED
    BY <2>1, <2>2, AimKept
<1>8. CASE GotoFails
  BY <1>8, ReplyEndsCall, AimKept DEF GotoFails
<1>9. CASE GuardStops \/ UNCHANGED toolVars
  BY <1>9, AimKept DEF GuardStops, toolVars
<1> QED
  BY <1>1, <1>2, <1>3, <1>4, <1>5, <1>6, <1>7, <1>8, <1>9 DEF ToolNext

\* Whatever documents load and however their elements are relabelled, hidden and
\* copied with their refs: an action lands on what looks as the model was shown
\* it, unless the page changed between the lookup and the action.
THEOREM ActionsAreAimed == ToolSpec => []AimedAsShown
<1>1. ToolInit => Staged /\ ToolInv
  BY DEF ToolInit, ToolInv, AimedAsShown, NoHit, NoCall, Staged
<1>2. ToolInv => AimedAsShown
  BY DEF ToolInv
<1> QED
  BY <1>1, <1>2, StagedStep, ToolStep, PTL DEF ToolSpec

================================================================================
