------------------------------- MODULE Guardrails ------------------------------
(***************************************************************************)
(* The guardrails on one browser context while a mission's body drives it  *)
(* (playbooks/src/guardrails/guardrails.ts): every request is held, its    *)
(* facts are gathered, which takes a while, and it is judged; a navigation *)
(* is served from this side, so that the hop of a redirect is judged       *)
(* before it leaves.  What is let go on is followed by the browser through *)
(* its redirects, which come by no handler: a listener judges those of a   *)
(* navigation, late, and nobody judges the others.  The first stop ends    *)
(* the session under the body.                                             *)
(***************************************************************************)
EXTENDS PaymentGate

CONSTANTS
    Requests,        \* the requests of the context
    Raised,          \* what a request may be: facts, as the site's pages raise them
    Targets,         \* where a request may be redirected to: URLs
    MaxHops,         \* bound: how often one request is redirected
    Answers          \* the answers of the task so far, as sequences of them

\* What is known of a request.
FactFields == {"url", "method", "topLevel", "popup", "worker", "redirected", "contentType", "body", "page"}

ASSUME RaisedAreRequests == \A facts \in Raised : DOMAIN facts = FactFields

\* The lane of the task: one host, and every host under it.
Allowlist == {<<"gym", "com">>}

VARIABLES
    answers,   \* the task's accepted answers when the session began
    requests,  \* each request: stage, facts, how often it was redirected
    sent,      \* history: what left the context, by the route handler or the browser alone
    stop,      \* the first stop, or NoStop
    driver,    \* "running", "value" or "threw": the body over the page
    result     \* what runGuarded came to

guardVars == <<answers, requests, sent, stop, driver, result>>

Policy == [allowlist |-> Allowlist, confirmed |-> PaymentConfirmations(answers)]

Unsent == [stage |-> "none", hops |-> 0]

Pending == [kind |-> "pending"]

Released == result.kind \in {"stopped", "lost", "released"}

GuardInit ==
    /\ answers \in Answers
    /\ requests = [r \in Requests |-> Unsent]
    /\ sent = {}
    /\ stop = NoStop
    /\ driver = "running"
    /\ result = Pending

\* What left, by whom it was sent on, and whether a stop stood by then.
Log(facts, by) == sent' = sent \union {[facts |-> facts, by |-> by, stopped |-> stop # NoStop]}

Put(r, stage, facts) ==
    requests' = [requests EXCEPT ![r] = [stage |-> stage, hops |-> requests[r].hops, facts |-> facts]]

Abort(r, facts) == Put(r, "aborted", facts) /\ UNCHANGED sent

\* The page raises a request and the route handler takes it: a service worker's
\* goes on its way, after a stop all others are refused, the rest is read.
Route(r, facts) ==
    /\ ~Released
    /\ requests[r] = Unsent
    /\ IF facts.worker THEN Put(r, "left", facts) /\ Log(facts, "route")
       ELSE IF stop # NoStop THEN Abort(r, facts)
       ELSE Put(r, "reading", facts) /\ UNCHANGED sent
    /\ UNCHANGED <<answers, stop, driver, result>>

\* A page is read as it was when its form went out, or live; the reading may be
\* too old, take too long, or find no page, and there is none then.
PageSeen(facts) == {facts.page, NoPage}

\* Only a mutating request has its page read.
Readings(facts) == IF facts.method \in MUTATING THEN PageSeen(facts) ELSE {NoPage}

\* Variant: whether there is a stop was looked up before the facts were read.
AdmitWithoutAnotherLook(facts) == JudgeRequest(Policy, facts) = NoStop

\* The first stop wins.  A request is admitted when there is none, and its
\* judgement raises none.
Admit(facts) ==
    /\ stop = NoStop
    /\ JudgeRequest(Policy, facts) = NoStop

StopAfter(facts) == IF stop = NoStop THEN JudgeRequest(Policy, facts) ELSE stop

\* The facts have been gathered; judging and sending on follow without a pause.
Judge(r) ==
    LET asked == requests[r].facts
    IN  /\ requests[r].stage = "reading"
        /\ \E page \in Readings(asked) :
              LET facts == [asked EXCEPT !.page = page]
              IN  /\ stop' = StopAfter(facts)
                  /\ IF ~Admit(facts) THEN Abort(r, asked)
                     ELSE /\ Put(r, IF asked.topLevel THEN "serving" ELSE "left", asked)
                          /\ Log(facts, "route")
        /\ UNCHANGED <<answers, driver, result>>

\* The page went away while its request was read, or the fetch failed.
Dropped(r) ==
    /\ requests[r].stage \in {"reading", "serving"}
    /\ Abort(r, requests[r].facts)
    /\ UNCHANGED <<answers, stop, driver, result>>

\* The document of a navigation arrived and is handed to the page.
Served(r) ==
    /\ requests[r].stage = "serving"
    /\ Put(r, "left", requests[r].facts)
    /\ UNCHANGED <<answers, sent, stop, driver, result>>

\* The facts of a redirect's hop.
Hop(facts, url) ==
    [facts EXCEPT !.url = url, !.method = "GET", !.redirected = TRUE,
                  !.contentType = "none", !.body = <<>>, !.page = NoPage]

\* The answer is a redirect.  Its hop is judged before it leaves; admitted, it
\* becomes a navigation of its own, which is read and judged again.
Redirected(r, url) ==
    LET hop == Hop(requests[r].facts, url)
    IN  /\ requests[r].stage = "serving"
        /\ requests[r].hops < MaxHops
        /\ stop' = StopAfter(hop)
        /\ sent' = sent
        /\ requests' = [requests EXCEPT ![r] =
              [stage |-> IF Admit(hop) THEN "reading" ELSE "aborted",
               hops  |-> requests[r].hops + 1,
               facts |-> [hop EXCEPT !.redirected = FALSE]]]
        /\ UNCHANGED <<answers, driver, result>>

\* What a browser makes of a redirect: the same request to another place, its
\* body with it, or a plain GET.
FollowUps(facts, url) ==
    LET again == [facts EXCEPT !.url = url, !.redirected = TRUE, !.page = NoPage]
    IN  {again, [again EXCEPT !.method = "GET", !.contentType = "none", !.body = <<>>]}

\* The browser follows the redirect of a request that has left, on its own and
\* past the route handler, whether a stop stands or not.
GoesOn(r, hop) ==
    /\ ~Released
    /\ requests[r].stage = "left"
    /\ requests[r].hops < MaxHops
    /\ requests' = [requests EXCEPT ![r] =
           [stage |-> "left", hops |-> requests[r].hops + 1, facts |-> hop]]
    /\ Log(hop, "browser")

\* A navigation is served so that the browser follows no redirect of it.  Should
\* it follow one all the same, the listener hears of the hop: it has left already
\* and its body is not looked at, but what it is judged to be ends the session.
FollowedHop(r, url) ==
    /\ requests[r].stage = "left" /\ requests[r].facts.topLevel
    /\ \E hop \in FollowUps(requests[r].facts, url) :
          /\ GoesOn(r, hop)
          /\ stop' = StopAfter([hop EXCEPT !.contentType = "none", !.body = <<>>])
    /\ UNCHANGED <<answers, driver, result>>

\* Any other request's hop is nobody's: hopFacts has no facts of it.
FollowedUnseen(r, url) ==
    /\ requests[r].stage = "left" /\ ~requests[r].facts.topLevel
    /\ \E hop \in FollowUps(requests[r].facts, url) : GoesOn(r, hop)
    /\ UNCHANGED <<answers, stop, driver, result>>

\* A step reaches for page.request: that is a stop, and the call is rejected.
RequestContext ==
    /\ driver = "running" /\ ~Released
    /\ stop' = IF stop # NoStop THEN stop
               ELSE [kind |-> "allowlist", attempted |-> "any", via |-> "request-context", reason |-> "unguarded"]
    /\ UNCHANGED <<answers, requests, sent, driver, result>>

BodySettles ==
    /\ driver = "running" /\ ~Released
    /\ driver' \in {"value", "threw"}
    /\ UNCHANGED <<answers, requests, sent, stop, result>>

\* Variant: the body that settled first is believed.
VerdictOfTheRace ==
    CASE driver = "value" -> {[kind |-> "completed"]}
      [] driver = "threw" -> {[kind |-> "threw"]}
      [] OTHER            -> {[kind |-> "stopped", stop |-> stop], [kind |-> "lost"]}

\* runGuarded wakes up: a stop wins over whatever the body came to.  The
\* session is released under it; a release that fails is thrown instead.
Verdict ==
    IF stop # NoStop THEN {[kind |-> "stopped", stop |-> stop], [kind |-> "lost"]}
    ELSE IF driver = "threw" THEN {[kind |-> "threw"]}
    ELSE {[kind |-> "completed"]}

Conclude ==
    /\ result = Pending
    /\ stop # NoStop \/ driver # "running"
    /\ result' \in Verdict
    /\ UNCHANGED <<answers, requests, sent, stop, driver>>

\* withBrowser lets go of a session that ended without a stop; what a body
\* completed is lost when the release fails.
Release ==
    /\ result.kind \in {"completed", "threw"}
    /\ result' \in {[kind |-> "released"]}
               \union IF result.kind = "completed" THEN {[kind |-> "lost"]} ELSE {}
    /\ UNCHANGED <<answers, requests, sent, stop, driver>>

GuardNext ==
    \/ \E r \in Requests : \E facts \in Raised : Route(r, facts)
    \/ \E r \in Requests : Judge(r) \/ Dropped(r) \/ Served(r)
    \/ \E r \in Requests : \E url \in Targets :
          Redirected(r, url) \/ FollowedHop(r, url) \/ FollowedUnseen(r, url)
    \/ RequestContext
    \/ BodySettles
    \/ Conclude
    \/ Release

GuardSpec == GuardInit /\ [][GuardNext]_guardVars

--------------------------------------------------------------------------------
(* What is checked *)

\* What left but the requests of service workers, which no rule is for.
Departed == {s \in sent : ~s.facts.worker}

Admitted == {s \in Departed : s.by = "route"}

AgreedTo(facts) ==
    \E i \in DOMAIN answers :
        /\ answers[i].affirmative
        /\ PaymentFingerprint(ParseSubmission(facts)) \in answers[i].tags

IsPayment(facts) == facts.method \in MUTATING /\ LooksLikePayment(facts)

InLane(facts) == facts.topLevel => CheckUrl(facts.url, Allowlist) = "allowed"

\* A request that goes on from another one: no body is in it but that one's.
Continues(facts, from) ==
    /\ facts.topLevel = from.topLevel
    /\ facts.method \in MUTATING => facts.method = from.method /\ facts.body = from.body

NothingNewAfterStop == \A s \in Admitted : ~s.stopped

LaneKept == \A s \in Admitted : InLane(s.facts)

PaymentsConfirmed == \A s \in Admitted : IsPayment(s.facts) => AgreedTo(s.facts)

HopsAreCaught == \A s \in Departed : InLane(s.facts) \/ stop # NoStop

HopsHaveOrigins == \A s \in Departed : \E origin \in Admitted : Continues(s.facts, origin.facts)

\* What the handler lets go on, it lets go on while no stop stands, to a host on
\* the list when it is a top-level navigation, and with a yes to exactly that
\* submission when it looks like a payment, in its body or on the page it was
\* read from: with requests read side by side, and a stop between any two steps.
\* What the browser sends on its own is bound by less.  A navigation off the
\* list has ended the session once it is out, and no body leaves but one that
\* the handler let go on, wherever a redirect takes it.
SentWithinPolicy ==
    /\ NothingNewAfterStop /\ LaneKept /\ PaymentsConfirmed
    /\ HopsAreCaught /\ HopsHaveOrigins

\* The first stop stands, and once one does the mission is never told that its
\* body completed, nor what it threw: it gets the stop, or the failed release.
StopWins ==
    [][/\ stop # NoStop => stop' = stop
       /\ (stop # NoStop /\ result = Pending /\ result' # Pending) =>
             result'.kind = "lost" \/ result' = [kind |-> "stopped", stop |-> stop]]_guardVars
================================================================================
