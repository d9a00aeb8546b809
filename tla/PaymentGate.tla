------------------------------ MODULE PaymentGate ------------------------------
(***************************************************************************)
(* The rules of the guardrails over one request, without state: the domain *)
(* allowlist, the payment detector and the judgement that combines them    *)
(* (playbooks/src/guardrails).  A regular expression is abstracted to the  *)
(* vocabularies it finds in a text, a host is the sequence of its labels,  *)
(* a value is what it is shaped like.                                      *)
(***************************************************************************)
EXTENDS Naturals, Sequences, SequencesExt

MUTATING == {"POST", "PUT", "PATCH", "DELETE"}

\* A leading "*" label of an allowlist entry is ignored; so are case and dots.
Normalized(host) == IF host # <<>> /\ Head(host) = "*" THEN Tail(host) ELSE host

HostAllowed(host, allowlist) ==
    /\ Normalized(host) # <<>>
    /\ \E entry \in allowlist : /\ Normalized(entry) # <<>>
                                /\ IsSuffix(Normalized(entry), Normalized(host))

\* "allowed", or the reason why not.
CheckUrl(url, allowlist) ==
    CASE url.scheme = "unparseable" -> "unparseable"
      [] url.scheme = "inert"       -> "allowed"
      [] url.scheme = "other"       -> "scheme"
      [] OTHER -> IF HostAllowed(url.host, allowlist) THEN "allowed" ELSE "host"

--------------------------------------------------------------------------------
SETTLES_ALONE == {"card_field", "card_value", "security_code", "processor_frame"}

NEEDS_ANOTHER == {"expiry", "payment_verb"}

Count(evidence, signals) == Len(SelectSeq(evidence, LAMBDA s : s \in signals))

Decide(evidence) ==
    LET strong == Count(evidence, SETTLES_ALONE)
        medium == Count(evidence, NEEDS_ANOTHER)
        weak   == Len(evidence) - strong - medium
    IN  strong > 0 \/ medium > 1 \/ (medium > 0 /\ weak > 0)

\* The first vocabulary, in the detector's order, that the words fall into.
FirstSignal(found) == SelectSeq(<<"card_field", "security_code", "expiry">>, LAMBDA s : s \in found)

FieldEvidence(field) ==
    LET found == FirstSignal(field.words \union IF field.cardToken THEN {"card_field"} ELSE {})
    IN  IF found = <<>> THEN <<>> ELSE <<Head(found)>>

LabelEvidence(label) ==
    SelectSeq(<<"payment_verb", "checkout_marker">>, LAMBDA s : s \in label)

Repeated(signal, n) == [i \in 1..n |-> signal]

\* What a page shows: its forms, the frames of payment processors in it, and
\* whether its text or its address has a checkout marker.
DetectPaymentPage(page) ==
    Decide(FlattenSeq([i \in DOMAIN page.forms |->
                FlattenSeq([j \in DOMAIN page.forms[i].fields |-> FieldEvidence(page.forms[i].fields[j])])
             \o FlattenSeq([j \in DOMAIN page.forms[i].labels |-> LabelEvidence(page.forms[i].labels[j])])])
        \o Repeated("processor_frame", page.processorFrames)
        \o Repeated("checkout_marker", IF page.marker THEN 1 ELSE 0))

\* A card-shaped value counts whatever the field is called; a security code
\* counts only with a value of three or four digits.
SubmittedEvidence(field) ==
    LET named == field.words \ (IF field.value = "code" THEN {} ELSE {"security_code"})
        found == FirstSignal(named)
    IN  CASE field.value = "card" -> <<"card_value">>
          [] found = <<>>         -> <<>>
          [] OTHER                -> <<Head(found)>>

DetectPaymentSubmission(submission) ==
    Decide(FlattenSeq([i \in DOMAIN submission.fields |-> SubmittedEvidence(submission.fields[i])])
        \o Repeated("checkout_marker", IF submission.url.path = "checkout" THEN 1 ELSE 0))

\* A page that could not be read has nothing to show.
NoPage == [forms |-> <<>>, processorFrames |-> 0, marker |-> FALSE]

\* How deep a JSON body is read.
MaxDepth == 4

\* A body becomes fields by its content type; one of another type yields none.
ParseSubmission(facts) ==
    [url    |-> facts.url,
     method |-> facts.method,
     fields |-> CASE facts.contentType \in {"urlencoded", "multipart", "text"} -> facts.body
                  [] facts.contentType = "json" -> SelectSeq(facts.body, LAMBDA f : f.depth <= MaxDepth)
                  [] OTHER -> <<>>]

\* A submission is where it goes and which fields it carries, whatever their values.
PaymentFingerprint(submission) ==
    <<submission.method, submission.url.scheme, submission.url.host, submission.url.path,
      {submission.fields[i].name : i \in DOMAIN submission.fields}>>

--------------------------------------------------------------------------------
LooksLikePayment(facts) ==
    \/ DetectPaymentSubmission(ParseSubmission(facts))
    \/ DetectPaymentPage(facts.page)

Via(facts) == CASE facts.redirected -> "redirect"
                [] facts.popup      -> "popup"
                [] OTHER            -> "navigation"

AllowlistStop(facts, reason) ==
    [kind |-> "allowlist", attempted |-> facts.url, via |-> Via(facts), reason |-> reason]

PaymentStop(facts) ==
    [kind |-> "payment", fingerprint |-> PaymentFingerprint(ParseSubmission(facts))]

NoStop == [kind |-> "none"]

\* The judgement on a request: NoStop lets it go on.
JudgeRequest(policy, facts) ==
    LET verdict == CheckUrl(facts.url, policy.allowlist)
    IN  IF facts.topLevel /\ verdict # "allowed" THEN AllowlistStop(facts, verdict)
        ELSE IF /\ facts.method \in MUTATING
                /\ LooksLikePayment(facts)
                /\ PaymentStop(facts).fingerprint \notin policy.confirmed THEN PaymentStop(facts)
        ELSE NoStop

\* The payments the person said yes to, from the answers of the task: every
\* answer to a question tagged with a payment whose reply is a yes, however old.
PaymentConfirmations(answers) ==
    UNION {answers[i].tags : i \in {j \in DOMAIN answers : answers[j].affirmative}}

\* What a stop means for the mission.
StopOutcome(stop) ==
    IF stop.kind = "allowlist" THEN [kind |-> "failed", cause |-> "violation"]
    ELSE [kind |-> "ask", gate |-> stop.fingerprint]
================================================================================
