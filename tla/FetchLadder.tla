------------------------------- MODULE FetchLadder -----------------------------
(***************************************************************************)
(* How a check gets its page (core/src/watch/ladder.ts, watch/src/fetch):  *)
(* plain HTTP, then a browser, then a stealthy one, climbing only when the *)
(* page that came back is a refusal; and what the watch remembers of it.   *)
(* Checks of one watch overlap, the site changes its mind between two      *)
(* tiers, and a person may reset what was learned.                         *)
(***************************************************************************)
EXTENDS Naturals, Sequences

CONSTANTS
    Policies,     \* what the person may have chosen: "auto", or one tier
    Fetches,      \* checks of the watch, numbered as they begin
    Responses,    \* what the site may answer
    MaxResets     \* bound

VARIABLES
    policy,       \* tier_policy of the row
    floor,        \* tier_floor of the row
    fetch,        \* each check: its copy of the floor, the tiers to try, its outcome
    resets,
    refused,      \* history: tiers that refused a check since the last reset
    learned,      \* history: the highest tier that served a check since then, begun since the row last changed
    outrun        \* history: a check wrote the floor it raised from an outdated copy

ladderVars == <<policy, floor, fetch, resets, refused, learned, outrun>>

FETCH_TIERS == <<"http", "browser", "stealth">>

Rank(tier) == CHOOSE i \in 1..3 : FETCH_TIERS[i] = tier

Higher(a, b) == IF Rank(a) > Rank(b) THEN a ELSE b

NotFetching == [stage |-> "none"]

LadderInit ==
    /\ policy \in Policies
    /\ floor = "http"
    /\ fetch = [c \in Fetches |-> NotFetching]
    /\ resets = 0 /\ refused = {} /\ learned = "http" /\ outrun = FALSE

\* What came back, read off its content whichever tier brought it: gone, a
\* refusal by status, by what it says or by saying nothing - or the page.
ClassifyPage(r) ==
    CASE r.status \in {404, 410} -> "gone"
      [] r.status \in {401, 403, 429, 503} -> "blocked"
      [] r.status \notin {404, 410, 401, 403, 429, 503} /\ (r.challenge \/ r.shell) -> "blocked"
      [] OTHER -> "ok"

\* A check may try its policy's tier, or under "auto" all from its floor up.
TiersToTry(chosen, from) ==
    IF chosen # "auto" THEN <<chosen>> ELSE SubSeq(FETCH_TIERS, Rank(from), 3)

BeginFetch(c) ==
    /\ fetch[c].stage = "none" /\ \A d \in Fetches : d < c => fetch[d].stage # "none"
    /\ fetch' = [fetch EXCEPT ![c] =
         [stage |-> "climbing", from |-> floor, left |-> TiersToTry(policy, floor), current |-> TRUE]]
    /\ UNCHANGED <<policy, floor, resets, refused, learned, outrun>>

\* Variant: a tier that fails is climbed over like one that refuses.
AnyFailureClimbs(r) == IF r.ok /\ ClassifyPage(r) # "blocked" THEN ClassifyPage(r) ELSE "blocked"

\* An error ends the check at its tier; only a refusal climbs.
AttemptVerdict(r) == IF r.ok THEN ClassifyPage(r) ELSE "error"

\* One tier's attempt: a GET, or a page of a browser session.
Attempt(c, r) ==
    LET tier == Head(fetch[c].left)
        left == Tail(fetch[c].left)
    IN /\ fetch[c].stage = "climbing"
       /\ refused' = IF r.ok /\ ClassifyPage(r) = "blocked" THEN refused \cup {tier} ELSE refused
       /\ \/ /\ AttemptVerdict(r) = "blocked"
             /\ fetch' = [fetch EXCEPT ![c] = IF left = <<>> THEN [stage |-> "blocked"] ELSE [@ EXCEPT !.left = left]]
          \/ /\ AttemptVerdict(r) = "ok"
             /\ fetch' = [fetch EXCEPT ![c] = [stage |-> "served", tier |-> tier, from |-> @.from,
                                               current |-> @.current]]
          \/ /\ AttemptVerdict(r) \in {"gone", "error"}
             /\ fetch' = [fetch EXCEPT ![c] = [stage |-> AttemptVerdict(r)]]
       /\ UNCHANGED <<policy, floor, resets, learned, outrun>>

\* No check has the row's floor as its copy any more.
Outdated == [d \in Fetches |-> IF fetch[d].stage \in {"climbing", "served"}
                               THEN [fetch[d] EXCEPT !.current = FALSE] ELSE fetch[d]]

\* The floor is written when it rose above the copy the check began with.
TierFloorAfter(c) ==
    LET raised == Higher(fetch[c].tier, fetch[c].from)
    IN /\ fetch[c].stage = "served"
       /\ learned' = IF fetch[c].current THEN Higher(fetch[c].tier, learned) ELSE learned
       /\ IF raised # fetch[c].from
          THEN /\ floor' = raised
               /\ fetch' = [Outdated EXCEPT ![c] = [stage |-> "fetched"]]
               /\ outrun' = (outrun \/ ~fetch[c].current)
          ELSE /\ fetch' = [fetch EXCEPT ![c] = [stage |-> "fetched"]]
               /\ UNCHANGED <<floor, outrun>>
       /\ UNCHANGED <<policy, resets, refused>>

\* POST /watches/:id/tier-reset
ResetTier ==
    /\ resets < MaxResets
    /\ resets' = resets + 1
    /\ floor' = "http"
    /\ fetch' = Outdated
    /\ refused' = {} /\ learned' = "http"
    /\ UNCHANGED <<policy, outrun>>

LadderNext ==
    \/ \E c \in Fetches : BeginFetch(c) \/ (\E r \in Responses : Attempt(c, r)) \/ TierFloorAfter(c)
    \/ ResetTier

LadderSpec == LadderInit /\ [][LadderNext]_ladderVars

--------------------------------------------------------------------------------
(* What is checked *)

\* Whatever the site answers and however checks overlap: under "auto" a watch
\* pays for a tier above HTTP only when every tier below has refused it since
\* the last reset, and the floor is the highest tier that had to serve it
\* (ladder.ts: "it only ever rises") - unless a check wrote from a copy that a
\* reset or another check had outdated.
FloorIsEarned ==
    policy = "auto" /\ ~outrun =>
        /\ floor = learned
        /\ \A i \in 1..(Rank(floor) - 1) : FETCH_TIERS[i] \in refused
================================================================================
