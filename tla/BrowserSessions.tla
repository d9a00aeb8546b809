----------------------------- MODULE BrowserSessions ---------------------------
(***************************************************************************)
(* A browser provider and the callers that hold sessions of it             *)
(* (solari/src/provider.ts, solari.ts, local.ts).  The vendor keeps a slot *)
(* for every session until it is closed and can list none, so the          *)
(* provider's own ledger is the only record of what is held.  Callers      *)
(* acquire, work and release; one of them may release early, under its     *)
(* body; a launch may go through unheard, any close may fail; the provider *)
(* may be disposed at any moment.                                          *)
(***************************************************************************)
EXTENDS Naturals, FiniteSets

CONSTANTS
    Callers,        \* callers of withBrowser, each for one session
    MaxCloses,      \* bound: closes of one session that reach the vendor
    Wishes          \* requests a caller may make

VARIABLES
    slots,     \* what the vendor holds: "none", "held" or "freed", per caller
    live,      \* the ledger: sessions to be released
    closing,   \* sessions with a close in flight at the vendor
    closes,    \* history: closes of each session that reached the vendor
    caller,    \* where each caller stands
    released,  \* sessions whose release went through
    abandoned, \* history: sessions whose context failed and whose close failed then
    unseen,    \* history: sessions the vendor made for a launch that failed here
    disposal   \* "no", or "releasing" from dispose on

sessionVars == <<slots, live, closing, closes, caller, released, abandoned, unseen, disposal>>

SessionInit ==
    /\ slots = [c \in Callers |-> "none"]
    /\ live = {} /\ closing = {} /\ released = {} /\ abandoned = {} /\ unseen = {}
    /\ closes = [c \in Callers |-> 0]
    /\ caller = [c \in Callers |-> "idle"]
    /\ disposal = "no"

Goes(c, where) == caller' = [caller EXCEPT ![c] = where]

\* What the gateway would refuse is refused here, before a session costs anything.
Preflight(wish) ==
    /\ wish.proxy # "off" => wish.stealth
    /\ wish.captcha => wish.stealth
    /\ wish.proxy # "off" => wish.served /\ wish.duration

\* Whether a caller may try again: a slot frees only when something else lets go.
Retryable(status) == status \in {502, 503, 504}

FailureKind(status) ==
    CASE status = 429                -> "capacity"
      [] status \in {402, 428}       -> "configuration"
      [] status \in {502, 503, 504}  -> "transport"
      [] OTHER                       -> "internal"

\* A disposed provider, or a request that cannot be served, is refused at once.
Acquire(c) ==
    /\ caller[c] = "idle"
    /\ \E wish \in Wishes :
          Goes(c, IF disposal # "no" \/ ~Preflight(wish) THEN "refused" ELSE "launching")
    /\ UNCHANGED <<slots, live, closing, closes, released, abandoned, unseen, disposal>>

\* The vendor answers the launch, or refuses it and makes no session.
Launched(c) ==
    /\ caller[c] = "launching"
    /\ slots' = [slots EXCEPT ![c] = "held"]
    /\ Goes(c, "opening")
    /\ UNCHANGED <<live, closing, closes, released, abandoned, unseen, disposal>>

LaunchFails(c) ==
    /\ caller[c] = "launching"
    /\ \E status \in {402, 429, 503, 500} :
          Goes(c, IF Retryable(status) THEN "transport" ELSE FailureKind(status))
    /\ UNCHANGED <<slots, live, closing, closes, released, abandoned, unseen, disposal>>

\* The vendor makes a session and its answer comes too late, from the gateway or
\* for the client: one is held whose id nobody here has seen.  The create is not
\* sent again, which would make another.
LaunchUnanswered(c) ==
    /\ caller[c] = "launching"
    /\ slots' = [slots EXCEPT ![c] = "held"]
    /\ unseen' = unseen \union {c}
    /\ \E outcome \in {"internal", "transport"} : Goes(c, outcome)
    /\ UNCHANGED <<live, closing, closes, released, abandoned, disposal>>

\* The vendor's reaper, or its plan's deadline, frees what nobody here can close.
Reaped(c) ==
    /\ c \in unseen \union abandoned /\ slots[c] = "held"
    /\ slots' = [slots EXCEPT ![c] = "freed"]
    /\ UNCHANGED <<live, closing, closes, caller, released, abandoned, unseen, disposal>>

\* The session has a context and enters the ledger.  That the provider was
\* disposed meanwhile is not looked up again.
Opened(c) ==
    /\ caller[c] = "opening"
    /\ live' = live \union {c}
    /\ Goes(c, "working")
    /\ UNCHANGED <<slots, closing, closes, released, abandoned, unseen, disposal>>

\* The context cannot be opened: the session is closed, and a close that fails
\* too is swallowed, since the first error is what the caller needs.
OpenFails(c) ==
    /\ caller[c] = "opening"
    /\ \/ slots' = [slots EXCEPT ![c] = "freed"] /\ UNCHANGED abandoned
       \/ abandoned' = abandoned \union {c} /\ UNCHANGED slots
    /\ closes' = [closes EXCEPT ![c] = @ + 1]
    /\ Goes(c, "internal")
    /\ UNCHANGED <<live, closing, released, unseen, disposal>>

\* Whoever asks first starts the release; who asks meanwhile waits for the same
\* one, and after it went through there is nothing left to do.
Releases(c) == c \notin released /\ c \notin closing

AskRelease(c) ==
    /\ closing' = closing \union (IF Releases(c) /\ closes[c] < MaxCloses THEN {c} ELSE {})
    /\ closes' = [closes EXCEPT ![c] = IF Releases(c) /\ @ < MaxCloses THEN @ + 1 ELSE @]

\* The guard stops the session under its body, and awaits the release.
ReleaseEarly(c) ==
    /\ caller[c] = "working"
    /\ AskRelease(c)
    /\ Goes(c, "stopping")
    /\ UNCHANGED <<slots, live, released, abandoned, unseen, disposal>>

\* The body is over, with a value or an error: withBrowser releases either way.
BodyOver(c) ==
    /\ caller[c] \in {"working", "stopping"}
    /\ caller[c] = "stopping" => c \notin closing
    /\ AskRelease(c)
    /\ Goes(c, "releasing")
    /\ UNCHANGED <<slots, live, released, abandoned, unseen, disposal>>

\* The close went through: the slot is free and leaves the ledger, in that order.
CloseLands(c) ==
    /\ c \in closing
    /\ closing' = closing \ {c}
    /\ slots' = [slots EXCEPT ![c] = "freed"]
    /\ released' = released \union {c}
    /\ live' = live \ {c}
    /\ UNCHANGED <<closes, caller, abandoned, unseen, disposal>>

\* Variant: the entry is dropped whatever the close came to.
DroppedOnFailure(c) == live \ {c}

\* A failed close keeps its entry, since the slot is still held; the next asker tries again.
KeptOnFailure(c) == live

CloseFails(c) ==
    /\ c \in closing
    /\ closing' = closing \ {c}
    /\ live' = KeptOnFailure(c)
    /\ UNCHANGED <<slots, closes, caller, released, abandoned, unseen, disposal>>

\* withBrowser is done when the release it awaited is, one way or the other.
CallerDone(c) ==
    /\ caller[c] = "releasing" /\ c \notin closing
    /\ Goes(c, "done")
    /\ UNCHANGED <<slots, live, closing, closes, released, abandoned, unseen, disposal>>

\* Dispose asks for the release of everything in the ledger at once.  It waits
\* for all of them, failed or not, before it closes the client, which frees nothing.
Dispose ==
    /\ disposal = "no"
    /\ disposal' = "releasing"
    /\ closing' = closing \union {c \in live : Releases(c) /\ closes[c] < MaxCloses}
    /\ closes' = [c \in Callers |-> IF c \in closing' \ closing THEN closes[c] + 1 ELSE closes[c]]
    /\ UNCHANGED <<slots, live, caller, released, abandoned, unseen>>

SessionNext ==
    \/ \E c \in Callers :
          \/ Acquire(c) \/ Launched(c) \/ LaunchFails(c) \/ LaunchUnanswered(c)
          \/ Opened(c) \/ OpenFails(c) \/ Reaped(c)
          \/ ReleaseEarly(c) \/ BodyOver(c) \/ CloseLands(c) \/ CloseFails(c) \/ CallerDone(c)
    \/ Dispose

SessionSpec == SessionInit /\ [][SessionNext]_sessionVars

--------------------------------------------------------------------------------
(* What is checked *)

\* Every slot the vendor still holds is in the ledger, or in the hands of the
\* acquire that launched it.  Two sorts are neither, and both were reported to
\* the caller as a failure: a session whose context and whose close both failed,
\* and one whose launch went through at the vendor and failed here.  No other is
\* lost: one that reached a body stays in the ledger until a close of it went
\* through.  And one session is closed by one caller at a time, never after a
\* close went through: with early releases, retries after a failed close, and a
\* disposal between any two steps.
HeldIsTracked ==
    /\ \A c \in Callers : slots[c] = "held" =>
          \/ c \in live \/ caller[c] = "opening"
          \/ c \in abandoned \union unseen /\ caller[c] \in {"internal", "transport"}
    /\ \A c \in live : slots[c] = "held" /\ c \notin released
    /\ closing \subseteq live
================================================================================
