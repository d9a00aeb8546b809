-------------------------------- MODULE ChatAgent ------------------------------
(***************************************************************************)
(* One message in the assistant's hands (agent/src/chat-agent.ts): a model *)
(* is asked, wants calls of the API made, is told what they came to and    *)
(* asked again, until it speaks.  Every call passes the budget of the      *)
(* message (tools.ts) and goes over HTTP (crud.ts), where its answer may   *)
(* be lost after the API has done what it asked.  The tools of one answer  *)
(* run concurrently.                                                       *)
(***************************************************************************)
EXTENDS Naturals

CONSTANTS
    ToolBudget,   \* calls one message may make
    MaxWidth      \* bound: calls the model wants made at once

ASSUME TurnBounds == ToolBudget \in Nat /\ MaxWidth \in Nat \ {0}

VARIABLES
    turn,         \* where the message is: its stage, and the reply once it is over
    iteration,    \* answers of the model so far
    inFlight,     \* calls sent whose answer has not come
    calls,        \* the toolkit's record: calls that went through, and that were refused
    overBudget,   \* a call was turned away for having no budget left
    effects,      \* history: calls the API has carried out
    unheard       \* history: of these, the ones whose answer was lost

turnVars == <<turn, iteration, inFlight, calls, overBudget, effects, unheard>>

TurnInit ==
    /\ turn = [stage |-> "thinking"]
    /\ iteration = 0 /\ inFlight = 0
    /\ calls = [ok |-> 0, refused |-> 0]
    /\ overBudget = FALSE
    /\ effects = 0 /\ unheard = 0

Recorded == calls.ok + calls.refused

TurnEnds(reply) == turn' = [stage |-> "over", reply |-> reply]

\* What is said once the loop has finished: being cut off goes before the
\* model's own words.
Closing(words) ==
    IF overBudget THEN "budget_spent" ELSE IF words = "" THEN "no_reply" ELSE "spoken"

\* The model answers with words, and the loop is finished.
Speaks(words) ==
    /\ turn.stage = "thinking" /\ iteration <= ToolBudget
    /\ iteration' = iteration + 1
    /\ TurnEnds(Closing(words))
    /\ UNCHANGED <<inFlight, calls, overBudget, effects, unheard>>

\* The model wants n calls made.  Each looks at the record before the first
\* of them is on it, so they are sent together or turned away together.
WantsCalls(n) ==
    /\ turn.stage = "thinking" /\ iteration <= ToolBudget
    /\ iteration' = iteration + 1
    /\ turn' = [stage |-> "calling"]
    /\ IF Recorded >= ToolBudget
       THEN overBudget' = TRUE /\ UNCHANGED inFlight
       ELSE inFlight' = n /\ UNCHANGED overBudget
    /\ UNCHANGED <<calls, effects, unheard>>

\* An answer comes: the call was carried out, refused, or never arrived.
CallAnswered ==
    /\ inFlight > 0
    /\ inFlight' = inFlight - 1
    /\ \/ calls' = [calls EXCEPT !.ok = @ + 1] /\ effects' = effects + 1
       \/ calls' = [calls EXCEPT !.refused = @ + 1] /\ UNCHANGED effects
    /\ UNCHANGED <<turn, iteration, overBudget, unheard>>

\* The call was carried out and its answer is lost on the way: taken for an
\* API that could not be reached, or - lost halfway - not recorded at all.
AnswerLost ==
    /\ inFlight > 0
    /\ inFlight' = inFlight - 1
    /\ effects' = effects + 1 /\ unheard' = unheard + 1
    /\ calls' = [calls EXCEPT !.refused = @ + 1] \/ UNCHANGED calls
    /\ UNCHANGED <<turn, iteration, overBudget>>

\* The credential could not be had: nothing is sent, nothing recorded.
NotSent ==
    /\ inFlight > 0
    /\ inFlight' = inFlight - 1
    /\ UNCHANGED <<turn, iteration, calls, overBudget, effects, unheard>>

\* All results are in.  One answer more than the budget, and the loop stops
\* with the words that came beside the last calls.
CallsReturned(words) ==
    /\ turn.stage = "calling" /\ inFlight = 0
    /\ IF iteration <= ToolBudget THEN turn' = [stage |-> "thinking"] /\ words = ""
       ELSE TurnEnds(Closing(words))
    /\ UNCHANGED <<iteration, inFlight, calls, overBudget, effects, unheard>>

\* Variant: what the turn did before the model went away is not looked at.
OutageForgetsCalls == "not_acted"

\* The reply to an outage depends on what the turn has done.
Outage == IF calls.ok > 0 THEN "midway" ELSE "not_acted"

\* Nothing comes from the model any more.
ModelGone ==
    /\ turn.stage = "thinking" /\ iteration <= ToolBudget
    /\ TurnEnds(Outage)
    /\ UNCHANGED <<iteration, inFlight, calls, overBudget, effects, unheard>>

TurnNext ==
    \/ \E words \in {"", "said"} : Speaks(words) \/ CallsReturned(words)
    \/ \E n \in 1..MaxWidth : WantsCalls(n)
    \/ CallAnswered \/ AnswerLost \/ NotSent
    \/ ModelGone

TurnSpec == TurnInit /\ [][TurnNext]_turnVars

--------------------------------------------------------------------------------
(* What is checked *)

\* Every ending owns up to what the turn did (agent/src/replies.ts): "I have
\* not acted" is said only when the API did nothing it could have been heard
\* of, "check before sending it again" only when it did something, and a
\* budget that ran out is owned up to whatever the model said - it ran out
\* with all of its calls on the record, and was overrun by no more than the
\* calls that were wanted together.
TurnIsOwnedUp ==
    /\ turn.stage = "over" =>
         /\ turn.reply = "not_acted" => effects = unheard
         /\ turn.reply = "midway" => effects > 0
         /\ turn.reply = "budget_spent" => overBudget
         /\ overBudget => turn.reply \in {"budget_spent", "not_acted", "midway"}
    /\ overBudget => Recorded >= ToolBudget
    /\ Recorded < ToolBudget + MaxWidth
================================================================================
