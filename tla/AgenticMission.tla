----------------------------- MODULE AgenticMission ----------------------------
(***************************************************************************)
(* The mission of a task that no playbook claims: a model is asked, uses   *)
(* tools, is told what they came to and asked again, within budgets of     *)
(* tool calls, tokens and time (playbooks/src/agentic/runner.ts,           *)
(* budget.ts, model.ts).  A run may die anywhere and is started again from *)
(* the top; what earlier runs spent is on the task's row.  The model       *)
(* answers whatever it likes.                                              *)
(***************************************************************************)
EXTENDS Naturals, FiniteSets

CONSTANTS
    MaxToolCalls, MaxTokens, MaxWall,   \* the budgets of one run
    Attempts,       \* how often one turn is put to the model
    Usages,         \* tokens an answer may cost
    MaxUses,        \* bound: tools one answer asks for
    MaxAgentRuns    \* bound: runs of the task

ASSUME AgentBudgets ==
  /\ MaxToolCalls \in Nat /\ MaxTokens \in Nat \ {0} /\ MaxWall \in Nat \ {0}
  /\ Usages \subseteq Nat /\ MaxUses \in Nat

VARIABLES
    agent,      \* the run: its stage, and what the stage needs
    ledger,     \* the run's spend, as the budgets are compared with it
    clock,      \* time since the run began
    total,      \* the usage the run believes the task to have
    rowUsage,   \* the usage on the task's row
    violations, \* navigations the guard refused in this run
    agentRuns,  \* runs started
    spent,      \* history: tokens of all answers ever
    unrecorded, \* history: tokens of answers whose run died before they were recorded
    turns,      \* history: answers in this run
    lastUsage,  \* history: tokens of the last answer of this run
    lastStart   \* history: when the last call or tool of this run began

agentVars == <<agent, ledger, clock, total, rowUsage, violations, agentRuns,
               spent, unrecorded, turns, lastUsage, lastStart>>

NothingSpent == [toolCalls |-> 0, tokens |-> 0, elapsed |-> 0]

Resting == [stage |-> "resting"]

Ends(outcome) == agent' = [stage |-> "ended", outcome |-> outcome]

AgentInit ==
    /\ agent = Resting
    /\ ledger = NothingSpent /\ clock = 0 /\ total = 0 /\ rowUsage = 0
    /\ violations = 0 /\ agentRuns = 0
    /\ spent = 0 /\ unrecorded = 0 /\ turns = 0 /\ lastUsage = 0 /\ lastStart = 0

\* Variant: a limit is what may be attempted, not what is allowed.
CheckBudgetsOneMore(l, about) ==
    CASE l.elapsed > MaxWall                            -> "wall_time"
      [] l.tokens > MaxTokens                           -> "tokens"
      [] about # "tokens" /\ l.toolCalls > MaxToolCalls -> "tool_calls"
      [] OTHER -> "none"

\* The first budget that is used up, in this order.
CheckBudgets(l, about) ==
    CASE l.elapsed >= MaxWall                            -> "wall_time"
      [] l.tokens >= MaxTokens                           -> "tokens"
      [] about # "tokens" /\ l.toolCalls >= MaxToolCalls -> "tool_calls"
      [] OTHER -> "none"

\* Time goes by during a step.
Passes(atMost) == \E d \in 0..atMost : clock' = clock + d

\* A run begins: an input without a start, or a connection that is not
\* connected, is refused before a browser is opened.  The usage so far is
\* taken from the row as it was when the run claimed the task.
BeginRun ==
    /\ agent.stage = "resting" \/ agent = [stage |-> "ended", outcome |-> "ask"]
    /\ agentRuns < MaxAgentRuns
    /\ agentRuns' = agentRuns + 1
    /\ \/ agent' = [stage |-> "turn"]
       \/ Ends("refused")
    /\ total' = rowUsage
    /\ ledger' = NothingSpent /\ clock' = 0 /\ violations' = 0
    /\ turns' = 0 /\ lastUsage' = 0 /\ lastStart' = 0
    /\ UNCHANGED <<rowUsage, spent, unrecorded>>

BeforeTurn ==
    /\ agent.stage = "turn"
    /\ ledger' = [ledger EXCEPT !.elapsed = clock]
    /\ IF CheckBudgets(ledger', "turn") # "none" THEN Ends("exhausted")
       ELSE agent' = [stage |-> "asking", attempt |-> 1]
    /\ UNCHANGED <<clock, total, rowUsage, violations, agentRuns, spent, unrecorded, turns, lastUsage, lastStart>>

Remaining == IF clock >= MaxWall THEN 0 ELSE MaxWall - clock

\* One call: it is answered, or fails in a way that may or may not be tried
\* again.  It may take as long as the clock has left, and a second at least.
Call ==
    /\ agent.stage = "asking" /\ Remaining > 0
    /\ lastStart' = clock
    /\ Passes(IF Remaining > 1 THEN Remaining ELSE 1)
    /\ \/ \E usage \in Usages, uses \in 0..MaxUses, refusal \in BOOLEAN :
             /\ agent' = [stage |-> "charging", usage |-> usage, uses |-> uses, refusal |-> refusal]
             /\ spent' = spent + usage /\ lastUsage' = usage
             /\ turns' = turns + 1
       \/ /\ \E retryable \in BOOLEAN :
                IF ~retryable \/ agent.attempt >= Attempts THEN Ends("unavailable")
                ELSE agent' = [stage |-> "waiting", attempt |-> agent.attempt]
          /\ UNCHANGED <<spent, turns, lastUsage>>
    /\ UNCHANGED <<ledger, total, rowUsage, violations, agentRuns, unrecorded>>

\* No time is left, before a call or for the wait after it.
OutOfTime ==
    /\ agent.stage \in {"asking", "waiting"} /\ Remaining = 0
    /\ Ends("exhausted")
    /\ UNCHANGED <<ledger, clock, total, rowUsage, violations, agentRuns, spent, unrecorded, turns, lastUsage, lastStart>>

\* The wait before the next attempt is cut to what the clock has left.
Backoff ==
    /\ agent.stage = "waiting" /\ Remaining > 0
    /\ Passes(Remaining)
    /\ agent' = [stage |-> "asking", attempt |-> agent.attempt + 1]
    /\ UNCHANGED <<ledger, total, rowUsage, violations, agentRuns, spent, unrecorded, turns, lastUsage, lastStart>>

\* The answer is charged to the row before anything comes of it.  A turn that
\* asks for nothing counts as a tool call.
Charge ==
    /\ agent.stage = "charging"
    /\ total' = total + agent.usage
    /\ rowUsage' = total'
    /\ LET charged == [ledger EXCEPT !.tokens = @ + agent.usage, !.elapsed = clock]
       IN  /\ ledger' = IF CheckBudgets(charged, "tokens") = "none" /\ ~agent.refusal /\ agent.uses = 0
                        THEN [charged EXCEPT !.toolCalls = @ + 1] ELSE charged
           /\ IF CheckBudgets(charged, "tokens") # "none" THEN Ends("exhausted")
              ELSE IF agent.refusal THEN Ends("failed")
              ELSE agent' = IF agent.uses = 0 THEN [stage |-> "turn"]
                            ELSE [stage |-> "tools", left |-> agent.uses]
    /\ UNCHANGED <<clock, violations, agentRuns, spent, unrecorded, turns, lastUsage, lastStart>>

\* Two violations end the run, and a payment ends it with the question.
AfterTool(said) ==
    \/ said \in {"ask", "payment"} /\ Ends("ask")
    \/ said = "outcome" /\ \E o \in {"succeeded", "failed", "blocked"} : Ends(o)
    \/ said = "allowlist" /\ violations >= 1 /\ Ends("violation")
    \/ /\ said \in {"ok", "error"} \/ (said = "allowlist" /\ violations = 0)
       /\ agent' = IF agent.left = 1 THEN [stage |-> "turn"] ELSE [agent EXCEPT !.left = @ - 1]

\* One tool of the answer, counted before it runs.
Tool ==
    /\ agent.stage = "tools"
    /\ LET checked == [ledger EXCEPT !.elapsed = clock]
       IN  IF CheckBudgets(checked, "tool") # "none"
           THEN /\ Ends("exhausted")
                /\ ledger' = checked
                /\ UNCHANGED <<clock, violations, lastStart>>
           ELSE /\ ledger' = [checked EXCEPT !.toolCalls = @ + 1]
                /\ lastStart' = clock
                /\ Passes(1)
                /\ \E said \in {"ok", "error", "ask", "outcome", "payment", "allowlist"} :
                      /\ violations' = violations + IF said = "allowlist" THEN 1 ELSE 0
                      /\ AfterTool(said)
    /\ UNCHANGED <<total, rowUsage, agentRuns, spent, unrecorded, turns, lastUsage>>

\* The worker dies, and the task is run again; or the browser or the database
\* fails under the run, and the mission has failed.
AgentDies ==
    /\ agent.stage \notin {"resting", "ended"}
    /\ agent' = Resting \/ Ends("failed")
    /\ unrecorded' = unrecorded + IF agent.stage = "charging" THEN agent.usage ELSE 0
    /\ UNCHANGED <<ledger, clock, total, rowUsage, violations, agentRuns, spent, turns, lastUsage, lastStart>>

AgentNext == BeginRun \/ BeforeTurn \/ Call \/ OutOfTime \/ Backoff \/ Charge \/ Tool \/ AgentDies

AgentSpec == AgentInit /\ [][AgentNext]_agentVars

--------------------------------------------------------------------------------
(* What is checked *)

\* In every run no call and no tool begins on a budget that is used up, though
\* calls overrun, are retried and batch their tools; a model that only talks
\* runs out of turns all the same.  And what the row says was spent is what
\* was answered, over all runs, but for answers a death kept from it.
AgentWithinMeans ==
    /\ turns <= MaxToolCalls /\ ledger.toolCalls <= MaxToolCalls
    /\ agent.stage # "charging" => ledger.tokens < MaxTokens + lastUsage
    /\ lastStart < MaxWall
    /\ spent = rowUsage + unrecorded + IF agent.stage = "charging" THEN agent.usage ELSE 0
================================================================================
