------------------------------ MODULE Outbound ------------------------------
(***************************************************************************)
(* The single outbound door (packages/bot/src/outbound.ts) and the         *)
(* notifier port over it (notifier.ts): callers that may tell the same     *)
(* event at the same time, again after a failure, or die in the middle.    *)
(*                                                                         *)
(* An event is its dedup key.  The attempts of one send and the pauses     *)
(* between them are one step.  An attempt may arrive and be reported       *)
(* failed: Telegram's answer is lost on the way (runtime.ts,               *)
(* classifySendFailure), or the transcript cannot be written after it      *)
(* (transcribeOutbound).  It is tried again like any other.                *)
(***************************************************************************)
EXTENDS Naturals

CONSTANTS
  Callers,       \* who may be telling an event at once
  Keys,          \* the dedup keys of all events
  SendAttempts,  \* how often one send tries
  MaxUnheard,    \* bound: copies of one message that arrive and are reported failed
  Unreliable     \* bound: the keys whose copies may be reported failed

ASSUME DoorAssumption == SendAttempts \in Nat /\ MaxUnheard \in Nat

VARIABLES
  bound,       \* whether the person has a chat
  deliveries,  \* the row of each key: its status, or none
  received,    \* history: how often each key's message reached the chat
  unheard,     \* history: how many of those were reported failed
  logged,      \* the keys handed to the fallback notifier
  assumed,     \* the keys a caller left to somebody else's pending row
  call         \* where each caller's notify is, and the key it tells

doorVars == <<bound, deliveries, received, unheard, logged, assumed, call>>

NoKey == <<"none">>

IdleCall == [pc |-> "idle", key |-> NoKey]

Goes(c, pc) == call' = [call EXCEPT ![c].pc = pc]

\* The caller enters the door with an event; resolveChatId finds nobody to send
\* to, and the event goes to the process log.
Notify(c, key) ==
  /\ call' = [call EXCEPT ![c] = [pc |-> IF bound THEN "reserve" ELSE "told", key |-> key]]
  /\ logged' = IF bound THEN logged ELSE logged \cup {key}

\* Variant: a row that is still pending is taken over as well.
ReservableAlsoPending(status) == status \in {"none", "failed", "pending"}

\* No row yet, or one whose delivery failed: the conditional update is the claim.
Reservable(status) == status \in {"none", "failed"}

Reserve(c) ==
  /\ call[c].pc = "reserve"
  /\ IF Reservable(deliveries[call[c].key])
     THEN deliveries' = [deliveries EXCEPT ![call[c].key] = "pending"] /\ Goes(c, "send")
     ELSE UNCHANGED deliveries /\ Goes(c, "existing")
  /\ UNCHANGED <<bound, received, unheard, logged, assumed>>

\* The row of somebody else, read after the claim failed: sent and pending are
\* an event on its way, and a failed one is thrown.
ReadExisting(c) ==
  /\ call[c].pc = "existing"
  /\ Goes(c, IF deliveries[call[c].key] = "failed" THEN "threw" ELSE "told")
  /\ assumed' = IF deliveries[call[c].key] = "pending"
                THEN assumed \cup {call[c].key} ELSE assumed
  /\ UNCHANGED <<bound, deliveries, received, unheard, logged>>

\* The attempts, up to the first that is acknowledged or cannot be helped:
\* copies arrive, and all of them but the acknowledged one are unheard of.  The
\* row does not say so yet, or never will.
SendTo(c) ==
  LET key == call[c].key
  IN  /\ call[c].pc = "send"
      /\ \E outcome \in {"sent", "failed"}, copies \in 0..SendAttempts :
           LET heard == IF outcome = "sent" THEN 1 ELSE 0
           IN  /\ heard <= copies
               /\ copies > heard => key \in Unreliable
               /\ unheard[key] + copies - heard <= MaxUnheard
               /\ received' = [received EXCEPT ![key] = @ + copies]
               /\ unheard' = [unheard EXCEPT ![key] = @ + copies - heard]
               /\ Goes(c, outcome)
      /\ UNCHANGED <<bound, deliveries, logged, assumed>>

\* Variant: a delivery that failed is not thrown.
ReturnedEither(outcome) == "told"

\* The notifier returns on a delivery that was sent and throws on one that failed.
Returned(outcome) == IF outcome = "sent" THEN "told" ELSE "threw"

SettleDelivery(c) ==
  /\ call[c].pc \in {"sent", "failed"}
  /\ deliveries' = [deliveries EXCEPT ![call[c].key] = call[c].pc]
  /\ Goes(c, Returned(call[c].pc))
  /\ UNCHANGED <<bound, received, unheard, logged, assumed>>

\* bindChat; a chat once bound stays bound.
ChatBound ==
  /\ ~bound
  /\ bound' = TRUE
  /\ UNCHANGED <<deliveries, received, unheard, logged, assumed, call>>

DoorInit ==
  /\ bound \in BOOLEAN
  /\ deliveries = [key \in Keys |-> "none"]
  /\ received = [key \in Keys |-> 0]
  /\ unheard = [key \in Keys |-> 0]
  /\ logged = {}
  /\ assumed = {}
  /\ call = [c \in Callers |-> IdleCall]

DoorStep(c) ==
  Reserve(c) \/ ReadExisting(c) \/ SendTo(c) \/ SettleDelivery(c)

-----------------------------------------------------------------------------
(* What is checked *)

CallPcs == {"idle", "reserve", "existing", "send", "sent", "failed", "told", "threw"}
Deliveries == {"none", "pending", "sent", "failed"}

DoorTypeOK ==
  /\ bound \in BOOLEAN
  /\ deliveries \in [Keys -> Deliveries]
  /\ received \in [Keys -> Nat]
  /\ unheard \in [Keys -> 0..MaxUnheard]
  /\ logged \subseteq Keys
  /\ assumed \subseteq Keys
  /\ call \in [Callers -> [pc : CallPcs, key : Keys \cup {NoKey}]]
  /\ \A c \in Callers : call[c].pc # "idle" => call[c].key \in Keys

\* The person gets an event again only for a copy the door was told had failed:
\* however many callers tell it, retry it and die telling it, one delivery of a
\* key is acknowledged and none follows it.  The claim on the row in reserve does
\* it, and that a row left pending is nobody's to send again (outbound.ts, reserve).
OnlyTheUnheardRepeat ==
  \A key \in Keys :
    /\ received[key] <= unheard[key] + 1
    /\ deliveries[key] \in {"none", "failed"} => received[key] = unheard[key]

\* Whoever was told that an event is out has it in the chat or in the log, or
\* left it to another caller's pending row (notifier.ts:65-66).
Out(key) == received[key] > 0 \/ key \in logged \/ key \in assumed

=============================================================================
