---------------------------------- MODULE Chat ---------------------------------
(***************************************************************************)
(* The bot's side of the chat: every message runs through the same chain   *)
(* of handlers (bot/src/runtime.ts) - written down, refused when its chat  *)
(* floods, taken as the redemption of a binding code, refused when its     *)
(* chat is bound to nobody, and else routed to the question its user was   *)
(* asked last or to the assistant (routing.ts).  Messages are handled      *)
(* concurrently, as a webhook delivers them; every handler below reads and *)
(* writes the database in steps of its own.                                *)
(***************************************************************************)
EXTENDS Integers, FiniteSets

CONSTANTS
    Users, Chats,
    Codes,                  \* binding codes, numbered as they are issued
    ChatTasks, AskerOf,     \* tasks that ask questions, and the user of each
    Messages, Contents,     \* messages, numbered as they arrive, and what one may say
    CodeLife,               \* how long a code lives
    Burst, NoticeWindow,    \* the limiter: tokens of a full bucket, time between notices
    MaxAsked, MaxTime       \* bounds: questions of all tasks, time

VARIABLES
    chatOf,     \* users.telegram_chat_id: each user's chat, or Nobody
    codes,      \* each code: "unissued", "fresh" or "consumed", and when it expires
    chatTasks,  \* each task: its status, questions asked and answered, when the newest was asked
    buckets,    \* the limiter's buckets, or NoBucket
    toldAt,     \* the notice gate: when each chat was told how to bind, or Never
    time,       \* a tick refills one token
    messages    \* each message: the handler it is at, and what the handlers learned

chatVars == <<chatOf, codes, chatTasks, buckets, toldAt, time, messages>>

Nobody == "nobody"

ASSUME ChatsAssumption ==
    /\ Nobody \notin Users \cup Chats
    /\ Burst \in Nat /\ NoticeWindow \in Nat /\ CodeLife \in Nat
    /\ \A content \in Contents :
         /\ content.is \in {"start", "bare_start", "words", "no", "photo", "edit"}
         /\ content.is = "start" => content.code \in Codes

Never == -1 - NoticeWindow
NoBucket == [tokens |-> Burst, updatedAt |-> Never, noticedAt |-> Never]

Fresh == [stage |-> "unsent"]

\* Some users have a chat of their own already.
ChatInit ==
    /\ chatOf \in {f \in [Users -> Chats \cup {Nobody}] : \A u, v \in Users : f[u] = f[v] => u = v \/ f[u] = Nobody}
    /\ codes = [k \in Codes |-> [state |-> "unissued", holder |-> Nobody, expires |-> 0]]
    /\ chatTasks = [t \in ChatTasks |-> [status |-> "running", asked |-> 0, answered |-> 0, at |-> 0]]
    /\ buckets = [c \in Chats |-> NoBucket]
    /\ toldAt = [c \in Chats |-> Never]
    /\ time = 0
    /\ messages = [m \in Messages |-> Fresh]

\* The user a chat is bound to, or Nobody.
ResolveUserId(c) ==
    IF \E u \in Users : chatOf[u] = c THEN CHOOSE u \in Users : chatOf[u] = c ELSE Nobody

At(m, stage) == messages[m].stage = stage

Becomes(m, r) == messages' = [messages EXCEPT ![m] = r]

Moves(m, stage) == Becomes(m, [messages[m] EXCEPT !.stage = stage])

Refusals == {"slow_down", "how_to_bind"}

\* The handler answers: the words go out in a step of their own.
Replies(m, words) ==
    Becomes(m, [messages[m] EXCEPT !.stage = "reply", !.reply = words,
                                   !.at = IF words \in Refusals THEN time ELSE Never])

\* The stages of a message the router has.
Routed == {"find", "deliver", "assistant"}

\* What the handlers learned is dropped with the update.
Over(m, stage) ==
    [messages[m] EXCEPT !.stage = stage, !.occupant = Nobody, !.user = Nobody, !.task = Nobody, !.pending = 0]

\* The handler ends without a word.
Silent(m) == Becomes(m, [Over(m, "done") EXCEPT !.at = time])

\* The handler throws: the update is over and its failure is logged.
Throws(m) == Becomes(m, [Over(m, "failed") EXCEPT !.routed = messages[m].stage \in Routed])

--------------------------------------------------------------------------------
(* Around the bot. *)

\* A person asks the API for a code.
IssueCode(k, u) ==
    /\ codes[k].state = "unissued"
    /\ \A j \in Codes : j < k => codes[j].state # "unissued"
    /\ codes' = [codes EXCEPT ![k] = [state |-> "fresh", holder |-> u, expires |-> time + CodeLife]]
    /\ UNCHANGED <<chatOf, chatTasks, buckets, toldAt, time, messages>>

Asked == [t \in ChatTasks |-> chatTasks[t].asked]

AskedSoFar == Cardinality({q \in ChatTasks \X (1..MaxAsked) : q[2] <= Asked[q[1]]})

\* A task asks: the question is on its row before it is sent.
TaskAsks(t) ==
    /\ chatTasks[t].status = "running"
    /\ AskedSoFar < MaxAsked
    /\ chatTasks' = [chatTasks EXCEPT ![t].status = "waiting", ![t].asked = @ + 1, ![t].at = AskedSoFar + 1]
    /\ UNCHANGED <<chatOf, codes, buckets, toldAt, time, messages>>

\* Its run is taken up again, or its question goes unanswered for too long.
TaskGoesOn(t) ==
    /\ \/ chatTasks[t].status = "queued"  /\ chatTasks' = [chatTasks EXCEPT ![t].status = "running"]
       \/ chatTasks[t].status = "waiting" /\ chatTasks' = [chatTasks EXCEPT ![t].status = "failed"]
    /\ UNCHANGED <<chatOf, codes, buckets, toldAt, time, messages>>

TimePasses ==
    /\ time < MaxTime
    /\ time' = time + 1
    /\ UNCHANGED <<chatOf, codes, chatTasks, buckets, toldAt, messages>>

--------------------------------------------------------------------------------
(* The chain, up to the binding. *)

\* A message comes in.  Everything that is a message is written down before
\* anything may refuse it, and nothing is done with what could not be.
TranscribeInbound(m, c, content) ==
    /\ At(m, "unsent") /\ \A n \in Messages : n < m => ~At(n, "unsent")
    /\ \E heard \in {content.is # "edit", FALSE} :
         Becomes(m, [stage |-> IF heard \/ content.is = "edit" THEN "limit" ELSE "failed",
                     chat |-> c, content |-> content, heard |-> heard,
                     reply |-> "none", at |-> Never, routed |-> FALSE, occupant |-> Nobody,
                     user |-> Nobody, pending |-> 0, task |-> Nobody, taken |-> FALSE,
                     rivals |-> {}])
    /\ UNCHANGED <<chatOf, codes, chatTasks, buckets, toldAt, time>>

\* Buckets that are full again and whose notice is out of date are dropped.
Swept == [c \in Chats |->
            IF time - buckets[c].updatedAt >= Burst /\ time - buckets[c].noticedAt >= NoticeWindow
            THEN NoBucket ELSE buckets[c]]

Least(a, b) == IF a < b THEN a ELSE b

RefilledBucket(c) ==
    LET b == Swept[c]
    IN [b EXCEPT !.tokens = IF b = NoBucket THEN Burst ELSE Least(Burst, b.tokens + time - b.updatedAt),
                 !.updatedAt = time]

\* /start is the one thing an unbound chat may say.
RedeemStart(m) ==
    CASE messages[m].content.is = "start" -> Moves(m, "code")
      [] messages[m].content.is = "bare_start" -> Replies(m, "how_to_bind")
      [] OTHER -> Moves(m, "binding")

\* One token a message; a chat without one is refused, and told so when it was not of late.
RefuseFloods(m) ==
    LET c == messages[m].chat
        b == RefilledBucket(c)
        due == time - b.noticedAt >= NoticeWindow
    IN /\ At(m, "limit")
       /\ \/ /\ b.tokens >= 1
             /\ buckets' = [Swept EXCEPT ![c] = [b EXCEPT !.tokens = @ - 1]]
             /\ RedeemStart(m)
          \/ /\ b.tokens < 1 /\ due
             /\ buckets' = [Swept EXCEPT ![c] = [b EXCEPT !.noticedAt = time]]
             /\ Replies(m, "slow_down")
          \/ /\ b.tokens < 1 /\ ~due
             /\ buckets' = [Swept EXCEPT ![c] = b]
             /\ Silent(m)
       /\ UNCHANGED <<chatOf, codes, chatTasks, toldAt, time>>

Code(m) == messages[m].content.code

Holder(m) == codes[Code(m)].holder

\* The redemption is one transaction; it holds the code's row from here on.
LockCode(m) ==
    /\ At(m, "code")
    /\ ~\E n \in Messages \ {m} : messages[n].stage \in {"occupant", "owner", "bind"} /\ Code(n) = Code(m)
    /\ CASE codes[Code(m)].state = "unissued" -> Replies(m, "unknown_code")
         [] codes[Code(m)].state = "consumed" -> Replies(m, "consumed")
         [] codes[Code(m)].state = "fresh" /\ codes[Code(m)].expires <= time -> Replies(m, "expired")
         [] OTHER -> Moves(m, "occupant")
    /\ UNCHANGED <<chatOf, codes, chatTasks, buckets, toldAt, time>>

\* Whose chat is this?  Somebody else's is refused, and the code is kept.
ReadOccupant(m) ==
    LET occupant == ResolveUserId(messages[m].chat)
    IN /\ At(m, "occupant")
       /\ IF occupant \notin {Nobody, Holder(m)} THEN Replies(m, "chat_bound_elsewhere")
          ELSE Becomes(m, [messages[m] EXCEPT !.stage = "owner", !.occupant = occupant])
       /\ UNCHANGED <<chatOf, codes, chatTasks, buckets, toldAt, time>>

\* Variant: an account is moved to whatever chat presents a code of its holder.
ReadOwnerAndMove(m) ==
    /\ At(m, "owner")
    /\ Moves(m, "bind")
    /\ UNCHANGED <<chatOf, codes, chatTasks, buckets, toldAt, time>>

\* Where does the holder live?  In another chat, the code moves nobody.
ReadOwner(m) ==
    /\ At(m, "owner")
    /\ IF chatOf[Holder(m)] \notin {Nobody, messages[m].chat}
       THEN Replies(m, "user_bound_elsewhere")
       ELSE Moves(m, "bind")
    /\ UNCHANGED <<chatOf, codes, chatTasks, buckets, toldAt, time>>

Rivals(m) == {n \in Messages \ {m} : At(n, "bind") /\ Holder(n) = Holder(m)}

\* Both writes, or neither: the chat is unique over users.
BindChat(m) ==
    /\ At(m, "bind")
    /\ codes' = [codes EXCEPT ![Code(m)].state = "consumed"]
    /\ \/ /\ messages[m].occupant # Nobody
          /\ Replies(m, "already_bound")
          /\ UNCHANGED chatOf
       \/ /\ messages[m].occupant = Nobody
          /\ ResolveUserId(messages[m].chat) \in {Nobody, Holder(m)}
          /\ chatOf' = [chatOf EXCEPT ![Holder(m)] = messages[m].chat]
          /\ Becomes(m, [messages[m] EXCEPT !.stage = "reply", !.reply = "bound", !.rivals = Rivals(m)])
    /\ UNCHANGED <<chatTasks, buckets, toldAt, time>>

GateSwept == [c \in Chats |-> IF time - toldAt[c] >= NoticeWindow THEN Never ELSE toldAt[c]]

\* What is no text is told so, and what is no message at all is let be.
RouteText(m) ==
    CASE messages[m].content.is \in {"words", "no"} -> Moves(m, "resolve")
      [] messages[m].content.is = "photo" -> Replies(m, "text_only")
      [] OTHER -> Silent(m)

\* Past here a chat has a user; a stranger is told how to get one, now and then.
RequireBinding(m) ==
    LET c == messages[m].chat
    IN /\ At(m, "binding")
       /\ \/ /\ ResolveUserId(c) # Nobody
             /\ RouteText(m)
             /\ UNCHANGED toldAt
          \/ /\ ResolveUserId(c) = Nobody
             /\ toldAt' = [GateSwept EXCEPT ![c] = IF @ = Never THEN time ELSE @]
             /\ IF GateSwept[c] = Never THEN Replies(m, "how_to_bind") ELSE Silent(m)
       /\ UNCHANGED <<chatOf, codes, chatTasks, buckets, time>>

--------------------------------------------------------------------------------
(* The router. *)

\* The user is read again: the chat may have changed hands.
ResolveUser(m) ==
    LET u == ResolveUserId(messages[m].chat)
    IN /\ At(m, "resolve")
       /\ IF u = Nobody THEN Replies(m, "how_to_bind")
          ELSE Becomes(m, [messages[m] EXCEPT !.stage = "find", !.user = u])
       /\ UNCHANGED <<chatOf, codes, chatTasks, buckets, toldAt, time>>

\* The newest question of the tasks that are parked on one.
FindPendingQuestion(m) ==
    LET parked == {t \in ChatTasks : /\ AskerOf[t] = messages[m].user
                                     /\ chatTasks[t].status = "waiting"
                                     /\ chatTasks[t].asked > chatTasks[t].answered}
        newest == CHOOSE t \in parked : \A o \in parked : chatTasks[o].at <= chatTasks[t].at
    IN /\ At(m, "find")
       /\ IF parked = {} THEN Moves(m, "assistant")
          ELSE Becomes(m, [messages[m] EXCEPT !.stage = "deliver", !.task = newest,
                                              !.pending = chatTasks[newest].asked])
       /\ UNCHANGED <<chatOf, codes, chatTasks, buckets, toldAt, time>>

\* The ledger takes the words when the task is parked on this very question
\* and its deadline has not passed; a plain no ends the task.  An answer
\* counts also when the run that is to read it could not be queued.
Deliver(m) ==
    LET t == messages[m].task
        open == chatTasks[t].status = "waiting" /\ chatTasks[t].asked = messages[m].pending
        taken(words) == Becomes(m, [messages[m] EXCEPT !.stage = "reply", !.reply = words, !.taken = TRUE])
    IN /\ At(m, "deliver")
       /\ \/ /\ open /\ messages[m].content.is = "words"
             /\ chatTasks' = [chatTasks EXCEPT ![t].status = "queued", ![t].answered = @ + 1]
             /\ taken("answer_recorded") \/ taken("unavailable")
          \/ /\ open /\ messages[m].content.is = "no"
             /\ chatTasks' = [chatTasks EXCEPT ![t].status = "cancelled"]
             /\ taken("decline_recorded")
          \/ /\ chatTasks' = IF open THEN [chatTasks EXCEPT ![t].status = "failed"] ELSE chatTasks
             /\ Replies(m, "question_closed")
       /\ UNCHANGED <<chatOf, codes, buckets, toldAt, time>>

\* The assistant is heard, or said nothing.
AssistantResponds(m) ==
    /\ At(m, "assistant")
    /\ Replies(m, "spoken") \/ Replies(m, "unavailable")
    /\ UNCHANGED <<chatOf, codes, chatTasks, buckets, toldAt, time>>

\* Variant: what fails in the router fails the update.
FailureIsLogged(m) ==
    /\ messages[m].stage \in {"code", "occupant", "owner", "bind", "binding", "resolve"} \cup Routed
    /\ Throws(m)
    /\ UNCHANGED <<chatOf, codes, chatTasks, buckets, toldAt, time>>

\* The database, or the assistant, fails under a handler: the router owes the
\* person an answer all the same, any other handler's failure is logged.
HandlerFails(m) ==
    /\ \/ messages[m].stage \in {"code", "occupant", "owner", "bind", "binding", "resolve"} /\ Throws(m)
       \/ messages[m].stage \in Routed /\ Replies(m, "unavailable")
    /\ UNCHANGED <<chatOf, codes, chatTasks, buckets, toldAt, time>>

\* The reply goes out and is written down, or one of the two fails.
SendReply(m) ==
    /\ At(m, "reply")
    /\ Becomes(m, Over(m, "done")) \/ Throws(m)
    /\ UNCHANGED <<chatOf, codes, chatTasks, buckets, toldAt, time>>

--------------------------------------------------------------------------------
ChatNext ==
    \/ \E k \in Codes, u \in Users : IssueCode(k, u)
    \/ \E t \in ChatTasks : TaskAsks(t) \/ TaskGoesOn(t)
    \/ TimePasses
    \/ \E m \in Messages :
         \/ \E c \in Chats, content \in Contents : TranscribeInbound(m, c, content)
         \/ RefuseFloods(m)
         \/ LockCode(m) \/ ReadOccupant(m) \/ ReadOwner(m) \/ BindChat(m)
         \/ RequireBinding(m)
         \/ ResolveUser(m) \/ FindPendingQuestion(m) \/ Deliver(m) \/ AssistantResponds(m)
         \/ HandlerFails(m) \/ SendReply(m)

ChatSpec == ChatInit /\ [][ChatNext]_chatVars

--------------------------------------------------------------------------------
(* What is checked *)

Spent(m) == messages[m].stage # "unsent" /\ messages[m].reply \in {"bound", "already_bound"}

\* A chat speaks for one user, a code is spent once and only on a user who has
\* a chat, and whoever was told "bound" keeps that chat - unless another
\* redemption for the same user had read the account before this one was
\* committed (bot/src/binding.ts: "silent rebind").
BindingHolds ==
    /\ \A u, v \in Users : chatOf[u] = chatOf[v] => u = v \/ chatOf[u] = Nobody
    /\ \A k \in Codes : codes[k].state = "consumed" => chatOf[codes[k].holder] # Nobody
    /\ \A m, n \in Messages : Spent(m) /\ Spent(n) /\ Code(m) = Code(n) => m = n
    /\ \A m \in Messages : Spent(m) => codes[Code(m)].state = "consumed"
    /\ \A m \in Messages :
         messages[m].stage # "unsent" /\ messages[m].reply = "bound"
           => chatOf[Holder(m)] = messages[m].chat \/ messages[m].rivals # {}

\* m ended without a word because its chat had been told the same not long before.
ToldBefore(m) ==
    \E n \in Messages \ {m} :
       /\ messages[n].stage # "unsent" /\ messages[n].chat = messages[m].chat
       /\ messages[n].reply \in Refusals
       /\ messages[n].at <= messages[m].at /\ messages[m].at - messages[n].at < NoticeWindow

\* Every message that is handled to its end was written down and is answered,
\* or its chat was told within the window why not; once the router has it,
\* only a reply that cannot be sent keeps its sender waiting; and what the
\* reply says of a question is what the ledger did with the words.
NobodyIsIgnored ==
    \A m \in Messages :
       /\ messages[m].stage = "done" /\ messages[m].content.is # "edit"
            => messages[m].heard /\ (messages[m].reply # "none" \/ ToldBefore(m))
       /\ messages[m].stage = "failed" => ~messages[m].routed
       /\ messages[m].stage \in {"reply", "done"}
            => /\ messages[m].taken => messages[m].reply \in {"answer_recorded", "decline_recorded", "unavailable"}
               /\ messages[m].reply \in {"answer_recorded", "decline_recorded"} => messages[m].taken
================================================================================
