----------------------------- MODULE BrowserToolset ----------------------------
(***************************************************************************)
(* The seven tools a model works a page with, and the refs it names        *)
(* elements by (playbooks/src/agentic/tools.ts and digest.ts).  A digest   *)
(* stamps refs on the elements of the page and remembers how each one      *)
(* looked; a tool that is given a ref finds the element again and compares *)
(* before it acts.  The page goes on living between any two of its steps,  *)
(* and so does the guard.                                                  *)
(***************************************************************************)
EXTENDS Naturals, Sequences, FiniteSetsExt, SequencesExt

CONSTANTS
    Pages,         \* the documents that may load: sequences of elements
    Labels,        \* how an element may be labelled
    MaxElements,   \* how many elements a digest describes
    MaxMoves       \* bound: changes of the page

VARIABLES
    page,        \* the elements of the document, in its order
    address,     \* "asked", "elsewhere" or "error": where the page stands
    nextRef,     \* the number the next new element gets
    signatures,  \* how each ref's element looked when it was last shown
    guardStop,   \* the guard's stop: "none", "allowlist" or "payment"
    call,        \* the call in progress, or NoCall
    reply,       \* what the last call came to
    moves,       \* changes of the page so far
    stirred,     \* history: the page changed since the call looked its element up
    hit          \* history: what the last action landed on, and what was shown under its ref

toolVars == <<page, address, nextRef, signatures, guardStop, call, reply, moves, stirred, hit>>

Refs == 1..(nextRef - 1)

NoCall == [stage |-> "none"]

NoHit == [as |-> <<>>, shown |-> <<>>, stirred |-> FALSE]

ToolInit ==
    /\ page \in Pages
    /\ address = "elsewhere"
    /\ nextRef = 1 /\ signatures = <<>>
    /\ guardStop = "none"
    /\ call = NoCall /\ reply = "none"
    /\ moves = 0 /\ stirred = FALSE /\ hit = NoHit

--------------------------------------------------------------------------------
(* The digest *)

\* What the page-side script says of an element; its state is no part of it.
Signature(el) == <<el.kind, el.label>>

\* Every visible element that has no ref gets the next one, also those past the limit.
Stamped(els, next) ==
    LET news == {i \in DOMAIN els : els[i].visible /\ els[i].ref = 0}
        Rank(i) == Cardinality({j \in news : j < i})
    IN  [i \in DOMAIN els |-> IF i \in news THEN [els[i] EXCEPT !.ref = next + Rank(i)] ELSE els[i]]

Described(els) ==
    LET shown == SelectSeq(els, LAMBDA el : el.visible)
    IN  SubSeq(shown, 1, IF Len(shown) < MaxElements THEN Len(shown) ELSE MaxElements)

\* A ref that is described twice looks as it was described last.
Remembered(shown, ref) ==
    LET at == {i \in DOMAIN shown : shown[i].ref = ref}
    IN  IF at # {} THEN Signature(shown[Max(at)])
        ELSE IF ref \in DOMAIN signatures THEN signatures[ref] ELSE <<"unknown">>

\* The page is read: refs are stamped, and what is described is remembered.
DigestPage ==
    LET stamped == Stamped(page, nextRef)
        shown   == Described(stamped)
        next    == nextRef + Cardinality({i \in DOMAIN page : page[i].visible /\ page[i].ref = 0})
    IN  /\ page' = stamped
        /\ nextRef' = next
        /\ signatures' = [ref \in 1..(next - 1) |-> Remembered(shown, ref)]

Answer(said) == reply' = said /\ call' = NoCall

\* The guard's stop is read again once the tool's body is done: it wins over its result.
AnswerOnPage(said) == Answer(IF guardStop = "none" THEN said ELSE "guardrail")

--------------------------------------------------------------------------------
(* The tools *)

PageTools == {"navigate", "click", "type", "select", "read"}

\* What needs no page to be answered: a name that is no tool's, arguments that
\* fit no schema, a question, a declaration.
NoPageNeeded(said) ==
    /\ call = NoCall
    /\ said \in {"unknown-tool", "invalid-arguments", "ask", "outcome"}
    /\ Answer(said)
    /\ UNCHANGED <<page, address, nextRef, signatures, guardStop, moves, stirred, hit>>

\* A page tool is turned away at once when there is a stop.
Execute(tool, ref) ==
    /\ call = NoCall /\ tool \in PageTools
    /\ tool \in {"navigate", "read"} => ref = 0
    /\ IF guardStop # "none" THEN Answer("guardrail")
       ELSE /\ call' = [stage |-> CASE tool = "navigate" -> "goto" [] tool = "read" -> "digest" [] OTHER -> "locate",
                        tool |-> tool, ref |-> ref, tries |-> 1]
            /\ reply' = "none"
    /\ UNCHANGED <<page, address, nextRef, signatures, guardStop, moves, stirred, hit>>

Digest ==
    /\ call.stage = "digest"
    /\ DigestPage
    /\ AnswerOnPage("ok")
    /\ UNCHANGED <<address, guardStop, moves, stirred, hit>>

\* The element a locator finds for a ref: the first of those stamped with it.
FirstWith(ref) == {i \in DOMAIN page : page[i].ref = ref /\ \A j \in 1..(i - 1) : page[j].ref # ref}

\* Variant: an element is taken for what it was as long as it is there.
FoundByRefAlone(ref) ==
    IF ref \notin DOMAIN signatures \/ FirstWith(ref) = {} THEN "stale-ref"
    ELSE LET el == page[CHOOSE i \in FirstWith(ref) : TRUE]
         IN  IF ~el.visible \/ el.disabled THEN "not-interactable" ELSE "found"

\* Whether the ref may be acted on: shown once, still there, looking the same,
\* visible and enabled, in this order.
Found(ref) ==
    IF ref \notin DOMAIN signatures \/ FirstWith(ref) = {} THEN "stale-ref"
    ELSE LET el == page[CHOOSE i \in FirstWith(ref) : TRUE]
         IN  CASE Signature(el) # signatures[ref] -> "stale-ref"
               [] ~el.visible \/ el.disabled      -> "not-interactable"
               [] OTHER                           -> "found"

\* type wants a text field, select a select and an option it has.
Fits(tool, el) ==
    CASE tool = "type"   -> el.kind \in {"textbox", "textarea"}
      [] tool = "select" -> el.kind = "select"
      [] OTHER           -> TRUE

Locate ==
    /\ call.stage = "locate"
    /\ IF Found(call.ref) = "found"
       THEN IF Fits(call.tool, page[CHOOSE i \in FirstWith(call.ref) : TRUE])
            THEN \/ call' = [call EXCEPT !.stage = "act"] /\ UNCHANGED reply
                 \/ call.tool = "select" /\ AnswerOnPage("no-such-option")
            ELSE AnswerOnPage("not-interactable")
       ELSE AnswerOnPage(Found(call.ref))
    /\ stirred' = FALSE
    /\ UNCHANGED <<page, address, nextRef, signatures, guardStop, moves, hit>>

\* The action goes to whatever the locator finds by now; with nothing there it times out.
Act ==
    /\ call.stage = "act"
    /\ IF FirstWith(call.ref) = {} THEN AnswerOnPage("timeout") /\ UNCHANGED hit
       ELSE /\ hit' = [as      |-> Signature(page[CHOOSE i \in FirstWith(call.ref) : TRUE]),
                       shown   |-> signatures[call.ref],
                       stirred |-> stirred]
            /\ IF call.tool = "click" THEN call' = [call EXCEPT !.stage = "digest"] /\ UNCHANGED reply
               ELSE AnswerOnPage("ok")
    /\ UNCHANGED <<page, address, nextRef, signatures, guardStop, moves, stirred>>

\* The page does not answer in time, answers with something that is no digest
\* and no lookup, or the click or the page's script fails.
ActFails ==
    /\ call.stage \in {"act", "digest", "locate"}
    /\ \E said \in {"timeout", "page-error"} : AnswerOnPage(said)
    /\ UNCHANGED <<page, address, nextRef, signatures, guardStop, moves, stirred, hit>>

Load(els, where) ==
    /\ moves < MaxMoves
    /\ moves' = moves + 1
    /\ page' = els
    /\ address' = where

\* The document that was asked for has loaded.
GotoLoads ==
    /\ call.stage = "goto"
    /\ \E els \in Pages : Load(els, "asked")
    /\ call' = [call EXCEPT !.stage = "digest"]
    /\ stirred' = TRUE
    /\ UNCHANGED <<nextRef, signatures, guardStop, reply, hit>>

\* The browser's error page, or another navigation, lands in the middle of it.
\* Overtaken by an error page the address is asked for once more, unless the
\* page came to stand there; overtaken again, it counts if the page stands there.
GotoInterrupted ==
    /\ call.stage = "goto"
    /\ LET there == address = "asked"
       IN  IF there \/ call.tries = 1
           THEN /\ call' = [call EXCEPT !.stage = IF there THEN "digest" ELSE "goto", !.tries = 2]
                /\ UNCHANGED reply
           ELSE AnswerOnPage("navigation-failed")
    /\ UNCHANGED <<page, address, nextRef, signatures, guardStop, moves, stirred, hit>>

\* It fails on the wire, or is refused: what the browser shows for it may land at once, or later.
GotoFails ==
    /\ call.stage = "goto"
    /\ \E said \in {"navigation-failed", "timeout"} : AnswerOnPage(said)
    /\ UNCHANGED <<page, address, nextRef, signatures, guardStop, moves, stirred, hit>>

--------------------------------------------------------------------------------
(* The page and the guard *)

\* A document the page loads by itself, or the error page of a failed navigation.
PageLoads ==
    /\ \E els \in Pages : Load(els, "elsewhere") \/ Load(<<>>, "error") \/ Load(els, "asked")
    /\ stirred' = TRUE
    /\ UNCHANGED <<nextRef, signatures, guardStop, call, reply, hit>>

\* Its scripts relabel an element, hide it, take it away, disable it, or copy it with its ref.
PageStirs ==
    /\ moves < MaxMoves /\ moves' = moves + 1
    /\ \E i \in DOMAIN page :
          \/ \E label \in Labels : page' = [page EXCEPT ![i].label = label]
          \/ page' = [page EXCEPT ![i].visible = ~@]
          \/ page' = [page EXCEPT ![i].disabled = ~@]
          \/ page' = RemoveAt(page, i)
          \/ Len(page) < 3 /\ page' = InsertAt(page, i, page[i])
    /\ stirred' = TRUE
    /\ UNCHANGED <<address, nextRef, signatures, guardStop, call, reply, hit>>

GuardStops ==
    /\ guardStop = "none"
    /\ guardStop' \in {"allowlist", "payment"}
    /\ UNCHANGED <<page, address, nextRef, signatures, call, reply, moves, stirred, hit>>

ToolNext ==
    \/ \E said \in {"unknown-tool", "invalid-arguments", "ask", "outcome"} : NoPageNeeded(said)
    \/ \E tool \in PageTools : \E ref \in 0..nextRef : Execute(tool, ref)
    \/ Digest \/ Locate \/ Act \/ ActFails
    \/ GotoLoads \/ GotoInterrupted \/ GotoFails
    \/ PageLoads \/ PageStirs \/ GuardStops

ToolSpec == ToolInit /\ [][ToolNext]_toolVars

--------------------------------------------------------------------------------
(* What is checked *)

\* What an action lands on looks as the model was last shown under that ref,
\* unless the page changed in the instant between the lookup and the action:
\* over documents that come and go, elements that are relabelled, hidden or
\* copied with their refs, and refs of any earlier digest.
AimedAsShown == hit.as = hit.shown \/ hit.stirred
================================================================================
