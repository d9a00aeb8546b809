--------------------------------- MODULE SignIn --------------------------------
(***************************************************************************)
(* How a person gets into the dashboard: a link is mailed on request and   *)
(* spent by the first visit (api/src/routes/auth.ts, auth/tokens.ts), the  *)
(* visit leaves a signed cookie (auth/session.ts), the API resolves the    *)
(* cookie to a user on every request (caller.ts), and the dashboard's      *)
(* guard asks the API about every page (web/src/middleware.ts).            *)
(***************************************************************************)
EXTENDS Naturals, FiniteSets

CONSTANTS
    Accounts, Browsers,
    Links,                   \* links, numbered as they are issued
    LinkLife, SessionLife,   \* how long a link and a session live
    SecretKept,              \* TRUE in production, where the secret outlives a restart
    MaxTicks, MaxBoots       \* bounds

ASSUME LinksExpire == LinkLife \in Nat

VARIABLES
    existing,   \* the accounts there are
    links,      \* login_tokens: whose link, when it expires, whether it is spent
    inboxes,    \* links that reached their person
    cookies,    \* the session each browser holds, or NoCookie
    boots,      \* the API's process, and with it the secret it generated
    answering,  \* the API answers
    ticks,      \* the time
    pages,      \* the page each browser asked the dashboard for
    minted      \* history: visits that were answered with a session, per link

signVars == <<existing, links, inboxes, cookies, boots, answering, ticks, pages, minted>>

NoCookie == [user |-> "none"]
NoPageAsked == [stage |-> "none"]

SignInit ==
    /\ existing = Accounts
    /\ links = [l \in Links |-> [state |-> "none"]]
    /\ inboxes = {}
    /\ cookies = [b \in Browsers |-> NoCookie]
    /\ boots = 0 /\ answering = TRUE /\ ticks = 0
    /\ pages = [b \in Browsers |-> NoPageAsked]
    /\ minted = [l \in Links |-> 0]

Secret == IF SecretKept THEN 0 ELSE boots

\* A link is issued, then mailed; the mail may fail, and the link then lies unused.
RequestLink(u, l) ==
    /\ answering /\ u \in existing /\ links[l].state = "none"
    /\ \A k \in Links : k < l => links[k].state # "none"
    /\ links' = [links EXCEPT ![l] = [state |-> "fresh", user |-> u, expires |-> ticks + LinkLife]]
    /\ inboxes' = inboxes \cup {l} \/ UNCHANGED inboxes
    /\ UNCHANGED <<existing, cookies, boots, answering, ticks, pages, minted>>

\* Variant: a link is looked at and not marked in one statement.
SpendableAgain(l) == links[l].state \in {"fresh", "spent"} /\ ticks < links[l].expires

\* Marking the row is the check: unspent and unexpired, by the database's clock.
Spendable(l) == links[l].state = "fresh" /\ ticks < links[l].expires

\* Somebody opens a mailed link.  A link that is spent by the visit leaves a
\* session in the browser, unless the answer is lost; any other is refused.
Callback(b, l) ==
    /\ answering /\ l \in inboxes
    /\ IF Spendable(l)
       THEN /\ links' = [links EXCEPT ![l].state = "spent"]
            /\ minted' = [minted EXCEPT ![l] = @ + 1]
            /\ \/ cookies' = [cookies EXCEPT ![b] = [user |-> links[l].user, link |-> l, secret |-> Secret,
                                                     exp |-> ticks + SessionLife]]
               \/ UNCHANGED cookies
       ELSE UNCHANGED <<links, minted, cookies>>
    /\ UNCHANGED <<existing, inboxes, boots, answering, ticks, pages>>

\* The cookie is cleared.  The session in it is not ended: nothing of it is kept.
Logout(b) ==
    /\ answering /\ cookies[b] # NoCookie
    /\ cookies' = [cookies EXCEPT ![b] = NoCookie]
    /\ UNCHANGED <<existing, links, inboxes, boots, answering, ticks, pages, minted>>

\* The signature is of the secret in use, and the session has not expired.
VerifySessionToken(c) == c # NoCookie /\ c.secret = Secret /\ ticks < c.exp

\* The user a request speaks for: one that verifies, and still exists.
ResolveCaller(b) == VerifySessionToken(cookies[b]) /\ cookies[b].user \in existing

\* A page is asked for.  Without a cookie the guard does not ask the API; an
\* API that does not answer has not said anybody is signed out.
AsksForPage(b) ==
    /\ pages[b].stage # "asked"
    /\ pages' = [pages EXCEPT ![b] =
         CASE cookies[b] = NoCookie -> [stage |-> "redirected"]
           [] cookies[b] # NoCookie /\ ~answering -> [stage |-> "let_by", user |-> "none", cookie |-> cookies[b]]
           [] cookies[b] # NoCookie /\ answering /\ ~ResolveCaller(b) -> [stage |-> "redirected"]
           [] OTHER -> [stage |-> "asked", user |-> cookies[b].user, cookie |-> cookies[b]]]
    /\ UNCHANGED <<existing, links, inboxes, cookies, boots, answering, ticks, minted>>

\* Between the caller's check and the answer the account is read once more.  An
\* answer that is lost lets the page by; one that is garbled is no user's.
GuardDecides(b) ==
    /\ pages[b].stage = "asked"
    /\ \/ ~answering /\ pages' = [pages EXCEPT ![b] = [stage |-> "let_by", user |-> "none", cookie |-> @.cookie]]
       \/ answering /\ pages[b].user \in existing /\ pages' = [pages EXCEPT ![b].stage = "let_in"]
       \/ answering /\ pages' = [pages EXCEPT ![b] = [stage |-> "redirected"]]
    /\ UNCHANGED <<existing, links, inboxes, cookies, boots, answering, ticks, minted>>

\* A page that was let by asks the API for what it shows, which resolves the
\* caller again; the cookie is the one the browser sent with the request.
PageReads(b) ==
    /\ pages[b].stage \in {"let_by", "let_in"} /\ answering
    /\ pages' = [pages EXCEPT ![b] =
         IF VerifySessionToken(pages[b].cookie) /\ pages[b].cookie.user \in existing
         THEN [stage |-> "shows", user |-> pages[b].cookie.user, cookie |-> pages[b].cookie]
         ELSE [stage |-> "refused"]]
    /\ UNCHANGED <<existing, links, inboxes, cookies, boots, answering, ticks, minted>>

\* The API goes away, and comes back as a new process.
ApiStops ==
    /\ answering /\ boots < MaxBoots
    /\ answering' = FALSE
    /\ UNCHANGED <<existing, links, inboxes, cookies, boots, ticks, pages, minted>>

ApiStarts ==
    /\ ~answering
    /\ answering' = TRUE /\ boots' = boots + 1
    /\ UNCHANGED <<existing, links, inboxes, cookies, ticks, pages, minted>>

\* An account is removed, outside the program.
AccountRemoved(u) ==
    /\ existing' = existing \ {u} /\ u \in existing
    /\ UNCHANGED <<links, inboxes, cookies, boots, answering, ticks, pages, minted>>

Tick ==
    /\ ticks < MaxTicks
    /\ ticks' = ticks + 1
    /\ UNCHANGED <<existing, links, inboxes, cookies, boots, answering, pages, minted>>

SignNext ==
    \/ \E u \in Accounts : (\E l \in Links : RequestLink(u, l)) \/ AccountRemoved(u)
    \/ \E b \in Browsers :
         (\E l \in Links : Callback(b, l)) \/ Logout(b) \/ AsksForPage(b) \/ GuardDecides(b) \/ PageReads(b)
    \/ ApiStops \/ ApiStarts \/ Tick

SignSpec == SignInit /\ [][SignNext]_signVars

--------------------------------------------------------------------------------
(* What is checked *)

Showing(b) == pages[b].stage \in {"let_in", "shows"}

\* However visits, lost answers, restarts and outages fall together: a link
\* is worth one session and lives in one browser, and whoever is shown a
\* page is shown that of the user the link was issued to, on a link that was
\* mailed and spent - a guard that could not ask lets nobody see anything.
OneSessionPerLink ==
    /\ \A l \in Links : minted[l] <= 1
    /\ \A b, c \in Browsers :
         cookies[b] # NoCookie /\ cookies[c] # NoCookie /\ cookies[b].link = cookies[c].link => b = c
    /\ \A b \in Browsers : Showing(b) =>
         LET l == pages[b].cookie.link
         IN links[l].state = "spent" /\ links[l].user = pages[b].user /\ l \in inboxes
================================================================================
