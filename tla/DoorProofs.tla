----------------------------- MODULE DoorProofs -----------------------------
(***************************************************************************)
(* What the doors guarantee by which people, the clock and the web's pages *)
(* come in: sign-in, the schedules of the watches, the fetch ladder, and   *)
(* what a watch means, each by an inductive invariant of its own.          *)
(***************************************************************************)
EXTENDS SignIn, WatchSchedules, FetchLadder, WatchRules, SequenceTheorems, TLAPS

--------------------------------------------------------------------------------
(* Sign-in (api/src/auth, api/src/routes/auth.ts). *)

LinkShape == [state : {"none"}] \cup [state : {"fresh", "spent"}, user : Accounts, expires : Nat]

\* What a session says of its user is what the link it came from says.
Genuine(c) ==
  /\ c.link \in Links /\ c.link \in inboxes
  /\ links[c.link].state = "spent" /\ links[c.link].user = c.user

Plain(p) == p.stage \in {"none", "redirected", "refused"}

PageGenuine(p) ==
  \/ Plain(p)
  \/ p.stage = "let_by" /\ Genuine(p.cookie)
  \/ /\ p.stage \in {"asked", "let_in", "shows"}
     /\ p = [stage |-> p.stage, user |-> p.user, cookie |-> p.cookie]
     /\ Genuine(p.cookie) /\ p.user = p.cookie.user

SignShape ==
  /\ links \in [Links -> LinkShape] /\ minted \in [Links -> Nat] /\ ticks \in Nat
  /\ cookies = [b \in Browsers |-> cookies[b]] /\ pages = [b \in Browsers |-> pages[b]]

LinksSpentOnce == \A l \in Links : minted[l] <= 1 /\ (links[l].state # "spent" => minted[l] = 0)

CookiesGenuine == \A b \in Browsers : cookies[b] = NoCookie \/ Genuine(cookies[b])

CookiesDiffer ==
  \A b, c \in Browsers :
    cookies[b] # NoCookie /\ cookies[c] # NoCookie /\ cookies[b].link = cookies[c].link => b = c

SignInv ==
  /\ SignShape /\ LinksSpentOnce /\ CookiesGenuine /\ CookiesDiffer
  /\ \A b \in Browsers : PageGenuine(pages[b])

\* A link that is spent stays so, and the mail stays delivered.
LEMMA GenuineStays ==
  ASSUME \A l \in Links : links[l].state = "spent" => links'[l].state = "spent" /\ links'[l].user = links[l].user,
         inboxes \subseteq inboxes'
  PROVE  /\ \A c : Genuine(c) => Genuine(c)'
         /\ \A p : PageGenuine(p) => PageGenuine(p)'
<1>1. ASSUME NEW c, Genuine(c) PROVE Genuine(c)'
  BY <1>1 DEF Genuine
<1>2. ASSUME NEW p, PageGenuine(p) PROVE PageGenuine(p)'
  BY <1>1, <1>2 DEF PageGenuine, Plain
<1> QED
  BY <1>1, <1>2

\* Two browsers with one link, log-outs, expiries and restarts keep sessions genuine.
LEMMA SignStep == SignInv /\ [SignNext]_signVars => SignInv'
<1> SUFFICES ASSUME SignInv, [SignNext]_signVars PROVE SignInv'
  OBVIOUS
<1>0. /\ SignShape /\ LinksSpentOnce /\ CookiesGenuine /\ CookiesDiffer
      /\ \A b \in Browsers : PageGenuine(pages[b])
  BY DEF SignInv
\* A step that leaves links and sessions alone, and the page of at most one browser right.
<1>p. ASSUME UNCHANGED <<links, inboxes, minted, cookies>>, ticks' \in Nat,
             pages' = [b \in Browsers |-> pages'[b]],
             \A b \in Browsers : pages'[b] = pages[b] \/ PageGenuine(pages'[b])
      PROVE  SignInv'
  <2>1. \A c : Genuine(c) <=> Genuine(c)'
    BY <1>p DEF Genuine
  <2>2. \A p : PageGenuine(p) => PageGenuine(p)'
    BY <2>1 DEF PageGenuine, Plain
  <2>3. \A b \in Browsers : PageGenuine(pages'[b])
    BY <1>0, <1>p
  <2>4. (\A b \in Browsers : PageGenuine(pages[b]))'
    BY <2>2, <2>3
  <2>5. SignShape' /\ LinksSpentOnce' /\ CookiesGenuine' /\ CookiesDiffer'
    BY <1>0, <1>p, <2>1 DEF SignShape, LinksSpentOnce, CookiesGenuine, CookiesDiffer
  <2> QED
    BY <2>4, <2>5 DEF SignInv
\* A step that takes sessions away.
<1>1. ASSUME NEW u \in Accounts, NEW l \in Links, RequestLink(u, l) PROVE SignInv'
  <2> DEFINE fresh == [state |-> "fresh", user |-> u, expires |-> ticks + LinkLife]
  <2>1. /\ links[l].state = "none" /\ links' = [links EXCEPT ![l] = fresh]
        /\ inboxes \subseteq inboxes'
        /\ UNCHANGED <<existing, cookies, boots, answering, ticks, pages, minted>>
    BY <1>1 DEF RequestLink
  <2>2. fresh \in LinkShape /\ fresh.state = "fresh"
    BY <1>0, LinksExpire DEF SignShape, LinkShape
  <2>3. /\ links' \in [Links -> LinkShape] /\ links'[l].state = "fresh"
        /\ \A k \in Links : k # l => links'[k] = links[k]
    BY <1>0, <2>1, <2>2 DEF SignShape
  <2>4. /\ \A c : Genuine(c) => Genuine(c)'
        /\ \A p : PageGenuine(p) => PageGenuine(p)'
    <3>1. \A k \in Links : links[k].state = "spent" => links'[k].state = "spent" /\ links'[k].user = links[k].user
      BY <2>1, <2>3
    <3> QED
      BY <2>1, <3>1, GenuineStays
  <2>5. SignShape' /\ LinksSpentOnce' /\ CookiesGenuine' /\ CookiesDiffer'
    BY <1>0, <2>1, <2>3, <2>4 DEF SignShape, LinksSpentOnce, CookiesGenuine, CookiesDiffer
  <2> QED
    BY <1>0, <2>1, <2>4, <2>5 DEF SignInv
<1>2. ASSUME NEW b \in Browsers, NEW l \in Links, Callback(b, l) PROVE SignInv'
  <2>0. UNCHANGED <<existing, inboxes, boots, answering, ticks, pages>> /\ l \in inboxes
    BY <1>2 DEF Callback
  <2>1. CASE Spendable(l)
    <3> DEFINE session == [user |-> links[l].user, link |-> l, secret |-> Secret, exp |-> ticks + SessionLife]
    <3>1. /\ links[l].state = "fresh"
          /\ links' = [links EXCEPT ![l].state = "spent"]
          /\ minted' = [minted EXCEPT ![l] = @ + 1]
          /\ cookies' = [cookies EXCEPT ![b] = session] \/ cookies' = cookies
      BY <1>2, <2>1 DEF Callback, Spendable
    <3>2. links[l] \in [state : {"fresh", "spent"}, user : Accounts, expires : Nat]
      BY <1>0, <3>1 DEF SignShape, LinkShape
    <3>3. [links[l] EXCEPT !.state = "spent"] \in LinkShape
          /\ [links[l] EXCEPT !.state = "spent"].state = "spent"
          /\ [links[l] EXCEPT !.state = "spent"].user = links[l].user
      BY <3>2 DEF LinkShape
    <3>4. /\ links' \in [Links -> LinkShape] /\ links'[l].state = "spent" /\ links'[l].user = links[l].user
          /\ \A k \in Links : k # l => links'[k] = links[k]
      BY <1>0, <3>1, <3>3 DEF SignShape
    <3>5. minted' \in [Links -> Nat] /\ minted'[l] = 1 /\ \A k \in Links : k # l => minted'[k] = minted[k]
      BY <1>0, <3>1 DEF SignShape, LinksSpentOnce
    <3>6. /\ \A c : Genuine(c) => Genuine(c)'
          /\ \A p : PageGenuine(p) => PageGenuine(p)'
      <4>1. \A k \in Links : links[k].state = "spent" => links'[k].state = "spent" /\ links'[k].user = links[k].user
        BY <3>4
      <4> QED
        BY <2>0, <4>1, GenuineStays
    <3>7. SignShape' /\ LinksSpentOnce'
      BY <1>0, <2>0, <3>1, <3>4, <3>5 DEF SignShape, LinksSpentOnce
    <3>8. \A c \in Browsers : cookies[c] # NoCookie => cookies[c].link # l
      BY <1>0, <3>1 DEF CookiesGenuine, Genuine
    <3>9. session.link = l /\ session.user = links[l].user
      OBVIOUS
    <3> HIDE DEF session
    <3>10. ASSUME NEW c, c.link = l, c.user = links[l].user PROVE Genuine(c)'
      BY <2>0, <3>4, <3>10 DEF Genuine
    <3>11. CookiesGenuine' /\ CookiesDiffer'
      <4>1. CASE cookies' = cookies
        BY <1>0, <3>6, <4>1 DEF CookiesGenuine, CookiesDiffer
      <4>2. CASE cookies' = [cookies EXCEPT ![b] = session]
        <5>1. cookies'[b] = session /\ \A c \in Browsers : c # b => cookies'[c] = cookies[c]
          BY <1>0, <4>2 DEF SignShape
        <5>2. CookiesGenuine'
          <6>1. ASSUME NEW c \in Browsers, c # b PROVE cookies'[c] = NoCookie \/ Genuine(cookies[c])'
            BY <1>0, <3>6, <5>1, <6>1 DEF CookiesGenuine
          <6>2. Genuine(cookies[b])'
            BY <3>9, <3>10, <5>1
          <6> QED
            BY <6>1, <6>2 DEF CookiesGenuine
        <5>3. CookiesDiffer'
          BY <1>0, <3>8, <3>9, <5>1 DEF CookiesDiffer
        <5> QED
          BY <5>2, <5>3
      <4> QED
        BY <3>1, <4>1, <4>2
    <3> QED
      BY <1>0, <2>0, <3>6, <3>7, <3>11 DEF SignInv
  <2>2. CASE ~Spendable(l)
    <3>1. UNCHANGED <<links, minted, cookies>>
      BY <1>2, <2>2 DEF Callback
    <3> QED
      BY <1>0, <1>p, <2>0, <3>1 DEF SignShape
  <2> QED
    BY <2>1, <2>2
<1>3. ASSUME NEW b \in Browsers, Logout(b) PROVE SignInv'
  <2>1. cookies' = [cookies EXCEPT ![b] = NoCookie] /\ UNCHANGED <<links, inboxes, minted, pages, ticks>>
    BY <1>3 DEF Logout
  <2>2. cookies'[b] = NoCookie /\ \A c \in Browsers : c # b => cookies'[c] = cookies[c]
    BY <1>0, <2>1 DEF SignShape
  <2>3. (\A c : Genuine(c) => Genuine(c)') /\ (\A p : PageGenuine(p) => PageGenuine(p)')
    BY <2>1, GenuineStays
  <2>4. SignShape' /\ LinksSpentOnce'
    BY <1>0, <2>1 DEF SignShape, LinksSpentOnce
  <2>5. CookiesGenuine' /\ CookiesDiffer'
    BY <1>0, <2>2, <2>3 DEF CookiesGenuine, CookiesDiffer
  <2> QED
    BY <1>0, <2>1, <2>3, <2>4, <2>5 DEF SignInv
<1>4. ASSUME NEW b \in Browsers, AsksForPage(b) PROVE SignInv'
  <2> DEFINE turned == [stage |-> "redirected"]
             by == [stage |-> "let_by", user |-> "none", cookie |-> cookies[b]]
             asked == [stage |-> "asked", user |-> cookies[b].user, cookie |-> cookies[b]]
  <2>1. UNCHANGED <<links, inboxes, minted, cookies, ticks>>
        /\ pages' = [pages EXCEPT ![b] =
             CASE cookies[b] = NoCookie -> turned
               [] cookies[b] # NoCookie /\ ~answering -> by
               [] cookies[b] # NoCookie /\ answering /\ ~ResolveCaller(b) -> turned
               [] OTHER -> asked]
    BY <1>4 DEF AsksForPage
  <2>2. /\ pages'[b] \in {turned, by, asked} /\ (cookies[b] = NoCookie => pages'[b] = turned)
        /\ \A c \in Browsers : c # b => pages'[c] = pages[c]
        /\ pages' = [c \in Browsers |-> pages'[c]]
    BY <1>0, <2>1 DEF SignShape
  <2>3. PageGenuine(turned)
    BY DEF PageGenuine, Plain
  <2>4. cookies[b] # NoCookie => PageGenuine(by) /\ PageGenuine(asked)
    BY <1>0 DEF PageGenuine, CookiesGenuine
  <2> QED
    BY <1>0, <1>p, <2>1, <2>2, <2>3, <2>4 DEF SignShape
<1>5. ASSUME NEW b \in Browsers, GuardDecides(b) PROVE SignInv'
  <2> DEFINE p == pages[b]
             turned == [stage |-> "redirected"]
             by == [stage |-> "let_by", user |-> "none", cookie |-> p.cookie]
             in == [p EXCEPT !.stage = "let_in"]
  <2>1. /\ UNCHANGED <<links, inboxes, minted, cookies, ticks>> /\ p.stage = "asked"
        /\ \/ pages' = [pages EXCEPT ![b] = by]
           \/ pages' = [pages EXCEPT ![b] = in]
           \/ pages' = [pages EXCEPT ![b] = turned]
    BY <1>5 DEF GuardDecides
  <2>2. Genuine(p.cookie) /\ p.user = p.cookie.user /\ p = [stage |-> p.stage, user |-> p.user, cookie |-> p.cookie]
    BY <1>0, <2>1 DEF PageGenuine, Plain
  <2>3. in = [stage |-> "let_in", user |-> p.user, cookie |-> p.cookie]
    BY <2>2
  <2>4. PageGenuine(turned) /\ PageGenuine(by)
    BY <2>2 DEF PageGenuine, Plain
  <2>5. PageGenuine(in)
    BY <2>2, <2>3 DEF PageGenuine
  <2>6. /\ pages'[b] \in {turned, by, in}
        /\ \A c \in Browsers : c # b => pages'[c] = pages[c]
        /\ pages' = [c \in Browsers |-> pages'[c]]
    BY <1>0, <2>1 DEF SignShape
  <2> QED
    BY <1>0, <1>p, <2>1, <2>4, <2>5, <2>6 DEF SignShape
<1>6. ASSUME NEW b \in Browsers, PageReads(b) PROVE SignInv'
  <2> DEFINE p == pages[b]
             turned == [stage |-> "refused"]
             shows == [stage |-> "shows", user |-> p.cookie.user, cookie |-> p.cookie]
  <2>1. /\ UNCHANGED <<links, inboxes, minted, cookies, ticks>> /\ p.stage \in {"let_by", "let_in"}
        /\ \/ pages' = [pages EXCEPT ![b] = turned]
           \/ pages' = [pages EXCEPT ![b] = shows]
    BY <1>6 DEF PageReads
  <2>2. Genuine(p.cookie)
    BY <1>0, <2>1 DEF PageGenuine, Plain
  <2>3. PageGenuine(turned) /\ PageGenuine(shows)
    BY <2>2 DEF PageGenuine, Plain
  <2>4. /\ pages'[b] \in {turned, shows}
        /\ \A c \in Browsers : c # b => pages'[c] = pages[c]
        /\ pages' = [c \in Browsers |-> pages'[c]]
    BY <1>0, <2>1 DEF SignShape
  <2> QED
    BY <1>0, <1>p, <2>1, <2>3, <2>4 DEF SignShape
<1>7. ASSUME UNCHANGED <<links, inboxes, minted, cookies, pages>>, ticks' \in Nat PROVE SignInv'
  BY <1>0, <1>7, <1>p DEF SignShape
<1>8. ASSUME ApiStops \/ ApiStarts \/ Tick \/ \E u \in Accounts : AccountRemoved(u) PROVE SignInv'
  BY <1>0, <1>7, <1>8 DEF ApiStops, ApiStarts, Tick, AccountRemoved, SignShape
<1>9. CASE UNCHANGED signVars
  BY <1>0, <1>7, <1>9 DEF signVars, SignShape
<1> QED
  BY <1>1, <1>2, <1>3, <1>4, <1>5, <1>6, <1>8, <1>9 DEF SignNext

\* For any number of links and browsers, and over restarts of the API: a link opens
\* one session at most, for the account it was issued to, and no page is shown to
\* anybody else.
THEOREM OneSession == SignSpec => []OneSessionPerLink
<1>1. SignInit => SignInv
  <2> SUFFICES ASSUME SignInit PROVE SignInv
    OBVIOUS
  <2>1. [state |-> "none"] \in LinkShape /\ [state |-> "none"].state = "none"
    BY DEF LinkShape
  <2>2. SignShape /\ LinksSpentOnce
    BY <2>1 DEF SignInit, SignShape, LinksSpentOnce
  <2>3. CookiesGenuine /\ CookiesDiffer
    BY DEF SignInit, CookiesGenuine, CookiesDiffer
  <2>4. \A b \in Browsers : PageGenuine(pages[b])
    BY DEF SignInit, PageGenuine, Plain, NoPageAsked
  <2> QED
    BY <2>2, <2>3, <2>4 DEF SignInv
<1>2. SignInv => OneSessionPerLink
  <2> SUFFICES ASSUME SignInv PROVE OneSessionPerLink
    OBVIOUS
  <2>1. ASSUME NEW b \in Browsers, Showing(b)
        PROVE  Genuine(pages[b].cookie) /\ pages[b].user = pages[b].cookie.user
    BY <2>1 DEF SignInv, PageGenuine, Plain, Showing
  <2>2. \A l \in Links : minted[l] <= 1
    BY DEF SignInv, LinksSpentOnce
  <2> QED
    BY <2>1, <2>2 DEF SignInv, OneSessionPerLink, CookiesDiffer, Genuine
<1> QED
  BY <1>1, <1>2, SignStep, PTL DEF SignSpec

--------------------------------------------------------------------------------
(* Schedules of the watches (watcher/src/scheduler.ts). *)

ReadingShape ==
  [stage : {"rows"}, wanted : SUBSET WatchIds, cron : [WatchIds -> Crons], alone : BOOLEAN,
   unchanged : SUBSET WatchIds]

WritingShape ==
  [stage : {"writing"}, cron : [WatchIds -> Crons], alone : BOOLEAN, unchanged : SUBSET WatchIds,
   refused : SUBSET WatchIds, existing : SUBSET WatchIds, toSchedule : SUBSET WatchIds,
   toRemove : SUBSET WatchIds]

SweepShape(r) == r = NoSweep \/ r \in ReadingShape \/ r \in WritingShape

ScheduleShape ==
  /\ rows \in [WatchIds -> [status : {"active", "paused"}, cron : Crons]]
  /\ schedules \in [WatchIds -> RunnableCrons \cup {Off}]
  /\ settled \subseteq WatchIds
  /\ DOMAIN sweep = Sweeps /\ sweep = [s \in Sweeps |-> sweep[s]]
  /\ \A s \in Sweeps : SweepShape(sweep[s])

\* What a sweep has yet to do leaves a settled watch with what its row asks for.
Harmless(r, w) ==
  /\ r.stage = "rows" => /\ w \in r.wanted <=> rows[w].status = "active"
                         /\ r.cron[w] = rows[w].cron
  /\ r.stage = "writing" =>
       /\ w \in r.toSchedule => AskedFor(w) = Off /\ r.cron[w] \notin RunnableCrons
       /\ w \in r.refused \cup r.toRemove => AskedFor(w) = Off

\* A sweep that is alone does what is left to be done for a watch whose row
\* has not changed since it was read.
OnTrack(r, w) ==
  /\ r.stage = "rows" => /\ w \in r.wanted <=> rows[w].status = "active"
                         /\ r.cron[w] = rows[w].cron
  /\ r.stage = "writing" =>
       /\ r.cron[w] = rows[w].cron
       /\ AskedFor(w) # Off =>
            /\ w \notin r.refused \cup r.toRemove
            /\ schedules[w] = AskedFor(w) \/ w \in r.toSchedule
       /\ AskedFor(w) = Off =>
            /\ schedules[w] = Off \/ w \in r.toSchedule \cup r.refused \cup r.toRemove
            /\ w \in r.toSchedule => /\ w \in r.existing <=> schedules[w] # Off
                                     /\ r.cron[w] \notin RunnableCrons

\* A refused schedule is seen to before anything else, and only one at a time.
OneRefused(r) ==
  r.stage = "writing" =>
    /\ \A a, b \in r.refused : a = b
    /\ r.refused \cap r.toSchedule = {}

SweepsInv ==
  \A s \in Sweeps :
    /\ OneRefused(sweep[s])
    /\ \A w \in settled : Harmless(sweep[s], w)
    /\ sweep[s].stage # "none" /\ sweep[s].alone =>
         /\ \A o \in Sweeps : o # s => sweep[o].stage = "none"
         /\ \A w \in sweep[s].unchanged : OnTrack(sweep[s], w)

ScheduleInv == ScheduleShape /\ SweepsInv /\ SchedulesSettle

\* What a row asks for is a cron that runs, or none.
LEMMA Asked ==
  ASSUME ScheduleShape, NEW w \in WatchIds
  PROVE  /\ AskedFor(w) \in RunnableCrons \cup {Off}
         /\ AskedFor(w) # Off <=> rows[w].status = "active" /\ rows[w].cron \in RunnableCrons
         /\ AskedFor(w) # Off => AskedFor(w) = rows[w].cron
         /\ rows[w].cron \in Crons /\ Off \notin RunnableCrons
BY ScheduleCrons DEF AskedFor, ScheduleShape

\* The three shapes of a sweep are told apart by its stage.
LEMMA Shapes ==
  ASSUME NEW r, SweepShape(r)
  PROVE  /\ r.stage \in {"none", "rows", "writing"}
         /\ r.stage = "none" => r = NoSweep
         /\ r.stage = "rows" => r \in ReadingShape
         /\ r.stage = "writing" => r \in WritingShape
BY DEF SweepShape, ReadingShape, WritingShape, NoSweep

\* A sweep that reads, one that writes, one that fails halfway, and rows that change
\* under them.
LEMMA ScheduleStep == ScheduleInv /\ [ScheduleNext]_scheduleVars => ScheduleInv'
<1> SUFFICES ASSUME ScheduleInv, [ScheduleNext]_scheduleVars PROVE ScheduleInv'
  OBVIOUS
<1>0. ScheduleShape /\ SweepsInv /\ SchedulesSettle
  BY DEF ScheduleInv
<1>s. \A s \in Sweeps : /\ sweep[s].stage \in {"none", "rows", "writing"}
                        /\ sweep[s].stage = "none" => sweep[s] = NoSweep
                        /\ sweep[s].stage = "rows" => sweep[s] \in ReadingShape
                        /\ sweep[s].stage = "writing" => sweep[s] \in WritingShape
  BY <1>0, Shapes DEF ScheduleShape
<1>n. NoSweep.stage = "none" /\ SweepShape(NoSweep)
  BY DEF NoSweep, SweepShape
<1>1. ASSUME NEW w \in WatchIds, NEW row \in [status : {"active", "paused"}, cron : Crons], RowChanges(w, row)
      PROVE  ScheduleInv'
  <2>1. /\ rows' = [rows EXCEPT ![w] = row] /\ settled' = settled \ {w}
        /\ sweep' = [s \in Sweeps |-> IF sweep[s].stage = "none" THEN NoSweep
                                      ELSE [sweep[s] EXCEPT !.unchanged = @ \ {w}]]
        /\ schedules' = schedules
    BY <1>1 DEF RowChanges
  <2>2. \A v \in WatchIds : v # w => rows'[v] = rows[v] /\ AskedFor(v)' = AskedFor(v)
    BY <1>0, <2>1 DEF ScheduleShape, AskedFor
  <2>3. ASSUME NEW s \in Sweeps
        PROVE  /\ SweepShape(sweep'[s])
               /\ sweep[s].stage = "none" => sweep'[s] = NoSweep
               /\ sweep'[s].stage = sweep[s].stage
               /\ sweep[s].stage \in {"rows", "writing"} =>
                     /\ sweep'[s].unchanged = sweep[s].unchanged \ {w}
                     /\ sweep'[s].alone = sweep[s].alone /\ sweep'[s].cron = sweep[s].cron
               /\ sweep[s].stage = "rows" => sweep'[s].wanted = sweep[s].wanted
               /\ sweep[s].stage = "writing" =>
                     /\ sweep'[s].refused = sweep[s].refused /\ sweep'[s].existing = sweep[s].existing
                     /\ sweep'[s].toSchedule = sweep[s].toSchedule /\ sweep'[s].toRemove = sweep[s].toRemove
    <3>1. CASE sweep[s].stage = "none"
      BY <1>s, <1>n, <2>1, <3>1
    <3>2. CASE sweep[s].stage = "rows"
      BY <1>s, <2>1, <3>2 DEF SweepShape, ReadingShape
    <3>3. CASE sweep[s].stage = "writing"
      BY <1>s, <2>1, <3>3 DEF SweepShape, WritingShape
    <3> QED
      BY <1>s, <3>1, <3>2, <3>3
  <2>4. ScheduleShape'
    BY <1>0, <2>1, <2>3 DEF ScheduleShape
  <2>5. ASSUME NEW s \in Sweeps
        PROVE  /\ OneRefused(sweep'[s])
               /\ \A v \in settled' : Harmless(sweep[s], v)'
               /\ sweep'[s].stage # "none" /\ sweep'[s].alone =>
                    /\ \A o \in Sweeps : o # s => sweep'[o].stage = "none"
                    /\ \A v \in sweep'[s].unchanged : OnTrack(sweep[s], v)'
    <3>1. OneRefused(sweep'[s])
      BY <1>0, <2>3 DEF SweepsInv, OneRefused
    <3>2. ASSUME NEW v \in settled' PROVE Harmless(sweep[s], v)'
      <4>1. v \in WatchIds /\ v # w /\ v \in settled /\ Harmless(sweep[s], v)
        BY <1>0, <2>1 DEF ScheduleShape, SweepsInv
      <4> QED
        BY <1>s, <2>2, <2>3, <4>1 DEF Harmless
    <3>3. ASSUME sweep'[s].stage # "none", sweep'[s].alone
          PROVE  /\ \A o \in Sweeps : o # s => sweep'[o].stage = "none"
                 /\ \A v \in sweep'[s].unchanged : OnTrack(sweep[s], v)'
      <4>1. sweep[s].stage \in {"rows", "writing"} /\ sweep[s].alone
        BY <1>s, <2>3, <3>3
      <4>2. \A o \in Sweeps : o # s => sweep'[o].stage = "none"
        BY <1>0, <2>3, <4>1 DEF SweepsInv
      <4>3. ASSUME NEW v \in sweep'[s].unchanged PROVE OnTrack(sweep[s], v)'
        <5>1. v \in WatchIds /\ v # w /\ OnTrack(sweep[s], v)
          BY <1>0, <1>s, <2>3, <4>1 DEF SweepsInv, ReadingShape, WritingShape
        <5> QED
          BY <1>s, <2>1, <2>2, <2>3, <5>1 DEF OnTrack
      <4> QED
        BY <4>2, <4>3
    <3> QED
      BY <3>1, <3>2, <3>3
  <2>6. SchedulesSettle'
    BY <1>0, <2>1, <2>2 DEF SchedulesSettle, ScheduleShape
  <2>7. SweepsInv'
    BY <2>5 DEF SweepsInv
  <2> QED
    BY <2>4, <2>6, <2>7 DEF ScheduleInv
\* A step of one sweep: what is to be shown of it, and why the others are as before.
<1>c. ASSUME NEW s \in Sweeps, NEW r, sweep' = [sweep EXCEPT ![s] = r], rows' = rows,
             SweepShape(r), OneRefused(r),
             sweep[s].stage # "none", r.stage # "none" /\ r.alone => sweep[s].alone,
             settled' = settled, schedules' \in [WatchIds -> RunnableCrons \cup {Off}],
             \A v \in settled : Harmless(r, v) /\ schedules'[v] = AskedFor(v),
             r.stage # "none" /\ r.alone => \A v \in r.unchanged : OnTrack(sweep[s], v)'
      PROVE  ScheduleInv'
  <2>1. sweep'[s] = r /\ \A o \in Sweeps : o # s => sweep'[o] = sweep[o]
    BY <1>c, <1>0 DEF ScheduleShape
  <2>2. ScheduleShape'
    BY <1>c, <1>0, <2>1 DEF ScheduleShape
  <2>3. \A v \in WatchIds : AskedFor(v)' = AskedFor(v)
    BY <1>c DEF AskedFor
  <2>4. SchedulesSettle'
    BY <1>c, <1>0, <2>3 DEF SchedulesSettle, ScheduleShape
  <2>5. ASSUME NEW o \in Sweeps
        PROVE  /\ OneRefused(sweep'[o])
               /\ \A v \in settled' : Harmless(sweep[o], v)'
               /\ sweep'[o].stage # "none" /\ sweep'[o].alone =>
                    /\ \A p \in Sweeps : p # o => sweep'[p].stage = "none"
                    /\ \A v \in sweep'[o].unchanged : OnTrack(sweep[o], v)'
    <3>1. CASE o = s
      <4>1. \A v \in settled' : Harmless(sweep[o], v)'
        BY <1>c, <1>0, <2>1, <2>3, <3>1 DEF Harmless, ScheduleShape
      <4>2. ASSUME r.stage # "none", r.alone PROVE \A p \in Sweeps : p # o => sweep'[p].stage = "none"
        BY <1>c, <1>0, <2>1, <3>1, <4>2 DEF SweepsInv
      <4> QED
        BY <1>c, <2>1, <3>1, <4>1, <4>2
    <3>2. CASE o # s
      <4>1. OneRefused(sweep'[o]) /\ \A v \in settled' : Harmless(sweep[o], v)'
        BY <1>c, <1>0, <2>1, <2>3, <3>2 DEF Harmless, ScheduleShape, SweepsInv
      <4>2. ~(sweep[o].stage # "none" /\ sweep[o].alone)
        BY <1>c, <1>0, <3>2 DEF SweepsInv
      <4> QED
        BY <2>1, <3>2, <4>1, <4>2
    <3> QED
      BY <3>1, <3>2
  <2>6. SweepsInv'
    BY <2>5 DEF SweepsInv
  <2> QED
    BY <2>2, <2>4, <2>6 DEF ScheduleInv
<1>2. ASSUME NEW s \in Sweeps, BeginSweep(s) PROVE ScheduleInv'
  <2> DEFINE r == [stage |-> "rows", wanted |-> {w \in WatchIds : rows[w].status = "active"},
                   cron |-> [w \in WatchIds |-> rows[w].cron],
                   alone |-> \A p \in Sweeps : sweep[p].stage = "none", unchanged |-> WatchIds]
  <2>1. /\ UNCHANGED <<rows, lastError, schedules, ticking, rowChanges, settled>>
        /\ sweep' = [o \in Sweeps |->
             CASE o = s -> r
               [] o # s /\ sweep[o].stage # "none" -> [sweep[o] EXCEPT !.alone = FALSE]
               [] OTHER -> NoSweep]
        /\ sweep[s].stage = "none"
    BY <1>2 DEF BeginSweep
  <2>2. sweep'[s] = r
    BY <2>1
  <2>3. \A w \in WatchIds : AskedFor(w)' = AskedFor(w)
    BY <2>1 DEF AskedFor
  <2>4. r \in ReadingShape /\ r.stage = "rows"
    BY <1>0 DEF ReadingShape, ScheduleShape
  <2>5. \A w \in WatchIds : Harmless(r, w) /\ OnTrack(r, w)
    BY DEF Harmless, OnTrack
  <2>6. ASSUME NEW o \in Sweeps, o # s
        PROVE  /\ SweepShape(sweep'[o]) /\ OneRefused(sweep'[o])
               /\ \A w \in settled : Harmless(sweep'[o], w)
               /\ sweep'[o].stage # "none" => ~sweep'[o].alone
               /\ sweep'[o].stage = sweep[o].stage
    <3>1. CASE sweep[o].stage = "none"
      <4>1. sweep'[o] = NoSweep
        BY <2>1, <2>6, <3>1
      <4> QED
        BY <1>n, <3>1, <4>1 DEF OneRefused, Harmless
    <3>2. CASE sweep[o].stage # "none"
      <4>1. sweep'[o] = [sweep[o] EXCEPT !.alone = FALSE]
        BY <2>1, <2>6, <3>2
      <4>2. OneRefused(sweep[o]) /\ \A w \in settled : Harmless(sweep[o], w)
        BY <1>0 DEF SweepsInv
      <4>3. CASE sweep[o].stage = "rows"
        BY <1>s, <4>1, <4>2, <4>3 DEF SweepShape, ReadingShape, OneRefused, Harmless
      <4>4. CASE sweep[o].stage = "writing"
        BY <1>s, <4>1, <4>2, <4>4 DEF SweepShape, WritingShape, OneRefused, Harmless
      <4> QED
        BY <1>s, <3>2, <4>3, <4>4
    <3> QED
      BY <3>1, <3>2
  <2>7. ScheduleShape'
    <3>1. \A o \in Sweeps : SweepShape(sweep'[o])
      BY <2>2, <2>4, <2>6 DEF SweepShape
    <3> QED
      BY <1>0, <2>1, <3>1 DEF ScheduleShape
  <2>8. SchedulesSettle'
    BY <1>0, <2>1, <2>3 DEF SchedulesSettle, ScheduleShape
  <2>9. ASSUME NEW o \in Sweeps
        PROVE  /\ OneRefused(sweep'[o])
               /\ \A v \in settled' : Harmless(sweep[o], v)'
               /\ sweep'[o].stage # "none" /\ sweep'[o].alone =>
                    /\ \A p \in Sweeps : p # o => sweep'[p].stage = "none"
                    /\ \A v \in sweep'[o].unchanged : OnTrack(sweep[o], v)'
    <3>0. \A v \in WatchIds : Harmless(sweep[o], v)' <=> Harmless(sweep'[o], v)
      BY <2>1, <2>3 DEF Harmless
    <3>1. CASE o = s
      <4>1. OneRefused(r)
        BY <2>4 DEF OneRefused
      <4>2. \A v \in WatchIds : OnTrack(sweep[o], v)'
        BY <2>1, <2>2, <2>3, <2>5, <3>1 DEF OnTrack
      <4>3. r.alone => \A p \in Sweeps : p # o => sweep'[p].stage = "none"
        BY <2>6, <3>1
      <4>4. r.unchanged = WatchIds
        OBVIOUS
      <4> QED
        BY <1>0, <2>1, <2>2, <2>5, <3>0, <3>1, <4>1, <4>2, <4>3, <4>4 DEF ScheduleShape
    <3>2. CASE o # s
      BY <1>0, <2>1, <2>6, <3>0, <3>2 DEF ScheduleShape
    <3> QED
      BY <3>1, <3>2
  <2>10. SweepsInv'
    BY <2>9 DEF SweepsInv
  <2> QED
    BY <2>7, <2>8, <2>10 DEF ScheduleInv
<1>3. ASSUME NEW s \in Sweeps, ReadSchedules(s) PROVE ScheduleInv'
  <2> DEFINE q == sweep[s]
             r == [stage |-> "writing", cron |-> q.cron, alone |-> q.alone, unchanged |-> q.unchanged, refused |-> {},
                   existing |-> {w \in WatchIds : schedules[w] # Off},
                   toSchedule |-> {w \in q.wanted : schedules[w] # q.cron[w]},
                   toRemove |-> {w \in WatchIds \ q.wanted : schedules[w] # Off}]
  <2>1. /\ q.stage = "rows" /\ sweep' = [sweep EXCEPT ![s] = r]
        /\ UNCHANGED <<rows, lastError, schedules, ticking, rowChanges, swept, settled>>
    BY <1>3 DEF ReadSchedules
  <2>2. q \in ReadingShape
    BY <1>s, <2>1
  <2>3. r \in WritingShape /\ r.stage = "writing"
    BY <2>2 DEF ReadingShape, WritingShape
  <2>4. OneRefused(r)
    BY DEF OneRefused
  <2>5. ASSUME NEW v \in settled PROVE Harmless(r, v) /\ schedules'[v] = AskedFor(v)
    <3>1. v \in WatchIds /\ schedules[v] = AskedFor(v) /\ (v \in q.wanted <=> rows[v].status = "active") /\ q.cron[v] = rows[v].cron
      BY <1>0, <2>1 DEF ScheduleShape, SchedulesSettle, SweepsInv, Harmless
    <3> QED
      BY <1>0, <2>1, <3>1, Asked DEF Harmless
  <2>6. ASSUME r.alone, NEW v \in r.unchanged PROVE OnTrack(sweep[s], v)'
    <3>1. v \in WatchIds /\ (v \in q.wanted <=> rows[v].status = "active") /\ q.cron[v] = rows[v].cron
      BY <1>0, <2>1, <2>2, <2>6 DEF SweepsInv, OnTrack, ReadingShape
    <3>2. AskedFor(v)' = AskedFor(v) /\ sweep'[s] = r /\ schedules[v] \in RunnableCrons \cup {Off}
      BY <1>0, <2>1, <3>1 DEF AskedFor, ScheduleShape
    <3> QED
      BY <1>0, <2>1, <3>1, <3>2, Asked DEF OnTrack
  <2>7. SweepShape(r) /\ (r.alone => sweep[s].alone)
    BY <2>3 DEF SweepShape
  <2>8. schedules' \in [WatchIds -> RunnableCrons \cup {Off}]
    BY <1>0, <2>1 DEF ScheduleShape
  <2> HIDE DEF r
  <2> QED
    BY <1>c, <2>1, <2>3, <2>4, <2>5, <2>6, <2>7, <2>8
<1>4. ASSUME NEW s \in Sweeps, NEW w \in WatchIds, Schedule(s, w) PROVE ScheduleInv'
  <2> DEFINE q == sweep[s]
             r == [q EXCEPT !.toSchedule = @ \ {w}]
  <2>1. /\ q.stage = "writing" /\ w \in q.toSchedule /\ q.refused = {} /\ q.cron[w] \in RunnableCrons
        /\ schedules' = [schedules EXCEPT ![w] = q.cron[w]]
        /\ sweep' = [sweep EXCEPT ![s] = r]
        /\ UNCHANGED <<rows, settled>>
    BY <1>4 DEF Schedule, Scheduling
  <2>2. q \in WritingShape
    BY <1>s, <2>1
  <2>3. /\ r \in WritingShape /\ r.stage = "writing" /\ r.toSchedule = q.toSchedule \ {w}
        /\ r.refused = q.refused /\ r.toRemove = q.toRemove /\ r.cron = q.cron /\ r.existing = q.existing
        /\ r.unchanged = q.unchanged /\ r.alone = q.alone
    BY <2>1, <2>2 DEF WritingShape
  <2> HIDE DEF r
  <2>4. OneRefused(r)
    BY <2>1, <2>3 DEF OneRefused
  <2>5. ASSUME NEW v \in settled PROVE Harmless(r, v) /\ schedules'[v] = AskedFor(v)
    <3>1. v \in WatchIds /\ schedules[v] = AskedFor(v) /\ Harmless(q, v)
      BY <1>0 DEF ScheduleShape, SchedulesSettle, SweepsInv
    <3>2. v # w
      BY <2>1, <3>1 DEF Harmless
    <3>3. schedules'[v] = schedules[v]
      BY <1>0, <2>1, <3>1, <3>2 DEF ScheduleShape
    <3> QED
      BY <2>1, <2>3, <3>1, <3>3 DEF Harmless
  <2>6. ASSUME r.alone, NEW v \in r.unchanged PROVE OnTrack(sweep[s], v)'
    <3>1. v \in WatchIds /\ OnTrack(q, v) /\ sweep'[s] = r
      BY <1>0, <2>1, <2>2, <2>3, <2>6 DEF SweepsInv, WritingShape, ScheduleShape
    <3>2. AskedFor(v)' = AskedFor(v) /\ rows'[v] = rows[v]
      BY <2>1 DEF AskedFor
    <3>3. CASE v = w
      <4>1. schedules'[v] = rows[v].cron /\ rows[v].cron \in RunnableCrons /\ AskedFor(v) = rows[v].cron
        BY <1>0, <2>1, <3>1, <3>3, Asked DEF OnTrack, ScheduleShape
      <4> QED
        BY <1>0, <2>1, <2>3, <3>1, <3>2, <3>3, <4>1, Asked DEF OnTrack
    <3>4. CASE v # w
      <4>1. schedules'[v] = schedules[v]
        BY <1>0, <2>1, <3>1, <3>4 DEF ScheduleShape
      <4> QED
        BY <2>1, <2>3, <3>1, <3>2, <3>4, <4>1 DEF OnTrack
    <3> QED
      BY <3>3, <3>4
  <2>7. SweepShape(r) /\ (r.alone => sweep[s].alone)
    BY <2>3 DEF SweepShape
  <2>8. schedules' \in [WatchIds -> RunnableCrons \cup {Off}]
    BY <1>0, <2>1 DEF ScheduleShape
  <2> QED
    BY <1>c, <2>1, <2>3, <2>4, <2>5, <2>6, <2>7, <2>8
<1>5. ASSUME NEW s \in Sweeps, NEW w \in WatchIds, ScheduleRefused(s, w) PROVE ScheduleInv'
  <2> DEFINE q == sweep[s]
             r == [q EXCEPT !.toSchedule = @ \ {w}, !.refused = q.existing \cap {w},
                            !.unchanged = IF q.cron[w] \in RunnableCrons THEN @ \ {w} ELSE @]
  <2>1. /\ q.stage = "writing" /\ w \in q.toSchedule /\ q.refused = {}
        /\ sweep' = [sweep EXCEPT ![s] = r]
        /\ UNCHANGED <<rows, settled, schedules>>
    BY <1>5 DEF ScheduleRefused, Scheduling
  <2>2. q \in WritingShape
    BY <1>s, <2>1
  <2>3. /\ r \in WritingShape /\ r.stage = "writing" /\ r.toSchedule = q.toSchedule \ {w}
        /\ r.refused = q.existing \cap {w} /\ r.toRemove = q.toRemove /\ r.cron = q.cron /\ r.existing = q.existing
        /\ r.unchanged \subseteq q.unchanged /\ r.alone = q.alone
        /\ q.cron[w] \in RunnableCrons => w \notin r.unchanged
    BY <2>1, <2>2 DEF WritingShape
  <2> HIDE DEF r
  <2>4. OneRefused(r)
    BY <2>1, <2>3 DEF OneRefused
  <2>5. ASSUME NEW v \in settled PROVE Harmless(r, v) /\ schedules'[v] = AskedFor(v)
    <3>1. v \in WatchIds /\ schedules[v] = AskedFor(v) /\ Harmless(q, v)
      BY <1>0 DEF ScheduleShape, SchedulesSettle, SweepsInv
    <3> QED
      BY <2>1, <2>3, <3>1 DEF Harmless
  <2>6. ASSUME r.alone, NEW v \in r.unchanged PROVE OnTrack(sweep[s], v)'
    <3>1. v \in WatchIds /\ OnTrack(q, v) /\ sweep'[s] = r
      BY <1>0, <2>1, <2>2, <2>3, <2>6 DEF SweepsInv, WritingShape, ScheduleShape
    <3>2. AskedFor(v)' = AskedFor(v) /\ rows'[v] = rows[v] /\ schedules'[v] = schedules[v]
      BY <2>1 DEF AskedFor
    <3>3. CASE v = w
      <4>1. q.cron[v] \notin RunnableCrons /\ AskedFor(v) = Off
        BY <1>0, <2>1, <2>3, <2>6, <3>1, <3>3, Asked DEF OnTrack
      <4> QED
        BY <2>1, <2>3, <3>1, <3>2, <3>3, <4>1 DEF OnTrack
    <3>4. CASE v # w
      BY <2>1, <2>3, <3>1, <3>2, <3>4 DEF OnTrack
    <3> QED
      BY <3>3, <3>4
  <2>7. SweepShape(r) /\ (r.alone => sweep[s].alone)
    BY <2>3 DEF SweepShape
  <2>8. schedules' \in [WatchIds -> RunnableCrons \cup {Off}]
    BY <1>0, <2>1 DEF ScheduleShape
  <2> QED
    BY <1>c, <2>1, <2>3, <2>4, <2>5, <2>6, <2>7, <2>8
<1>6. ASSUME NEW s \in Sweeps, NEW w \in WatchIds, Unschedule(s, w) PROVE ScheduleInv'
  <2> DEFINE q == sweep[s]
             r == [q EXCEPT !.toRemove = @ \ {w}, !.refused = {}]
  <2>1. /\ q.stage = "writing"
        /\ IF q.refused # {} THEN w \in q.refused ELSE q.toSchedule = {} /\ w \in q.toRemove
        /\ schedules' = [schedules EXCEPT ![w] = Off]
        /\ sweep' = [sweep EXCEPT ![s] = r]
        /\ UNCHANGED <<rows, settled>>
    BY <1>6 DEF Unschedule, Removing
  <2>2. q \in WritingShape /\ OneRefused(q)
    BY <1>0, <1>s, <2>1 DEF SweepsInv
  <2>3. /\ r \in WritingShape /\ r.stage = "writing" /\ r.toRemove = q.toRemove \ {w}
        /\ r.refused = {} /\ r.toSchedule = q.toSchedule /\ r.cron = q.cron /\ r.existing = q.existing
        /\ r.unchanged = q.unchanged /\ r.alone = q.alone
    BY <2>1, <2>2 DEF WritingShape
  <2> HIDE DEF r
  <2>a. w \in q.refused \cup q.toRemove /\ w \notin q.toSchedule /\ q.refused \subseteq {w}
    BY <2>1, <2>2 DEF OneRefused
  <2>4. OneRefused(r)
    BY <2>1, <2>3 DEF OneRefused
  <2>5. ASSUME NEW v \in settled PROVE Harmless(r, v) /\ schedules'[v] = AskedFor(v)
    <3>1. v \in WatchIds /\ schedules[v] = AskedFor(v) /\ Harmless(q, v)
      BY <1>0 DEF ScheduleShape, SchedulesSettle, SweepsInv
    <3>2. Harmless(r, v)
      BY <2>1, <2>3, <3>1 DEF Harmless
    <3>3. v = w => AskedFor(v) = Off
      BY <2>1, <2>a, <3>1 DEF Harmless
    <3>4. schedules'[v] = AskedFor(v)
      BY <1>0, <2>1, <3>1, <3>3 DEF ScheduleShape
    <3> QED
      BY <3>2, <3>4
  <2>6. ASSUME r.alone, NEW v \in r.unchanged PROVE OnTrack(sweep[s], v)'
    <3>1. v \in WatchIds /\ OnTrack(q, v) /\ sweep'[s] = r
      BY <1>0, <2>1, <2>2, <2>3, <2>6 DEF SweepsInv, WritingShape, ScheduleShape
    <3>2. AskedFor(v)' = AskedFor(v) /\ rows'[v] = rows[v]
      BY <2>1 DEF AskedFor
    <3>3. CASE v = w
      <4>1. schedules'[v] = Off /\ AskedFor(v) = Off
        BY <1>0, <2>1, <2>a, <3>1, <3>3 DEF OnTrack, ScheduleShape
      <4> QED
        BY <2>1, <2>3, <2>a, <3>1, <3>2, <3>3, <4>1 DEF OnTrack
    <3>4. CASE v # w
      <4>1. schedules'[v] = schedules[v]
        BY <1>0, <2>1, <3>1, <3>4 DEF ScheduleShape
      <4> QED
        BY <2>1, <2>3, <2>a, <3>1, <3>2, <3>4, <4>1 DEF OnTrack
    <3> QED
      BY <3>3, <3>4
  <2>7. SweepShape(r) /\ (r.alone => sweep[s].alone)
    BY <2>3 DEF SweepShape
  <2>8. schedules' \in [WatchIds -> RunnableCrons \cup {Off}]
    BY <1>0, <2>1 DEF ScheduleShape
  <2> QED
    BY <1>c, <2>1, <2>3, <2>4, <2>5, <2>6, <2>7, <2>8
<1>7. ASSUME NEW s \in Sweeps, EndSweep(s) PROVE ScheduleInv'
  <2>1. /\ sweep[s].stage = "writing"
        /\ sweep[s].toSchedule = {} /\ sweep[s].toRemove = {} /\ sweep[s].refused = {}
        /\ settled' = IF sweep[s].alone THEN settled \cup sweep[s].unchanged ELSE settled
        /\ sweep' = [sweep EXCEPT ![s] = NoSweep]
        /\ UNCHANGED <<rows, schedules>>
    BY <1>7 DEF EndSweep
  <2>2. sweep'[s] = NoSweep /\ \A o \in Sweeps : o # s => sweep'[o] = sweep[o]
    BY <1>0, <2>1 DEF ScheduleShape
  <2>3. \A v \in WatchIds : AskedFor(v)' = AskedFor(v)
    BY <2>1 DEF AskedFor
  <2>4. sweep[s].unchanged \subseteq WatchIds
    BY <1>s, <2>1 DEF WritingShape
  <2>5. ScheduleShape'
    BY <1>0, <1>n, <2>1, <2>2, <2>4 DEF ScheduleShape
  <2>6. ASSUME sweep[s].alone, NEW v \in sweep[s].unchanged PROVE schedules[v] = AskedFor(v)
    <3>1. OnTrack(sweep[s], v)
      BY <1>0, <2>1, <2>6 DEF SweepsInv
    <3> QED
      BY <2>1, <3>1 DEF OnTrack
  <2>7. SchedulesSettle'
    BY <1>0, <2>1, <2>3, <2>4, <2>6 DEF SchedulesSettle, ScheduleShape
  <2>8. ASSUME NEW o \in Sweeps
        PROVE  /\ OneRefused(sweep'[o])
               /\ \A v \in settled' : Harmless(sweep[o], v)'
               /\ sweep'[o].stage # "none" /\ sweep'[o].alone =>
                    /\ \A p \in Sweeps : p # o => sweep'[p].stage = "none"
                    /\ \A v \in sweep'[o].unchanged : OnTrack(sweep[o], v)'
    <3>1. CASE sweep'[o].stage = "none"
      BY <3>1 DEF OneRefused, Harmless
    <3>2. CASE sweep'[o].stage # "none"
      <4>1. o # s /\ sweep'[o] = sweep[o] /\ sweep[o].stage # "none"
        BY <1>n, <2>2, <3>2
      <4>2. ~sweep[s].alone /\ settled' = settled
        BY <1>0, <2>1, <4>1 DEF SweepsInv
      <4>3. ~sweep[o].alone
        BY <1>0, <2>1, <4>1 DEF SweepsInv
      <4>4. OneRefused(sweep'[o]) /\ \A v \in settled' : Harmless(sweep[o], v)'
        BY <1>0, <2>1, <2>3, <4>1, <4>2 DEF Harmless, ScheduleShape, SweepsInv
      <4> QED
        BY <4>1, <4>3, <4>4
    <3> QED
      BY <3>1, <3>2
  <2>9. SweepsInv'
    BY <2>8 DEF SweepsInv
  <2> QED
    BY <2>5, <2>7, <2>9 DEF ScheduleInv
<1>8. ASSUME NEW s \in Sweeps, SweepFails(s) PROVE ScheduleInv'
  <2>1. sweep' = [sweep EXCEPT ![s] = NoSweep] /\ UNCHANGED <<rows, schedules, settled>> /\ sweep[s].stage # "none"
    BY <1>8 DEF SweepFails
  <2>2. OneRefused(NoSweep) /\ \A v \in settled : Harmless(NoSweep, v)
    BY <1>n DEF OneRefused, Harmless
  <2>3. schedules' \in [WatchIds -> RunnableCrons \cup {Off}] /\ \A v \in settled : schedules'[v] = AskedFor(v)
    BY <1>0, <2>1 DEF ScheduleShape, SchedulesSettle
  <2> QED
    BY <1>c, <1>n, <2>1, <2>2, <2>3
<1>9. ASSUME UNCHANGED <<rows, schedules, sweep, settled>> PROVE ScheduleInv'
  BY <1>0, <1>9 DEF ScheduleInv, ScheduleShape, SweepsInv, SchedulesSettle, AskedFor, Harmless, OnTrack
<1>10. ASSUME NEW w \in WatchIds, CronFires(w) \/ RunWatchCheckJob(w) PROVE ScheduleInv'
  BY <1>9, <1>10 DEF CronFires, RunWatchCheckJob
<1>11. CASE UNCHANGED scheduleVars
  BY <1>9, <1>11 DEF scheduleVars
<1> QED
  BY <1>1, <1>2, <1>3, <1>4, <1>5, <1>6, <1>7, <1>8, <1>10, <1>11 DEF ScheduleNext

\* For any watches and any overlapping sweeps: once a sweep that was alone has seen a
\* row that no longer changes, the queue's schedule for that watch is what the row
\* asks for, and later sweeps leave it so.
THEOREM SchedulesSettled == ScheduleSpec => []SchedulesSettle
<1>1. ScheduleInit => ScheduleInv
  <2> SUFFICES ASSUME ScheduleInit PROVE ScheduleInv
    OBVIOUS
  <2>1. \A s \in Sweeps : sweep[s] = NoSweep /\ sweep[s].stage = "none"
    BY DEF ScheduleInit, NoSweep
  <2>2. ScheduleShape
    BY <2>1 DEF ScheduleInit, ScheduleShape, SweepShape
  <2>3. SweepsInv /\ SchedulesSettle
    BY <2>1 DEF ScheduleInit, SweepsInv, OneRefused, SchedulesSettle
  <2> QED
    BY <2>2, <2>3 DEF ScheduleInv
<1>2. ScheduleInv => SchedulesSettle
  BY DEF ScheduleInv
<1> QED
  BY <1>1, <1>2, ScheduleStep, PTL DEF ScheduleSpec

--------------------------------------------------------------------------------
(* The fetch ladder (watcher/src/fetch/ladder.ts). *)

Tiers == {"http", "browser", "stealth"}
Climbs == {<<"http", "browser", "stealth">>, <<"browser", "stealth">>, <<"stealth">>}

\* The tiers below a tier.
Below(t) == {u \in Tiers : Rank(u) < Rank(t)}

\* The order of the tiers.
LEMMA Ranks == Rank("http") = 1 /\ Rank("browser") = 2 /\ Rank("stealth") = 3
<1>1. \A i \in 1..3 : FETCH_TIERS[i] = "http" <=> i = 1
  BY DEF FETCH_TIERS
<1>2. \A i \in 1..3 : FETCH_TIERS[i] = "browser" <=> i = 2
  BY DEF FETCH_TIERS
<1>3. \A i \in 1..3 : FETCH_TIERS[i] = "stealth" <=> i = 3
  BY DEF FETCH_TIERS
<1> QED
  BY <1>1, <1>2, <1>3 DEF Rank

\* What lies below each tier.
LEMMA BelowTiers ==
  /\ Below("http") = {} /\ Below("browser") = {"http"} /\ Below("stealth") = {"http", "browser"}
  /\ \A t \in Tiers : Below(t) = {FETCH_TIERS[i] : i \in 1..(Rank(t) - 1)}
<1>1. Below("http") = {} /\ Below("browser") = {"http"} /\ Below("stealth") = {"http", "browser"}
  BY Ranks DEF Below, Tiers
<1>2. {FETCH_TIERS[i] : i \in 1..(Rank("http") - 1)} = {}
  BY Ranks
<1>3. {FETCH_TIERS[i] : i \in 1..(Rank("browser") - 1)} = {"http"}
  BY Ranks DEF FETCH_TIERS
<1>4. {FETCH_TIERS[i] : i \in 1..(Rank("stealth") - 1)} = {"http", "browser"}
  BY Ranks DEF FETCH_TIERS
<1> QED
  BY <1>1, <1>2, <1>3, <1>4 DEF Tiers

\* The higher of two tiers.
LEMMA Highest ==
  ASSUME NEW a \in Tiers, NEW b \in Tiers
  PROVE  /\ Higher(a, b) \in Tiers
         /\ Rank(a) >= Rank(b) => Higher(a, b) = a
         /\ Rank(a) \in 1..3
BY Ranks DEF Higher, Tiers

\* A climb goes from its floor to the top.
LEMMA FirstClimb ==
  ASSUME NEW t \in Tiers
  PROVE  TiersToTry("auto", t) \in Climbs /\ Head(TiersToTry("auto", t)) = t
<1>0. FETCH_TIERS \in Seq(Tiers) /\ Len(FETCH_TIERS) = 3
  BY DEF FETCH_TIERS, Tiers
<1>s. ASSUME NEW k \in 1..3
      PROVE  /\ SubSeq(FETCH_TIERS, k, 3) \in Seq(Tiers)
             /\ Len(SubSeq(FETCH_TIERS, k, 3)) = 4 - k
             /\ \A i \in 1..(4 - k) : SubSeq(FETCH_TIERS, k, 3)[i] = FETCH_TIERS[k + i - 1]
  <2>1. \A i \in k..3 : FETCH_TIERS[i] \in Tiers
    BY DEF FETCH_TIERS, Tiers
  <2>2. k \in Int /\ 3 \in Int /\ 3 - k + 1 = 4 - k /\ k <= 3
    OBVIOUS
  <2> HIDE DEF FETCH_TIERS
  <2> QED
    BY <2>1, <2>2, SubSeqProperties
<1>1. SubSeq(FETCH_TIERS, 1, 3) = <<"http", "browser", "stealth">>
  <2> DEFINE s == SubSeq(FETCH_TIERS, 1, 3)
             climb == <<"http", "browser", "stealth">>
  <2>1. s \in Seq(Tiers) /\ Len(s) = 3 /\ \A i \in 1..3 : s[i] = FETCH_TIERS[1 + i - 1]
    BY <1>s
  <2>2. climb \in Seq(Tiers) /\ Len(climb) = 3 /\ \A i \in 1..3 : climb[i] = FETCH_TIERS[1 + i - 1]
    BY DEF FETCH_TIERS, Tiers
  <2> HIDE DEF s, climb
  <2>3. s = climb
    BY <2>1, <2>2, SeqEqual
  <2> QED
    BY <2>3 DEF s, climb
<1>2. SubSeq(FETCH_TIERS, 2, 3) = <<"browser", "stealth">>
  <2> DEFINE s == SubSeq(FETCH_TIERS, 2, 3)
             climb == <<"browser", "stealth">>
  <2>1. s \in Seq(Tiers) /\ Len(s) = 2 /\ \A i \in 1..2 : s[i] = FETCH_TIERS[2 + i - 1]
    BY <1>s
  <2>2. climb \in Seq(Tiers) /\ Len(climb) = 2 /\ \A i \in 1..2 : climb[i] = FETCH_TIERS[2 + i - 1]
    BY DEF FETCH_TIERS, Tiers
  <2> HIDE DEF s, climb
  <2>3. s = climb
    BY <2>1, <2>2, SeqEqual
  <2> QED
    BY <2>3 DEF s, climb
<1>3. SubSeq(FETCH_TIERS, 3, 3) = <<"stealth">>
  <2> DEFINE s == SubSeq(FETCH_TIERS, 3, 3)
             climb == <<"stealth">>
  <2>1. s \in Seq(Tiers) /\ Len(s) = 1 /\ \A i \in 1..1 : s[i] = FETCH_TIERS[3 + i - 1]
    BY <1>s
  <2>2. climb \in Seq(Tiers) /\ Len(climb) = 1 /\ \A i \in 1..1 : climb[i] = FETCH_TIERS[3 + i - 1]
    BY DEF FETCH_TIERS, Tiers
  <2> HIDE DEF s, climb
  <2>3. s = climb
    BY <2>1, <2>2, SeqEqual
  <2> QED
    BY <2>3 DEF s, climb
<1>4. CASE t = "http"
  <2>1. TiersToTry("auto", t) = <<"http", "browser", "stealth">>
    BY <1>1, <1>4, Ranks DEF TiersToTry
  <2> QED
    BY <1>4, <2>1 DEF Climbs
<1>5. CASE t = "browser"
  <2>1. TiersToTry("auto", t) = <<"browser", "stealth">>
    BY <1>2, <1>5, Ranks DEF TiersToTry
  <2> QED
    BY <1>5, <2>1 DEF Climbs
<1>6. CASE t = "stealth"
  <2>1. TiersToTry("auto", t) = <<"stealth">>
    BY <1>3, <1>6, Ranks DEF TiersToTry
  <2> QED
    BY <1>6, <2>1 DEF Climbs
<1> QED
  BY <1>4, <1>5, <1>6 DEF Tiers

\* What is left of a climb after its first tier.
LEMMA NextClimb ==
  ASSUME NEW left \in Climbs, Tail(left) # <<>>
  PROVE  /\ Tail(left) \in Climbs
         /\ Head(left) \in Tiers /\ Head(Tail(left)) \in Tiers
         /\ Rank(Head(Tail(left))) = Rank(Head(left)) + 1
         /\ Below(Head(Tail(left))) = Below(Head(left)) \cup {Head(left)}
<1>1. CASE left = <<"http", "browser", "stealth">>
  <2>1. Tail(left) = <<"browser", "stealth">> /\ Head(left) = "http" /\ Head(Tail(left)) = "browser"
    BY <1>1
  <2> QED
    BY <2>1, Ranks, BelowTiers DEF Climbs, Tiers
<1>2. CASE left = <<"browser", "stealth">>
  <2>1. Tail(left) = <<"stealth">> /\ Head(left) = "browser" /\ Head(Tail(left)) = "stealth"
    BY <1>2
  <2> QED
    BY <2>1, Ranks, BelowTiers DEF Climbs, Tiers
<1>3. CASE left = <<"stealth">>
  BY <1>3
<1> QED
  BY <1>1, <1>2, <1>3 DEF Climbs

\* A climb always has a tier to try.
LEMMA HeadOfClimb == \A left \in Climbs : Head(left) \in Tiers
  BY DEF Climbs, Tiers

ClimbingShape == [stage : {"climbing"}, from : Tiers, left : Climbs, current : BOOLEAN]
ServedShape == [stage : {"served"}, tier : Tiers, from : Tiers, current : BOOLEAN]
RestShape == [stage : {"none", "blocked", "gone", "error", "fetched"}]

\* A check whose copy is the row's floor stands at or above it, on tiers refused.
WellBegun(f, tier) == f.from = floor /\ Rank(tier) >= Rank(f.from) /\ Below(tier) \subseteq refused

LadderShape ==
  /\ floor \in Tiers /\ learned \in Tiers /\ outrun \in BOOLEAN
  /\ fetch \in [Fetches -> ClimbingShape \cup ServedShape \cup RestShape]

FloorKept == floor = learned /\ Below(floor) \subseteq refused

ChecksWellBegun ==
  \A c \in Fetches :
    /\ fetch[c].stage = "climbing" /\ fetch[c].current => WellBegun(fetch[c], Head(fetch[c].left))
    /\ fetch[c].stage = "served" /\ fetch[c].current => WellBegun(fetch[c], fetch[c].tier)

LadderInv == policy = "auto" => LadderShape /\ (~outrun => FloorKept /\ ChecksWellBegun)

\* Fetches that overlap each other and a reset of the floor.
LEMMA LadderStep == LadderInv /\ [LadderNext]_ladderVars => LadderInv'
<1> SUFFICES ASSUME LadderInv, [LadderNext]_ladderVars, policy' = "auto" PROVE (LadderShape /\ (~outrun => FloorKept /\ ChecksWellBegun))'
  BY DEF LadderInv
<1>0. policy = "auto"
  BY DEF LadderNext, ladderVars, BeginFetch, Attempt, TierFloorAfter, ResetTier
<1> USE DEF LadderInv, LadderShape
<1>s. \A d \in Fetches : /\ fetch[d] \in ClimbingShape \cup ServedShape \cup RestShape
                         /\ fetch[d].stage = "climbing" => fetch[d] \in ClimbingShape
                         /\ fetch[d].stage = "served" => fetch[d] \in ServedShape
  BY <1>0 DEF ClimbingShape, ServedShape, RestShape
<1>o. /\ Outdated \in [Fetches -> ClimbingShape \cup ServedShape \cup RestShape]
      /\ \A d \in Fetches : Outdated[d].stage \in {"climbing", "served"} => Outdated[d].current = FALSE
  <2> SUFFICES ASSUME NEW d \in Fetches
               PROVE  /\ Outdated[d] \in ClimbingShape \cup ServedShape \cup RestShape
                      /\ Outdated[d].stage \in {"climbing", "served"} => Outdated[d].current = FALSE
    BY DEF Outdated
  <2>1. CASE fetch[d].stage = "climbing"
    BY <1>s, <2>1 DEF Outdated, ClimbingShape
  <2>2. CASE fetch[d].stage = "served"
    BY <1>s, <2>2 DEF Outdated, ServedShape
  <2>3. CASE fetch[d].stage \notin {"climbing", "served"}
    BY <1>s, <2>3 DEF Outdated
  <2> QED
    BY <2>1, <2>2, <2>3
<1>1. ASSUME NEW c \in Fetches, BeginFetch(c) PROVE (LadderShape /\ (~outrun => FloorKept /\ ChecksWellBegun))'
  <2> DEFINE f == [stage |-> "climbing", from |-> floor, left |-> TiersToTry("auto", floor), current |-> TRUE]
  <2>1. fetch' = [fetch EXCEPT ![c] = f] /\ UNCHANGED <<policy, floor, resets, refused, learned, outrun>>
    BY <1>0, <1>1 DEF BeginFetch
  <2>2. f \in ClimbingShape /\ f.stage = "climbing" /\ f.from = floor /\ Head(f.left) = floor
    BY <1>0, FirstClimb DEF ClimbingShape
  <2>3. LadderShape'
    BY <1>0, <2>1, <2>2
  <2>4. ~outrun => FloorKept'
    BY <1>0, <2>1 DEF FloorKept
  <2>5. ASSUME ~outrun, NEW d \in Fetches
        PROVE  /\ fetch'[d].stage = "climbing" /\ fetch'[d].current => WellBegun(fetch[d], Head(fetch[d].left))'
               /\ fetch'[d].stage = "served" /\ fetch'[d].current => WellBegun(fetch[d], fetch[d].tier)'
    <3>1. CASE d = c
      <4>1. fetch'[d] = f
        BY <1>0, <2>1, <3>1
      <4>2. Rank(floor) >= Rank(floor) /\ Below(floor) \subseteq refused
        BY <1>0, <2>5, Highest DEF FloorKept
      <4> QED
        BY <4>1, <4>2, <2>1, <2>2 DEF WellBegun
    <3>2. CASE d # c
      <4>1. fetch'[d] = fetch[d]
        BY <1>0, <2>1, <3>2
      <4> QED
        BY <1>0, <4>1, <2>1, <2>5 DEF ChecksWellBegun, WellBegun
    <3> QED
      BY <3>1, <3>2
  <2> QED
    BY <2>1, <2>3, <2>4, <2>5 DEF ChecksWellBegun
<1>2. ASSUME NEW c \in Fetches, NEW r \in Responses, Attempt(c, r) PROVE (LadderShape /\ (~outrun => FloorKept /\ ChecksWellBegun))'
  <2> DEFINE tier == Head(fetch[c].left)
             left == Tail(fetch[c].left)
  <2>1. fetch[c] \in ClimbingShape /\ fetch[c].stage = "climbing" /\ tier \in Tiers /\ fetch[c].left \in Climbs
    BY <1>s, <1>2, HeadOfClimb DEF Attempt, ClimbingShape
  <2>2. UNCHANGED <<policy, floor, resets, learned, outrun>> /\ refused \subseteq refused'
    BY <1>2 DEF Attempt
  <2>3. PICK f : /\ fetch' = [fetch EXCEPT ![c] = f]
                 /\ f \in ClimbingShape \cup ServedShape \cup RestShape
                 /\ f.stage = "climbing" => /\ f = [fetch[c] EXCEPT !.left = left] /\ left # <<>>
                                            /\ tier \in refused'
                 /\ f.stage = "served" => f = [stage |-> "served", tier |-> tier, from |-> fetch[c].from,
                                               current |-> fetch[c].current]
    <3>1. CASE AttemptVerdict(r) = "blocked"
      <4>1. tier \in refused'
        BY <1>2, <3>1 DEF Attempt, AttemptVerdict
      <4>2. fetch' = [fetch EXCEPT ![c] = IF left = <<>> THEN [stage |-> "blocked"] ELSE [fetch[c] EXCEPT !.left = left]]
        BY <1>2, <3>1 DEF Attempt
      <4>3. CASE left = <<>>
        <5> DEFINE g == [stage |-> "blocked"]
        <5>1. fetch' = [fetch EXCEPT ![c] = g]
          BY <4>2, <4>3
        <5>2. g \in RestShape /\ g.stage \notin {"served", "climbing"}
          BY DEF RestShape
        <5> QED
          BY <5>1, <5>2
      <4>4. CASE left # <<>>
        <5>1. [fetch[c] EXCEPT !.left = left] \in ClimbingShape /\ [fetch[c] EXCEPT !.left = left].stage = "climbing"
          BY <2>1, <4>4, NextClimb DEF ClimbingShape
        <5> QED
          BY <4>1, <4>2, <4>4, <5>1
      <4> QED
        BY <4>3, <4>4
    <3>2. CASE AttemptVerdict(r) = "ok"
      <4> DEFINE g == [stage |-> "served", tier |-> tier, from |-> fetch[c].from, current |-> fetch[c].current]
      <4>1. fetch' = [fetch EXCEPT ![c] = g]
        BY <1>2, <3>2 DEF Attempt
      <4>2. g \in ServedShape /\ g.stage = "served"
        BY <2>1 DEF ServedShape, ClimbingShape
      <4> QED
        BY <4>1, <4>2
    <3>3. CASE AttemptVerdict(r) \in {"gone", "error"}
      <4> DEFINE g == [stage |-> AttemptVerdict(r)]
      <4>1. fetch' = [fetch EXCEPT ![c] = g]
        BY <1>2, <3>3 DEF Attempt
      <4>2. g \in RestShape /\ g.stage \notin {"served", "climbing"}
        BY <3>3 DEF RestShape
      <4> QED
        BY <4>1, <4>2
    <3>4. AttemptVerdict(r) \in {"blocked", "ok", "gone", "error"}
      BY <1>2 DEF Attempt
    <3> QED
      BY <3>1, <3>2, <3>3, <3>4
  <2>4. LadderShape'
    BY <1>0, <2>2, <2>3
  <2>5. ~outrun => FloorKept'
    BY <1>0, <2>2 DEF FloorKept
  <2>6. ASSUME ~outrun, NEW d \in Fetches
        PROVE  /\ fetch'[d].stage = "climbing" /\ fetch'[d].current => WellBegun(fetch[d], Head(fetch[d].left))'
               /\ fetch'[d].stage = "served" /\ fetch'[d].current => WellBegun(fetch[d], fetch[d].tier)'
    <3>1. CASE d = c
      <4>1. fetch'[d] = f
        BY <1>0, <2>3, <3>1
      <4>2. fetch[c].current => WellBegun(fetch[c], tier)
        BY <1>0, <2>1, <2>6 DEF ChecksWellBegun
      <4>3. CASE f.stage = "climbing"
        <5>1. f.current = fetch[c].current /\ f.from = fetch[c].from /\ f.left = left /\ left # <<>> /\ tier \in refused'
          BY <2>1, <2>3, <4>3 DEF ClimbingShape
        <5>2. /\ Rank(Head(left)) = Rank(tier) + 1 /\ Below(Head(left)) = Below(tier) \cup {tier}
          BY <2>1, <5>1, NextClimb
        <5>3. Rank(tier) \in 1..3 /\ Rank(fetch[c].from) \in 1..3
          BY <2>1, Highest DEF ClimbingShape
        <5> QED
          BY <2>2, <4>1, <4>2, <4>3, <5>1, <5>2, <5>3 DEF WellBegun
      <4>4. CASE f.stage = "served"
        <5>1. f.current = fetch[c].current /\ f.from = fetch[c].from /\ f.tier = tier
          BY <2>3, <4>4
        <5> QED
          BY <2>2, <4>1, <4>2, <4>4, <5>1 DEF WellBegun
      <4> QED
        BY <4>1, <4>3, <4>4
    <3>2. CASE d # c
      <4>1. fetch'[d] = fetch[d]
        BY <1>0, <2>3, <3>2
      <4> QED
        BY <1>0, <4>1, <2>2, <2>6 DEF ChecksWellBegun, WellBegun
    <3> QED
      BY <3>1, <3>2
  <2> QED
    BY <2>2, <2>4, <2>5, <2>6 DEF ChecksWellBegun
<1>3. ASSUME NEW c \in Fetches, TierFloorAfter(c) PROVE (LadderShape /\ (~outrun => FloorKept /\ ChecksWellBegun))'
  <2> DEFINE tier == fetch[c].tier
             from == fetch[c].from
             raised == Higher(tier, from)
             over == [stage |-> "fetched"]
  <2>1. fetch[c] \in ServedShape /\ tier \in Tiers /\ from \in Tiers /\ fetch[c].stage = "served"
        /\ fetch[c].current \in BOOLEAN
    BY <1>s, <1>3 DEF TierFloorAfter, ServedShape
  <2>2. over \in RestShape /\ over.stage = "fetched"
    BY DEF RestShape
  <2>3. UNCHANGED <<policy, resets, refused>>
        /\ learned' = IF fetch[c].current THEN Higher(tier, learned) ELSE learned
    BY <1>3 DEF TierFloorAfter
  <2>4. learned' \in Tiers
    BY <1>0, <2>1, <2>3, Highest
  <2>5. ASSUME ~outrun, fetch[c].current
        PROVE  /\ from = floor /\ raised = tier /\ learned' = tier
               /\ Below(tier) \subseteq refused
    BY <1>0, <2>1, <2>3, <2>5, Highest DEF ChecksWellBegun, WellBegun, FloorKept
  <2>6. CASE raised # from
    <3>1. floor' = raised /\ fetch' = [Outdated EXCEPT ![c] = over] /\ (outrun' <=> (outrun \/ ~fetch[c].current)) /\ outrun' \in BOOLEAN
      BY <1>0, <1>3, <2>6 DEF TierFloorAfter
    <3>2. LadderShape'
      BY <1>o, <2>1, <2>2, <2>4, <3>1, Highest
    <3>3. ~outrun' => FloorKept'
      BY <2>3, <2>5, <3>1 DEF FloorKept
    <3>4. \A d \in Fetches : fetch'[d].stage \in {"climbing", "served"} => fetch'[d].current = FALSE
      BY <1>o, <2>2, <3>1
    <3> QED
      BY <3>2, <3>3, <3>4 DEF ChecksWellBegun
  <2>7. CASE raised = from
    <3>1. fetch' = [fetch EXCEPT ![c] = over] /\ floor' = floor /\ outrun' = outrun
      BY <1>3, <2>7 DEF TierFloorAfter
    <3>2. LadderShape'
      BY <1>0, <2>2, <2>4, <3>1
    <3>3. ~outrun => FloorKept'
      BY <1>0, <2>3, <2>5, <2>7, <3>1 DEF FloorKept
    <3>4. ASSUME ~outrun, NEW d \in Fetches
          PROVE  /\ fetch'[d].stage = "climbing" /\ fetch'[d].current => WellBegun(fetch[d], Head(fetch[d].left))'
                 /\ fetch'[d].stage = "served" /\ fetch'[d].current => WellBegun(fetch[d], fetch[d].tier)'
      <4>1. CASE d = c
        BY <1>0, <2>2, <3>1, <4>1
      <4>2. CASE d # c
        <5>1. fetch'[d] = fetch[d]
          BY <1>0, <3>1, <4>2
        <5> QED
          BY <1>0, <2>3, <3>1, <3>4, <5>1 DEF ChecksWellBegun, WellBegun
      <4> QED
        BY <4>1, <4>2
    <3> QED
      BY <3>1, <3>2, <3>3, <3>4 DEF ChecksWellBegun
  <2> QED
    BY <2>6, <2>7
<1>4. CASE ResetTier
  <2>1. floor' = "http" /\ learned' = "http" /\ fetch' = Outdated /\ outrun' = outrun
    BY <1>4 DEF ResetTier
  <2>2. LadderShape'
    BY <1>0, <1>o, <2>1 DEF Tiers
  <2>3. FloorKept'
    BY <2>1, BelowTiers DEF FloorKept
  <2> QED
    BY <1>o, <2>1, <2>2, <2>3 DEF ChecksWellBegun
<1>5. CASE UNCHANGED ladderVars
  BY <1>0, <1>5 DEF ladderVars, FloorKept, ChecksWellBegun, WellBegun
<1> QED
  BY <1>1, <1>2, <1>3, <1>4, <1>5 DEF LadderNext

\* For any fetches and answers: unless a check wrote from an outdated copy, the
\* floor is the highest tier that had to serve the watch since the last reset, and
\* every tier below it has been refused since.
THEOREM FloorEarned == LadderSpec => []FloorIsEarned
<1>1. LadderInit => LadderInv
  <2> SUFFICES ASSUME LadderInit PROVE LadderInv
    OBVIOUS
  <2>1. NotFetching \in RestShape /\ NotFetching.stage = "none"
    BY DEF NotFetching, RestShape
  <2> QED
    BY <2>1, BelowTiers DEF LadderInit, LadderInv, LadderShape, FloorKept, ChecksWellBegun, Tiers
<1>2. LadderInv => FloorIsEarned
  BY BelowTiers DEF LadderInv, LadderShape, FloorKept, FloorIsEarned
<1> QED
  BY <1>1, <1>2, LadderStep, PTL DEF LadderSpec

--------------------------------------------------------------------------------
(* What the door takes and the check reads (core/src/watch/config.ts, condition.ts, comparator.ts). *)

\* What the row's last value stands for: what the page showed at the check before.
Remembered(shown) == IF shown = NoBoard THEN NoValue ELSE Replay(ParserOf(posted), shown)

RuleInv ==
  /\ posted = NoWatch \/ (posted \in Bodies /\ Accepted(posted))
  /\ board \in Boards
  /\ posted = NoWatch => lastValue = NoValue /\ reading.checks = 0 /\ reading.after = NoBoard
  /\ reading.checks \in Nat
  /\ reading = [checks |-> reading.checks, before |-> reading.before, after |-> reading.after, fired |-> reading.fired]
  /\ reading.before \in Boards \cup {NoBoard}
  /\ reading.after \in Boards \cup {NoBoard}
  /\ reading.checks > 0 => reading.after \in Boards
  /\ lastValue = Remembered(reading.after)
  /\ reading.checks > 0 =>
       (reading.fired <=> Compare(ParseCondition(posted.kind, posted.condition),
                                  Remembered(reading.before), Remembered(reading.after)))

\* A body is no missing row.
LEMMA BodiesAreWatches ==
  ASSUME NEW body \in Bodies
  PROVE  body # NoWatch /\ body.kind \in {"price", "change", "slot"}
BY RulesAssumption DEF NoWatch

\* A page that shows something is no empty one.
LEMMA BoardsShow ==
  ASSUME NEW shown \in Boards
  PROVE  shown # NoBoard
BY RulesAssumption DEF NoBoard

\* What the door takes for a bound is a bound.
LEMMA BoundsAreNumbers ==
  ASSUME NEW body \in Bodies, Accepted(body), body.kind = "price"
  PROVE  LET below == OrNull(KeyOf(body.condition, "drops_below"))
             above == OrNull(KeyOf(body.condition, "rises_above"))
         IN  /\ DOMAIN body.condition \subseteq {"drops_below", "rises_above"}
             /\ below # Null => /\ below = body.condition["drops_below"] /\ "drops_below" \in DOMAIN body.condition
                                /\ below.type = "number" /\ below.n \in Int /\ below.n > 0
             /\ above # Null => /\ above = body.condition["rises_above"] /\ "rises_above" \in DOMAIN body.condition
                                /\ above.type = "number" /\ above.n \in Int /\ above.n >= 0
             /\ below # Null \/ above # Null
             /\ below # Null /\ above # Null => below.n < above.n
<1> DEFINE condition == body.condition
           below == OrNull(KeyOf(condition, "drops_below"))
           above == OrNull(KeyOf(condition, "rises_above"))
<1>1. /\ DOMAIN condition \subseteq {"drops_below", "rises_above"}
      /\ below = Null \/ (IsThreshold(below) /\ below.n # 0)
      /\ above = Null \/ IsThreshold(above)
      /\ {below, above} # {Null}
      /\ (IsThreshold(below) /\ IsThreshold(above)) => below.n < above.n
  BY DEF Accepted, ConditionAccepted, PriceAccepted, FloorAccepted, KNOWN_KEYS
<1>2. below # Null => below = condition["drops_below"] /\ "drops_below" \in DOMAIN condition
  BY DEF OrNull, KeyOf
<1>3. above # Null => above = condition["rises_above"] /\ "rises_above" \in DOMAIN condition
  BY DEF OrNull, KeyOf
<1> HIDE DEF below, above
<1>n. \A key \in DOMAIN condition : condition[key].type = "number" => condition[key].n \in Int
  BY RulesAssumption
<1>4. below # Null => below.type = "number" /\ below.n \in Int /\ below.n > 0
  <2>1. below # Null => below.type = "number" /\ below.n >= 0 /\ below.n # 0
    BY <1>1 DEF IsThreshold
  <2>2. below # Null => below.n \in Int
    BY <1>2, <1>n, <2>1
  <2> QED
    BY <2>1, <2>2
<1>5. above # Null => above.type = "number" /\ above.n \in Int /\ above.n >= 0
  <2>1. above # Null => above.type = "number" /\ above.n >= 0
    BY <1>1 DEF IsThreshold
  <2> QED
    BY <1>3, <1>n, <2>1
<1>6. below # Null /\ above # Null => below.n < above.n
  BY <1>1, <1>4, <1>5 DEF IsThreshold
<1> QED
  BY <1>1, <1>2, <1>3, <1>4, <1>5, <1>6 DEF below, above

\* What the door takes is readable, as what it is.
LEMMA AcceptedIsReadable ==
  ASSUME NEW body \in Bodies, Accepted(body)
  PROVE  LET condition == ParseCondition(body.kind, body.condition)
         IN  /\ condition # Unreadable /\ condition.kind = body.kind
             /\ body.kind = "price" =>
                  condition = [kind |-> "price", below |-> OrNull(KeyOf(body.condition, "drops_below")),
                               above |-> OrNull(KeyOf(body.condition, "rises_above"))]
<1>0. body.kind \in {"price", "change", "slot"} /\ ConditionAccepted(body.kind, body.condition)
  BY BodiesAreWatches DEF Accepted
<1>1. CASE body.kind = "price"
  <2> DEFINE below == OrNull(KeyOf(body.condition, "drops_below"))
             above == OrNull(KeyOf(body.condition, "rises_above"))
  <2>1. /\ {below.type, above.type} \subseteq {"null", "number"}
        /\ {below, above} # {Null}
        /\ DOMAIN body.condition \subseteq KNOWN_KEYS["price"]
    <3>1. below # Null => below.type = "number"
      BY <1>1, BoundsAreNumbers
    <3>2. above # Null => above.type = "number"
      BY <1>1, BoundsAreNumbers
    <3>3. below # Null \/ above # Null
      BY <1>1, BoundsAreNumbers
    <3>4. Null.type = "null"
      BY DEF Null
    <3>5. DOMAIN body.condition \subseteq KNOWN_KEYS["price"]
      BY <1>0, <1>1 DEF ConditionAccepted
    <3> HIDE DEF below, above
    <3> QED
      BY <3>1, <3>2, <3>3, <3>4, <3>5
  <2>2. ParseCondition("price", body.condition) = [kind |-> "price", below |-> below, above |-> above]
    BY <2>1 DEF ParseCondition
  <2>3. Unreadable.kind = "unreadable"
    BY DEF Unreadable
  <2> QED
    BY <1>1, <2>2, <2>3
<1>2. CASE body.kind = "change"
  <2>1. /\ DOMAIN body.condition \subseteq KNOWN_KEYS["change"]
        /\ OrNull(KeyOf(body.condition, "region")) = Null \/ NonBlank(OrNull(KeyOf(body.condition, "region")))
    BY <1>0, <1>2 DEF ConditionAccepted, ChangeAccepted
  <2>2. ParseCondition("change", body.condition) = [kind |-> "change"]
    BY <2>1 DEF ParseCondition
  <2> QED
    BY <1>2, <2>2 DEF Unreadable
<1>3. CASE body.kind = "slot"
  <2>1. /\ DOMAIN body.condition \subseteq KNOWN_KEYS["slot"]
        /\ NonBlank(KeyOf(body.condition, "site"))
        /\ IsApplicant(KeyOf(body.condition, "applicant"))
        /\ KeyOf(body.condition, "auto_book").type \in {"undefined", "boolean"}
    BY <1>0, <1>3 DEF ConditionAccepted, SlotAccepted
  <2>2. OrNull(KeyOf(body.condition, "auto_book")).type \in {"null", "boolean"}
    BY <2>1, RulesAssumption DEF OrNull, Null, Missing, KeyOf
  <2>3. ParseCondition("slot", body.condition) = [kind |-> "slot"]
    BY <2>1, <2>2 DEF ParseCondition
  <2> QED
    BY <1>3, <2>3 DEF Unreadable
<1> QED
  BY <1>0, <1>1, <1>2, <1>3

\* What is read with: the door's parser for the kind, or a spec that has the same.
LEMMA ReadAsItsKind ==
  ASSUME NEW body \in Bodies, Accepted(body)
  PROVE  ParserOf(body) = ParserForKind[body.kind]
<1>0. body.kind \in {"price", "change", "slot"} /\ ExtractorAccepted(body.kind, body.extractor)
  BY BodiesAreWatches DEF Accepted
<1>1. CASE DOMAIN body.extractor = {}
  <2>1. KeyOf(body.extractor, "version") = Missing
    BY <1>1 DEF KeyOf
  <2>2. Missing # Number(1)
    BY DEF Missing, Number
  <2> QED
    BY <2>1, <2>2 DEF ParserOf, IsExtractorSpec
<1>2. CASE IsExtractorSpec(body.extractor) /\ body.extractor["parse"] = Words(ParserForKind[body.kind])
  BY <1>2 DEF ParserOf, Words
<1> QED
  BY <1>0, <1>1, <1>2 DEF ExtractorAccepted

\* What each kind of watch reads off a page.
LEMMA Readings ==
  ASSUME NEW body \in Bodies, Accepted(body), NEW shown
  PROVE  Replay(ParserOf(body), shown) =
           CASE body.kind = "price" -> [kind |-> "price", amount |-> ParsePrice(shown.print)]
             [] body.kind = "change" -> [kind |-> "digest", digest |-> NormalizeText(shown.text)]
             [] OTHER -> [kind |-> "slots", ids |-> ReplaySlots(shown.listed)]
BY BodiesAreWatches, ReadAsItsKind DEF Replay, ParserForKind

\* A watch with two bounds can be past either and never past both.
LEMMA BoundsCanBePassed ==
  ASSUME NEW body \in Bodies, Accepted(body), body.kind = "price"
  PROVE  LET condition == ParseCondition(body.kind, body.condition)
             values == {Replay(ParserOf(body), shown) : shown \in Boards}
             sides == {PriceSides(condition, value) : value \in values}
         IN  /\ (condition.below # Null) => ({"below"} \in sides)
             /\ (condition.above # Null) => ({"above"} \in sides)
             /\ {"below", "above"} \notin sides
             /\ \E previous \in values, current \in values : Compare(condition, previous, current)
<1> DEFINE condition == ParseCondition(body.kind, body.condition)
           Value(shown) == [kind |-> "price", amount |-> ParsePrice(shown.print)]
           values == {Replay(ParserOf(body), shown) : shown \in Boards}
           sides == {PriceSides(condition, value) : value \in values}
           below == OrNull(KeyOf(body.condition, "drops_below"))
           above == OrNull(KeyOf(body.condition, "rises_above"))
<1>1. condition = [kind |-> "price", below |-> below, above |-> above]
  BY AcceptedIsReadable
<1>2. /\ below # Null => /\ below = body.condition["drops_below"] /\ "drops_below" \in DOMAIN body.condition
                         /\ below.type = "number" /\ below.n \in Int /\ below.n > 0
      /\ above # Null => /\ above = body.condition["rises_above"] /\ "rises_above" \in DOMAIN body.condition
                         /\ above.type = "number" /\ above.n \in Int /\ above.n >= 0
      /\ below # Null \/ above # Null
      /\ below # Null /\ above # Null => below.n < above.n
  BY BoundsAreNumbers
<1>3. \A shown : Replay(ParserOf(body), shown) = Value(shown)
  BY Readings
<1>4. \A shown \in Boards : ParsePrice(shown.print) \in Nat
  BY RulesAssumption
<1>5. below # Null => /\ \E shown \in Boards : ParsePrice(shown.print) < below.n * 1000
                      /\ \E shown \in Boards : ParsePrice(shown.print) >= below.n * 1000
  <2> SUFFICES ASSUME below # Null
               PROVE  /\ \E shown \in Boards : ParsePrice(shown.print) < below.n * 1000
                      /\ \E shown \in Boards : ParsePrice(shown.print) >= below.n * 1000
    OBVIOUS
  <2>1. below.n * 1000 > 0
    BY <1>2
  <2> QED
    BY <1>2, <2>1, PagesAssumption
<1>6. above # Null => /\ \E shown \in Boards : ParsePrice(shown.print) > above.n * 1000
                      /\ \E shown \in Boards : ParsePrice(shown.print) <= above.n * 1000
  <2> SUFFICES ASSUME above # Null
               PROVE  /\ \E shown \in Boards : ParsePrice(shown.print) > above.n * 1000
                      /\ \E shown \in Boards : ParsePrice(shown.print) <= above.n * 1000
    OBVIOUS
  <2>1. above.n * 1000 >= 0
    BY <1>2
  <2> QED
    BY <1>2, <2>1, PagesAssumption
<1>7. ASSUME NEW shown \in Boards
      PROVE  PriceSides(condition, Value(shown)) =
               {side \in {"below", "above"} :
                  \/ side = "below" /\ below # Null /\ ParsePrice(shown.print) < below.n * 1000
                  \/ side = "above" /\ above # Null /\ ParsePrice(shown.print) > above.n * 1000}
  BY <1>1 DEF PriceSides
<1> HIDE DEF below, above, condition
<1>8. \A shown \in Boards : Value(shown) \in values /\ PriceSides(condition, Value(shown)) \in sides
  BY <1>3
<1>9. \A one \in sides : \E shown \in Boards : one = PriceSides(condition, Value(shown))
  BY <1>3
<1>10. below # Null => {"below"} \in sides
  <2> SUFFICES ASSUME below # Null PROVE {"below"} \in sides
    OBVIOUS
  <2>1. PICK shown \in Boards : ParsePrice(shown.print) < below.n * 1000
    BY <1>5
  <2>2. above # Null => ~(ParsePrice(shown.print) > above.n * 1000)
    BY <1>2, <1>4, <2>1
  <2>3. PriceSides(condition, Value(shown)) = {"below"}
    BY <1>7, <2>1, <2>2
  <2> QED
    BY <1>8, <2>3
<1>11. above # Null => {"above"} \in sides
  <2> SUFFICES ASSUME above # Null PROVE {"above"} \in sides
    OBVIOUS
  <2>1. PICK shown \in Boards : ParsePrice(shown.print) > above.n * 1000
    BY <1>6
  <2>2. below # Null => ~(ParsePrice(shown.print) < below.n * 1000)
    BY <1>2, <1>4, <2>1
  <2>3. PriceSides(condition, Value(shown)) = {"above"}
    BY <1>7, <2>1, <2>2
  <2> QED
    BY <1>8, <2>3
<1>12. {"below", "above"} \notin sides
  <2> SUFFICES ASSUME NEW shown \in Boards PROVE PriceSides(condition, Value(shown)) # {"below", "above"}
    BY <1>9
  <2>1. ~(/\ below # Null /\ ParsePrice(shown.print) < below.n * 1000
          /\ above # Null /\ ParsePrice(shown.print) > above.n * 1000)
    BY <1>2, <1>4
  <2> QED
    BY <1>7, <2>1
<1>13. \E previous \in values, current \in values : Compare(condition, previous, current)
  <2>0. condition.kind = "price"
    BY <1>1
  <2>1. \A shown, other \in Boards :
          ~(PriceSides(condition, Value(shown)) \subseteq PriceSides(condition, Value(other)))
            => Compare(condition, Value(other), Value(shown))
    BY <2>0 DEF Compare, ComparePrice
  <2>2. CASE below # Null
    <3>1. PICK shown \in Boards : ParsePrice(shown.print) < below.n * 1000
      BY <1>5, <2>2
    <3>2. PICK other \in Boards : ParsePrice(other.print) >= below.n * 1000
      BY <1>5, <2>2
    <3>3. "below" \in PriceSides(condition, Value(shown))
      BY <1>7, <2>2, <3>1
    <3>4. ~(ParsePrice(other.print) < below.n * 1000)
      BY <1>2, <1>4, <2>2, <3>2
    <3>5. "below" \notin PriceSides(condition, Value(other))
      BY <1>7, <3>4
    <3> QED
      BY <1>8, <2>1, <3>3, <3>5
  <2>3. CASE above # Null
    <3>1. PICK shown \in Boards : ParsePrice(shown.print) > above.n * 1000
      BY <1>6, <2>3
    <3>2. PICK other \in Boards : ParsePrice(other.print) <= above.n * 1000
      BY <1>6, <2>3
    <3>3. "above" \in PriceSides(condition, Value(shown))
      BY <1>7, <2>3, <3>1
    <3>4. ~(ParsePrice(other.print) > above.n * 1000)
      BY <1>2, <1>4, <2>3, <3>2
    <3>5. "above" \notin PriceSides(condition, Value(other))
      BY <1>7, <3>4
    <3> QED
      BY <1>8, <2>1, <3>3, <3>5
  <2> QED
    BY <1>2, <2>2, <2>3
<1>14. condition.below = below /\ condition.above = above
  BY <1>1
<1> QED
  BY <1>10, <1>11, <1>12, <1>13, <1>14 DEF condition

\* Whatever kind it is of, what the door takes can make news on some page.
LEMMA TakenCanFire ==
  ASSUME NEW body \in Bodies, Accepted(body)
  PROVE  \E previous, current \in {Replay(ParserOf(body), shown) : shown \in Boards} :
           Compare(ParseCondition(body.kind, body.condition), previous, current)
<1> DEFINE condition == ParseCondition(body.kind, body.condition)
           Read(shown) == Replay(ParserOf(body), shown)
<1>0. condition.kind = body.kind /\ body.kind \in {"price", "change", "slot"}
  BY AcceptedIsReadable, BodiesAreWatches
<1> SUFFICES \E other, shown \in Boards : Compare(condition, Read(other), Read(shown))
  OBVIOUS
<1> HIDE DEF condition
<1>1. CASE body.kind = "price"
  <2>1. \E previous, current \in {Replay(ParserOf(body), shown) : shown \in Boards} : Compare(condition, previous, current)
    BY <1>1, BoundsCanBePassed DEF condition
  <2> QED
    BY <2>1
<1>2. CASE body.kind = "change"
  <2>1. PICK shown \in Boards, other \in Boards : NormalizeText(shown.text) # NormalizeText(other.text)
    BY PagesAssumption
  <2>2. /\ Read(shown) = [kind |-> "digest", digest |-> NormalizeText(shown.text)]
        /\ Read(other) = [kind |-> "digest", digest |-> NormalizeText(other.text)]
    BY <1>2, Readings
  <2>3. Compare(condition, Read(other), Read(shown))
    BY <1>0, <1>2, <2>1, <2>2 DEF Compare, CompareChange
  <2> QED
    BY <2>3
<1>3. CASE body.kind = "slot"
  <2> DEFINE ids(on) == {ReplaySlots(on.listed)[i] : i \in DOMAIN ReplaySlots(on.listed)}
  <2>1. PICK shown \in Boards, other \in Boards : ~(ids(shown) \subseteq ids(other))
    BY PagesAssumption
  <2>2. /\ Read(shown) = [kind |-> "slots", ids |-> ReplaySlots(shown.listed)]
        /\ Read(other) = [kind |-> "slots", ids |-> ReplaySlots(other.listed)]
    BY <1>3, Readings
  <2>3. PICK i \in DOMAIN ReplaySlots(shown.listed) : ReplaySlots(shown.listed)[i] \notin ids(other)
    BY <2>1
  <2>4. CompareSlotLists(Read(other), Read(shown))
    BY <2>2, <2>3 DEF CompareSlotLists
  <2>5. Compare(condition, Read(other), Read(shown))
    BY <1>0, <1>3, <2>4 DEF Compare
  <2> QED
    BY <2>5
<1> QED
  BY <1>0, <1>1, <1>2, <1>3

\* The row is the body the door took, and its last value what the page showed.
LEMMA RuleStep == RuleInv /\ [RuleNext]_ruleVars => RuleInv'
<1> SUFFICES ASSUME RuleInv, [RuleNext]_ruleVars PROVE RuleInv'
  OBVIOUS
<1>1. ASSUME NEW body \in Bodies, PostWatch(body) PROVE RuleInv'
  <2>0. posted = NoWatch /\ UNCHANGED <<board, lastValue, reading>>
        /\ lastValue = NoValue /\ reading.checks = 0 /\ reading.after = NoBoard
    BY <1>1 DEF PostWatch, RuleInv
  <2>1. posted' = NoWatch \/ (posted' \in Bodies /\ Accepted(posted'))
    BY <1>1 DEF PostWatch
  <2>2. (posted = NoWatch \/ (posted \in Bodies /\ Accepted(posted)))'
    BY <2>1
  <2> QED
    BY <2>0, <2>2 DEF RuleInv, Remembered
<1>2. CASE CheckPosted
  <2> DEFINE condition == ParseCondition(posted.kind, posted.condition)
             value == Replay(ParserOf(posted), board)
  <2>0. /\ posted \in Bodies /\ Accepted(posted) /\ UNCHANGED <<posted, board>> /\ posted # NoWatch
        /\ board \in Boards /\ condition # Unreadable
    <3>1. posted \in Bodies /\ Accepted(posted) /\ UNCHANGED <<posted, board>> /\ posted # NoWatch /\ board \in Boards
      BY <1>2 DEF CheckPosted, RuleInv
    <3> QED
      BY <3>1, AcceptedIsReadable
  <2>1. /\ lastValue' = value
        /\ reading' = [checks |-> reading.checks + 1, before |-> reading.after, after |-> board,
                       fired |-> Compare(condition, lastValue, value)]
    BY <1>2, <2>0 DEF CheckPosted
  <2> HIDE DEF condition, value
  <2>2. /\ reading'.checks = reading.checks + 1 /\ reading'.before = reading.after /\ reading'.after = board
        /\ reading'.fired = Compare(condition, lastValue, value)
        /\ reading' = [checks |-> reading'.checks, before |-> reading'.before, after |-> reading'.after, fired |-> reading'.fired]
    BY <2>1
  <2>3. board # NoBoard => Remembered(board) = value
    BY DEF Remembered, value
  <2>4. lastValue = Remembered(reading.after) /\ reading.checks \in Nat /\ reading.after \in Boards \cup {NoBoard}
    BY DEF RuleInv
  <2>5. reading'.checks \in Nat
    BY <2>2, <2>4
  <2>6. board # NoBoard
    BY <2>0, BoardsShow
  <2>7. reading'.fired <=> Compare(condition, Remembered(reading.after), Remembered(board))
    BY <2>2, <2>3, <2>4, <2>6, Zenon
  <2>8. lastValue' = Remembered(board)
    BY <2>1, <2>3, <2>6
  <2> QED
    BY <2>0, <2>2, <2>4, <2>5, <2>7, <2>8 DEF RuleInv, Remembered, condition
<1>3. CASE BoardChanges
  BY <1>3 DEF BoardChanges, RuleInv, Remembered
<1>4. CASE UNCHANGED ruleVars
  BY <1>4 DEF ruleVars, RuleInv, Remembered
<1> QED
  BY <1>1, <1>2, <1>3, <1>4 DEF RuleNext

LEMMA RuleStarts == RuleInit => RuleInv
BY DEF RuleInit, RuleInv, Remembered

\* Whatever is posted: what the door takes the check can read back, and it could fire, on
\* each bound it sets by itself and on none together; and it comes due within the horizon
\* (core/src/watch/config.ts:13-16).
THEOREM TakenWatchesFire == RuleSpec => []AcceptedCanFire
<1>1. RuleInv => AcceptedCanFire
  <2> SUFFICES ASSUME RuleInv, posted # NoWatch PROVE AcceptedCanFire
    BY DEF AcceptedCanFire
  <2>0. posted \in Bodies /\ Accepted(posted)
    BY DEF RuleInv
  <2> DEFINE condition == ParseCondition(posted.kind, posted.condition)
             values == {Replay(ParserOf(posted), shown) : shown \in Boards}
             sides == {PriceSides(condition, value) : value \in values}
  <2>1. condition # Unreadable /\ condition.kind = posted.kind
    BY <2>0, AcceptedIsReadable
  <2>2. \E previous \in values, current \in values : Compare(condition, previous, current)
    BY <2>0, TakenCanFire
  <2>3. condition.kind = "price" => /\ (condition.below # Null) => ({"below"} \in sides)
                                    /\ (condition.above # Null) => ({"above"} \in sides)
                                    /\ {"below", "above"} \notin sides
    BY <2>0, <2>1, BoundsCanBePassed
  <2>4. \E i \in DOMAIN posted.schedule.runs : posted.schedule.runs[i] <= Horizon
    <3>0. posted.schedule.runs \in Seq(Nat)
      BY <2>0, RulesAssumption
    <3>1. PICK i \in DOMAIN posted.schedule.runs : \A j \in 1..i : posted.schedule.runs[j] <= Horizon
      BY <2>0 DEF Accepted, ScheduleAccepted, Measured
    <3>2. i \in 1..i
      BY <3>0
    <3> QED
      BY <3>1, <3>2
  <2> HIDE DEF condition
  <2> QED
    BY <2>1, <2>2, <2>3, <2>4 DEF AcceptedCanFire, condition
<1> QED
  BY <1>1, RuleStarts, RuleStep, PTL DEF RuleSpec

\* A price is news when it is past a bound it was not past before.
LEMMA PricesAreNews ==
  ASSUME ReadsTruly, RuleInv, posted # NoWatch, posted.kind = "price",
         NEW before \in Boards \cup {NoBoard}, NEW after \in Boards
  PROVE  Compare(ParseCondition(posted.kind, posted.condition), Remembered(before), Remembered(after))
           <=> IsNews(posted, before, after)
<1> DEFINE condition == ParseCondition(posted.kind, posted.condition)
           below == OrNull(KeyOf(posted.condition, "drops_below"))
           above == OrNull(KeyOf(posted.condition, "rises_above"))
           sides(shown) == PriceSides(condition, Remembered(shown))
           past(shown) == PastBounds(posted.condition, shown)
<1>0. posted \in Bodies /\ Accepted(posted)
  BY DEF RuleInv
<1>1. condition = [kind |-> "price", below |-> below, above |-> above]
  BY <1>0, AcceptedIsReadable
<1>2. /\ DOMAIN posted.condition \subseteq {"drops_below", "rises_above"}
      /\ below # Null => /\ below = posted.condition["drops_below"] /\ "drops_below" \in DOMAIN posted.condition
                         /\ below.type = "number" /\ below.n \in Int
      /\ above # Null => /\ above = posted.condition["rises_above"] /\ "rises_above" \in DOMAIN posted.condition
                         /\ above.type = "number" /\ above.n \in Int
  BY <1>0, BoundsAreNumbers
\* The bounds that are numbers are the bounds that are set.
<1>3. /\ "drops_below" \in DOMAIN posted.condition /\ posted.condition["drops_below"].type = "number"
           => below # Null /\ below = posted.condition["drops_below"]
      /\ "rises_above" \in DOMAIN posted.condition /\ posted.condition["rises_above"].type = "number"
           => above # Null /\ above = posted.condition["rises_above"]
  BY DEF OrNull, KeyOf, Null, Missing
<1> HIDE DEF below, above, condition
<1>4. sides(NoBoard) = {} /\ past(NoBoard) = {}
  BY DEF Remembered, PriceSides, NoValue, PastBounds
<1>5. ASSUME NEW shown \in Boards
      PROVE  /\ "below" \in sides(shown) <=> "drops_below" \in past(shown)
             /\ "above" \in sides(shown) <=> "rises_above" \in past(shown)
             /\ sides(shown) \subseteq {"below", "above"}
             /\ past(shown) \subseteq {"drops_below", "rises_above"}
  <2> DEFINE amount == ParsePrice(shown.print)
  <2>0. shown # NoBoard /\ shown.price \in Nat /\ amount = shown.price * 10
    BY BoardsShow DEF ReadsTruly
  <2>1. Remembered(shown) = [kind |-> "price", amount |-> amount]
    BY <1>0, <2>0, Readings DEF Remembered
  <2> HIDE DEF amount
  <2>2. sides(shown) = {side \in {"below", "above"} :
                          \/ side = "below" /\ below # Null /\ amount < below.n * 1000
                          \/ side = "above" /\ above # Null /\ amount > above.n * 1000}
    BY <1>1, <2>1 DEF PriceSides
  <2>3. /\ "drops_below" \in past(shown) <=> below # Null /\ shown.price < below.n * 100
        /\ "rises_above" \in past(shown) <=> above # Null /\ shown.price > above.n * 100
        /\ past(shown) \subseteq {"drops_below", "rises_above"}
    BY <1>2, <1>3, <2>0 DEF PastBounds
  <2>4. /\ below # Null => (amount < below.n * 1000 <=> shown.price < below.n * 100)
        /\ above # Null => (amount > above.n * 1000 <=> shown.price > above.n * 100)
    BY <1>2, <2>0
  <2> QED
    BY <2>2, <2>3, <2>4
<1>6. sides(after) \ sides(before) # {} <=> ~(past(after) \subseteq past(before))
  <2>1. CASE before = NoBoard
    BY <1>4, <1>5, <2>1
  <2>2. CASE before \in Boards
    BY <1>5, <2>2
  <2> QED
    BY <2>1, <2>2
<1>7. condition.kind = "price"
  BY <1>1
<1> QED
  BY <1>6, <1>7 DEF Compare, ComparePrice, IsNews, condition

\* Other words than before are news, and so is a slot that was not there.
LEMMA OthersAreNews ==
  ASSUME ReadsTruly, RuleInv, posted # NoWatch, posted.kind # "price",
         NEW before \in Boards \cup {NoBoard}, NEW after \in Boards
  PROVE  Compare(ParseCondition(posted.kind, posted.condition), Remembered(before), Remembered(after))
           <=> IsNews(posted, before, after)
<1> DEFINE condition == ParseCondition(posted.kind, posted.condition)
<1>0. /\ posted \in Bodies /\ Accepted(posted) /\ posted.kind \in {"change", "slot"}
      /\ condition.kind = posted.kind /\ after # NoBoard /\ NoBoard \notin Boards
  <2>1. posted \in Bodies /\ Accepted(posted)
    BY DEF RuleInv
  <2> QED
    BY <2>1, BodiesAreWatches, AcceptedIsReadable, BoardsShow
<1> HIDE DEF condition
<1>1. Remembered(NoBoard) = NoValue
  BY DEF Remembered
<1>2. CASE posted.kind = "change"
  <2>1. \A shown \in Boards : Remembered(shown) = [kind |-> "digest", digest |-> NormalizeText(shown.text)]
    BY <1>0, <1>2, Readings DEF Remembered
  <2>2. CompareChange(Remembered(before), Remembered(after)) <=> before # NoBoard /\ before.words # after.words
    <3>1. CASE before = NoBoard
      BY <1>1, <3>1 DEF CompareChange, NoValue
    <3>2. CASE before \in Boards
      BY <1>0, <2>1, <3>2 DEF CompareChange, ReadsTruly
    <3> QED
      BY <3>1, <3>2
  <2> QED
    BY <1>0, <1>2, <2>2 DEF Compare, IsNews, condition
<1>3. CASE posted.kind = "slot"
  <2> DEFINE ids(on) == {ReplaySlots(on.listed)[i] : i \in DOMAIN ReplaySlots(on.listed)}
  <2>1. \A shown \in Boards : Remembered(shown) = [kind |-> "slots", ids |-> ReplaySlots(shown.listed)] /\ ids(shown) = IdsOn(shown)
    BY <1>0, <1>3, Readings DEF Remembered, ReadsTruly
  <2>2. CompareSlotLists(Remembered(before), Remembered(after)) <=> ~(IdsOn(after) \subseteq IdsOn(before))
    <3>1. CASE before = NoBoard
      <4>1. CompareSlotLists(Remembered(before), Remembered(after)) <=> ids(after) # {}
        BY <1>1, <2>1, <3>1 DEF CompareSlotLists, NoValue
      <4>2. IdsOn(before) = {}
        BY <3>1 DEF IdsOn
      <4> QED
        BY <2>1, <4>1, <4>2
    <3>2. CASE before \in Boards
      <4>1. CompareSlotLists(Remembered(before), Remembered(after)) <=> ~(ids(after) \subseteq ids(before))
        BY <2>1, <3>2 DEF CompareSlotLists
      <4> QED
        BY <2>1, <3>2, <4>1
    <3> QED
      BY <3>1, <3>2
  <2> QED
    BY <1>0, <1>3, <2>2 DEF Compare, IsNews, condition
<1> QED
  BY <1>0, <1>2, <1>3

\* Given that the readers read truly, a check fires when, and only when, the page shows news
\* against what it showed at the check before (core/src/watch/comparator.ts:9-14).
THEOREM ChecksFireOnNews == ASSUME ReadsTruly PROVE RuleSpec => []FiresOnNews
<1>1. RuleInv => FiresOnNews
  <2> SUFFICES ASSUME RuleInv, reading.checks > 0 PROVE reading.fired <=> IsNews(posted, reading.before, reading.after)
    BY DEF FiresOnNews
  <2>1. /\ reading.before \in Boards \cup {NoBoard} /\ reading.after \in Boards /\ posted # NoWatch
        /\ (reading.fired <=> Compare(ParseCondition(posted.kind, posted.condition),
                                      Remembered(reading.before), Remembered(reading.after)))
    BY DEF RuleInv
  <2>2. Compare(ParseCondition(posted.kind, posted.condition), Remembered(reading.before), Remembered(reading.after))
          <=> IsNews(posted, reading.before, reading.after)
    BY <2>1, PricesAreNews, OthersAreNews
  <2> QED
    BY <2>1, <2>2
<1> QED
  BY <1>1, RuleStarts, RuleStep, PTL DEF RuleSpec
================================================================================
