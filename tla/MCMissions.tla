------------------------------- MODULE MCMissions ------------------------------
(* Small instances of what a mission is made of, and of the doors a person and *)
(* the clock come in by; one of them in each behaviour.                        *)
EXTENDS Guardrails, BrowserSessions, BrowserToolset, AgenticMission, Playbooks,
        ChatAgent, SignIn, WatchSchedules, FetchLadder, WatchRules

VARIABLE part

--------------------------------------------------------------------------------
(* Guardrails: two hosts, a form of each kind, a confirmation that fits one of them. *)

Gym(path) == [scheme |-> "web", host |-> <<"www", "gym", "com">>, path |-> path]

Elsewhere == [scheme |-> "web", host |-> <<"partner", "com">>, path |-> "offer"]

Field(name, words, value) ==
    [name |-> name, words |-> words, value |-> value, cardToken |-> FALSE, depth |-> 1]

CardField == Field("number", {"card_field"}, "card")

Plain == [url |-> Gym("home"), method |-> "GET", topLevel |-> TRUE, popup |-> FALSE, worker |-> FALSE,
          redirected |-> FALSE, contentType |-> "none", body |-> <<>>, page |-> NoPage]

\* A page whose one form has a field that expires and a button that pays.
Till == [forms |-> <<[fields |-> <<Field("until", {"expiry"}, "text")>>, labels |-> <<{"payment_verb"}>>]>>,
         processorFrames |-> 0, marker |-> FALSE]

Form(path, body, origin) ==
    [Plain EXCEPT !.url = Gym(path), !.method = "POST", !.contentType = "urlencoded", !.body = body, !.page = origin]

CardForm == Form("fee", <<CardField>>, NoPage)

MCRaised ==
    {Plain,
     [Plain EXCEPT !.url = Elsewhere, !.popup = TRUE],
     CardForm,
     [Form("fee", <<Field("nonce", {}, "text")>>, Till) EXCEPT !.topLevel = FALSE],
     [CardForm EXCEPT !.worker = TRUE, !.topLevel = FALSE]}

MCTargets == {Gym("home"), Elsewhere}

Confirmed == PaymentFingerprint(ParseSubmission(CardForm))

MCAnswers == {<<>>,
              <<[affirmative |-> FALSE, tags |-> {Confirmed}]>>,
              <<[affirmative |-> TRUE, tags |-> {Confirmed}]>>}

--------------------------------------------------------------------------------
(* BrowserSessions: one wish that is served, one that is not. *)

Wish(proxy, stealth) ==
    [proxy |-> proxy, stealth |-> stealth, captcha |-> FALSE, served |-> TRUE, duration |-> TRUE]

MCWishes == {Wish("off", FALSE), Wish("us", FALSE)}

--------------------------------------------------------------------------------
(* Playbooks: a cancellation, a booking asked for and one agreed to, and what none claims. *)

Commission(site_, kind) ==
    [mode |-> "playbook", inputIsRecord |-> TRUE, site |-> site_, kind |-> kind,
     credential |-> "profile", autoBook |-> FALSE]

MCTasks == {Commission("gym", "cancel"),
            [Commission("gym", "cancel") EXCEPT !.credential = "password"],
            Commission("dmv", "book_slot"),
            [Commission("dmv", "book_slot") EXCEPT !.autoBook = TRUE],
            [Commission("dmv", "book_slot") EXCEPT !.inputIsRecord = FALSE],
            Commission("gym", "book_slot"),
            Commission("none", "cancel")}

--------------------------------------------------------------------------------
(* BrowserToolset: a form of two fields with its button, and a page of one button. *)

Element(kind, label) == [ref |-> 0, kind |-> kind, label |-> label, visible |-> TRUE, disabled |-> FALSE]

MCPages == {<<Element("textbox", "name"), Element("button", "pay")>>,
            <<Element("select", "name")>>}

MCLabels == {"name", "pay"}

--------------------------------------------------------------------------------
(* FetchLadder: an error, the page, and each way to be refused or gone. *)

Response(code, challenged, short) == [ok |-> TRUE, status |-> code, challenge |-> challenged, shell |-> short]

MCResponses == {[ok |-> FALSE], Response(200, FALSE, FALSE), Response(200, FALSE, TRUE),
                Response(200, TRUE, FALSE), Response(403, FALSE, FALSE), Response(404, FALSE, TRUE)}

--------------------------------------------------------------------------------
(* WatchRules: bodies that differ from a good one in one part, and what a page may show. *)

NoKeys == [key \in {} |-> Null]

Applicant(person) == [type |-> "record", entries |-> [name |-> person]]

Ada == Applicant(Words("phrase"))

PriceConditions ==
    [drops_below : {Number(20), Number(0), Number(-1), Words("phrase")}]
    \cup [drops_below : {Null, Number(20), Number(1000)}, rises_above : {Null, Number(1000), Number(20)}]
    \cup {NoKeys, [region |-> Words("phrase")], [drops_below |-> Number(20), region |-> Null]}

ChangeConditions == [region : {Null, Words("phrase"), Words("blank"), Words("page")}] \cup {NoKeys}

SlotConditions ==
    [site : {Words("phrase"), Words("blank"), Words("page"), Number(1)}, applicant : {Ada}]
    \cup [site : {Words("phrase")}, applicant : {Null, Applicant(Words("blank"))}]
    \cup [site : {Words("phrase")}, applicant : {Ada}, auto_book : {[type |-> "boolean"], Null, Words("phrase")}]

Reader(parser) ==
    [version |-> Number(1), strategy |-> Words("css"), selector |-> Words("phrase"), parse |-> Words(parser)]

Extractors ==
    {NoKeys, Reader("price"), Reader("digest"), Reader("slots"),
     [Reader("price") EXCEPT !.version = Number(2)], [Reader("digest") EXCEPT !.selector = Words("blank")]}

Cron(due) == [parses |-> TRUE, runs |-> due]

Hourly == Cron(<<2, 5, 8>>)

Address(scheme, credentials) == [scheme |-> scheme, credentials |-> credentials]

BodyOf(kind, condition) ==
    [kind |-> kind, condition |-> condition, extractor |-> NoKeys, schedule |-> Hourly, url |-> Address("https", FALSE)]

Good == {BodyOf("price", [drops_below |-> Number(20), rises_above |-> Number(1000)]),
         BodyOf("change", NoKeys),
         BodyOf("slot", [site |-> Words("phrase"), applicant |-> Ada])}

MCBodies ==
    {BodyOf("price", condition) : condition \in PriceConditions}
    \cup {BodyOf("change", condition) : condition \in ChangeConditions}
    \cup {BodyOf("slot", condition) : condition \in SlotConditions}
    \cup {[body EXCEPT !.extractor = extractor] : body \in Good, extractor \in Extractors}
    \cup {[body EXCEPT !.schedule = cron] : body \in Good,
           cron \in {Cron(<<>>), Cron(<<2, 3>>), Cron(<<11, 12>>), [Hourly EXCEPT !.parses = FALSE]}}
    \cup {[body EXCEPT !.url = place] : body \in Good, place \in {Address("ftp", FALSE), Address("http", TRUE)}}

\* Groups of digits and the separators a shop prints between them.
Printed(groups, separators) == [groups |-> groups, separators |-> separators]

Digits(digits, len) == [digits |-> digits, len |-> len]

Board(cents, print, text, listed) ==
    [price |-> cents, print |-> print, words |-> SelectSeq(text, LAMBDA word : word # " "),
     text |-> text, listed |-> listed]

Slot(id, label) == [id |-> id, label |-> label]

MCBoards ==
    {Board(999, Printed(<<Digits(9, 1), Digits(99, 2)>>, <<".">>), <<"in", " ", "stock">>, <<>>),
     Board(4500, Printed(<<Digits(45, 2)>>, <<>>), <<" ", "in", " ", " ", "stock">>, <<Slot("nine", "9:00")>>),
     Board(4500, Printed(<<Digits(45, 2), Digits(0, 2)>>, <<",">>), <<"sold">>, <<Slot("nine", "09:00"), Slot("", "")>>),
     Board(129900, Printed(<<Digits(1, 1), Digits(299, 3)>>, <<",">>), <<"sold">>, <<Slot("", "9:00")>>),
     Board(129900, Printed(<<Digits(1, 1), Digits(299, 3), Digits(0, 2)>>, <<".", ",">>), <<"sold", " ", "out">>, <<>>),
     Board(129950, Printed(<<Digits(1, 1), Digits(299, 3), Digits(5, 1)>>, <<" ", ".">>), <<"in", "stock">>,
           <<Slot("ten", "10:00"), Slot("nine", "9:00")>>)}

\* The readers read these boards truly, which is what the theorem about FiresOnNews assumes.
ASSUME BoardsReadTruly == ReadsTruly

--------------------------------------------------------------------------------
MissionsInit ==
    /\ part \in {"guard", "sessions", "tools", "agent", "playbook", "assistant", "signin",
                 "schedules", "ladder", "rules"}
    /\ GuardInit /\ SessionInit /\ ToolInit /\ AgentInit /\ PlaybookInit
    /\ TurnInit /\ SignInit /\ ScheduleInit /\ LadderInit /\ RuleInit
    /\ part # "guard" => answers = <<>>
    /\ part # "tools" => page = <<Element("select", "name")>>
    /\ part # "schedules" => rows = [w \in WatchIds |-> [status |-> "active", cron |-> "hourly"]]
    /\ part # "ladder" => policy = "auto"
    /\ part # "rules" => board.price = 999

missionVars == <<guardVars, sessionVars, toolVars, agentVars, playbookVars>>
doorVars == <<turnVars, signVars, scheduleVars, ladderVars, ruleVars>>

OneMission ==
    \/ part = "guard"    /\ GuardNext    /\ UNCHANGED <<sessionVars, toolVars, agentVars, playbookVars>>
    \/ part = "sessions" /\ SessionNext  /\ UNCHANGED <<guardVars, toolVars, agentVars, playbookVars>>
    \/ part = "tools"    /\ ToolNext     /\ UNCHANGED <<guardVars, sessionVars, agentVars, playbookVars>>
    \/ part = "agent"    /\ AgentNext    /\ UNCHANGED <<guardVars, sessionVars, toolVars, playbookVars>>
    \/ part = "playbook" /\ PlaybookNext /\ UNCHANGED <<guardVars, sessionVars, toolVars, agentVars>>

OneDoor ==
    \/ part = "assistant" /\ TurnNext     /\ UNCHANGED <<signVars, scheduleVars, ladderVars, ruleVars>>
    \/ part = "signin"    /\ SignNext     /\ UNCHANGED <<turnVars, scheduleVars, ladderVars, ruleVars>>
    \/ part = "schedules" /\ ScheduleNext /\ UNCHANGED <<turnVars, signVars, ladderVars, ruleVars>>
    \/ part = "ladder"    /\ LadderNext   /\ UNCHANGED <<turnVars, signVars, scheduleVars, ruleVars>>
    \/ part = "rules"     /\ RuleNext     /\ UNCHANGED <<turnVars, signVars, scheduleVars, ladderVars>>

MissionsNext ==
    /\ UNCHANGED part
    /\ \/ OneMission /\ UNCHANGED doorVars
       \/ OneDoor /\ UNCHANGED missionVars

MissionsSpec == MissionsInit /\ [][MissionsNext]_<<part, missionVars, doorVars>>
================================================================================
