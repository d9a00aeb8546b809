------------------------------- MODULE WatchRules ------------------------------
(***************************************************************************)
(* What a watch means, from the door to the trigger: the configuration the *)
(* API takes (api/src/routes/watches.ts, core/src/watch/config.ts), the    *)
(* one a check reads back from the row (condition.ts, extractor.ts), the   *)
(* value it reads off the page (replay.ts, value.ts), and the comparison   *)
(* that makes news of it (comparator.ts).                                  *)
(*                                                                         *)
(* A JSON value is a record with its type.  A printed price is its groups  *)
(* of digits and what stands between them; amounts are in thousandths.     *)
(* Currencies, selectors and words are left out, and a page that does not  *)
(* hold the value (WatchNotices has what follows from it).                 *)
(***************************************************************************)
EXTENDS Integers, Sequences, SequencesExt

CONSTANTS
    Bodies,      \* what is posted to /watches
    Boards,      \* what the watched page shows
    FloorGap,    \* SCHEDULE_FLOOR_MS, in the units of a schedule's runs
    Horizon,     \* SCHEDULE_HORIZON_MS, likewise
    SampleRuns,  \* SCHEDULE_SAMPLE_RUNS
    MaxChecks    \* bound

VARIABLES
    posted,     \* the watch's row, or NoWatch
    board,      \* what the page shows now
    lastValue,  \* the row's last_value, or NoValue
    reading     \* history: what the page showed at the last two checks, and whether the last one fired

ruleVars == <<posted, board, lastValue, reading>>

NoWatch == [kind |-> "none"]
NoValue == [kind |-> "none"]
NoBoard == [shows |-> "nothing"]

--------------------------------------------------------------------------------
(* Values of JSON *)

Missing == [type |-> "undefined"]
Null == [type |-> "null"]
Number(n) == [type |-> "number", n |-> n]
Words(text) == [type |-> "string", text |-> text]  \* "blank", "phrase" or "page"

KeyOf(condition, key) == IF key \in DOMAIN condition THEN condition[key] ELSE Missing

\* `?? null`
OrNull(value) == IF value = Missing THEN Null ELSE value

NonBlank(value) == value.type = "string" /\ value.text # "blank"

--------------------------------------------------------------------------------
(* The door *)

KNOWN_KEYS == [price  |-> {"drops_below", "rises_above"},
               change |-> {"region"},
               slot   |-> {"site", "applicant", "auto_book"}]

ParserForKind == [price |-> "price", change |-> "digest", slot |-> "slots"]

IsThreshold(value) == value.type = "number" /\ value.n >= 0

\* The applicant a condition holds: a record of a name, and of nothing else.
IsApplicant(value) ==
    value.type = "record" /\ DOMAIN value.entries = {"name"} /\ NonBlank(value.entries["name"])

\* Variant: zero is a number of zero or more, and so is good enough.
FloorAtZero(below) == below = Null \/ IsThreshold(below)

\* Nothing is priced below zero: such a watch could never fire.
FloorAccepted(below) == below = Null \/ (IsThreshold(below) /\ below.n # 0)

PriceAccepted(condition) ==
    LET below == OrNull(KeyOf(condition, "drops_below"))
        above == OrNull(KeyOf(condition, "rises_above"))
    IN  /\ FloorAccepted(below)
        /\ (above = Null \/ IsThreshold(above))
        /\ {below, above} # {Null}
        /\ (IsThreshold(below) /\ IsThreshold(above)) => below.n < above.n

SlotAccepted(condition) ==
    /\ NonBlank(KeyOf(condition, "site")) /\ KeyOf(condition, "site").text # "page"
    /\ IsApplicant(KeyOf(condition, "applicant"))
    /\ KeyOf(condition, "auto_book").type \in {"undefined", "boolean"}

ChangeAccepted(condition) ==
    LET region == OrNull(KeyOf(condition, "region"))
    IN  region = Null \/ (NonBlank(region) /\ region.text # "page")

ConditionAccepted(kind, condition) ==
    /\ DOMAIN condition \subseteq KNOWN_KEYS[kind]
    /\ kind = "price" => PriceAccepted(condition)
    /\ kind = "slot" => SlotAccepted(condition)
    /\ kind = "change" => ChangeAccepted(condition)

\* A stored extractor is a spec when it is closed and of this version; `{}` is not one.
IsExtractorSpec(extractor) ==
    /\ DOMAIN extractor \subseteq {"version", "strategy", "selector", "attribute", "parse"}
    /\ KeyOf(extractor, "version") = Number(1)
    /\ KeyOf(extractor, "strategy") = Words("css")
    /\ NonBlank(KeyOf(extractor, "selector"))
    /\ (OrNull(KeyOf(extractor, "attribute")) = Null \/ NonBlank(KeyOf(extractor, "attribute")))
    /\ KeyOf(extractor, "parse") \in {Words("price"), Words("digest"), Words("slots")}

ExtractorAccepted(kind, extractor) ==
    \/ DOMAIN extractor = {}
    \/ (IsExtractorSpec(extractor) /\ extractor["parse"] = Words(ParserForKind[kind]))

\* The runs that are measured: up to the first past the horizon, and to the sample's size.
Measured(schedule) ==
    {i \in DOMAIN schedule.runs : i <= SampleRuns /\ \A j \in 1..i : schedule.runs[j] <= Horizon}

ScheduleAccepted(schedule) ==
    LET measured == Measured(schedule)
    IN  /\ schedule.parses
        /\ measured # {}
        /\ \A i \in measured : i + 1 \in measured => schedule.runs[i + 1] - schedule.runs[i] >= FloorGap

UrlAccepted(url) == url.scheme \in {"http", "https"} /\ ~url.credentials

Accepted(body) ==
    /\ UrlAccepted(body.url)
    /\ ScheduleAccepted(body.schedule)
    /\ ConditionAccepted(body.kind, body.condition)
    /\ ExtractorAccepted(body.kind, body.extractor)

--------------------------------------------------------------------------------
(* What a check reads back from the row *)

Unreadable == [kind |-> "unreadable"]

ParseCondition(kind, condition) ==
    LET below == OrNull(KeyOf(condition, "drops_below"))
        above == OrNull(KeyOf(condition, "rises_above"))
        region == OrNull(KeyOf(condition, "region"))
        book == OrNull(KeyOf(condition, "auto_book"))
        readable ==
            /\ DOMAIN condition \subseteq KNOWN_KEYS[kind]
            /\ \/ /\ kind = "price"
                  /\ {below.type, above.type} \subseteq {"null", "number"}
                  /\ {below, above} # {Null}
               \/ /\ kind = "change"
                  /\ (region = Null \/ NonBlank(region))
               \/ /\ kind = "slot"
                  /\ NonBlank(KeyOf(condition, "site"))
                  /\ IsApplicant(KeyOf(condition, "applicant"))
                  /\ book.type \in {"null", "boolean"}
    IN  CASE ~readable -> Unreadable
          [] kind = "price" -> [kind |-> "price", below |-> below, above |-> above]
          [] OTHER -> [kind |-> kind]

\* A watch without a spec has one written for its kind by its first check.
ParserOf(watch) ==
    IF IsExtractorSpec(watch.extractor) THEN watch.extractor["parse"].text ELSE ParserForKind[watch.kind]

--------------------------------------------------------------------------------
(* What it reads off the page *)

Concat(groups) == FoldLeft(LAMBDA sum, group : sum * 10 ^ group.len + group.digits, 0, groups)

LengthOf(groups) == FoldLeft(LAMBDA sum, group : sum + group.len, 0, groups)

\* A lone separator before exactly three digits separates thousands.
SoleThousands(before, tail) == (\A i \in DOMAIN before : before[i] = " ") /\ LengthOf(tail) = 3

\* The last comma or point is the decimal one; blanks between digits are nothing.
ParsePrice(print) ==
    LET points == {i \in DOMAIN print.separators : print.separators[i] # " "}
        last == IF points = {} THEN 0 ELSE CHOOSE i \in points : \A j \in points : j <= i
        whole == SubSeq(print.groups, 1, last)
        tail == SubSeq(print.groups, last + 1, Len(print.groups))
    IN  IF last = 0 \/ SoleThousands(SubSeq(print.separators, 1, last - 1), tail)
        THEN Concat(print.groups) * 1000
        ELSE Concat(whole) * 1000 + Concat(tail) * 10 ^ (3 - LengthOf(tail))

\* Whitespace is not content.
NormalizeText(text) == SelectSeq(text, LAMBDA word : word # " ")

\* Each match with text is a slot; its identity is the attribute, or else its label.
ReplaySlots(listed) ==
    LET slots == SelectSeq(listed, LAMBDA slot : slot.label # "")
    IN  [i \in DOMAIN slots |-> IF slots[i].id = "" THEN slots[i].label ELSE slots[i].id]

\* replayExtractor: a price, a digest of the normalized text, or the slots.
Replay(parser, shown) ==
    CASE parser = "price" -> [kind |-> "price", amount |-> ParsePrice(shown.print)]
      [] parser = "digest" -> [kind |-> "digest", digest |-> NormalizeText(shown.text)]
      [] OTHER -> [kind |-> "slots", ids |-> ReplaySlots(shown.listed)]

\* What is posted is JSON of a known kind; and whatever bound is asked for, the
\* page may show a price on either side of it, and other words and slots.
ASSUME RulesAssumption ==
    /\ \A body \in Bodies :
         /\ body.kind \in {"price", "change", "slot"}
         /\ body.schedule.runs \in Seq(Nat)
         /\ \A key \in DOMAIN body.condition :
              /\ body.condition[key].type # "undefined"
              /\ body.condition[key].type = "number" => body.condition[key].n \in Int
    /\ \A shown \in Boards : shown # NoBoard /\ ParsePrice(shown.print) \in Nat

ASSUME PagesAssumption ==
    /\ \A body \in Bodies : \A key \in DOMAIN body.condition : body.condition[key].type = "number" =>
         LET bound == body.condition[key].n * 1000
         IN  /\ key = "drops_below" /\ bound > 0 => /\ \E shown \in Boards : ParsePrice(shown.print) < bound
                                                  /\ \E shown \in Boards : ParsePrice(shown.print) >= bound
             /\ key = "rises_above" /\ bound >= 0 => /\ \E shown \in Boards : ParsePrice(shown.print) > bound
                                                   /\ \E shown \in Boards : ParsePrice(shown.print) <= bound
    /\ \E shown, other \in Boards : NormalizeText(shown.text) # NormalizeText(other.text)
    /\ \E shown, other \in Boards :
         LET ids(on) == {ReplaySlots(on.listed)[i] : i \in DOMAIN ReplaySlots(on.listed)}
         IN  ~(ids(shown) \subseteq ids(other))

--------------------------------------------------------------------------------
(* The comparison *)

PriceSides(condition, value) ==
    IF value.kind # "price" THEN {}
    ELSE {side \in {"below", "above"} :
             \/ /\ side = "below" /\ condition.below # Null
                /\ value.amount < condition.below.n * 1000
             \/ /\ side = "above" /\ condition.above # Null
                /\ value.amount > condition.above.n * 1000}

\* Variant: what is past a bound is told of at every check.
ComparePriceAnew(condition, previous, current) == PriceSides(condition, current) # {}

\* Each bound is its own crossing; past it last time, the person was told then.
ComparePrice(condition, previous, current) ==
    PriceSides(condition, current) \ PriceSides(condition, previous) # {}

\* The first reading is the baseline.
CompareChange(previous, current) ==
    current.kind = "digest" /\ previous.kind = "digest" /\ previous.digest # current.digest

CompareSlotLists(previous, current) ==
    /\ current.kind = "slots"
    /\ \E i \in DOMAIN current.ids :
           previous.kind = "slots" => \A j \in DOMAIN previous.ids : previous.ids[j] # current.ids[i]

Compare(condition, previous, current) ==
    CASE condition.kind = "price" -> ComparePrice(condition, previous, current)
      [] condition.kind = "change" -> CompareChange(previous, current)
      [] condition.kind = "slot" -> CompareSlotLists(previous, current)
      [] OTHER -> FALSE

--------------------------------------------------------------------------------
(* One watch *)

RuleInit ==
    /\ posted = NoWatch
    /\ board \in Boards
    /\ lastValue = NoValue
    /\ reading = [checks |-> 0, before |-> NoBoard, after |-> NoBoard, fired |-> FALSE]

\* POST /watches: what the door refuses leaves no row.
PostWatch(body) ==
    /\ posted = NoWatch
    /\ posted' = IF Accepted(body) THEN body ELSE NoWatch
    /\ UNCHANGED <<board, lastValue, reading>>

\* A check: the condition first, then the page, then the row's new value.
CheckPosted ==
    /\ posted # NoWatch /\ reading.checks < MaxChecks
    /\ LET condition == ParseCondition(posted.kind, posted.condition)
           value == Replay(ParserOf(posted), board)
       IN  IF condition = Unreadable
           THEN UNCHANGED <<lastValue, reading>>
           ELSE /\ lastValue' = value
                /\ reading' = [checks |-> reading.checks + 1, before |-> reading.after, after |-> board,
                               fired |-> Compare(condition, lastValue, value)]
    /\ UNCHANGED <<posted, board>>

BoardChanges ==
    /\ board' \in Boards
    /\ posted # NoWatch /\ reading.checks < MaxChecks
    /\ UNCHANGED <<posted, lastValue, reading>>

RuleNext == (\E body \in Bodies : PostWatch(body)) \/ CheckPosted \/ BoardChanges

RuleSpec == RuleInit /\ [][RuleNext]_ruleVars

--------------------------------------------------------------------------------
(* What is checked *)

\* What the door accepts, the check path can read back, and it could fire: on
\* each bound it sets by itself, and on none together (config.ts:13-16, "a watch
\* that was stored and never fired would be the product's quietest failure").
AcceptedCanFire ==
    posted # NoWatch =>
        LET condition == ParseCondition(posted.kind, posted.condition)
            values == {Replay(ParserOf(posted), shown) : shown \in Boards}
        IN  /\ condition # Unreadable
            /\ \E previous \in values, current \in values : Compare(condition, previous, current)
            /\ condition.kind = "price" =>
                   LET sides == {PriceSides(condition, value) : value \in values}
                   IN  /\ (condition.below # Null) => ({"below"} \in sides)
                       /\ (condition.above # Null) => ({"above"} \in sides)
                       /\ {"below", "above"} \notin sides
            /\ \E i \in DOMAIN posted.schedule.runs : posted.schedule.runs[i] <= Horizon

\* Past a bound the page's true price was not past before; other words; a slot that was not there.
PastBounds(condition, shown) ==
    {key \in DOMAIN condition :
        /\ shown # NoBoard /\ condition[key].type = "number"
        /\ IF key = "drops_below"
           THEN shown.price < condition[key].n * 100
           ELSE shown.price > condition[key].n * 100}

IdsOn(shown) ==
    IF shown = NoBoard THEN {}
    ELSE {IF slot.id = "" THEN slot.label ELSE slot.id : slot \in {s \in ToSet(shown.listed) : s.label # ""}}

\* The readers read what is there: the price that is printed, the words and no blanks, the slots
\* by their names.  A printed price of a million and more is not on the boards: with two thousands
\* separators the code takes the last for the decimal point (value.ts:69-77).
ReadsTruly ==
    /\ \A shown \in Boards : shown.price \in Nat /\ ParsePrice(shown.print) = shown.price * 10
    /\ \A shown, other \in Boards :
           NormalizeText(shown.text) = NormalizeText(other.text) <=> shown.words = other.words
    /\ \A shown \in Boards :
           {ReplaySlots(shown.listed)[i] : i \in DOMAIN ReplaySlots(shown.listed)} = IdsOn(shown)

IsNews(watch, before, after) ==
    CASE watch.kind = "price" -> ~(PastBounds(watch.condition, after) \subseteq PastBounds(watch.condition, before))
      [] watch.kind = "change" -> before # NoBoard /\ before.words # after.words
      [] OTHER -> ~(IdsOn(after) \subseteq IdsOn(before))

\* A check fires when, and only when, what the page shows is news against what
\* it showed at the check before, however a shop prints the price of up to a
\* million, spaces its words or names its slots (comparator.ts:9-14, value.ts:69-77).
FiresOnNews ==
    reading.checks > 0 => (reading.fired <=> IsNews(posted, reading.before, reading.after))
================================================================================
