--------------------------- MODULE MCConnections ---------------------------
(* Small instances of Connections and of Chat, one of them in each behaviour: *)
(* what ties a person's account to a site, and what ties it to a chat.        *)
EXTENDS Connections, Chat, TLC

VARIABLE part

\* The one task that asks is ada's.
MCAskerOf == [t \in ChatTasks |-> "ada"]

MCContents == {[is |-> "start", code |-> k] : k \in Codes}
              \cup {[is |-> kind, code |-> "none"] : kind \in {"bare_start", "words", "no", "photo", "edit"}}

\* Nobody has a chat yet, or ada does.
ChatsSoFar == {[u \in Users |-> Nobody]} \cup {[u \in Users |-> IF u = "ada" THEN c ELSE Nobody] : c \in Chats}

\* The attempts are alike, and so are the requests; the chats go by the same names.
Symmetry == Permutations(Attempts) \cup Permutations(Requests)

TiesInit ==
    /\ part \in {"sites", "binding", "crowd", "questions"}
    /\ Init /\ ChatInit
    /\ IF part \in {"binding", "questions"} THEN chatOf \in ChatsSoFar ELSE chatOf = [u \in Users |-> Nobody]

\* Codes are issued before the first message comes.
CodesComeFirst ==
    messages[1].stage # "unsent" => {k \in Codes : codes'[k].state = "unissued"} = {k \in Codes : codes[k].state = "unissued"}

\* What each message may say, by the question at hand.
Talk ==
    [binding   |-> <<{"start", "bare_start", "words"}, {"start", "bare_start", "words"}, {}>>,
     crowd     |-> <<{"start"}, {"start"}, {"words"}>>,
     questions |-> <<{"words", "no", "photo", "edit", "start"}, {"words", "no", "photo", "edit", "start"}, {}>>]

\* The messages speak of codes while no task asks, and of questions while no code is issued.
TalkNext ==
    /\ ChatNext
    /\ IF part = "questions" THEN UNCHANGED codes ELSE CodesComeFirst /\ UNCHANGED chatTasks
    /\ part = "crowd" => {codes'[k].holder : k \in Codes} \subseteq {Nobody, "ada"}
    /\ \A m \in {n \in Messages : messages'[n].stage # "unsent"} : messages'[m].content.is \in Talk[part][m]

TiesNext ==
    /\ UNCHANGED part
    /\ \/ part = "sites" /\ Next /\ UNCHANGED chatVars
       \/ part # "sites" /\ TalkNext /\ UNCHANGED vars

TiesSpec == TiesInit /\ [][TiesNext]_<<part, vars, chatVars>>
=============================================================================
