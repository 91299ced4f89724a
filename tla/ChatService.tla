---- MODULE ChatService ----
(***************************************************************************)
(* The backend of the chatbot: the tables of sessions and messages, and    *)
(* run_message, which any number of worker threads execute at once, with   *)
(* the language model, the validator and Trino it calls.                   *)
(*                                                                         *)
(* A question stands for one POST of a message: its text, the thread that  *)
(* serves it, and the two messages it may leave, its own and the answer.   *)
(* SQLite runs one transaction after the other: each is one step.          *)
(***************************************************************************)
EXTENDS Naturals, Sequences, FiniteSets

CONSTANTS
  Browsers,   \* ids that get_browser_id gives to browsers
  Sessions,
  NoOne,      \* neither of them
  Questions,
  Untitled,   \* questions whose text makes no title: _derive_title gives the default
  HasKey,     \* CHATBOT_VERTEX_API_KEY is set; else the mock model is used
  AllowMock   \* CHATBOT_ALLOW_MOCK_LLM

ASSUME ChatAssumption ==
  /\ NoOne \notin Browsers \cup Sessions /\ Untitled \subseteq Questions
  /\ "New conversation" \notin Questions
  /\ HasKey \in BOOLEAN /\ AllowMock \in BOOLEAN

VARIABLES
  owner, title,  \* the table of sessions
  saved,         \* the table of messages: <<session, question, role>>
  stamped,       \* all messages built, <<question, role>>, in the order of created_at
  asker, target, \* who put the question, to which session
  step,          \* where run_message is
  events,        \* the status events it has collected
  rows,          \* the result of the query
  answer         \* what the answer says

store == <<owner, title, saved>>
request == <<asker, target>>
service == <<store, stamped, request, step, events, rows, answer>>

Role == {"user", "assistant"}
Working == {"find", "ask", "plan", "sql", "query", "summary", "save"}
Ended == {"done", "notfound", "failed", "lost"}

ServiceInit ==
  /\ owner = [s \in Sessions |-> NoOne]
  /\ title = [s \in Sessions |-> "New conversation"]
  /\ saved = {} /\ stamped = <<>>
  /\ asker = [q \in Questions |-> NoOne]
  /\ target = [q \in Questions |-> NoOne]
  /\ step = [q \in Questions |-> "new"]
  /\ events = [q \in Questions |-> <<>>]
  /\ rows = [q \in Questions |-> "none"]
  /\ answer = [q \in Questions |-> "none"]

\* The messages that get_session returns, in its order.
History(s) ==
  LET upTo[n \in 0 .. Len(stamped)] ==
        IF n = 0 THEN <<>>
        ELSE IF <<s, stamped[n][1], stamped[n][2]>> \in saved THEN Append(upTo[n - 1], stamped[n])
        ELSE upTo[n - 1]
  IN upTo[Len(stamped)]

\* JSONResponse refuses NaN.
Loads(s) == \A q \in Questions : <<s, q, "assistant">> \in saved => rows[q] # "nan"

Go(q, next) == step' = [step EXCEPT ![q] = next]
Report(q, status) == events' = [events EXCEPT ![q] = Append(@, status)]

-----------------------------------------------------------------------------

CreateSession(s, b) ==
  /\ owner[s] = NoOne /\ owner' = [owner EXCEPT ![s] = b]
  /\ UNCHANGED <<title, saved, stamped, request, step, events, rows, answer>>

PostMessage(q, b, s) ==
  /\ step[q] = "new" /\ Go(q, "find")
  /\ asker' = [asker EXCEPT ![q] = b] /\ target' = [target EXCEPT ![q] = s]
  /\ UNCHANGED <<store, stamped, events, rows, answer>>

\* Mutant: get_session does not look at the browser.
FindAnySession(q) ==
  /\ step[q] = "find"
  /\ Go(q, "ask") /\ stamped' = Append(stamped, <<q, "user">>)
  /\ UNCHANGED <<store, request, events, rows, answer>>

\* get_session, then build_user_message; LookupError otherwise.
FindSession(q) ==
  /\ step[q] = "find"
  /\ IF owner[target[q]] = asker[q]
     THEN Go(q, "ask") /\ stamped' = Append(stamped, <<q, "user">>)
     ELSE Go(q, "notfound") /\ UNCHANGED stamped
  /\ UNCHANGED <<store, request, events, rows, answer>>

\* Mutant: every question renames its session.
Retitle(s, q) == title' = [title EXCEPT ![s] = IF q \in Untitled THEN "New conversation" ELSE q]

\* The CASE of add_message.
GiveTitle(s, q) ==
  title' = IF title[s] = "New conversation" /\ q \notin Untitled
           THEN [title EXCEPT ![s] = q] ELSE title

SaveQuestion(q) ==
  LET s == target[q] IN
  /\ step[q] = "ask" /\ Go(q, "plan")
  /\ saved' = saved \cup {<<s, q, "user">>}
  /\ GiveTitle(s, q)
  /\ Report(q, "planning")
  /\ UNCHANGED <<owner, stamped, request, rows, answer>>

\* Mutant: answers are stamped with the time the backend started.
ComposeEarly(q, text) ==
  /\ Go(q, "save")
  /\ answer' = [answer EXCEPT ![q] = text]
  /\ stamped' = <<<<q, "assistant">>>> \o stamped

\* build_assistant_message.
Compose(q, text) ==
  /\ Go(q, "save")
  /\ answer' = [answer EXCEPT ![q] = text]
  /\ stamped' = Append(stamped, <<q, "assistant">>)

\* An exception that run_message lets through: the client gets a 500.
Raise(q) == Go(q, "failed") /\ UNCHANGED <<stamped, events, answer>>

(***************************************************************************)
(* The answer may be refused or need a clarification.  A call of Vertex AI *)
(* that fails raises; with AllowMock its text is empty instead, which is   *)
(* read as a clarification without a text, and that goes on to the SQL.    *)
(***************************************************************************)
Plan(q) ==
  /\ step[q] = "plan"
  /\ \/ /\ Go(q, "sql") /\ Report(q, "generating_sql")
        /\ UNCHANGED <<stamped, answer>>
     \/ /\ \E text \in {"clarification"} \cup (IF HasKey THEN {"refusal"} ELSE {}) : Compose(q, text)
        /\ UNCHANGED events
     \/ HasKey /\ Raise(q)
  /\ UNCHANGED <<store, request, rows>>

\* Of an empty text, generate_sql cannot take "sql": KeyError.
GenerateSql(q) ==
  /\ step[q] = "sql"
  /\ \/ Go(q, "query") /\ UNCHANGED <<stamped, events, answer>>
     \/ HasKey /\ Compose(q, "unsafe") /\ UNCHANGED events
     \/ HasKey /\ Raise(q)
  /\ UNCHANGED <<store, request, rows>>

\* The mock statements add up doubles and integers; others may return decimals or NaN.
RunQuery(q) ==
  /\ step[q] = "query"
  /\ \/ /\ \E result \in {"none", "plain"} \cup (IF HasKey THEN {"decimal", "nan"} ELSE {}) :
             rows' = [rows EXCEPT ![q] = result]
        /\ Go(q, "summary") /\ Report(q, "summarizing")
        /\ UNCHANGED <<stamped, answer>>
     \/ Compose(q, "unavailable") /\ UNCHANGED <<events, rows>>
  /\ UNCHANGED <<store, request>>

\* json.dumps takes no Decimal.
Summarize(q) ==
  LET vertex == HasKey /\ rows[q] # "none" IN
  /\ step[q] = "summary"
  /\ \/ vertex /\ rows[q] = "decimal" /\ Raise(q)
     \/ rows[q] # "decimal" /\ Compose(q, "summary") /\ UNCHANGED events
     \/ vertex /\ AllowMock /\ rows[q] # "decimal" /\ Compose(q, "blank") /\ UNCHANGED events
  /\ UNCHANGED <<store, request, rows>>

\* Mutant: the answer is put in any session of the browser.
SaveAnswerElsewhere(q) ==
  /\ step[q] = "save" /\ Go(q, "done")
  /\ \E s \in Sessions : owner[s] = asker[q] /\ saved' = saved \cup {<<s, q, "assistant">>}
  /\ UNCHANGED <<owner, title, stamped, request, events, rows, answer>>

\* Mutant: what add_message raises is swallowed.
SaveAnswerSwallowed(q) ==
  /\ step[q] = "save" /\ Go(q, "done")
  /\ \E done \in {{}, {<<target[q], q, "assistant">>}} : saved' = saved \cup done
  /\ UNCHANGED <<owner, title, stamped, request, events, rows, answer>>

SaveAnswer(q) ==
  /\ step[q] = "save" /\ Go(q, "done")
  /\ saved' = saved \cup {<<target[q], q, "assistant">>}
  /\ UNCHANGED <<owner, title, stamped, request, events, rows, answer>>

\* The database is locked or gone.
FailStorage(q) ==
  /\ step[q] \in {"find", "ask", "save"}
  /\ Raise(q)
  /\ UNCHANGED <<store, request, rows>>

\* The backend restarts: what its threads were doing is lost.
Restart ==
  /\ \E q \in Questions : step[q] \in Working
  /\ step' = [q \in Questions |-> IF step[q] \in Working THEN "lost" ELSE step[q]]
  /\ UNCHANGED <<store, stamped, request, events, rows, answer>>

Serve(q) ==
  \/ FindSession(q) \/ SaveQuestion(q) \/ Plan(q) \/ GenerateSql(q) \/ RunQuery(q)
  \/ Summarize(q) \/ SaveAnswer(q) \/ FailStorage(q)

ServiceNext ==
  \/ \E s \in Sessions, b \in Browsers : CreateSession(s, b)
  \/ \E q \in Questions, b \in Browsers, s \in Sessions : PostMessage(q, b, s)
  \/ \E q \in Questions : Serve(q)
  \/ Restart

ServiceSpec == ServiceInit /\ [][ServiceNext]_service

-----------------------------------------------------------------------------

Text == {"none", "clarification", "refusal", "unsafe", "unavailable", "summary", "blank"}

ServiceTypeOK ==
  /\ owner \in [Sessions -> Browsers \cup {NoOne}]
  /\ title \in [Sessions -> Questions \cup {"New conversation"}]
  /\ saved \subseteq Sessions \X Questions \X Role
  /\ \A s \in Sessions, q \in Questions, r \in Role : <<s, q, r>> \in saved => s = target[q]
  /\ stamped \in Seq(Questions \X Role)
  /\ asker \in [Questions -> Browsers \cup {NoOne}]
  /\ target \in [Questions -> Sessions \cup {NoOne}]
  /\ step \in [Questions -> {"new"} \cup Working \cup Ended]
  /\ events \in [Questions -> Seq({"planning", "generating_sql", "summarizing"})]
  /\ rows \in [Questions -> {"none", "plain", "decimal", "nan"}]
  /\ answer \in [Questions -> Text]

\* The service is a Conversation, whatever fails and however requests interleave.
C == INSTANCE Conversation WITH
  asked <- {p \in Sessions \X Questions : <<p[1], p[2], "user">> \in saved},
  answered <- {p \in Sessions \X Questions : <<p[1], p[2], "assistant">> \in saved}
KeepsConversation == C!Spec

\* A session is named after a question put in it, the first of those that make a
\* title; it keeps the default name exactly until there is one.
TitleTruth ==
  \A s \in Sessions :
    IF title[s] = "New conversation"
    THEN \A q \in Questions : <<s, q, "user">> \in saved => q \in Untitled
    ELSE <<s, title[s], "user">> \in saved /\ title[s] \notin Untitled
TitleSettles ==
  [][\A s \in Sessions : title[s] # "New conversation" => title'[s] = title[s]]_service

\* In the history of a session, an answer comes after its question.
QuestionFirst ==
  \A s \in Sessions : \A j \in 1 .. Len(History(s)) :
    LET m == History(s)[j] IN
    m[2] = "assistant" => \E i \in 1 .. j - 1 : History(s)[i] = <<m[1], "user">>
====
