---- MODULE ChatTab ----
(***************************************************************************)
(* One browser tab of the chatbot on top of its backend: the React state   *)
(* of App, the calls it has in flight, and the cookie that names the       *)
(* browser.  A call may get lost, or the proxy give it up, while the       *)
(* backend goes on with it.                                                *)
(***************************************************************************)
EXTENDS ChatService

CONSTANTS
  NoSession,
  Calls,    \* bound: calls in flight at once
  Patient,  \* the user does nothing while a call is in flight
  Expiry    \* the cookie gets too old (session_ttl_hours)

ASSUME TabAssumption == NoSession \notin Sessions /\ {Patient, Expiry} \subseteq BOOLEAN

VARIABLES
  jar,     \* browser id in the cookie, or NoOne
  call,    \* the calls in flight
  typed,   \* history: questions the user has put
  \* state of App
  rail,    \* sessions
  active,  \* activeSessionId
  shown,   \* sessionDetail: its session, and its messages <<question, role>>, where
  view,    \*   the role "local" is that of a question that App itself put there
  busy, status, error

app == <<rail, active, shown, view, busy, status, error>>
vars == <<service, jar, call, typed, app>>

Status == {"none", "Thinking", "planning", "generating_sql", "summarizing"}

NoCall == [kind |-> "idle", why |-> "none", cookie |-> NoOne, session |-> NoSession,
           phase |-> "none", sessions |-> {}, history |-> <<>>, question |-> "none"]
Fetch(kind, why, session) ==
  [NoCall EXCEPT !.kind = kind, !.why = why, !.session = session, !.cookie = jar, !.phase = "sent"]

Init ==
  /\ ServiceInit
  /\ jar = NoOne /\ typed = {}
  /\ \E k \in Calls : call = [c \in Calls |-> IF c = k THEN Fetch("list", "boot", NoSession) ELSE NoCall]
  /\ rail = {} /\ active = NoSession /\ shown = NoSession /\ view = <<>>
  /\ busy = FALSE /\ status = "none" /\ error = FALSE

Free == {k \in Calls : call[k].kind = "idle"}
Unowned == {s \in Sessions : owner[s] = NoOne}

\* Ids that uuid4 may give: in no use, which stands for never given.
Fresh == {b \in Browsers : /\ b # jar /\ \A s \in Sessions : owner[s] # b
                           /\ \A q \in Questions : asker[q] # b
                           /\ \A k \in Calls : call[k].cookie # b}

\* The id is opaque: one choice stands for all of them.
IsNewId(b) == Fresh # {} /\ b = CHOOSE fresh \in Fresh : TRUE

-----------------------------------------------------------------------------
(* The user. *)

MayAct == Patient => Free = Calls

ClickSession(s) ==
  /\ MayAct /\ s \in rail
  /\ \E k \in Free : call' = [call EXCEPT ![k] = Fetch("get", "click", s)]
  /\ UNCHANGED <<service, jar, typed, app>>

ClickNew ==
  /\ MayAct
  /\ Cardinality({k \in Calls : call[k].kind = "create"}) < Cardinality(Unowned)
  /\ \E k \in Free : call' = [call EXCEPT ![k] = Fetch("create", "click", NoSession)]
  /\ UNCHANGED <<service, jar, typed, app>>

\* The composer is disabled while busy; starter prompts are there while nothing is shown.
SubmitMessage(q) ==
  /\ MayAct /\ q \notin typed
  /\ ~busy \/ view = <<>>
  /\ active # NoSession
  /\ typed' = typed \cup {q}
  /\ view' = IF shown = NoSession THEN view ELSE Append(view, <<q, "local">>)
  /\ busy' = TRUE /\ status' = "Thinking" /\ error' = FALSE
  /\ \E k \in Free : call' = [call EXCEPT ![k] = [Fetch("post", "click", active) EXCEPT !.question = q]]
  /\ UNCHANGED <<service, jar, rail, active, shown>>

\* The page is loaded again: App is mounted anew and its calls are aborted.
Reload ==
  /\ \E k \in Calls :
       call' = [c \in Calls |-> IF c = k THEN Fetch("list", "boot", NoSession) ELSE NoCall]
  /\ rail' = {} /\ active' = NoSession /\ shown' = NoSession /\ view' = <<>>
  /\ busy' = FALSE /\ status' = "none" /\ error' = FALSE
  /\ UNCHANGED <<service, jar, typed>>

ExpireCookie ==
  /\ Expiry /\ jar # NoOne /\ jar' = NoOne
  /\ UNCHANGED <<service, call, typed, app>>

-----------------------------------------------------------------------------
(* The backend takes a call, the network brings its reply or loses it. *)

\* Mutant: the secret of the signer is drawn when the backend starts, and older cookies are refused.
RefuseCookie(k, b) == IsNewId(b) \/ (b # NoOne /\ b = call[k].cookie)

\* get_browser_id: the id of the cookie, or a new one.
GetBrowserId(k, b) == IF call[k].cookie = NoOne THEN IsNewId(b) ELSE b = call[k].cookie

Reply(k, c) == call' = [call EXCEPT ![k] = c]

ListSessions(k) ==
  /\ call[k].kind = "list" /\ call[k].phase = "sent"
  /\ \E b \in Browsers :
       /\ GetBrowserId(k, b)
       /\ Reply(k, [call[k] EXCEPT !.phase = "back", !.cookie = b,
                                   !.sessions = {s \in Sessions : owner[s] = b}])
  /\ UNCHANGED <<service, jar, typed, app>>

OpenNewSession(k) ==
  /\ call[k].kind = "create" /\ call[k].phase = "sent"
  /\ \E b \in Browsers, s \in Sessions :
       /\ GetBrowserId(k, b) /\ CreateSession(s, b)
       /\ Reply(k, [call[k] EXCEPT !.phase = "back", !.cookie = b, !.session = s])
  /\ UNCHANGED <<jar, typed, app>>

\* A 404 goes out without the cookie.
GetSession(k) ==
  LET s == call[k].session IN
  /\ call[k].kind = "get" /\ call[k].phase = "sent"
  /\ \E b \in Browsers :
       /\ GetBrowserId(k, b)
       /\ Reply(k, IF owner[s] = b /\ Loads(s)
                   THEN [call[k] EXCEPT !.phase = "back", !.cookie = b, !.history = History(s)]
                   ELSE [call[k] EXCEPT !.phase = "lost"])
  /\ UNCHANGED <<service, jar, typed, app>>

Post(k) ==
  /\ call[k].kind = "post" /\ call[k].phase = "sent"
  /\ \E b \in Browsers : GetBrowserId(k, b) /\ PostMessage(call[k].question, b, call[k].session)
  /\ Reply(k, [call[k] EXCEPT !.phase = "served"])
  /\ UNCHANGED <<jar, typed, app>>

\* No reply of a POST begins before run_message has ended.
PostEnds(k) ==
  LET q == call[k].question IN
  /\ call[k].kind = "post" /\ call[k].phase = "served" /\ step[q] \in Ended
  /\ Reply(k, [call[k] EXCEPT !.phase = IF step[q] = "done" THEN "back" ELSE "lost"])
  /\ UNCHANGED <<service, jar, typed, app>>

Lose(k) ==
  /\ call[k].phase \in {"sent", "served", "back"}
  /\ Reply(k, [call[k] EXCEPT !.phase = "lost"])
  /\ UNCHANGED <<service, jar, typed, app>>

-----------------------------------------------------------------------------
(* App gets a reply. *)

Back(k, kind, why) == call[k].kind = kind /\ call[k].why \in why /\ call[k].phase = "back"

Done(k) == call' = [call EXCEPT ![k] = NoCall]

\* bootstrap: the latest session is opened, or a first one created.
Bootstrap(k) ==
  LET found == call[k].sessions IN
  /\ Back(k, "list", {"boot"})
  /\ jar' = call[k].cookie /\ rail' = found
  /\ LET mine == [NoCall EXCEPT !.why = "boot", !.phase = "sent", !.cookie = call[k].cookie] IN
     IF found = {} THEN Reply(k, [mine EXCEPT !.kind = "create"])
     ELSE \E s \in found : Reply(k, [mine EXCEPT !.kind = "get", !.session = s])
  /\ UNCHANGED <<service, typed, active, shown, view, busy, status, error>>

\* Mutant: the new session is selected, and the messages of the old one stay.
HandleCreateSessionKeep(k) ==
  LET s == call[k].session IN
  /\ Back(k, "create", {"boot", "click"})
  /\ jar' = call[k].cookie
  /\ rail' = rail \cup {s} /\ active' = s /\ shown' = s /\ error' = FALSE
  /\ Done(k)
  /\ UNCHANGED <<service, typed, view, busy, status>>

HandleCreateSession(k) ==
  LET s == call[k].session IN
  /\ Back(k, "create", {"boot", "click"})
  /\ jar' = call[k].cookie
  /\ rail' = rail \cup {s} /\ active' = s /\ shown' = s /\ view' = <<>> /\ error' = FALSE
  /\ Done(k)
  /\ UNCHANGED <<service, typed, busy, status>>

\* Mutant: the detail is shown without setActiveSessionId.
OpenSessionUnselected(k) ==
  LET s == call[k].session IN
  /\ Back(k, "get", {"boot", "click"})
  /\ jar' = call[k].cookie
  /\ shown' = s /\ view' = call[k].history /\ error' = FALSE
  /\ Done(k)
  /\ UNCHANGED <<service, typed, rail, active, busy, status>>

OpenSession(k) ==
  LET s == call[k].session IN
  /\ Back(k, "get", {"boot", "click"})
  /\ jar' = call[k].cookie
  /\ active' = s /\ shown' = s /\ view' = call[k].history /\ error' = FALSE
  /\ Done(k)
  /\ UNCHANGED <<service, typed, rail, busy, status>>

\* The stream of a POST: the status events, the answer; then the sessions are listed again.
OnStatus(k) ==
  LET seen == call[k].history IN
  /\ Back(k, "post", {"click"})
  /\ Len(seen) < Len(events[call[k].question])
  /\ LET next == events[call[k].question][Len(seen) + 1] IN
     /\ status' = next
     /\ Reply(k, [call[k] EXCEPT !.history = Append(seen, next)])
  /\ UNCHANGED <<service, jar, typed, rail, active, shown, view, busy, error>>

OnComplete(k) ==
  LET q == call[k].question IN
  /\ Back(k, "post", {"click"})
  /\ call[k].history = events[q]
  /\ view' = IF shown = NoSession THEN view ELSE Append(view, <<q, "assistant">>)
  /\ Reply(k, Fetch("list", "refresh", NoSession))
  /\ UNCHANGED <<service, jar, typed, rail, active, shown, busy, status, error>>

RefreshSessions(k) ==
  /\ Back(k, "list", {"refresh"})
  /\ jar' = call[k].cookie /\ rail' = call[k].sessions
  /\ busy' = FALSE /\ status' = "none"
  /\ Done(k)
  /\ UNCHANGED <<service, typed, active, shown, view, error>>

\* Mutant: busy is reset after the try, not in its finally.
FailCallBusy(k) ==
  /\ call[k].phase = "lost"
  /\ error' = (error \/ call[k].why \in {"boot", "refresh"} \/ call[k].kind = "post")
  /\ Done(k)
  /\ UNCHANGED <<service, jar, typed, rail, active, shown, view, busy, status>>

\* Mutant: submitMessage has no catch.
FailCallSilently(k) ==
  /\ call[k].phase = "lost"
  /\ error' = (error \/ call[k].why = "boot")
  /\ IF call[k].kind = "post" \/ call[k].why = "refresh"
     THEN busy' = FALSE /\ status' = "none" ELSE UNCHANGED <<busy, status>>
  /\ Done(k)
  /\ UNCHANGED <<service, jar, typed, rail, active, shown, view>>

\* Nobody catches what a click on the rail throws.
FailCall(k) ==
  /\ call[k].phase = "lost"
  /\ error' = (error \/ call[k].why \in {"boot", "refresh"} \/ call[k].kind = "post")
  /\ IF call[k].kind = "post" \/ call[k].why = "refresh"
     THEN busy' = FALSE /\ status' = "none" ELSE UNCHANGED <<busy, status>>
  /\ Done(k)
  /\ UNCHANGED <<service, jar, typed, rail, active, shown, view>>

-----------------------------------------------------------------------------

User ==
  \/ \E s \in Sessions : ClickSession(s)
  \/ ClickNew \/ Reload
  \/ \E q \in Questions : SubmitMessage(q)

Handle(k) == ListSessions(k) \/ OpenNewSession(k) \/ GetSession(k) \/ Post(k) \/ PostEnds(k)

Work(q) == Serve(q) /\ UNCHANGED <<jar, call, typed, app>>

Receive(k) ==
  \/ Bootstrap(k) \/ HandleCreateSession(k) \/ OpenSession(k)
  \/ OnStatus(k) \/ OnComplete(k) \/ RefreshSessions(k) \/ FailCall(k)

Next ==
  \/ User \/ ExpireCookie
  \/ \E k \in Calls : Handle(k) \/ Receive(k) \/ Lose(k)
  \/ \E q \in Questions : Work(q)
  \/ Restart /\ UNCHANGED <<jar, call, typed, app>>

Spec == Init /\ [][Next]_vars

\* Every worker thread is scheduled, the model and Trino answer or raise, and every
\* reply gets to the page; the user, losses and restarts are free.
FairSpec ==
  /\ Spec
  /\ \A k \in Calls : WF_vars(Handle(k)) /\ WF_vars(Receive(k))
  /\ \A q \in Questions : WF_vars(Work(q))

-----------------------------------------------------------------------------

TabTypeOK ==
  /\ jar \in Browsers \cup {NoOne} /\ typed \subseteq Questions
  /\ \A k \in Calls :
       /\ call[k].kind \in {"idle", "list", "create", "get", "post"}
       /\ call[k].phase \in {"none", "sent", "served", "back", "lost"}
       /\ call[k].kind = "post" => call[k].question \in typed
  /\ rail \subseteq Sessions /\ active \in Sessions \cup {NoSession} /\ shown = active
  /\ view \in Seq(Questions \X {"local", "user", "assistant"})
  /\ busy \in BOOLEAN /\ status \in Status /\ error \in BOOLEAN

\* An answer that the user has seen is stored: it is there after a reload, or a
\* restart of the backend.
ShownIsPersisted ==
  \A i \in DOMAIN view :
    view[i][2] = "assistant" => <<target[view[i][1]], view[i][1], "assistant">> \in saved

\* What is shown under a session was said in it, an answer once and after its question.
ViewTruth ==
  \A i \in DOMAIN view : LET q == view[i][1] IN
    /\ view[i][2] # "local" => <<shown, q, view[i][2]>> \in saved
    /\ view[i][2] = "assistant" =>
         /\ \E j \in 1 .. i - 1 : view[j] \in {<<q, "local">>, <<q, "user">>}
         /\ \A j \in 1 .. i - 1 : view[j] # view[i]

\* While its cookie lasts, the user can go back to the session that is open.
SessionReachable == active # NoSession => owner[active] = jar

\* Once nothing is in flight, the last question put is answered or an error is shown.
NoSilentFailure ==
  Free = Calls =>
    \A i \in DOMAIN view : view[i][2] = "local" =>
      \/ error
      \/ \E j \in DOMAIN view : j > i /\ (view[j] = <<view[i][1], "assistant">> \/ view[j][2] = "local")

\* The composer does not stay disabled.
BusyEnds == busy ~> ~busy
====
