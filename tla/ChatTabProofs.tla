---- MODULE ChatTabProofs ----
(***************************************************************************)
(* Proofs about a browser tab on top of the chat service, for any number   *)
(* of calls in flight: its types, that what it shows is stored, and that   *)
(* no question is silently dropped; and, for a user who waits for the call *)
(* in flight, that what it shows is true and the open session reachable.   *)
(***************************************************************************)
EXTENDS ChatTab, ChatServiceProofs

CallRecord ==
  [kind : {"idle", "list", "create", "get", "post"}, why : {"none", "boot", "click", "refresh"},
   cookie : Browsers \cup {NoOne}, session : Sessions \cup {NoSession},
   phase : {"none", "sent", "served", "back", "lost"}, sessions : SUBSET Sessions,
   history : Seq(Message) \cup Seq(Reported), question : Questions \cup {"none"}]

\* What a call knows of the service and of the user, by its kind and phase.
CallOf(k) ==
  /\ call[k].kind = "idle" => call[k].phase = "none"
  /\ call[k].kind \in {"get", "post"} => call[k].session \in Sessions
  /\ call[k].kind = "create" /\ call[k].phase = "back" => call[k].session \in Sessions
  /\ call[k].kind = "get" /\ call[k].phase = "back" => HistoryOf(call[k].session, call[k].history)
  /\ call[k].kind = "post" =>
       /\ call[k].question \in typed /\ call[k].history \in Seq(Reported)
       /\ call[k].phase = "served" => step[call[k].question] # "new"
       /\ call[k].phase = "back" => step[call[k].question] = "done"
       /\ call[k].phase \in {"served", "back"} => target[call[k].question] = call[k].session
CallInv == call \in [Calls -> CallRecord] /\ \A k \in Calls : CallOf(k)

Entry == Questions \X {"local", "user", "assistant"}
AppOK ==
  /\ jar \in Browsers \cup {NoOne} /\ typed \subseteq Questions
  /\ rail \subseteq Sessions /\ active \in Sessions \cup {NoSession} /\ shown = active
  /\ view \in Seq(Entry)
  /\ busy \in BOOLEAN /\ status \in Status /\ error \in BOOLEAN

TypesInv == ServiceInv /\ Stamps /\ AppOK /\ CallInv

-----------------------------------------------------------------------------
(* The service below the tab. *)

\* What the service never takes back.
Grows ==
  /\ saved \subseteq saved'
  /\ \A q \in Questions : step[q] # "new" => step'[q] # "new" /\ target'[q] = target[q]
  /\ \A q \in Questions : step[q] = "done" => step'[q] = "done"
  /\ \A s \in Sessions : owner[s] # NoOne => owner'[s] = owner[s]

LEMMA ServiceGrows ==
  ASSUME ServiceInv, [ServiceNext]_service
  PROVE  Grows
<1>0. /\ owner \in [Sessions -> Browsers \cup {NoOne}]
      /\ target \in [Questions -> Sessions \cup {NoOne}]
      /\ step \in [Questions -> {"new"} \cup Working \cup Ended]
  BY Maps DEF ServiceInv
<1>1. ASSUME NEW s \in Sessions, NEW b \in Browsers, CreateSession(s, b) PROVE Grows
  BY <1>0, <1>1 DEF Grows, CreateSession, request
<1>2. ASSUME NEW q \in Questions, NEW b \in Browsers, NEW s \in Sessions, PostMessage(q, b, s) PROVE Grows
  BY <1>0, <1>2 DEF Grows, PostMessage, Go, store
<1>3. ASSUME NEW q \in Questions, Serve(q) PROVE Grows
  <2>1. UNCHANGED <<owner, target>> /\ saved \subseteq saved'
    BY <1>3 DEF Serve, FindSession, SaveQuestion, Plan, GenerateSql, RunQuery, Summarize, SaveAnswer,
                FailStorage, store, request
  <2>2. step[q] \in Working /\ \E next \in Working \cup Ended : Go(q, next)
    BY <1>3 DEF Serve, FindSession, SaveQuestion, Plan, GenerateSql, RunQuery, Summarize, SaveAnswer,
                FailStorage, Compose, Raise, Working, Ended
  <2> QED
    BY <1>0, <2>1, <2>2 DEF Grows, Go, Working, Ended
<1>4. CASE Restart
  BY <1>0, <1>4 DEF Grows, Restart, store, request, Working
<1>5. CASE UNCHANGED service
  BY <1>5 DEF Grows, service, store, request
<1> QED
  BY <1>1, <1>2, <1>3, <1>4, <1>5 DEF ServiceNext

LEMMA HistoryStays ==
  ASSUME Grows, NEW s, NEW h, HistoryOf(s, h)
  PROVE  HistoryOf(s, h)'
BY DEF Grows, HistoryOf

\* Every step of the tab is one of the service, or leaves it alone.
LEMMA ServiceStep ==
  ASSUME TypesInv, [Next]_vars
  PROVE  [ServiceNext]_service
<1>1. ASSUME NEW k \in Calls, OpenNewSession(k) PROVE ServiceNext
  BY <1>1 DEF OpenNewSession, ServiceNext
<1>2. ASSUME NEW k \in Calls, Post(k) PROVE ServiceNext
  <2>1. call[k].question \in Questions /\ call[k].session \in Sessions
    BY <1>2 DEF TypesInv, AppOK, CallInv, CallOf, Post
  <2> QED
    BY <1>2, <2>1 DEF Post, ServiceNext
<1>3. ASSUME NEW k \in Calls, Handle(k) \/ Receive(k) \/ Lose(k), ~OpenNewSession(k), ~Post(k)
      PROVE  UNCHANGED service
  <2>1. CASE Handle(k)
    BY <1>3, <2>1 DEF Handle, ListSessions, GetSession, PostEnds
  <2>2. CASE Receive(k)
    BY <2>2 DEF Receive, Bootstrap, HandleCreateSession, OpenSession, OnStatus, OnComplete, RefreshSessions, FailCall
  <2>3. CASE Lose(k)
    BY <2>3 DEF Lose
  <2> QED
    BY <1>3, <2>1, <2>2, <2>3
<1>4. ASSUME User \/ ExpireCookie PROVE UNCHANGED service
  BY <1>4 DEF User, ClickSession, ClickNew, SubmitMessage, Reload, ExpireCookie
<1>5. ASSUME NEW q \in Questions, Work(q) PROVE ServiceNext
  BY <1>5 DEF Work, ServiceNext
<1>6. CASE Restart
  BY <1>6 DEF ServiceNext
<1>7. CASE UNCHANGED vars
  BY <1>7 DEF vars
<1> QED
  BY <1>1, <1>2, <1>3, <1>4, <1>5, <1>6, <1>7 DEF Next

-----------------------------------------------------------------------------
(* The calls. *)

\* A new call.
LEMMA FetchFields ==
  ASSUME jar \in Browsers \cup {NoOne}, NEW kind \in {"list", "create", "get", "post"},
         NEW why \in {"boot", "click", "refresh"}, NEW session \in Sessions \cup {NoSession}
  PROVE  /\ Fetch(kind, why, session) \in CallRecord
         /\ Fetch(kind, why, session).kind = kind /\ Fetch(kind, why, session).phase = "sent"
         /\ Fetch(kind, why, session).session = session /\ Fetch(kind, why, session).cookie = jar
         /\ Fetch(kind, why, session).history = <<>>
<1>1. <<>> \in Seq(Message)
  OBVIOUS
<1> QED
  BY <1>1 DEF Fetch, NoCall, CallRecord

LEMMA NoCallFields == NoCall \in CallRecord /\ NoCall.kind = "idle" /\ NoCall.phase = "none"
<1>1. <<>> \in Seq(Message)
  OBVIOUS
<1> QED
  BY <1>1 DEF NoCall, CallRecord

LEMMA CallKept ==
  ASSUME CallInv, typed \subseteq Questions, Grows, typed \subseteq typed',
         NEW l \in Calls, call'[l] = call[l]
  PROVE  CallOf(l)'
<1>1. CallOf(l)
  BY DEF CallInv
<1>2. call[l].kind = "get" /\ call[l].phase = "back" => HistoryOf(call[l].session, call[l].history)'
  <2> DEFINE s == call[l].session
             h == call[l].history
  <2>1. ASSUME HistoryOf(s, h) PROVE \A i \in DOMAIN h : <<s, h[i][1], h[i][2]>> \in saved'
    BY <2>1 DEF HistoryOf, Grows
  <2> QED
    BY <1>1, <2>1 DEF CallOf, HistoryOf
<1> QED
  BY <1>1, <1>2 DEF CallOf, Grows

LEMMA CallsStep ==
  ASSUME CallInv, typed \subseteq Questions, Grows, typed \subseteq typed',
         NEW k \in Calls, NEW c \in CallRecord, call' = [call EXCEPT ![k] = c], CallOf(k)'
  PROVE  CallInv'
<1>1. call' \in [Calls -> CallRecord]
  BY DEF CallInv
<1>2. ASSUME NEW l \in Calls PROVE CallOf(l)'
  <2>1. CASE l = k
    BY <2>1
  <2>2. CASE l # k
    <3>1. call'[l] = call[l]
      BY <2>2 DEF CallInv
    <3> QED
      BY <3>1, CallKept
  <2> QED
    BY <2>1, <2>2
<1> QED
  BY <1>1, <1>2 DEF CallInv

\* A new call instead of k.
LEMMA CallsFetch ==
  ASSUME CallInv, typed \subseteq Questions, Grows, typed \subseteq typed', jar \in Browsers \cup {NoOne},
         NEW k \in Calls, NEW kind \in {"list", "create", "get"}, NEW why \in {"boot", "click", "refresh"},
         NEW session \in Sessions \cup {NoSession}, kind = "get" => session \in Sessions,
         call' = [call EXCEPT ![k] = Fetch(kind, why, session)]
  PROVE  CallInv'
<1> DEFINE c == Fetch(kind, why, session)
<1>1. c \in CallRecord /\ c.kind = kind /\ c.phase = "sent" /\ c.session = session
  BY FetchFields
<1> HIDE DEF c
<1>2. call'[k] = c
  BY DEF CallInv, c
<1>3. CallOf(k)'
  BY <1>1, <1>2 DEF CallOf
<1>4. call' = [call EXCEPT ![k] = c]
  BY DEF c
<1> QED
  BY <1>1, <1>3, <1>4, CallsStep

LEMMA CallsDone ==
  ASSUME CallInv, typed \subseteq Questions, Grows, typed \subseteq typed', NEW k \in Calls, Done(k)
  PROVE  CallInv'
<1>1. call'[k] = NoCall
  BY DEF CallInv, Done
<1>2. CallOf(k)'
  BY <1>1, NoCallFields DEF CallOf
<1> QED
  BY <1>2, NoCallFields, CallsStep DEF Done

LEMMA CallsKept ==
  ASSUME CallInv, typed \subseteq Questions, Grows, typed \subseteq typed', UNCHANGED call
  PROVE  CallInv'
BY CallKept DEF CallInv

\* The page is loaded.
LEMMA CallsBoot ==
  ASSUME jar \in Browsers \cup {NoOne}, NEW k \in Calls,
         call' = [c \in Calls |-> IF c = k THEN Fetch("list", "boot", NoSession) ELSE NoCall]
  PROVE  CallInv'
<1> DEFINE f == Fetch("list", "boot", NoSession)
<1>1. f \in CallRecord /\ f.kind = "list" /\ f.phase = "sent"
  BY FetchFields
<1> HIDE DEF f
<1>2. \A c \in Calls : call'[c] = IF c = k THEN f ELSE NoCall
  BY DEF f
<1>3. call' \in [Calls -> CallRecord]
  BY <1>1, NoCallFields DEF f
<1>4. ASSUME NEW c \in Calls PROVE CallOf(c)'
  BY <1>1, <1>2, NoCallFields DEF CallOf
<1> QED
  BY <1>3, <1>4 DEF CallInv

\* What stands in every state, and what the service grants to every step.
LEMMA TypesFacts ==
  ASSUME TypesInv
  PROVE  /\ CallInv /\ call \in [Calls -> CallRecord] /\ typed \subseteq Questions
         /\ jar \in Browsers \cup {NoOne} /\ ServiceInv /\ Stamps /\ AppOK
         /\ \A k \in Calls : CallOf(k) /\ call[k] \in CallRecord
BY DEF TypesInv, AppOK, CallInv

LEMMA HandleCalls ==
  ASSUME TypesInv, Grows, NEW k \in Calls, Handle(k) \/ Lose(k)
  PROVE  CallInv'
<1> USE TypesFacts
<1>0. UNCHANGED typed
  BY DEF Handle, ListSessions, OpenNewSession, GetSession, Post, PostEnds, Lose
<1>1. CASE ListSessions(k)
  <2>1. PICK b \in Browsers :
          Reply(k, [call[k] EXCEPT !.phase = "back", !.cookie = b, !.sessions = {s \in Sessions : owner[s] = b}])
    BY <1>1 DEF ListSessions
  <2> DEFINE c == [call[k] EXCEPT !.phase = "back", !.cookie = b, !.sessions = {s \in Sessions : owner[s] = b}]
  <2>2. c \in CallRecord /\ c.kind = "list"
    BY <1>1 DEF ListSessions, CallRecord
  <2>3. call' = [call EXCEPT ![k] = c] /\ call'[k] = c
    BY <2>1 DEF Reply
  <2> HIDE DEF c
  <2>4. CallOf(k)'
    BY <2>2, <2>3 DEF CallOf
  <2> QED
    BY <1>0, <2>2, <2>3, <2>4, CallsStep
<1>2. CASE OpenNewSession(k)
  <2>1. PICK b \in Browsers, s \in Sessions :
          Reply(k, [call[k] EXCEPT !.phase = "back", !.cookie = b, !.session = s])
    BY <1>2 DEF OpenNewSession
  <2> DEFINE c == [call[k] EXCEPT !.phase = "back", !.cookie = b, !.session = s]
  <2>2. c \in CallRecord /\ c.kind = "create" /\ c.session = s
    BY <1>2 DEF OpenNewSession, CallRecord
  <2>3. call' = [call EXCEPT ![k] = c] /\ call'[k] = c
    BY <2>1 DEF Reply
  <2> HIDE DEF c
  <2>4. CallOf(k)'
    BY <2>2, <2>3 DEF CallOf
  <2> QED
    BY <1>0, <2>2, <2>3, <2>4, CallsStep
<1>3. CASE GetSession(k)
  <2> DEFINE s == call[k].session
             h == History(s)
  <2>1. PICK b \in Browsers :
          Reply(k, IF owner[s] = b /\ Loads(s)
                   THEN [call[k] EXCEPT !.phase = "back", !.cookie = b, !.history = h]
                   ELSE [call[k] EXCEPT !.phase = "lost"])
    BY <1>3 DEF GetSession
  <2>2. s \in Sessions /\ call[k].kind = "get"
    BY <1>3 DEF GetSession, CallOf
  <2>3. HistoryOf(s, h)
    BY <2>2, HistoryIsOf
  <2>4. CASE owner[s] = b /\ Loads(s)
    <3> DEFINE c == [call[k] EXCEPT !.phase = "back", !.cookie = b, !.history = h]
    <3>1. call' = [call EXCEPT ![k] = c]
      BY <2>1, <2>4 DEF Reply
    <3> HIDE DEF h
    <3>2. h \in Seq(Message)
      BY <2>3 DEF HistoryOf
    <3>3. c \in CallRecord /\ c.kind = "get" /\ c.session = s /\ c.history = h
      BY <2>2, <3>2 DEF CallRecord
    <3>4. call'[k] = c
      BY <3>1
    <3> HIDE DEF c, s
    <3>5. call'[k].kind = "get" /\ call'[k].session = s /\ call'[k].history = h
      BY <3>3, <3>4
    <3>6. HistoryOf(call[k].session, call[k].history)'
      BY <2>3, <3>5 DEF HistoryOf, Grows
    <3>7. CallOf(k)'
      BY <2>2, <3>5, <3>6 DEF CallOf
    <3> QED
      BY <1>0, <3>1, <3>3, <3>7, CallsStep
  <2>5. CASE ~(owner[s] = b /\ Loads(s))
    <3> DEFINE c == [call[k] EXCEPT !.phase = "lost"]
    <3>1. call' = [call EXCEPT ![k] = c]
      BY <2>1, <2>5 DEF Reply
    <3>2. c \in CallRecord /\ c.kind = "get" /\ c.session = s /\ c.phase = "lost" /\ call'[k] = c
      BY <2>2, <3>1 DEF CallRecord
    <3> HIDE DEF c, s
    <3>3. CallOf(k)'
      BY <2>2, <3>2 DEF CallOf
    <3> QED
      BY <1>0, <3>1, <3>2, <3>3, CallsStep
  <2> QED
    BY <2>4, <2>5
<1>4. CASE Post(k)
  <2> DEFINE q == call[k].question
             c == [call[k] EXCEPT !.phase = "served"]
  <2>1. call[k].kind = "post" /\ call' = [call EXCEPT ![k] = c]
    BY <1>4 DEF Post, Reply
  <2>2. c \in CallRecord /\ c.kind = "post" /\ c.session = call[k].session /\ c.question = q
        /\ c.history = call[k].history /\ c.phase = "served" /\ call'[k] = c
    BY <2>1 DEF CallRecord
  <2>3. q \in typed /\ q \in Questions /\ call[k].session \in Sessions /\ call[k].history \in Seq(Reported)
    BY <2>1 DEF CallOf
  <2>4. step'[q] = "find" /\ target'[q] = call[k].session
    BY <1>4, <2>3, Maps DEF Post, PostMessage, Go, ServiceInv
  <2> HIDE DEF c, q
  <2>5. CallOf(k)'
    BY <1>0, <2>2, <2>3, <2>4 DEF CallOf
  <2> QED
    BY <1>0, <2>1, <2>2, <2>5, CallsStep
<1>5. CASE PostEnds(k)
  <2> DEFINE q == call[k].question
             c == [call[k] EXCEPT !.phase = IF step[q] = "done" THEN "back" ELSE "lost"]
  <2>1. call[k].kind = "post" /\ call[k].phase = "served" /\ call' = [call EXCEPT ![k] = c]
    BY <1>5 DEF PostEnds, Reply
  <2>2. c \in CallRecord /\ c.kind = "post" /\ c.session = call[k].session /\ c.question = q
        /\ c.history = call[k].history /\ call'[k] = c
        /\ ((c.phase = "back" /\ step[q] = "done") \/ c.phase = "lost")
    BY <2>1 DEF CallRecord
  <2>3. q \in typed /\ call[k].session \in Sessions /\ target[q] = call[k].session /\ call[k].history \in Seq(Reported)
    BY <2>1 DEF CallOf
  <2>4. UNCHANGED <<step, target>>
    BY <1>5 DEF PostEnds, service, request
  <2> HIDE DEF c, q
  <2>5. CallOf(k)'
    BY <1>0, <2>2, <2>3, <2>4 DEF CallOf
  <2> QED
    BY <1>0, <2>1, <2>2, <2>5, CallsStep
<1>6. CASE Lose(k)
  <2> DEFINE c == [call[k] EXCEPT !.phase = "lost"]
  <2>1. call[k].phase \in {"sent", "served", "back"} /\ call' = [call EXCEPT ![k] = c]
    BY <1>6 DEF Lose, Reply
  <2>2. c \in CallRecord /\ c.kind = call[k].kind /\ c.session = call[k].session /\ c.question = call[k].question
        /\ c.history = call[k].history /\ c.phase = "lost" /\ call'[k] = c
    BY <2>1 DEF CallRecord
  <2> HIDE DEF c
  <2>3. CallOf(k)'
    BY <1>0, <2>1, <2>2 DEF CallOf
  <2> QED
    BY <1>0, <2>1, <2>2, <2>3, CallsStep
<1> QED
  BY <1>1, <1>2, <1>3, <1>4, <1>5, <1>6 DEF Handle

LEMMA ReceiveCalls ==
  ASSUME TypesInv, Grows, UNCHANGED service, NEW k \in Calls, Receive(k)
  PROVE  CallInv'
<1> USE TypesFacts
<1>0. UNCHANGED typed
  BY DEF Receive, Bootstrap, HandleCreateSession, OpenSession, OnStatus, OnComplete, RefreshSessions, FailCall
<1>1. CASE Done(k)
  BY <1>0, <1>1, CallsDone
<1>2. CASE Bootstrap(k)
  <2> DEFINE mine == [NoCall EXCEPT !.why = "boot", !.phase = "sent", !.cookie = call[k].cookie]
  <2>1. PICK c : /\ call' = [call EXCEPT ![k] = c]
                 /\ \/ c = [mine EXCEPT !.kind = "create"]
                    \/ \E s \in call[k].sessions : c = [mine EXCEPT !.kind = "get", !.session = s]
    <3>1. CASE call[k].sessions = {}
      BY <1>2, <3>1 DEF Bootstrap, Reply
    <3>2. CASE call[k].sessions # {}
      BY <1>2, <3>2 DEF Bootstrap, Reply
    <3> QED
      BY <3>1, <3>2
  <2>2. call[k].cookie \in Browsers \cup {NoOne} /\ call[k].sessions \subseteq Sessions
    BY DEF CallRecord
  <2>3. <<>> \in Seq(Message)
    OBVIOUS
  <2>4. c \in CallRecord /\ c.phase = "sent" /\ (c.kind = "create" \/ (c.kind = "get" /\ c.session \in Sessions))
    <3>1. mine \in CallRecord /\ mine.phase = "sent"
      BY <2>2, <2>3 DEF NoCall, CallRecord
    <3> HIDE DEF mine
    <3>2. ASSUME c = [mine EXCEPT !.kind = "create"]
          PROVE  c \in CallRecord /\ c.phase = "sent" /\ c.kind = "create"
      BY <3>1, <3>2 DEF CallRecord
    <3>3. ASSUME NEW s \in call[k].sessions, c = [mine EXCEPT !.kind = "get", !.session = s]
          PROVE  c \in CallRecord /\ c.phase = "sent" /\ c.kind = "get" /\ c.session \in Sessions
      BY <2>2, <3>1, <3>3 DEF CallRecord
    <3> QED
      BY <2>1, <3>2, <3>3
  <2>5. call'[k] = c
    BY <2>1
  <2>6. CallOf(k)'
    BY <2>4, <2>5 DEF CallOf
  <2> QED
    BY <1>0, <2>1, <2>4, <2>6, CallsStep
<1>3. CASE OnStatus(k)
  <2> DEFINE q == call[k].question
             next == events[q][Len(call[k].history) + 1]
             c == [call[k] EXCEPT !.history = Append(call[k].history, next)]
  <2>1. call[k].kind = "post" /\ call[k].phase = "back" /\ call' = [call EXCEPT ![k] = c]
        /\ Len(call[k].history) < Len(events[q])
    BY <1>3 DEF OnStatus, Back, Reply
  <2>2. q \in typed /\ q \in Questions /\ call[k].history \in Seq(Reported)
        /\ step[q] = "done" /\ target[q] = call[k].session /\ call[k].session \in Sessions
    BY <2>1 DEF CallOf
  <2>3. events[q] \in Seq(Reported)
    BY <2>2 DEF ServiceInv, ServiceTypeOK, Reported
  <2>4. next \in Reported
    BY <2>1, <2>2, <2>3
  <2>5. Append(call[k].history, next) \in Seq(Reported)
    BY <2>2, <2>4
  <2>6. c \in CallRecord /\ c.kind = "post" /\ c.session = call[k].session /\ c.question = q
        /\ c.history \in Seq(Reported) /\ c.phase = "back" /\ call'[k] = c
    BY <2>1, <2>5 DEF CallRecord
  <2>7. UNCHANGED <<step, target>>
    BY DEF service, request
  <2> HIDE DEF c, q
  <2>8. CallOf(k)'
    BY <1>0, <2>2, <2>6, <2>7 DEF CallOf
  <2> QED
    BY <1>0, <2>1, <2>6, <2>8, CallsStep
<1>4. CASE OnComplete(k)
  BY <1>0, <1>4, CallsFetch DEF OnComplete, Reply
<1> QED
  BY <1>1, <1>2, <1>3, <1>4 DEF Receive, HandleCreateSession, OpenSession, RefreshSessions, FailCall

LEMMA UserCalls ==
  ASSUME TypesInv, Grows, User \/ ExpireCookie
  PROVE  CallInv'
<1> USE TypesFacts
<1>1. ASSUME NEW s \in Sessions, ClickSession(s) PROVE CallInv'
  BY <1>1, CallsFetch DEF ClickSession, Free
<1>2. CASE ClickNew
  BY <1>2, CallsFetch DEF ClickNew, Free
<1>3. CASE Reload
  BY <1>3, CallsBoot DEF Reload
<1>4. CASE ExpireCookie
  BY <1>4, CallsKept DEF ExpireCookie
<1>5. ASSUME NEW q \in Questions, SubmitMessage(q) PROVE CallInv'
  <2> DEFINE c == [Fetch("post", "click", active) EXCEPT !.question = q]
  <2>1. PICK k \in Calls : call' = [call EXCEPT ![k] = c]
    BY <1>5 DEF SubmitMessage, Free
  <2>2. active \in Sessions /\ typed' = typed \cup {q}
    BY <1>5 DEF SubmitMessage, AppOK
  <2>3. c \in CallRecord /\ c.kind = "post" /\ c.session = active /\ c.question = q /\ c.phase = "sent"
        /\ c.history = <<>> /\ call'[k] = c
    <3> DEFINE f == Fetch("post", "click", active)
    <3>1. f \in CallRecord /\ f.kind = "post" /\ f.phase = "sent" /\ f.session = active /\ f.history = <<>>
      BY <2>2, FetchFields
    <3> HIDE DEF f
    <3>2. [f EXCEPT !.question = q] \in CallRecord
      BY <3>1 DEF CallRecord
    <3>3. c = [f EXCEPT !.question = q]
      BY DEF f
    <3>4. c.kind = "post" /\ c.session = active /\ c.question = q /\ c.phase = "sent" /\ c.history = <<>>
      BY <3>1, <3>3 DEF CallRecord
    <3> HIDE DEF c
    <3> QED
      BY <2>1, <3>2, <3>3, <3>4
  <2> HIDE DEF c
  <2>4. <<>> \in Seq(Reported)
    OBVIOUS
  <2>5. CallOf(k)'
    BY <2>2, <2>3, <2>4 DEF CallOf
  <2> QED
    BY <2>1, <2>2, <2>3, <2>5, CallsStep
<1> QED
  BY <1>1, <1>2, <1>3, <1>4, <1>5 DEF User

-----------------------------------------------------------------------------
(* The types of the tab. *)

\* What a step of the tab shows anew.
LEMMA ViewSteps ==
  ASSUME [Next]_vars
  PROVE  \/ UNCHANGED <<active, shown, view>>
         \/ Reload
         \/ \E q \in Questions : SubmitMessage(q)
         \/ \E k \in Calls : HandleCreateSession(k) \/ OpenSession(k) \/ OnComplete(k)
<1>1. ASSUME NEW k \in Calls, Handle(k) \/ Lose(k) PROVE UNCHANGED <<active, shown, view>>
  BY <1>1 DEF Handle, ListSessions, OpenNewSession, GetSession, Post, PostEnds, Lose, app
<1>2. ASSUME NEW k \in Calls, Receive(k), ~HandleCreateSession(k), ~OpenSession(k), ~OnComplete(k)
      PROVE  UNCHANGED <<active, shown, view>>
  BY <1>2 DEF Receive, Bootstrap, OnStatus, RefreshSessions, FailCall
<1>3. ASSUME User, ~Reload, ~\E q \in Questions : SubmitMessage(q)
      PROVE  UNCHANGED <<active, shown, view>>
  BY <1>3 DEF User, ClickSession, ClickNew, app
<1>4. ASSUME ExpireCookie \/ (\E q \in Questions : Work(q))
             \/ (Restart /\ UNCHANGED <<jar, call, typed, app>>) \/ UNCHANGED vars
      PROVE  UNCHANGED <<active, shown, view>>
  BY <1>4 DEF ExpireCookie, Work, vars, app
<1> QED
  BY <1>1, <1>2, <1>3, <1>4 DEF Next

LEMMA AppStep ==
  ASSUME TypesInv, [Next]_vars
  PROVE  AppOK'
<1> USE TypesFacts
<1>0. /\ jar \in Browsers \cup {NoOne} /\ typed \subseteq Questions /\ rail \subseteq Sessions
      /\ active \in Sessions \cup {NoSession} /\ shown = active /\ view \in Seq(Entry)
      /\ busy \in BOOLEAN /\ status \in Status /\ error \in BOOLEAN
  BY DEF AppOK
<1>1. CASE UNCHANGED <<jar, typed, app>>
  BY <1>0, <1>1 DEF AppOK, app
<1>2. ASSUME NEW k \in Calls, Handle(k) \/ Lose(k) PROVE AppOK'
  <2>1. UNCHANGED <<jar, typed, app>>
    BY <1>2 DEF Handle, ListSessions, OpenNewSession, GetSession, Post, PostEnds, Lose
  <2> QED
    BY <1>1, <2>1
<1>3. ASSUME NEW k \in Calls, Receive(k) PROVE AppOK'
  <2>0. call[k] \in CallRecord /\ CallOf(k)
    OBVIOUS
  <2>1. call[k].cookie \in Browsers \cup {NoOne} /\ call[k].sessions \subseteq Sessions
    BY <2>0 DEF CallRecord
  <2>2. CASE Bootstrap(k)
    BY <1>0, <2>1, <2>2 DEF Bootstrap, AppOK
  <2>3. CASE HandleCreateSession(k)
    <3>1. call[k].session \in Sessions
      BY <2>0, <2>3 DEF HandleCreateSession, Back, CallOf
    <3>2. <<>> \in Seq(Entry)
      OBVIOUS
    <3> QED
      BY <1>0, <2>1, <2>3, <3>1, <3>2 DEF HandleCreateSession, AppOK
  <2>4. CASE OpenSession(k)
    <3>1. call[k].session \in Sessions /\ call[k].history \in Seq(Message)
      BY <2>0, <2>4 DEF OpenSession, Back, CallOf, HistoryOf
    <3>2. Message \subseteq Entry
      BY DEF Message, Entry, Role
    <3>3. call[k].history \in Seq(Entry)
      BY <3>1, <3>2
    <3> QED
      BY <1>0, <2>1, <2>4, <3>1, <3>3 DEF OpenSession, AppOK
  <2>5. CASE OnStatus(k)
    <3>1. call[k].question \in Questions /\ call[k].history \in Seq(Reported)
      BY <1>0, <2>0, <2>5 DEF OnStatus, Back, CallOf
    <3>2. events[call[k].question] \in Seq(Reported)
      BY <3>1 DEF ServiceInv, ServiceTypeOK, Reported
    <3>3. status' \in Status
      BY <2>5, <3>1, <3>2 DEF OnStatus, Reported, Status
    <3> QED
      BY <1>0, <2>5, <3>3 DEF OnStatus, AppOK
  <2>6. CASE OnComplete(k)
    <3>1. call[k].question \in Questions
      BY <1>0, <2>0, <2>6 DEF OnComplete, Back, CallOf
    <3>2. <<call[k].question, "assistant">> \in Entry
      BY <3>1 DEF Entry
    <3>3. view' \in Seq(Entry)
      BY <1>0, <2>6, <3>2 DEF OnComplete
    <3> QED
      BY <1>0, <2>6, <3>3 DEF OnComplete, AppOK
  <2>7. CASE RefreshSessions(k)
    BY <1>0, <2>1, <2>7 DEF RefreshSessions, AppOK, Status
  <2>8. CASE FailCall(k)
    BY <1>0, <2>8 DEF FailCall, AppOK, Status
  <2> QED
    BY <1>3, <2>2, <2>3, <2>4, <2>5, <2>6, <2>7, <2>8 DEF Receive
<1>4. ASSUME NEW q \in Questions, SubmitMessage(q) PROVE AppOK'
  <2>1. <<q, "local">> \in Entry
    BY DEF Entry
  <2>2. view' \in Seq(Entry)
    BY <1>0, <1>4, <2>1 DEF SubmitMessage
  <2> QED
    BY <1>0, <1>4, <2>2 DEF SubmitMessage, AppOK, Status
<1>5. CASE Reload
  <2>1. <<>> \in Seq(Entry)
    OBVIOUS
  <2> QED
    BY <1>0, <1>5, <2>1 DEF Reload, AppOK, Status
<1>6. CASE ExpireCookie
  BY <1>0, <1>6 DEF ExpireCookie, AppOK, app
<1>7. CASE \E s \in Sessions : ClickSession(s)
  BY <1>1, <1>7 DEF ClickSession
<1>8. CASE ClickNew
  BY <1>1, <1>8 DEF ClickNew
<1>9. CASE \E q \in Questions : Work(q)
  BY <1>1, <1>9 DEF Work
<1>10. CASE UNCHANGED vars
  BY <1>1, <1>10 DEF vars
<1> QED
  BY <1>1, <1>2, <1>3, <1>4, <1>5, <1>6, <1>7, <1>8, <1>9, <1>10 DEF Next, User

LEMMA TypesStart == Init => TypesInv
<1> SUFFICES ASSUME Init PROVE TypesInv
  OBVIOUS
<1>1. ServiceInv /\ Stamps
  BY InitInv, StampsInit DEF Init
<1>2. AppOK
  <2>1. <<>> \in Seq(Entry)
    OBVIOUS
  <2> QED
    BY <2>1 DEF Init, AppOK, Status
<1>3. CallInv
  <2> DEFINE f == Fetch("list", "boot", NoSession)
  <2>1. PICK k \in Calls : call = [c \in Calls |-> IF c = k THEN f ELSE NoCall]
    BY DEF Init
  <2>2. f \in CallRecord /\ f.kind = "list" /\ f.phase = "sent"
    BY <1>2, FetchFields DEF AppOK
  <2> HIDE DEF f
  <2>3. call \in [Calls -> CallRecord]
    BY <2>1, <2>2, NoCallFields
  <2>4. ASSUME NEW c \in Calls PROVE CallOf(c)
    BY <2>1, <2>2, NoCallFields DEF CallOf
  <2> QED
    BY <2>3, <2>4 DEF CallInv
<1> QED
  BY <1>1, <1>2, <1>3 DEF TypesInv

LEMMA TypesStep ==
  ASSUME TypesInv, [Next]_vars
  PROVE  TypesInv' /\ Grows /\ [ServiceNext]_service
<1> USE TypesFacts
<1>1. [ServiceNext]_service
  BY ServiceStep
<1>2. Grows
  BY <1>1, ServiceGrows
<1>3. ServiceInv' /\ Stamps'
  BY <1>1, StepInv, StampsStep
<1>4. AppOK'
  BY AppStep
<1>5. CallInv'
  <2>1. ASSUME NEW k \in Calls, Handle(k) \/ Lose(k) PROVE CallInv'
    BY <1>2, <2>1, HandleCalls
  <2>2. ASSUME NEW k \in Calls, Receive(k) PROVE CallInv'
    <3>1. UNCHANGED service
      BY <2>2 DEF Receive, Bootstrap, HandleCreateSession, OpenSession, OnStatus, OnComplete, RefreshSessions, FailCall
    <3> QED
      BY <1>2, <2>2, <3>1, ReceiveCalls
  <2>3. ASSUME User \/ ExpireCookie PROVE CallInv'
    BY <1>2, <2>3, UserCalls
  <2>4. ASSUME UNCHANGED <<call, typed>> PROVE CallInv'
    BY <1>2, <2>4, CallsKept
  <2>5. CASE UNCHANGED vars
    BY <2>4, <2>5 DEF vars
  <2> QED
    BY <2>1, <2>2, <2>3, <2>4, <2>5 DEF Next, Work
<1> QED
  BY <1>1, <1>2, <1>3, <1>4, <1>5 DEF TypesInv

\* The state of the tab is well typed, what is shown is the detail of the active session,
\* and every call that posts a question posts one that the user has put, for any number
\* of calls in flight (App.tsx).
THEOREM TabTypes == Spec => []TabTypeOK
<1>1. ASSUME TypesInv PROVE TabTypeOK
  <2>1. \A k \in Calls :
          /\ call[k].kind \in {"idle", "list", "create", "get", "post"}
          /\ call[k].phase \in {"none", "sent", "served", "back", "lost"}
          /\ call[k].kind = "post" => call[k].question \in typed
    BY <1>1, TypesFacts DEF CallOf, CallRecord
  <2> QED
    BY <1>1, <2>1, TypesFacts DEF AppOK, TabTypeOK, Entry
<1> QED
  BY TypesStart, TypesStep, <1>1, PTL DEF Spec

-----------------------------------------------------------------------------
(* What is shown is stored. *)

\* An answer in the view was stored by the question's own thread, where it was put.
LEMMA ShownStep ==
  ASSUME TypesInv, ShownIsPersisted, [Next]_vars
  PROVE  ShownIsPersisted'
<1> USE TypesFacts
<1>0. Grows /\ view \in Seq(Entry) /\ view' \in Seq(Entry)
  BY TypesStep DEF AppOK, TypesInv
<1>1. ASSUME NEW q \in Questions, <<target[q], q, "assistant">> \in saved
      PROVE  <<target'[q], q, "assistant">> \in saved'
  <2>1. <<target[q], q, "assistant">> \in Sessions \X Questions \X Role
    BY <1>1 DEF ServiceInv, ServiceTypeOK
  <2>2. step[q] # "new"
    BY <1>1, <2>1 DEF ServiceInv, Stored, StoredOf
  <2> QED
    BY <1>0, <1>1, <2>2 DEF Grows
<1>2. ASSUME NEW i \in DOMAIN view, view[i][2] = "assistant"
      PROVE  <<target'[view[i][1]], view[i][1], "assistant">> \in saved'
  <2>1. view[i][1] \in Questions
    BY <1>0 DEF Entry
  <2> QED
    BY <1>1, <1>2, <2>1 DEF ShownIsPersisted
<1>3. CASE UNCHANGED view
  BY <1>2, <1>3 DEF ShownIsPersisted
<1>4. CASE view' = <<>>
  BY <1>4 DEF ShownIsPersisted
<1>5. ASSUME NEW m \in Entry, view' = Append(view, m),
             m[2] = "assistant" => <<target'[m[1]], m[1], "assistant">> \in saved'
      PROVE  ShownIsPersisted'
  <2>1. \A i \in DOMAIN view' : view'[i] = m \/ (i \in DOMAIN view /\ view'[i] = view[i])
    BY <1>0, <1>5
  <2> QED
    BY <1>2, <1>5, <2>1 DEF ShownIsPersisted
<1>6. ASSUME NEW q \in Questions, SubmitMessage(q) PROVE ShownIsPersisted'
  <2>1. <<q, "local">> \in Entry
    BY DEF Entry
  <2>2. view' = view \/ view' = Append(view, <<q, "local">>)
    BY <1>6 DEF SubmitMessage
  <2> QED
    BY <1>3, <1>5, <2>1, <2>2
<1>7. ASSUME NEW k \in Calls, OpenSession(k) PROVE ShownIsPersisted'
  <2>1. view' = call[k].history /\ HistoryOf(call[k].session, call[k].history) /\ call[k].session \in Sessions
    BY <1>7 DEF OpenSession, Back, CallOf
  <2>2. ASSUME NEW i \in DOMAIN view', view'[i][2] = "assistant"
        PROVE  <<target'[view'[i][1]], view'[i][1], "assistant">> \in saved'
    <3> DEFINE q == view'[i][1]
    <3>1. view'[i] \in Message
      BY <2>1 DEF HistoryOf
    <3>2. q \in Questions /\ "assistant" \in Role /\ <<call[k].session, q, "assistant">> \in saved
      BY <2>1, <2>2, <3>1 DEF HistoryOf, Message, Role
    <3>3. target[q] = call[k].session
      BY <2>1, <3>2 DEF ServiceInv, ServiceTypeOK
    <3> QED
      BY <1>1, <3>2, <3>3
  <2> QED
    BY <2>2 DEF ShownIsPersisted
<1>8. ASSUME NEW k \in Calls, OnComplete(k) PROVE ShownIsPersisted'
  <2> DEFINE q == call[k].question
  <2>1. q \in Questions /\ step[q] = "done"
    BY <1>8 DEF OnComplete, Back, CallOf
  <2>2. <<target[q], q, "assistant">> \in saved
    BY <2>1 DEF ServiceInv, Stored, StoredOf
  <2>3. view' = view \/ view' = Append(view, <<q, "assistant">>)
    BY <1>8 DEF OnComplete
  <2>4. <<q, "assistant">> \in Entry
    BY <2>1 DEF Entry
  <2> QED
    BY <1>1, <1>3, <1>5, <2>1, <2>2, <2>3, <2>4
<1>9. ASSUME Reload \/ (\E k \in Calls : HandleCreateSession(k)) PROVE view' = <<>>
  BY <1>9 DEF Reload, HandleCreateSession
<1> QED
  BY <1>3, <1>4, <1>6, <1>7, <1>8, <1>9, ViewSteps

\* An answer that the user has seen is in the table of messages, whatever replies were
\* lost, calls reordered or restarts of the backend came in between (add_message before
\* the final event of the stream).
THEOREM ShownIsPersistedAlways == Spec => []ShownIsPersisted
<1>1. Init => ShownIsPersisted
  BY DEF Init, ShownIsPersisted
<1>2. ASSUME TypesInv, ShownIsPersisted, [Next]_vars PROVE ShownIsPersisted'
  BY <1>2, ShownStep
<1> QED
  BY TypesStart, TypesStep, <1>1, <1>2, PTL DEF Spec

-----------------------------------------------------------------------------
(* No question is silently dropped. *)

\* Of a question in the view that App put there: an error is shown, or it was answered, or
\* another one was put after it, or a call is in flight that posts it.
AnsweredIn(v, i) ==
  \E j \in DOMAIN v : j > i /\ (v[j] = <<v[i][1], "assistant">> \/ v[j][2] = "local")
Posting(q) == \E k \in Calls : call[k].kind = "post" /\ call[k].question = q
NothingForgotten ==
  /\ shown = NoSession => view = <<>>
  /\ \A i \in DOMAIN view : view[i][2] = "local" => error \/ AnsweredIn(view, i) \/ Posting(view[i][1])

\* A call that goes on, in the service, in the network or in App, is still that call.
LEMMA CallGoesOn ==
  ASSUME TypesInv, NEW k \in Calls, Handle(k) \/ Lose(k) \/ OnStatus(k)
  PROVE  \A l \in Calls : /\ call'[l].kind = call[l].kind /\ call'[l].question = call[l].question
                          /\ call[l].kind = "post" => call'[l].session = call[l].session
<1> USE TypesFacts
<1>1. \E c : /\ call' = [call EXCEPT ![k] = c]
             /\ c.kind = call[k].kind /\ c.question = call[k].question
             /\ call[k].kind = "post" => c.session = call[k].session
  <2>1. ASSUME NEW b, NEW x PROVE
          /\ [call[k] EXCEPT !.phase = "back", !.cookie = b, !.sessions = x].kind = call[k].kind
          /\ [call[k] EXCEPT !.phase = "back", !.cookie = b, !.sessions = x].question = call[k].question
          /\ [call[k] EXCEPT !.phase = "back", !.cookie = b, !.sessions = x].session = call[k].session
          /\ [call[k] EXCEPT !.phase = "back", !.cookie = b, !.session = x].kind = call[k].kind
          /\ [call[k] EXCEPT !.phase = "back", !.cookie = b, !.session = x].question = call[k].question
          /\ [call[k] EXCEPT !.phase = "back", !.cookie = b, !.history = x].kind = call[k].kind
          /\ [call[k] EXCEPT !.phase = "back", !.cookie = b, !.history = x].question = call[k].question
          /\ [call[k] EXCEPT !.phase = "back", !.cookie = b, !.history = x].session = call[k].session
          /\ [call[k] EXCEPT !.phase = x].kind = call[k].kind
          /\ [call[k] EXCEPT !.phase = x].question = call[k].question
          /\ [call[k] EXCEPT !.phase = x].session = call[k].session
          /\ [call[k] EXCEPT !.history = x].kind = call[k].kind
          /\ [call[k] EXCEPT !.history = x].question = call[k].question
          /\ [call[k] EXCEPT !.history = x].session = call[k].session
    BY DEF CallRecord
  <2>2. CASE ListSessions(k)
    <3>1. PICK b \in Browsers : call' = [call EXCEPT ![k] = [call[k] EXCEPT !.phase = "back", !.cookie = b, !.sessions = {s \in Sessions : owner[s] = b}]]
      BY <2>2 DEF ListSessions, Reply
    <3> DEFINE c == [call[k] EXCEPT !.phase = "back", !.cookie = b, !.sessions = {s \in Sessions : owner[s] = b}]
    <3>2. c.kind = call[k].kind /\ c.question = call[k].question /\ c.session = call[k].session
      BY <2>1
    <3> HIDE DEF c
    <3> QED
      BY <3>1, <3>2 DEF c
  <2>3. CASE OpenNewSession(k)
    <3>1. PICK b \in Browsers, s \in Sessions : call' = [call EXCEPT ![k] = [call[k] EXCEPT !.phase = "back", !.cookie = b, !.session = s]]
      BY <2>3 DEF OpenNewSession, Reply
    <3> DEFINE c == [call[k] EXCEPT !.phase = "back", !.cookie = b, !.session = s]
    <3>2. c.kind = call[k].kind /\ c.question = call[k].question
      BY <2>1
    <3>3. call[k].kind # "post"
      BY <2>3 DEF OpenNewSession
    <3> HIDE DEF c
    <3> QED
      BY <3>1, <3>2, <3>3 DEF c
  <2>4. CASE GetSession(k)
    <3> DEFINE h == History(call[k].session)
    <3>1. PICK b \in Browsers : \/ call' = [call EXCEPT ![k] = [call[k] EXCEPT !.phase = "back", !.cookie = b, !.history = h]]
                               \/ call' = [call EXCEPT ![k] = [call[k] EXCEPT !.phase = "lost"]]
      BY <2>4 DEF GetSession, Reply
    <3> HIDE DEF h
    <3> DEFINE c == [call[k] EXCEPT !.phase = "back", !.cookie = b, !.history = h]
               d == [call[k] EXCEPT !.phase = "lost"]
    <3>2. /\ c.kind = call[k].kind /\ c.question = call[k].question /\ c.session = call[k].session
          /\ d.kind = call[k].kind /\ d.question = call[k].question /\ d.session = call[k].session
      BY <2>1
    <3>3. call' = [call EXCEPT ![k] = c] \/ call' = [call EXCEPT ![k] = d]
      BY <3>1
    <3> HIDE DEF c, d
    <3> QED
      BY <3>2, <3>3
  <2>5. CASE Post(k)
    BY <2>1, <2>5 DEF Post, Reply
  <2>6. CASE PostEnds(k)
    BY <2>1, <2>6 DEF PostEnds, Reply
  <2>7. CASE Lose(k)
    BY <2>1, <2>7 DEF Lose, Reply
  <2>8. CASE OnStatus(k)
    BY <2>1, <2>8 DEF OnStatus, Reply
  <2> QED
    BY <2>2, <2>3, <2>4, <2>5, <2>6, <2>7, <2>8 DEF Handle
<1> QED
  BY <1>1

\* The questions in the view, after an entry more.
LEMMA ViewGrows ==
  ASSUME view \in Seq(Entry), NEW m \in Entry, view' = Append(view, m)
  PROVE  /\ DOMAIN view = 1 .. Len(view) /\ Len(view) \in Nat
         /\ \A i \in DOMAIN view : i \in DOMAIN view' /\ view'[i] = view[i] /\ i < Len(view) + 1
         /\ Len(view) + 1 \in DOMAIN view' /\ view'[Len(view) + 1] = m
         /\ \A i \in DOMAIN view' : i \in DOMAIN view \/ i = Len(view) + 1
OBVIOUS

LEMMA ForgottenStep ==
  ASSUME TypesInv, NothingForgotten, [Next]_vars
  PROVE  NothingForgotten'
<1> USE TypesFacts
<1>0. /\ view \in Seq(Entry) /\ shown = active /\ active \in Sessions \cup {NoSession}
      /\ view' \in Seq(Entry) /\ error \in BOOLEAN
  BY TypesStep DEF AppOK, TypesInv
<1>1. ASSUME UNCHANGED <<shown, view>>, error => error',
             \A q \in Questions : Posting(q) => error' \/ Posting(q)'
      PROVE  NothingForgotten'
  <2>1. \A i \in DOMAIN view : view[i][1] \in Questions
    BY <1>0 DEF Entry
  <2> QED
    BY <1>1, <2>1 DEF NothingForgotten, AnsweredIn
<1>2. CASE view' = <<>>
  BY <1>2 DEF NothingForgotten
<1>3. ASSUME NEW k \in Calls, Handle(k) \/ Lose(k) \/ OnStatus(k) PROVE NothingForgotten'
  <2>1. UNCHANGED <<shown, view, error>>
    BY <1>3 DEF Handle, ListSessions, OpenNewSession, GetSession, Post, PostEnds, Lose, OnStatus, app
  <2>2. \A l \in Calls : call'[l].kind = call[l].kind /\ call'[l].question = call[l].question
    BY <1>3, CallGoesOn
  <2>3. \A q \in Questions : Posting(q) => Posting(q)'
    BY <2>2 DEF Posting
  <2> QED
    BY <1>1, <2>1, <2>3
<1>4. ASSUME NEW k \in Calls, Bootstrap(k) \/ RefreshSessions(k) \/ FailCall(k) PROVE NothingForgotten'
  <2>1. UNCHANGED <<shown, view>> /\ (error => error')
    BY <1>0, <1>4 DEF Bootstrap, RefreshSessions, FailCall
  <2>2. \A l \in Calls \ {k} : call'[l] = call[l]
    <3>1. \E c : call' = [call EXCEPT ![k] = c]
      <4>1. CASE Bootstrap(k)
        <5>1. CASE call[k].sessions = {}
          BY <4>1, <5>1 DEF Bootstrap, Reply
        <5>2. CASE call[k].sessions # {}
          BY <4>1, <5>2 DEF Bootstrap, Reply
        <5> QED
          BY <5>1, <5>2
      <4>2. CASE RefreshSessions(k) \/ FailCall(k)
        BY <4>2 DEF RefreshSessions, FailCall, Done
      <4> QED
        BY <1>4, <4>1, <4>2
    <3> QED
      BY <3>1
  <2>3. call[k].kind = "post" => error'
    BY <1>4 DEF Bootstrap, RefreshSessions, FailCall, Back
  <2>4. \A q \in Questions : Posting(q) => error' \/ Posting(q)'
    BY <2>2, <2>3 DEF Posting
  <2> QED
    BY <1>1, <2>1, <2>4
<1>5. ASSUME NEW k \in Calls, OpenSession(k) PROVE NothingForgotten'
  <2>1. /\ view' = call[k].history /\ HistoryOf(call[k].session, call[k].history)
        /\ shown' = call[k].session /\ call[k].session \in Sessions
    BY <1>5 DEF OpenSession, Back, CallOf
  <2>2. \A i \in DOMAIN view' : view'[i][2] # "local"
    BY <2>1 DEF HistoryOf, Message, Role
  <2> QED
    BY <2>1, <2>2, TabAssumption DEF NothingForgotten
<1>6. ASSUME NEW k \in Calls, OnComplete(k), shown # NoSession PROVE NothingForgotten'
  <2> DEFINE q == call[k].question
             m == <<q, "assistant">>
  <2>1. /\ call[k].kind = "post" /\ q \in Questions /\ view' = Append(view, m) /\ UNCHANGED <<shown, error>>
        /\ call' = [call EXCEPT ![k] = Fetch("list", "refresh", NoSession)]
    BY <1>6 DEF OnComplete, Back, CallOf, Reply
  <2>2. m \in Entry
    BY <2>1 DEF Entry
  <2>3. ASSUME NEW i \in DOMAIN view', view'[i][2] = "local"
        PROVE  (error \/ AnsweredIn(view, i) \/ Posting(view[i][1]))'
    <3>1. i \in DOMAIN view /\ view'[i] = view[i] /\ view[i][1] \in Questions
      BY <1>0, <2>1, <2>2, <2>3, ViewGrows DEF Entry
    <3>2. CASE AnsweredIn(view, i)
      BY <1>0, <2>1, <2>2, <3>1, <3>2, ViewGrows DEF AnsweredIn
    <3>3. CASE view[i][1] = q
      <4>1. Len(view) + 1 > i
        BY <1>0, <2>1, <2>2, <3>1, ViewGrows
      <4> QED
        BY <1>0, <2>1, <2>2, <3>1, <3>3, <4>1, ViewGrows DEF AnsweredIn
    <3>4. CASE Posting(view[i][1]) /\ view[i][1] # q
      <4>1. PICK l \in Calls : call[l].kind = "post" /\ call[l].question = view[i][1]
        BY <3>4 DEF Posting
      <4>2. call'[l] = call[l]
        BY <2>1, <3>4, <4>1
      <4> QED
        BY <3>1, <4>1, <4>2 DEF Posting
    <3> QED
      BY <2>1, <2>3, <3>1, <3>2, <3>3, <3>4 DEF NothingForgotten
  <2> QED
    BY <1>6, <2>1, <2>3 DEF NothingForgotten
<1>7. ASSUME NEW k \in Calls, OnComplete(k), shown = NoSession PROVE NothingForgotten'
  <2>1. view = <<>>
    BY <1>7 DEF NothingForgotten
  <2> QED
    BY <1>2, <1>7, <2>1 DEF OnComplete
<1>8. ASSUME NEW q \in Questions, SubmitMessage(q) PROVE NothingForgotten'
  <2> DEFINE m == <<q, "local">>
  <2>1. shown # NoSession /\ view' = Append(view, m) /\ UNCHANGED shown
    BY <1>0, <1>8 DEF SubmitMessage
  <2>2. m \in Entry
    BY DEF Entry
  <2>3. PICK k \in Calls : call' = [call EXCEPT ![k] = [Fetch("post", "click", active) EXCEPT !.question = q]]
    BY <1>8 DEF SubmitMessage, Free
  <2>4. Posting(q)'
    BY <2>3 DEF Posting, Fetch, NoCall
  <2>5. ASSUME NEW i \in DOMAIN view' PROVE AnsweredIn(view', i) \/ view'[i][1] = q
    <3>1. CASE i = Len(view) + 1
      BY <1>0, <2>1, <2>2, <3>1, ViewGrows
    <3>2. CASE i \in DOMAIN view
      BY <1>0, <2>1, <2>2, <3>2, ViewGrows DEF AnsweredIn
    <3> QED
      BY <1>0, <2>1, <2>2, <3>1, <3>2, ViewGrows
  <2> QED
    BY <2>1, <2>4, <2>5 DEF NothingForgotten
<1>9. ASSUME NEW s \in Sessions, ClickSession(s) PROVE NothingForgotten'
  <2>1. PICK k \in Free : call' = [call EXCEPT ![k] = Fetch("get", "click", s)]
    BY <1>9 DEF ClickSession
  <2>2. \A q \in Questions : Posting(q) => Posting(q)'
    BY <2>1 DEF Posting, Free
  <2> QED
    BY <1>1, <1>9, <2>2 DEF ClickSession, app
<1>10. CASE ClickNew
  <2>1. PICK k \in Free : call' = [call EXCEPT ![k] = Fetch("create", "click", NoSession)]
    BY <1>10 DEF ClickNew
  <2>2. \A q \in Questions : Posting(q) => Posting(q)'
    BY <2>1 DEF Posting, Free
  <2> QED
    BY <1>1, <1>10, <2>2 DEF ClickNew, app
<1>11. CASE UNCHANGED <<call, app>>
  BY <1>1, <1>11 DEF app, Posting
<1>12. ASSUME Reload \/ (\E k \in Calls : HandleCreateSession(k)) PROVE NothingForgotten'
  BY <1>2, <1>12 DEF Reload, HandleCreateSession
<1>13. ASSUME ExpireCookie \/ (\E q \in Questions : Work(q)) \/ UNCHANGED vars PROVE NothingForgotten'
  BY <1>11, <1>13 DEF ExpireCookie, Work, vars
<1> QED
  BY <1>3, <1>4, <1>5, <1>6, <1>7, <1>8, <1>9, <1>10, <1>11, <1>12, <1>13 DEF Next, User, Receive

\* No question is silently dropped: once nothing is in flight, whatever was lost and however
\* the user clicked about, the last question put is answered or an error is shown
\* (submitMessage and its catch).
THEOREM NoSilentFailureAlways == Spec => []NoSilentFailure
<1>1. Init => NothingForgotten
  BY DEF Init, NothingForgotten
<1>2. ASSUME TypesInv, NothingForgotten PROVE NoSilentFailure
  BY <1>2 DEF NothingForgotten, NoSilentFailure, AnsweredIn, Posting, Free
<1>3. ASSUME TypesInv, NothingForgotten, [Next]_vars PROVE NothingForgotten'
  BY <1>3, ForgottenStep
<1> QED
  BY TypesStart, TypesStep, <1>1, <1>2, <1>3, PTL DEF Spec

-----------------------------------------------------------------------------
(* A user who waits for the call in flight. *)

\* One call in flight, and while it posts a question, that question is in the view, under
\* the session it is put to, and not answered yet.
AtMostOne == \A k, l \in Calls : call[k].kind # "idle" /\ call[l].kind # "idle" => k = l
AskingOf(k) ==
  call[k].kind = "post" =>
    /\ shown = call[k].session
    /\ \E j \in DOMAIN view : view[j] = <<call[k].question, "local">>
    /\ \A j \in DOMAIN view : view[j] # <<call[k].question, "assistant">>
Asking == \A k \in Calls : AskingOf(k)
UserPut == \A q \in Questions : step[q] # "new" => q \in typed
PatientInv == AtMostOne /\ Asking /\ UserPut /\ ViewTruth

\* A step replaces one call, which was in flight or finds all others done.
LEMMA CallSteps ==
  ASSUME TypesInv, Patient, [Next]_vars
  PROVE  \/ UNCHANGED call
         \/ Reload
         \/ \E k \in Calls : /\ call[k].kind # "idle" \/ Free = Calls
                             /\ \A l \in Calls \ {k} : call'[l] = call[l]
<1> USE TypesFacts
<1>1. ASSUME NEW k \in Calls, Handle(k) \/ Lose(k)
      PROVE  call[k].kind # "idle" /\ \A l \in Calls \ {k} : call'[l] = call[l]
  <2>1. \E c : call' = [call EXCEPT ![k] = c]
    BY <1>1 DEF Handle, ListSessions, OpenNewSession, GetSession, Post, PostEnds, Lose, Reply
  <2>2. call[k].kind # "idle"
    BY <1>1 DEF Handle, ListSessions, OpenNewSession, GetSession, Post, PostEnds, Lose, CallOf
  <2> QED
    BY <2>1, <2>2
<1>2. ASSUME NEW k \in Calls, Receive(k)
      PROVE  call[k].kind # "idle" /\ \A l \in Calls \ {k} : call'[l] = call[l]
  <2>1. \E c : call' = [call EXCEPT ![k] = c]
    <3>1. CASE Bootstrap(k) /\ call[k].sessions = {}
      BY <3>1 DEF Bootstrap, Reply
    <3>2. CASE Bootstrap(k) /\ call[k].sessions # {}
      BY <3>2 DEF Bootstrap, Reply
    <3> QED
      BY <1>2, <3>1, <3>2
         DEF Receive, HandleCreateSession, OpenSession, OnStatus, OnComplete, RefreshSessions, FailCall, Reply, Done
  <2>2. call[k].kind # "idle"
    BY <1>2 DEF Receive, Bootstrap, HandleCreateSession, OpenSession, OnStatus, OnComplete, RefreshSessions,
                FailCall, Back, CallOf
  <2> QED
    BY <2>1, <2>2
<1>3. ASSUME User, ~Reload
      PROVE  Free = Calls /\ \E k \in Calls : \A l \in Calls \ {k} : call'[l] = call[l]
  <2>1. Free = Calls
    BY <1>3 DEF User, ClickSession, ClickNew, SubmitMessage, MayAct
  <2>2. \E k \in Calls : \E c : call' = [call EXCEPT ![k] = c]
    BY <1>3 DEF User, ClickSession, ClickNew, SubmitMessage, Free
  <2> QED
    BY <2>1, <2>2
<1>4. CASE ExpireCookie \/ (\E q \in Questions : Work(q)) \/ UNCHANGED vars
  BY <1>4 DEF ExpireCookie, Work, vars
<1> QED
  BY <1>1, <1>2, <1>3, <1>4 DEF Next

\* The reloaded page has one call, which lists the sessions.
LEMMA ReloadCalls ==
  ASSUME TypesInv, Reload
  PROVE  \E k \in Calls :
           /\ call'[k].kind = "list" /\ call'[k].phase = "sent" /\ call'[k].cookie = jar
           /\ \A l \in Calls \ {k} : call'[l].kind = "idle" /\ call'[l].phase = "none"
<1>1. PICK k \in Calls :
        call' = [c \in Calls |-> IF c = k THEN Fetch("list", "boot", NoSession) ELSE NoCall]
  BY DEF Reload
<1> DEFINE f == Fetch("list", "boot", NoSession)
<1>2. f.kind = "list" /\ f.phase = "sent" /\ f.cookie = jar
  BY TypesFacts, FetchFields
<1> HIDE DEF f
<1>3. \A c \in Calls : call'[c] = IF c = k THEN f ELSE NoCall
  BY <1>1 DEF f
<1> QED
  BY <1>2, <1>3, NoCallFields

LEMMA OneStep ==
  ASSUME TypesInv, Patient, AtMostOne, [Next]_vars
  PROVE  AtMostOne'
<1>1. CASE Reload
  BY <1>1, ReloadCalls DEF AtMostOne
<1>2. CASE UNCHANGED call
  BY <1>2 DEF AtMostOne
<1>3. CASE \E k \in Calls : /\ call[k].kind # "idle" \/ Free = Calls
                            /\ \A l \in Calls \ {k} : call'[l] = call[l]
  BY <1>3 DEF AtMostOne, Free
<1> QED
  BY <1>1, <1>2, <1>3, CallSteps

\* What run_message serves, the user has put.
LEMMA UserPutStep ==
  ASSUME TypesInv, UserPut, [Next]_vars
  PROVE  UserPut'
<1> USE TypesFacts
<1>0. typed \subseteq typed'
  <2>1. ASSUME NEW k \in Calls, Handle(k) \/ Receive(k) \/ Lose(k) PROVE UNCHANGED typed
    BY <2>1 DEF Handle, ListSessions, OpenNewSession, GetSession, Post, PostEnds, Lose,
                Receive, Bootstrap, HandleCreateSession, OpenSession, OnStatus, OnComplete, RefreshSessions, FailCall
  <2>2. ASSUME User \/ ExpireCookie PROVE typed \subseteq typed'
    BY <2>2 DEF User, ClickSession, ClickNew, SubmitMessage, Reload, ExpireCookie
  <2> QED
    BY <2>1, <2>2 DEF Next, Work, vars
<1>1. ASSUME NEW q \in Questions, step[q] = "new", step'[q] # "new" PROVE q \in typed
  <2>1. step \in [Questions -> {"new"} \cup Working \cup Ended]
    BY Maps DEF ServiceInv
  <2>2. ASSUME NEW p \in Questions, NEW b \in Browsers, NEW s \in Sessions, PostMessage(p, b, s) PROVE q = p
    BY <1>1, <2>1, <2>2 DEF PostMessage, Go
  <2>3. ASSUME NEW k \in Calls, Post(k) PROVE q \in typed
    <3>1. call[k].question \in typed /\ call[k].question \in Questions /\ call[k].session \in Sessions
      BY <2>3 DEF Post, CallOf
    <3> QED
      BY <2>2, <2>3, <3>1 DEF Post
  <2>4. ASSUME NEW p \in Questions, Serve(p) PROVE FALSE
    <3>1. step[p] \in Working /\ \E next : Go(p, next)
      BY <2>4 DEF Serve, FindSession, SaveQuestion, Plan, GenerateSql, RunQuery, Summarize, SaveAnswer,
                  FailStorage, Compose, Raise, Working
    <3> QED
      BY <1>1, <2>1, <3>1 DEF Go, Working
  <2>5. ~UNCHANGED step
    BY <1>1
  <2>6. ASSUME NEW k \in Calls, Handle(k) \/ Receive(k) \/ Lose(k), ~Post(k) PROVE UNCHANGED step
    BY <2>6 DEF Handle, ListSessions, OpenNewSession, CreateSession, GetSession, PostEnds, Lose, service,
                Receive, Bootstrap, HandleCreateSession, OpenSession, OnStatus, OnComplete, RefreshSessions, FailCall
  <2>7. ASSUME User \/ ExpireCookie \/ UNCHANGED vars PROVE UNCHANGED step
    BY <2>7 DEF User, ClickSession, ClickNew, SubmitMessage, Reload, ExpireCookie, vars, service
  <2>8. ASSUME Restart PROVE FALSE
    BY <1>1, <2>1, <2>8 DEF Restart, Working
  <2> QED
    BY <2>3, <2>4, <2>5, <2>6, <2>7, <2>8 DEF Next, Work
<1> QED
  BY <1>0, <1>1 DEF UserPut

LEMMA AskingStep ==
  ASSUME TypesInv, Patient, PatientInv, [Next]_vars
  PROVE  Asking'
<1> USE TypesFacts
<1>0. view \in Seq(Entry) /\ shown = active
  BY DEF AppOK
<1>1. ASSUME NEW k \in Calls, Handle(k) \/ Lose(k) \/ OnStatus(k) PROVE Asking'
  <2>1. UNCHANGED <<shown, view>>
    BY <1>1 DEF Handle, ListSessions, OpenNewSession, GetSession, Post, PostEnds, Lose, OnStatus, app
  <2>2. \A l \in Calls : /\ call'[l].kind = call[l].kind /\ call'[l].question = call[l].question
                         /\ call[l].kind = "post" => call'[l].session = call[l].session
    BY <1>1, CallGoesOn
  <2> QED
    BY <2>1, <2>2 DEF PatientInv, Asking, AskingOf
<1>2. ASSUME NEW k \in Calls, call'[k].kind # "post", \A l \in Calls \ {k} : call'[l] = call[l],
             call[k].kind # "idle" \/ Free = Calls
      PROVE  Asking'
  BY <1>2 DEF PatientInv, AtMostOne, Free, Asking, AskingOf
<1>3. ASSUME NEW k \in Calls, Receive(k), ~OnStatus(k) PROVE Asking'
  <2>1. call[k].kind # "idle"
    BY <1>3 DEF Receive, Bootstrap, HandleCreateSession, OpenSession, OnComplete, RefreshSessions,
                FailCall, Back, CallOf
  <2>2. \E c : call' = [call EXCEPT ![k] = c] /\ c.kind # "post"
    <3> DEFINE mine == [NoCall EXCEPT !.why = "boot", !.phase = "sent", !.cookie = call[k].cookie]
    <3>1. CASE Bootstrap(k) /\ call[k].sessions = {}
      <4>1. call' = [call EXCEPT ![k] = [mine EXCEPT !.kind = "create"]]
        BY <3>1 DEF Bootstrap, Reply
      <4>2. [mine EXCEPT !.kind = "create"].kind = "create"
        BY DEF NoCall
      <4> QED
        BY <4>1, <4>2
    <3>2. CASE Bootstrap(k) /\ call[k].sessions # {}
      <4>1. PICK s : call' = [call EXCEPT ![k] = [mine EXCEPT !.kind = "get", !.session = s]]
        BY <3>2 DEF Bootstrap, Reply
      <4>2. [mine EXCEPT !.kind = "get", !.session = s].kind = "get"
        BY DEF NoCall
      <4> QED
        BY <4>1, <4>2
    <3>3. CASE OnComplete(k)
      <4>1. Fetch("list", "refresh", NoSession).kind = "list"
        BY FetchFields
      <4> QED
        BY <3>3, <4>1 DEF OnComplete, Reply
    <3>4. CASE HandleCreateSession(k) \/ OpenSession(k) \/ RefreshSessions(k) \/ FailCall(k)
      BY <3>4, NoCallFields DEF HandleCreateSession, OpenSession, RefreshSessions, FailCall, Done
    <3> QED
      BY <1>3, <3>1, <3>2, <3>3, <3>4 DEF Receive
  <2> QED
    BY <1>2, <2>1, <2>2
<1>4. ASSUME NEW q \in Questions, SubmitMessage(q) PROVE Asking'
  <2> DEFINE m == <<q, "local">>
             c == [Fetch("post", "click", active) EXCEPT !.question = q]
  <2>1. /\ shown \in Sessions /\ view' = Append(view, m) /\ UNCHANGED shown
        /\ q \notin typed /\ Free = Calls
    BY <1>0, <1>4, TabAssumption DEF SubmitMessage, MayAct, AppOK
  <2>2. m \in Entry
    BY DEF Entry
  <2>3. PICK k \in Calls : call' = [call EXCEPT ![k] = c]
    BY <1>4 DEF SubmitMessage, Free
  <2>4. c.session = shown /\ c.question = q
    BY <1>0 DEF Fetch, NoCall
  <2>5. \A j \in DOMAIN view : view[j] # <<q, "assistant">>
    <3>1. ASSUME NEW j \in DOMAIN view, view[j] = <<q, "assistant">> PROVE FALSE
      <4>1. <<shown, q, "assistant">> \in saved
        BY <3>1 DEF PatientInv, ViewTruth
      <4>2. step[q] # "new"
        BY <2>1, <4>1 DEF ServiceInv, Stored, StoredOf
      <4> QED
        BY <2>1, <4>2 DEF PatientInv, UserPut
    <3> QED
      BY <3>1
  <2>6. \A j \in DOMAIN view' : view'[j] # <<q, "assistant">>
    <3>1. \A j \in DOMAIN view' : view'[j] = m \/ (j \in DOMAIN view /\ view'[j] = view[j])
      BY <1>0, <2>1, <2>2, ViewGrows
    <3>2. m # <<q, "assistant">>
      OBVIOUS
    <3> HIDE DEF m
    <3> QED
      BY <2>5, <3>1, <3>2
  <2>7. \E j \in DOMAIN view' : view'[j] = m
    BY <1>0, <2>1, <2>2, ViewGrows
  <2> HIDE DEF c
  <2>8. call'[k] = c /\ \A l \in Calls \ {k} : call'[l].kind = "idle"
    BY <2>1, <2>3 DEF Free
  <2> QED
    BY <2>1, <2>4, <2>6, <2>7, <2>8 DEF Asking, AskingOf
<1>5. ASSUME NEW s \in Sessions, ClickSession(s) PROVE Asking'
  <2>1. PICK k \in Free : call' = [call EXCEPT ![k] = Fetch("get", "click", s)]
    BY <1>5 DEF ClickSession
  <2>2. Fetch("get", "click", s).kind = "get"
    BY FetchFields
  <2> QED
    BY <1>2, <1>5, <2>1, <2>2 DEF Free, ClickSession, MayAct
<1>6. CASE ClickNew
  <2>1. PICK k \in Free : call' = [call EXCEPT ![k] = Fetch("create", "click", NoSession)]
    BY <1>6 DEF ClickNew
  <2>2. Fetch("create", "click", NoSession).kind = "create"
    BY FetchFields
  <2> QED
    BY <1>2, <1>6, <2>1, <2>2 DEF Free, ClickNew, MayAct
<1>7. CASE Reload
  BY <1>7, ReloadCalls DEF Asking, AskingOf
<1>8. CASE UNCHANGED <<call, app>>
  BY <1>8 DEF PatientInv, Asking, AskingOf, app
<1>9. CASE ExpireCookie \/ (\E q \in Questions : Work(q)) \/ UNCHANGED vars
  BY <1>8, <1>9 DEF ExpireCookie, Work, vars
<1> QED
  BY <1>1, <1>3, <1>4, <1>5, <1>6, <1>7, <1>8, <1>9 DEF Next, User, Receive

\* What ViewTruth says of the i-th entry.
TrueEntry(i) ==
  LET q == view[i][1] IN
  /\ view[i][2] # "local" => <<shown, q, view[i][2]>> \in saved
  /\ view[i][2] = "assistant" =>
       /\ \E j \in 1 .. i - 1 : view[j] \in {<<q, "local">>, <<q, "user">>}
       /\ \A j \in 1 .. i - 1 : view[j] # view[i]

LEMMA TruthStep ==
  ASSUME TypesInv, Patient, PatientInv, [Next]_vars
  PROVE  ViewTruth'
<1> USE TypesFacts
<1>0. view \in Seq(Entry) /\ shown = active /\ Grows /\ \A i \in DOMAIN view : TrueEntry(i)
  BY TypesStep DEF AppOK, PatientInv, ViewTruth, TrueEntry
<1> SUFFICES \A i \in DOMAIN view' : TrueEntry(i)'
  BY DEF ViewTruth, TrueEntry
<1>1. CASE UNCHANGED <<shown, view>>
  BY <1>0, <1>1 DEF TrueEntry, Grows
<1>2. CASE view' = <<>>
  BY <1>2
<1>3. ASSUME NEW m \in Entry, view' = Append(view, m), UNCHANGED shown,
             m[2] # "local" => <<shown, m[1], m[2]>> \in saved,
             m[2] = "assistant" => /\ \E j \in DOMAIN view : view[j] \in {<<m[1], "local">>, <<m[1], "user">>}
                                   /\ \A j \in DOMAIN view : view[j] # m
      PROVE  \A i \in DOMAIN view' : TrueEntry(i)'
  <2>1. /\ DOMAIN view = 1 .. Len(view) /\ Len(view) \in Nat
        /\ \A i \in DOMAIN view : i \in DOMAIN view' /\ view'[i] = view[i]
        /\ view'[Len(view) + 1] = m
        /\ \A i \in DOMAIN view' : i \in DOMAIN view \/ i = Len(view) + 1
    BY <1>0, <1>3, ViewGrows
  <2>2. ASSUME NEW i \in DOMAIN view PROVE TrueEntry(i)'
    <3>1. \A j \in 1 .. i - 1 : j \in DOMAIN view /\ view'[j] = view[j]
      BY <2>1
    <3>2. TrueEntry(i) /\ view'[i] = view[i] /\ saved \subseteq saved'
      BY <1>0, <2>1 DEF Grows
    <3> QED
      BY <1>3, <3>1, <3>2 DEF TrueEntry
  <2>3. ASSUME NEW i, i = Len(view) + 1 PROVE TrueEntry(i)'
    <3>1. \A j : j \in 1 .. i - 1 <=> j \in DOMAIN view
      BY <2>1, <2>3
    <3>2. /\ view'[i] = m
          /\ \A j \in DOMAIN view : view'[j] = view[j]
      BY <2>1, <2>3
    <3>3. saved \subseteq saved'
      BY <1>0 DEF Grows
    <3>4. m[2] # "local" => <<shown', m[1], m[2]>> \in saved'
      BY <1>3, <3>3
    <3>5. m[2] = "assistant" => /\ \E j \in 1 .. i - 1 : view'[j] \in {<<m[1], "local">>, <<m[1], "user">>}
                                /\ \A j \in 1 .. i - 1 : view'[j] # m
      BY <1>3, <3>1, <3>2
    <3> QED
      BY <3>2, <3>4, <3>5 DEF TrueEntry
  <2> QED
    BY <2>1, <2>2, <2>3
<1>4. ASSUME NEW q \in Questions, SubmitMessage(q) PROVE \A i \in DOMAIN view' : TrueEntry(i)'
  <2> DEFINE m == <<q, "local">>
  <2>1. m \in Entry /\ m[2] = "local"
    BY DEF Entry
  <2>2. UNCHANGED shown /\ (view' = view \/ view' = Append(view, m))
    BY <1>4 DEF SubmitMessage
  <2> HIDE DEF m
  <2> QED
    BY <1>1, <1>3, <2>1, <2>2
<1>5. ASSUME NEW k \in Calls, OpenSession(k) PROVE \A i \in DOMAIN view' : TrueEntry(i)'
  <2>1. view' = call[k].history /\ shown' = call[k].session /\ HistoryOf(call[k].session, call[k].history)
    BY <1>5 DEF OpenSession, Back, CallOf
  <2> DEFINE h == call[k].history
  <2>2. /\ h \in Seq(Message) /\ DOMAIN h = 1 .. Len(h) /\ Len(h) \in Nat
        /\ \A i \in DOMAIN h : <<shown', h[i][1], h[i][2]>> \in saved'
        /\ \A i, j \in DOMAIN h : h[i] = h[j] => i = j
        /\ \A i \in DOMAIN h : h[i][2] = "assistant" => \E j \in 1 .. i - 1 : h[j] = <<h[i][1], "user">>
    <3>1. HistoryOf(call[k].session, h) /\ shown' = call[k].session /\ saved \subseteq saved'
      BY <1>0, <2>1 DEF Grows
    <3> HIDE DEF h
    <3>2. h \in Seq(Message) /\ \A i \in DOMAIN h : <<shown', h[i][1], h[i][2]>> \in saved'
      BY <3>1 DEF HistoryOf
    <3>3. DOMAIN h = 1 .. Len(h) /\ Len(h) \in Nat
      BY <3>2
    <3> QED
      BY <3>1, <3>2, <3>3 DEF HistoryOf
  <2> HIDE DEF h
  <2>3. ASSUME NEW i \in DOMAIN h PROVE \A j \in 1 .. i - 1 : h[j] # h[i]
    BY <2>2, <2>3
  <2>4. view' = h
    BY <2>1 DEF h
  <2>5. ASSUME NEW i \in DOMAIN view' PROVE TrueEntry(i)'
    BY <2>2, <2>3, <2>4, <2>5 DEF TrueEntry
  <2> QED
    BY <2>5
<1>6. ASSUME NEW k \in Calls, OnComplete(k) PROVE \A i \in DOMAIN view' : TrueEntry(i)'
  <2> DEFINE q == call[k].question
             m == <<q, "assistant">>
  <2>1. /\ call[k].kind = "post" /\ q \in Questions /\ step[q] = "done"
        /\ target[q] = call[k].session /\ call[k].session \in Sessions
    BY <1>6 DEF OnComplete, Back, CallOf
  <2>2. AskingOf(k)
    BY DEF PatientInv, Asking
  <2>3. shown = call[k].session /\ (\E j \in DOMAIN view : view[j] = <<q, "local">>)
        /\ \A j \in DOMAIN view : view[j] # m
    BY <2>1, <2>2 DEF AskingOf
  <2>4. <<shown, q, "assistant">> \in saved
    BY <2>1, <2>3 DEF ServiceInv, Stored, StoredOf
  <2>5. view' = Append(view, m) /\ UNCHANGED shown
    BY <1>6, <2>1, <2>3, TabAssumption DEF OnComplete
  <2>6. m \in Entry /\ m[1] = q /\ m[2] = "assistant"
    BY <2>1 DEF Entry
  <2> HIDE DEF m
  <2> QED
    BY <1>3, <2>3, <2>4, <2>5, <2>6
<1>7. ASSUME Reload \/ (\E k \in Calls : HandleCreateSession(k)) PROVE view' = <<>>
  BY <1>7 DEF Reload, HandleCreateSession
<1> QED
  BY <1>1, <1>2, <1>4, <1>5, <1>6, <1>7, ViewSteps

LEMMA PatientStart == Init => PatientInv
<1> SUFFICES ASSUME Init PROVE PatientInv
  OBVIOUS
<1>1. PICK k \in Calls : call = [c \in Calls |-> IF c = k THEN Fetch("list", "boot", NoSession) ELSE NoCall]
  BY DEF Init
<1>2. /\ call[k].kind = "list" /\ \A c \in Calls \ {k} : call[c].kind = "idle"
  BY <1>1 DEF Fetch, NoCall
<1>3. AtMostOne
  BY <1>2 DEF AtMostOne
<1>4. \A c \in Calls : call[c].kind # "post"
  BY <1>2
<1>5. Asking
  BY <1>4 DEF Asking, AskingOf
<1>6. UserPut
  BY DEF Init, ServiceInit, UserPut
<1>7. ViewTruth
  BY DEF Init, ViewTruth
<1> QED
  BY <1>3, <1>5, <1>6, <1>7 DEF PatientInv

LEMMA PatientStep ==
  ASSUME TypesInv, Patient, PatientInv, [Next]_vars
  PROVE  PatientInv'
<1>1. AtMostOne' /\ UserPut'
  BY OneStep, UserPutStep DEF PatientInv
<1> QED
  BY <1>1, AskingStep, TruthStep DEF PatientInv

\* For a user who does nothing while a call is in flight: what is shown under a session was
\* said in it, and an answer is shown once and after its question (openSession,
\* submitMessage).
THEOREM ViewTruthAlways ==
  ASSUME Patient
  PROVE  Spec => []ViewTruth
<1>1. PatientInv => ViewTruth
  BY DEF PatientInv
<1>2. TypesInv /\ PatientInv /\ [Next]_vars => PatientInv'
  BY PatientStep
<1> QED
  BY TypesStart, TypesStep, PatientStart, <1>1, <1>2, PTL DEF Spec

-----------------------------------------------------------------------------
(* The cookie of a user who waits, while it lasts. *)

\* A call goes out with the cookie of the page, and a reply brings that one, or the first.
CookieOf(k) ==
  /\ call[k].phase = "sent" => call[k].cookie = jar
  /\ call[k].kind \in {"list", "create", "get"} /\ call[k].phase = "back" =>
       /\ call[k].cookie \in Browsers
       /\ jar = NoOne \/ jar = call[k].cookie
  /\ call[k].kind \in {"create", "get"} /\ call[k].phase = "back" =>
       owner[call[k].session] = call[k].cookie
Cookies == \A k \in Calls : CookieOf(k)
Reach == active # NoSession => jar # NoOne /\ owner[active] = jar
CookieInv == Cookies /\ Reach

\* Sessions keep their owner.
LEMMA CookieKept ==
  ASSUME TypesInv, Grows, NEW l \in Calls, CookieOf(l), call'[l] = call[l], UNCHANGED jar
  PROVE  CookieOf(l)'
<1>1. ASSUME call[l].kind \in {"create", "get"}, call[l].phase = "back"
      PROVE  owner'[call[l].session] = call[l].cookie
  <2>1. call[l].session \in Sessions /\ owner[call[l].session] = call[l].cookie /\ call[l].cookie \in Browsers
    BY <1>1, TypesFacts DEF CallOf, CookieOf
  <2> QED
    BY <2>1, ChatAssumption DEF Grows
<1> QED
  BY <1>1 DEF CookieOf

LEMMA ReachKept ==
  ASSUME TypesInv, Grows, Reach, UNCHANGED <<jar, active>>
  PROVE  Reach'
BY DEF TypesInv, AppOK, Reach, Grows

\* The backend answers with the cookie it got, or with a new one.
LEMMA HandleCookie ==
  ASSUME TypesInv, Grows, NEW k \in Calls, CookieOf(k), Handle(k) \/ Lose(k)
  PROVE  CookieOf(k)'
<1> USE TypesFacts
<1>0. UNCHANGED jar
  BY DEF Handle, ListSessions, OpenNewSession, GetSession, Post, PostEnds, Lose
<1>1. ASSUME NEW b \in Browsers, GetBrowserId(k, b), call[k].phase = "sent"
      PROVE  jar = NoOne \/ jar = b
  BY <1>1 DEF GetBrowserId, CookieOf
<1>2. CASE ListSessions(k)
  <2>1. PICK b \in Browsers : /\ GetBrowserId(k, b)
          /\ call' = [call EXCEPT ![k] = [call[k] EXCEPT !.phase = "back", !.cookie = b,
                                                         !.sessions = {s \in Sessions : owner[s] = b}]]
    BY <1>2 DEF ListSessions, Reply
  <2> DEFINE c == [call[k] EXCEPT !.phase = "back", !.cookie = b, !.sessions = {s \in Sessions : owner[s] = b}]
  <2>2. c.kind = "list" /\ c.phase = "back" /\ c.cookie = b
    BY <1>2 DEF ListSessions, CallRecord
  <2>3. call'[k] = c
    BY <2>1
  <2>4. jar = NoOne \/ jar = b
    BY <1>1, <1>2, <2>1 DEF ListSessions
  <2> HIDE DEF c
  <2> QED
    BY <1>0, <2>2, <2>3, <2>4 DEF CookieOf
<1>3. CASE OpenNewSession(k)
  <2>1. PICK b \in Browsers, s \in Sessions : /\ GetBrowserId(k, b) /\ CreateSession(s, b)
          /\ call' = [call EXCEPT ![k] = [call[k] EXCEPT !.phase = "back", !.cookie = b, !.session = s]]
    BY <1>3 DEF OpenNewSession, Reply
  <2> DEFINE c == [call[k] EXCEPT !.phase = "back", !.cookie = b, !.session = s]
  <2>2. c.kind = "create" /\ c.phase = "back" /\ c.cookie = b /\ c.session = s
    BY <1>3 DEF OpenNewSession, CallRecord
  <2>3. call'[k] = c
    BY <2>1
  <2>4. jar = NoOne \/ jar = b
    BY <1>1, <1>3, <2>1 DEF OpenNewSession
  <2>5. owner'[s] = b
    BY <2>1, Maps DEF CreateSession, ServiceInv
  <2> HIDE DEF c
  <2> QED
    BY <1>0, <2>2, <2>3, <2>4, <2>5 DEF CookieOf
<1>4. CASE GetSession(k)
  <2> DEFINE h == History(call[k].session)
  <2>1. PICK b \in Browsers : /\ GetBrowserId(k, b)
          /\ \/ /\ owner[call[k].session] = b
                /\ call' = [call EXCEPT ![k] = [call[k] EXCEPT !.phase = "back", !.cookie = b, !.history = h]]
             \/ call' = [call EXCEPT ![k] = [call[k] EXCEPT !.phase = "lost"]]
    BY <1>4 DEF GetSession, Reply
  <2> HIDE DEF h
  <2>2. CASE call' = [call EXCEPT ![k] = [call[k] EXCEPT !.phase = "lost"]]
    <3>1. call'[k] = [call[k] EXCEPT !.phase = "lost"]
      BY <2>2
    <3>2. call'[k].phase = "lost"
      BY <3>1 DEF CallRecord
    <3> QED
      BY <3>2 DEF CookieOf
  <2>3. CASE /\ owner[call[k].session] = b
             /\ call' = [call EXCEPT ![k] = [call[k] EXCEPT !.phase = "back", !.cookie = b, !.history = h]]
    <3> DEFINE c == [call[k] EXCEPT !.phase = "back", !.cookie = b, !.history = h]
    <3>1. c.kind = "get" /\ c.phase = "back" /\ c.cookie = b /\ c.session = call[k].session
      BY <1>4 DEF GetSession, CallRecord
    <3>2. call'[k] = c
      BY <2>3
    <3>3. jar = NoOne \/ jar = b
      BY <1>1, <1>4, <2>1 DEF GetSession
    <3>4. UNCHANGED owner
      BY <1>4 DEF GetSession, service, store
    <3> HIDE DEF c
    <3> QED
      BY <1>0, <2>3, <3>1, <3>2, <3>3, <3>4 DEF CookieOf
  <2> QED
    BY <2>1, <2>2, <2>3
<1>5. CASE Post(k) \/ PostEnds(k) \/ Lose(k)
  <2>1. \E phase : /\ call' = [call EXCEPT ![k] = [call[k] EXCEPT !.phase = phase]]
                   /\ phase # "sent" /\ (phase = "back" => call[k].kind = "post")
    BY <1>5 DEF Post, PostEnds, Lose, Reply
  <2>2. PICK phase : /\ call'[k] = [call[k] EXCEPT !.phase = phase]
                     /\ phase # "sent" /\ (phase = "back" => call[k].kind = "post")
    BY <2>1
  <2>3. call'[k].kind = call[k].kind /\ call'[k].phase = phase
    BY <2>2 DEF CallRecord
  <2> QED
    BY <2>2, <2>3 DEF CookieOf
<1> QED
  BY <1>2, <1>3, <1>4, <1>5 DEF Handle

LEMMA CookieStep ==
  ASSUME TypesInv, Patient, ~Expiry, AtMostOne, CookieInv, [Next]_vars
  PROVE  CookieInv'
<1> USE TypesFacts
<1>0. Grows /\ Cookies /\ Reach
  BY TypesStep DEF CookieInv
<1>1. ASSUME UNCHANGED <<jar, active>>, NEW k \in Calls, \A l \in Calls \ {k} : call'[l] = call[l], CookieOf(k)'
      PROVE  CookieInv'
  BY <1>0, <1>1, CookieKept, ReachKept DEF CookieInv, Cookies
<1>2. ASSUME NEW k \in Calls, call[k].kind # "idle" \/ Free = Calls,
             \A l \in Calls \ {k} : call'[l] = call[l], CookieOf(k)'
      PROVE  Cookies'
  <2>1. ASSUME NEW l \in Calls \ {k} PROVE CookieOf(l)'
    <3>1. call'[l].kind = "idle" /\ call'[l].phase = "none"
      BY <1>2 DEF AtMostOne, Free, CallOf
    <3> QED
      BY <3>1 DEF CookieOf
  <2> QED
    BY <1>2, <2>1 DEF Cookies
<1>3. ASSUME NEW k \in Calls, Handle(k) \/ Lose(k) PROVE CookieInv'
  <2>1. UNCHANGED <<jar, active>>
    BY <1>3 DEF Handle, ListSessions, OpenNewSession, GetSession, Post, PostEnds, Lose, app
  <2>2. \E c : call' = [call EXCEPT ![k] = c]
    BY <1>3 DEF Handle, ListSessions, OpenNewSession, GetSession, Post, PostEnds, Lose, Reply
  <2>3. CookieOf(k)'
    BY <1>0, <1>3, HandleCookie DEF Cookies
  <2> QED
    BY <1>1, <2>1, <2>2, <2>3
<1>4. ASSUME NEW k \in Calls, NEW kind \in {"list", "create", "get", "post"}, NEW why \in {"boot", "click", "refresh"},
             NEW session \in Sessions \cup {NoSession}, UNCHANGED <<jar, active>>,
             \/ call' = [call EXCEPT ![k] = Fetch(kind, why, session)]
             \/ \E q : call' = [call EXCEPT ![k] = [Fetch(kind, why, session) EXCEPT !.question = q]]
      PROVE  CookieInv'
  <2> DEFINE f == Fetch(kind, why, session)
  <2>1. f \in CallRecord /\ f.phase = "sent" /\ f.cookie = jar
    BY FetchFields
  <2>2. \A q : [f EXCEPT !.question = q].phase = "sent" /\ [f EXCEPT !.question = q].cookie = jar
    <3> HIDE DEF f
    <3> QED
      BY <2>1 DEF CallRecord
  <2>3. \E c : call' = [call EXCEPT ![k] = c] /\ c.phase = "sent" /\ c.cookie = jar
    <3>1. call' = [call EXCEPT ![k] = f] \/ \E q : call' = [call EXCEPT ![k] = [f EXCEPT !.question = q]]
      BY <1>4
    <3> HIDE DEF f
    <3> QED
      BY <2>1, <2>2, <3>1
  <2>4. call'[k].phase = "sent" /\ call'[k].cookie = jar /\ \A l \in Calls \ {k} : call'[l] = call[l]
    BY <2>3
  <2>5. CookieOf(k)'
    BY <1>4, <2>4 DEF CookieOf
  <2> QED
    BY <1>1, <1>4, <2>4, <2>5
<1>5. ASSUME NEW k \in Calls, Done(k), call[k].kind # "idle" PROVE Cookies'
  <2>1. call'[k] = NoCall /\ \A l \in Calls \ {k} : call'[l] = call[l]
    BY <1>5 DEF Done
  <2>2. CookieOf(k)'
    BY <2>1, NoCallFields DEF CookieOf
  <2> QED
    BY <1>2, <1>5, <2>1, <2>2
<1>6. ASSUME NEW k \in Calls, Bootstrap(k) PROVE CookieInv'
  <2> DEFINE mine == [NoCall EXCEPT !.why = "boot", !.phase = "sent", !.cookie = call[k].cookie]
  <2>1. mine.phase = "sent" /\ mine.cookie = call[k].cookie /\ mine \in CallRecord
    <3>1. <<>> \in Seq(Message)
      OBVIOUS
    <3> QED
      BY <3>1 DEF NoCall, CallRecord
  <2>2. \E c : call' = [call EXCEPT ![k] = c] /\ c.phase = "sent" /\ c.cookie = call[k].cookie
    <3>1. \/ call' = [call EXCEPT ![k] = [mine EXCEPT !.kind = "create"]]
          \/ \E s : call' = [call EXCEPT ![k] = [mine EXCEPT !.kind = "get", !.session = s]]
      <4>1. CASE call[k].sessions = {}
        BY <1>6, <4>1 DEF Bootstrap, Reply
      <4>2. CASE call[k].sessions # {}
        BY <1>6, <4>2 DEF Bootstrap, Reply
      <4> QED
        BY <4>1, <4>2
    <3> HIDE DEF mine
    <3>2. [mine EXCEPT !.kind = "create"].phase = "sent" /\ [mine EXCEPT !.kind = "create"].cookie = call[k].cookie
      BY <2>1 DEF CallRecord
    <3>3. ASSUME NEW s
          PROVE  /\ [mine EXCEPT !.kind = "get", !.session = s].phase = "sent"
                 /\ [mine EXCEPT !.kind = "get", !.session = s].cookie = call[k].cookie
      BY <2>1 DEF CallRecord
    <3>4. CASE call' = [call EXCEPT ![k] = [mine EXCEPT !.kind = "create"]]
      BY <3>2, <3>4
    <3>5. ASSUME NEW s, call' = [call EXCEPT ![k] = [mine EXCEPT !.kind = "get", !.session = s]]
          PROVE  \E c : call' = [call EXCEPT ![k] = c] /\ c.phase = "sent" /\ c.cookie = call[k].cookie
      BY <3>3, <3>5
    <3> QED
      BY <3>1, <3>4, <3>5
  <2>3. /\ call'[k].phase = "sent" /\ call'[k].cookie = jar' /\ jar' = call[k].cookie
        /\ \A l \in Calls \ {k} : call'[l] = call[l]
        /\ UNCHANGED <<service, active>>
    BY <1>6, <2>2 DEF Bootstrap
  <2>4. CookieOf(k)'
    BY <2>3 DEF CookieOf
  <2>5. call[k].kind = "list" /\ call[k].phase = "back" /\ CookieOf(k)
    BY <1>0, <1>6 DEF Bootstrap, Back, Cookies
  <2>6. Cookies'
    BY <1>2, <2>3, <2>4, <2>5
  <2>7. active # NoSession => UNCHANGED jar
    BY <1>0, <2>3, <2>5 DEF CookieOf, Reach
  <2>8. Reach'
    BY <1>0, <2>3, <2>7, ReachKept DEF Reach
  <2> QED
    BY <2>6, <2>8 DEF CookieInv
<1>7. ASSUME NEW k \in Calls, HandleCreateSession(k) \/ OpenSession(k) PROVE CookieInv'
  <2>1. /\ jar' = call[k].cookie /\ active' = call[k].session /\ Done(k) /\ UNCHANGED service
        /\ call[k].kind \in {"create", "get"} /\ call[k].phase = "back"
    BY <1>7 DEF HandleCreateSession, OpenSession, Back
  <2>2. CookieOf(k)
    BY <1>0 DEF Cookies
  <2>3. jar' \in Browsers /\ owner'[active'] = jar'
    BY <2>1, <2>2 DEF CookieOf, service, store
  <2>4. Cookies'
    BY <1>5, <2>1
  <2> QED
    BY <2>3, <2>4, ChatAssumption DEF CookieInv, Reach
<1>8. ASSUME NEW k \in Calls, RefreshSessions(k) PROVE CookieInv'
  <2>1. /\ jar' = call[k].cookie /\ Done(k) /\ UNCHANGED <<service, active>>
        /\ call[k].kind = "list" /\ call[k].phase = "back" /\ CookieOf(k)
    BY <1>0, <1>8 DEF RefreshSessions, Back, Cookies
  <2>2. Cookies'
    BY <1>5, <2>1
  <2>3. active # NoSession => UNCHANGED jar
    BY <1>0, <2>1 DEF CookieOf, Reach
  <2>4. Reach'
    BY <1>0, <2>1, <2>3, ReachKept DEF Reach
  <2> QED
    BY <2>2, <2>4 DEF CookieInv
<1>9. ASSUME NEW k \in Calls, OnStatus(k) PROVE CookieInv'
  <2> DEFINE next == events[call[k].question][Len(call[k].history) + 1]
             c == [call[k] EXCEPT !.history = Append(call[k].history, next)]
  <2>1. call' = [call EXCEPT ![k] = c] /\ UNCHANGED <<jar, active>> /\ call[k].kind = "post" /\ call[k].phase = "back"
    BY <1>9 DEF OnStatus, Back, Reply
  <2>2. c.kind = "post" /\ c.phase = "back"
    BY <2>1 DEF CallRecord
  <2> HIDE DEF c
  <2>3. call'[k] = c /\ \A l \in Calls \ {k} : call'[l] = call[l]
    BY <2>1
  <2>4. CookieOf(k)'
    BY <2>2, <2>3 DEF CookieOf
  <2> QED
    BY <1>1, <2>1, <2>3, <2>4
<1>10. ASSUME NEW k \in Calls, OnComplete(k) PROVE CookieInv'
  BY <1>4, <1>10 DEF OnComplete, Reply
<1>11. ASSUME NEW k \in Calls, FailCall(k) PROVE CookieInv'
  <2>1. Done(k) /\ call[k].kind # "idle" /\ UNCHANGED <<jar, active>>
    BY <1>11 DEF FailCall, CallOf
  <2> QED
    BY <1>0, <1>5, <2>1, ReachKept DEF CookieInv
<1>12. ASSUME NEW s \in Sessions, ClickSession(s) PROVE CookieInv'
  BY <1>4, <1>12 DEF ClickSession, Free, app
<1>13. CASE ClickNew
  BY <1>4, <1>13 DEF ClickNew, Free, app
<1>14. ASSUME NEW q \in Questions, SubmitMessage(q) PROVE CookieInv'
  <2>1. active \in Sessions \cup {NoSession}
    BY DEF AppOK
  <2> QED
    BY <1>4, <1>14, <2>1 DEF SubmitMessage, Free
<1>15. CASE Reload
  <2>1. PICK k \in Calls :
           /\ call'[k].kind = "list" /\ call'[k].phase = "sent" /\ call'[k].cookie = jar
           /\ \A l \in Calls \ {k} : call'[l].kind = "idle" /\ call'[l].phase = "none"
    BY <1>15, ReloadCalls
  <2>2. UNCHANGED jar /\ active' = NoSession
    BY <1>15 DEF Reload
  <2>3. ASSUME NEW l \in Calls PROVE CookieOf(l)'
    BY <2>1, <2>2 DEF CookieOf
  <2> QED
    BY <2>2, <2>3 DEF CookieInv, Cookies, Reach
<1>16. ASSUME UNCHANGED <<jar, call, active>> PROVE CookieInv'
  BY <1>0, <1>16, CookieKept, ReachKept DEF CookieInv, Cookies
<1>17. ASSUME (\E q \in Questions : Work(q)) \/ (Restart /\ UNCHANGED <<jar, call, typed, app>>) \/ UNCHANGED vars
       PROVE  CookieInv'
  BY <1>16, <1>17 DEF Work, vars, app
<1>18. ~ExpireCookie
  BY DEF ExpireCookie
<1> QED
  BY <1>3, <1>6, <1>7, <1>8, <1>9, <1>10, <1>11, <1>12, <1>13, <1>14, <1>15, <1>17, <1>18 DEF Next, User, Receive

\* For that user, while the cookie lasts: the session that is open belongs to the browser
\* that the cookie names, so that a reload finds it again (get_browser_id, bootstrap).
THEOREM SessionReachableAlways ==
  ASSUME Patient, ~Expiry
  PROVE  Spec => []SessionReachable
<1>1. ASSUME Init PROVE CookieInv
  <2>1. PICK k \in Calls : call = [c \in Calls |-> IF c = k THEN Fetch("list", "boot", NoSession) ELSE NoCall]
    BY <1>1 DEF Init
  <2>2. Fetch("list", "boot", NoSession).phase = "sent" /\ Fetch("list", "boot", NoSession).cookie = jar
    BY <1>1, FetchFields DEF Init
  <2> DEFINE f == Fetch("list", "boot", NoSession)
  <2>3. \A c \in Calls : call[c] = f \/ call[c] = NoCall
    BY <2>1
  <2> HIDE DEF f
  <2>4. ASSUME NEW c \in Calls PROVE CookieOf(c)
    BY <2>2, <2>3, NoCallFields DEF CookieOf, f
  <2> QED
    BY <1>1, <2>4 DEF CookieInv, Cookies, Reach, Init
<1>2. CookieInv => SessionReachable
  BY DEF CookieInv, Reach, SessionReachable
<1>3. TypesInv /\ PatientInv /\ [Next]_vars => PatientInv'
  BY PatientStep
<1>4. TypesInv /\ PatientInv /\ CookieInv /\ [Next]_vars => CookieInv'
  BY CookieStep DEF PatientInv
<1> QED
  BY TypesStart, TypesStep, PatientStart, <1>1, <1>2, <1>3, <1>4, PTL DEF Spec
====
