---- MODULE ChatServiceProofs ----
(***************************************************************************)
(* Proofs about the chat service: its types, the refinement of             *)
(* Conversation, the titles of sessions and the histories it sends, for    *)
(* any number of browsers, sessions and questions, and whatever fails.     *)
(***************************************************************************)
EXTENDS ChatService, FiniteInduction, TLAPS

\* What run_message has stored, and whom it has found to own the session, by its step.
StoredOf(q) ==
  /\ step[q] # "new" => asker[q] \in Browsers /\ target[q] \in Sessions
  /\ step[q] = "new" => asker[q] = NoOne
  /\ step[q] \in {"new", "find", "ask"} => \A s \in Sessions : <<s, q, "user">> \notin saved
  /\ step[q] \in Working \cup {"new"} => \A s \in Sessions : <<s, q, "assistant">> \notin saved
  /\ step[q] = "ask" => owner[target[q]] = asker[q]
  /\ step[q] \in Working \ {"find", "ask"} => <<target[q], q, "user">> \in saved
  /\ step[q] = "done" => <<target[q], q, "assistant">> \in saved
  /\ \A s \in Sessions : <<s, q, "assistant">> \in saved => <<s, q, "user">> \in saved
Stored == \A q \in Questions : StoredOf(q)

ServiceInv == ServiceTypeOK /\ Stored

-----------------------------------------------------------------------------
(* Types. *)

LEMMA EmptySeq == \A S : <<>> \in Seq(S)
OBVIOUS

LEMMA InitInv == ServiceInit => ServiceInv
<1> SUFFICES ASSUME ServiceInit PROVE ServiceInv
  OBVIOUS
<1> USE DEF ServiceInit
<1>1. stamped \in Seq(Questions \X Role)
  BY EmptySeq
<1>2. events \in [Questions -> Seq({"planning", "generating_sql", "summarizing"})]
  BY EmptySeq
<1>3. owner \in [Sessions -> Browsers \cup {NoOne}]
  OBVIOUS
<1>4. title \in [Sessions -> Questions \cup {"New conversation"}]
  OBVIOUS
<1>5. \A m : m \notin saved
  OBVIOUS
<1>6. asker \in [Questions -> Browsers \cup {NoOne}]
  OBVIOUS
<1>7. target \in [Questions -> Sessions \cup {NoOne}]
  OBVIOUS
<1>8. step \in [Questions -> {"new"} \cup Working \cup Ended]
  OBVIOUS
<1>9. /\ rows \in [Questions -> {"none", "plain", "decimal", "nan"}]
      /\ answer \in [Questions -> Text]
  BY DEF Text
<1>10. Stored
  BY DEF Stored, StoredOf, Working
<1> HIDE DEF ServiceInit
<1>11. ServiceTypeOK
  BY <1>1, <1>2, <1>3, <1>4, <1>5, <1>6, <1>7, <1>8, <1>9 DEF ServiceTypeOK
<1> QED
  BY <1>10, <1>11 DEF ServiceInv

Reported == {"planning", "generating_sql", "summarizing"}

LEMMA AppendStamp ==
  ASSUME stamped \in Seq(Questions \X Role), NEW q \in Questions, NEW r \in Role
  PROVE  Append(stamped, <<q, r>>) \in Seq(Questions \X Role)
<1>1. <<q, r>> \in Questions \X Role
  OBVIOUS
<1> QED
  BY <1>1

LEMMA ReportStep ==
  ASSUME events \in [Questions -> Seq(Reported)], NEW q \in Questions, NEW status \in Reported,
         Report(q, status)
  PROVE  events' \in [Questions -> Seq(Reported)]
<1>1. events[q] \in Seq(Reported)
  OBVIOUS
<1>2. Append(events[q], status) \in Seq(Reported)
  BY <1>1
<1> QED
  BY <1>2 DEF Report

\* What the parts of a step of run_message do to the types.
LEMMA GoStep ==
  ASSUME ServiceTypeOK, NEW q \in Questions, NEW next \in Working \cup Ended, Go(q, next)
  PROVE  step' \in [Questions -> {"new"} \cup Working \cup Ended]
BY DEF ServiceTypeOK, Go

LEMMA ComposeStep ==
  ASSUME ServiceTypeOK, NEW q \in Questions, NEW text \in Text, Compose(q, text)
  PROVE  /\ step' = [step EXCEPT ![q] = "save"]
         /\ step' \in [Questions -> {"new"} \cup Working \cup Ended]
         /\ answer' \in [Questions -> Text] /\ stamped' \in Seq(Questions \X Role)
<1>1. stamped' \in Seq(Questions \X Role)
  BY AppendStamp DEF ServiceTypeOK, Compose, Role
<1> QED
  BY <1>1 DEF ServiceTypeOK, Compose, Go, Working

LEMMA RaiseStep ==
  ASSUME ServiceTypeOK, NEW q \in Questions, Raise(q)
  PROVE  /\ step' = [step EXCEPT ![q] = "failed"]
         /\ step' \in [Questions -> {"new"} \cup Working \cup Ended]
         /\ answer' \in [Questions -> Text] /\ stamped' \in Seq(Questions \X Role)
         /\ events' \in [Questions -> Seq(Reported)]
BY DEF ServiceTypeOK, Raise, Go, Ended, Reported

\* The part of the types that Stored needs.
LEMMA Maps ==
  ASSUME ServiceTypeOK
  PROVE  /\ owner \in [Sessions -> Browsers \cup {NoOne}]
         /\ asker \in [Questions -> Browsers \cup {NoOne}]
         /\ target \in [Questions -> Sessions \cup {NoOne}]
         /\ step \in [Questions -> {"new"} \cup Working \cup Ended]
BY DEF ServiceTypeOK

\* A step of run_message between its two writes.
LEMMA StoredBetween ==
  ASSUME ServiceInv, NEW q \in Questions, UNCHANGED <<store, request>>,
         step[q] \in Working \ {"find", "ask"},
         \E next \in {"sql", "query", "summary", "save", "failed"} : Go(q, next)
  PROVE  Stored'
<1>1. ASSUME NEW r \in Questions PROVE StoredOf(r)'
  <2>1. CASE r = q
    BY <2>1, Maps DEF ServiceInv, Stored, StoredOf, Go, store, request, Working
  <2>2. CASE r # q
    BY <2>2, Maps DEF ServiceInv, Stored, StoredOf, Go, store, request
  <2> QED
    BY <2>1, <2>2
<1> QED
  BY <1>1 DEF Stored

\* A message lies in the session that its question was put to.
Placed == \A s \in Sessions, q \in Questions, r \in Role : <<s, q, r>> \in saved => s = target[q]

LEMMA StepInv ==
  ASSUME ServiceInv, [ServiceNext]_service
  PROVE  ServiceInv'
<1> USE ChatAssumption DEF ServiceInv
<1>1. ASSUME NEW s \in Sessions, NEW b \in Browsers, CreateSession(s, b)
     PROVE  ServiceInv'
  <2>1. ServiceTypeOK'
    BY <1>1 DEF ServiceTypeOK, Stored, StoredOf, store, request, CreateSession
  <2>2. ASSUME NEW r \in Questions PROVE StoredOf(r)'
    BY <1>1, Maps DEF Stored, StoredOf, Working, store, request, CreateSession
  <2> QED
    BY <2>1, <2>2 DEF Stored
<1>2. ASSUME NEW q \in Questions, NEW b \in Browsers, NEW s \in Sessions, PostMessage(q, b, s)
     PROVE  ServiceInv'
  <2>0. Placed'
    <3>1. ASSUME NEW z \in Sessions, NEW p \in Questions, NEW r \in Role, <<z, p, r>> \in saved
          PROVE  z = target'[p]
      <4>1. CASE p = q
        BY <1>2, <3>1, <4>1 DEF Stored, StoredOf, PostMessage, Role
      <4>2. CASE p # q
        BY <1>2, <3>1, <4>2, Maps DEF ServiceTypeOK, PostMessage
      <4> QED
        BY <4>1, <4>2
    <3> QED
      BY <1>2, <3>1 DEF Placed, PostMessage, store
  <2>1. ServiceTypeOK'
    BY <1>2, <2>0 DEF ServiceTypeOK, Placed, store, request, PostMessage, Go, Working
  <2>2. ASSUME NEW r \in Questions PROVE StoredOf(r)'
    <3>1. CASE r = q
      BY <1>2, <3>1, Maps DEF Stored, StoredOf, Working, store, request, PostMessage, Go
    <3>2. CASE r # q
      BY <1>2, <3>2, Maps DEF Stored, StoredOf, store, request, PostMessage, Go
    <3> QED
      BY <3>1, <3>2
  <2> QED
    BY <2>1, <2>2 DEF Stored
<1>3. ASSUME NEW q \in Questions, FindSession(q)
     PROVE  ServiceInv'
  <2>0. Append(stamped, <<q, "user">>) \in Seq(Questions \X Role)
    BY AppendStamp DEF ServiceTypeOK, Role
  <2>1. ServiceTypeOK'
    BY <1>3, <2>0 DEF ServiceTypeOK, store, request, FindSession, Go, Working, Ended
  <2>2. ASSUME NEW r \in Questions PROVE StoredOf(r)'
    <3>0. /\ step[q] = "find" /\ UNCHANGED <<owner, saved, asker, target>>
          /\ \/ Go(q, "notfound")
             \/ Go(q, "ask") /\ owner[target[q]] = asker[q]
      BY <1>3 DEF FindSession, store, request
    <3>1. CASE r = q
      <4>1. StoredOf(q) /\ step'[q] \in {"ask", "notfound"}
            /\ (step'[q] = "ask" => owner[target[q]] = asker[q])
        BY <3>0, Maps DEF Stored, Go
      <4> QED
        BY <3>0, <3>1, <4>1 DEF StoredOf, Working
    <3>2. CASE r # q
      BY <3>0, <3>2, Maps DEF Stored, StoredOf, Go
    <3> QED
      BY <3>1, <3>2
  <2> QED
    BY <2>1, <2>2 DEF Stored
<1>4. ASSUME NEW q \in Questions, SaveQuestion(q)
     PROVE  ServiceInv'
  <2>0. events' \in [Questions -> Seq(Reported)]
    BY <1>4, ReportStep DEF ServiceTypeOK, SaveQuestion, Reported
  <2>3. target[q] \in Sessions
    BY <1>4 DEF Stored, StoredOf, SaveQuestion
  <2>7. saved' = saved \cup {<<target[q], q, "user">>} /\ UNCHANGED target
    BY <1>4 DEF SaveQuestion, request
  <2>8. saved' \subseteq Sessions \X Questions \X Role
    <3>1. <<target[q], q, "user">> \in Sessions \X Questions \X Role
      BY <2>3 DEF Role
    <3> QED
      BY <2>7, <3>1 DEF ServiceTypeOK
  <2>9. Placed'
    <3>1. ASSUME NEW z \in Sessions, NEW p \in Questions, NEW r \in Role, <<z, p, r>> \in saved'
          PROVE  z = target[p]
      BY <2>7, <3>1 DEF ServiceTypeOK
    <3> QED
      BY <2>7, <3>1 DEF Placed
  <2>5. title' \in [Sessions -> Questions \cup {"New conversation"}]
    BY <1>4 DEF ServiceTypeOK, SaveQuestion, GiveTitle
  <2>6. step' \in [Questions -> {"new"} \cup Working \cup Ended]
    BY <1>4, GoStep DEF SaveQuestion, Working, Ended
  <2>1. ServiceTypeOK'
    BY <1>4, <2>0, <2>8, <2>9, <2>5, <2>6 DEF ServiceTypeOK, Placed, request, SaveQuestion, Reported
  <2>2. ASSUME NEW r \in Questions PROVE StoredOf(r)'
    <3>1. CASE r = q
      BY <1>4, <3>1, Maps DEF Stored, StoredOf, Working, store, request, SaveQuestion, GiveTitle, Go
    <3>2. CASE r # q
      BY <1>4, <3>2, Maps DEF Stored, StoredOf, store, request, SaveQuestion, GiveTitle, Go
    <3> QED
      BY <3>1, <3>2
  <2> QED
    BY <2>1, <2>2 DEF Stored
<1>5. ASSUME NEW q \in Questions, Plan(q)
     PROVE  ServiceInv'
  <2>1. ServiceTypeOK'
    BY <1>5, ComposeStep, RaiseStep, GoStep, ReportStep
       DEF ServiceTypeOK, store, request, Plan, Working, Text, Reported
  <2>2. \E next \in {"sql", "query", "summary", "save", "failed"} : Go(q, next)
    BY <1>5 DEF Plan, Compose, Raise
  <2>3. step[q] \in Working \ {"find", "ask"} /\ UNCHANGED <<store, request>>
    BY <1>5 DEF Plan, Working
  <2>4. Stored'
    BY <2>2, <2>3, StoredBetween
  <2> QED
    BY <2>1, <2>4
<1>6. ASSUME NEW q \in Questions, GenerateSql(q)
     PROVE  ServiceInv'
  <2>1. ServiceTypeOK'
    BY <1>6, ComposeStep, RaiseStep, GoStep, ReportStep
       DEF ServiceTypeOK, store, request, GenerateSql, Working, Text, Reported
  <2>2. \E next \in {"sql", "query", "summary", "save", "failed"} : Go(q, next)
    BY <1>6 DEF GenerateSql, Compose, Raise
  <2>3. step[q] \in Working \ {"find", "ask"} /\ UNCHANGED <<store, request>>
    BY <1>6 DEF GenerateSql, Working
  <2>4. Stored'
    BY <2>2, <2>3, StoredBetween
  <2> QED
    BY <2>1, <2>4
<1>7. ASSUME NEW q \in Questions, RunQuery(q)
     PROVE  ServiceInv'
  <2>0. rows' \in [Questions -> {"none", "plain", "decimal", "nan"}]
    BY <1>7 DEF ServiceTypeOK, RunQuery
  <2>1. ServiceTypeOK'
    BY <2>0, <1>7, ComposeStep, RaiseStep, GoStep, ReportStep
       DEF ServiceTypeOK, store, request, RunQuery, Working, Text, Reported
  <2>2. \E next \in {"sql", "query", "summary", "save", "failed"} : Go(q, next)
    BY <1>7 DEF RunQuery, Compose, Raise
  <2>3. step[q] \in Working \ {"find", "ask"} /\ UNCHANGED <<store, request>>
    BY <1>7 DEF RunQuery, Working
  <2>4. Stored'
    BY <2>2, <2>3, StoredBetween
  <2> QED
    BY <2>1, <2>4
<1>8. ASSUME NEW q \in Questions, Summarize(q)
     PROVE  ServiceInv'
  <2>1. ServiceTypeOK'
    BY <1>8, ComposeStep, RaiseStep, GoStep, ReportStep
       DEF ServiceTypeOK, store, request, Summarize, Working, Text, Reported
  <2>2. \E next \in {"sql", "query", "summary", "save", "failed"} : Go(q, next)
    BY <1>8 DEF Summarize, Compose, Raise
  <2>3. step[q] \in Working \ {"find", "ask"} /\ UNCHANGED <<store, request>>
    BY <1>8 DEF Summarize, Working
  <2>4. Stored'
    BY <2>2, <2>3, StoredBetween
  <2> QED
    BY <2>1, <2>4
<1>9. ASSUME NEW q \in Questions, SaveAnswer(q)
     PROVE  ServiceInv'
  <2>3. target[q] \in Sessions
    BY <1>9 DEF Stored, StoredOf, SaveAnswer
  <2>7. saved' = saved \cup {<<target[q], q, "assistant">>} /\ UNCHANGED target
    BY <1>9 DEF SaveAnswer, request
  <2>8. saved' \subseteq Sessions \X Questions \X Role
    <3>1. <<target[q], q, "assistant">> \in Sessions \X Questions \X Role
      BY <2>3 DEF Role
    <3> QED
      BY <2>7, <3>1 DEF ServiceTypeOK
  <2>9. Placed'
    <3>1. ASSUME NEW z \in Sessions, NEW p \in Questions, NEW r \in Role, <<z, p, r>> \in saved'
          PROVE  z = target[p]
      BY <2>7, <3>1 DEF ServiceTypeOK
    <3> QED
      BY <2>7, <3>1 DEF Placed
  <2>5. title' \in [Sessions -> Questions \cup {"New conversation"}]
    BY <1>9 DEF ServiceTypeOK, SaveAnswer, GiveTitle
  <2>6. step' \in [Questions -> {"new"} \cup Working \cup Ended]
    BY <1>9, GoStep DEF SaveAnswer, Working, Ended
  <2>1. ServiceTypeOK'
    BY <1>9, <2>8, <2>9, <2>5, <2>6 DEF ServiceTypeOK, Placed, request, SaveAnswer, Reported
  <2>2. ASSUME NEW r \in Questions PROVE StoredOf(r)'
    <3>1. CASE r = q
      BY <1>9, <3>1, Maps DEF Stored, StoredOf, Working, store, request, SaveAnswer, Go
    <3>2. CASE r # q
      BY <1>9, <3>2, Maps DEF Stored, StoredOf, store, request, SaveAnswer, Go
    <3> QED
      BY <3>1, <3>2
  <2> QED
    BY <2>1, <2>2 DEF Stored
<1>10. ASSUME NEW q \in Questions, FailStorage(q)
     PROVE  ServiceInv'
  <2>1. ServiceTypeOK'
    BY <1>10, RaiseStep DEF ServiceTypeOK, store, request, FailStorage, Reported
  <2>2. ASSUME NEW r \in Questions PROVE StoredOf(r)'
    <3>1. CASE r = q
      BY <1>10, <3>1, Maps DEF Stored, StoredOf, Working, store, request, FailStorage, Raise, Go
    <3>2. CASE r # q
      BY <1>10, <3>2, Maps DEF Stored, StoredOf, store, request, FailStorage, Raise, Go
    <3> QED
      BY <3>1, <3>2
  <2> QED
    BY <2>1, <2>2 DEF Stored
<1>11. ASSUME Restart
     PROVE  ServiceInv'
  <2>1. ServiceTypeOK'
    BY <1>11 DEF ServiceTypeOK, store, request, Restart, Ended
  <2>2. ASSUME NEW r \in Questions PROVE StoredOf(r)'
    BY <1>11, Maps DEF Stored, StoredOf, Working, store, request, Restart
  <2> QED
    BY <2>1, <2>2 DEF Stored
<1>12. ASSUME UNCHANGED service
     PROVE  ServiceInv'
  <2>1. ServiceTypeOK'
    BY <1>12 DEF ServiceTypeOK, Stored, StoredOf, store, request, service
  <2>2. ASSUME NEW r \in Questions PROVE StoredOf(r)'
    BY <1>12, Maps DEF Stored, StoredOf, Working, store, request, service
  <2> QED
    BY <2>1, <2>2 DEF Stored
<1> HIDE DEF ServiceInv
<1> QED
  BY <1>1, <1>2, <1>3, <1>4, <1>5, <1>6, <1>7, <1>8, <1>9, <1>10, <1>11, <1>12 DEF ServiceNext, Serve

\* The state of the service is well typed, and every message lies in the session
\* that its question was put to.
THEOREM ServiceTypes == ServiceSpec => []ServiceTypeOK
<1>1. ServiceInv => ServiceTypeOK
  BY DEF ServiceInv
<1> QED
  BY InitInv, StepInv, <1>1, PTL DEF ServiceSpec

-----------------------------------------------------------------------------
(* The refinement of Conversation. *)

Pairs(role) == {p \in Sessions \X Questions : <<p[1], p[2], role>> \in saved}

LEMMA PairsAdd ==
  ASSUME NEW s \in Sessions, NEW q \in Questions, NEW role \in Role, NEW other \in Role,
         saved' = saved \cup {<<s, q, role>>}
  PROVE  Pairs(other)' = IF other = role THEN Pairs(other) \cup {<<s, q>>} ELSE Pairs(other)
<1>1. ASSUME NEW p \in Sessions \X Questions
      PROVE  <<p[1], p[2], other>> = <<s, q, role>> <=> p = <<s, q>> /\ other = role
  OBVIOUS
<1> QED
  BY <1>1 DEF Pairs

LEMMA CInit == ServiceInit => C!Init
BY DEF ServiceInit, C!Init

LEMMA CNext ==
  ASSUME ServiceInv, [ServiceNext]_service
  PROVE  [C!Next]_<<owner, asker, Pairs("user"), Pairs("assistant")>>
<1> DEFINE asked == Pairs("user")
           answered == Pairs("assistant")
<1>0. "user" \in Role /\ "assistant" \in Role
  BY DEF Role
<1>1. ASSUME UNCHANGED <<owner, asker, saved>>
      PROVE  UNCHANGED <<owner, asker, asked, answered>>
  BY <1>1 DEF Pairs
<1>2. ASSUME NEW s \in Sessions, NEW b \in Browsers, CreateSession(s, b)
      PROVE  C!Open(s, b)
  BY <1>2 DEF CreateSession, request, C!Open
<1>3. ASSUME NEW q \in Questions, NEW b \in Browsers, NEW s \in Sessions, PostMessage(q, b, s)
      PROVE  C!Submit(q, b)
  BY <1>3 DEF PostMessage, store, ServiceInv, Stored, StoredOf, C!Submit
<1>4. ASSUME NEW q \in Questions, SaveQuestion(q)
      PROVE  C!Ask(target[q], q)
  <2>1. /\ target[q] \in Sessions /\ asker[q] \in Browsers /\ owner[target[q]] = asker[q]
        /\ \A s \in Sessions : <<s, q, "user">> \notin saved
    BY <1>4 DEF SaveQuestion, ServiceInv, Stored, StoredOf
  <2>2. asked' = asked \cup {<<target[q], q>>} /\ answered' = answered
    BY <1>0, <1>4, <2>1, PairsAdd DEF SaveQuestion
  <2>3. \A s \in Sessions : <<s, q>> \notin asked
    BY <2>1 DEF Pairs
  <2>4. UNCHANGED <<owner, asker>>
    BY <1>4 DEF SaveQuestion, request
  <2> QED
    BY <2>1, <2>2, <2>3, <2>4, ChatAssumption DEF C!Ask, Pairs
<1>5. ASSUME NEW q \in Questions, SaveAnswer(q)
      PROVE  C!Answer(target[q], q)
  <2>1. /\ target[q] \in Sessions
        /\ <<target[q], q, "user">> \in saved /\ <<target[q], q, "assistant">> \notin saved
    BY <1>5 DEF SaveAnswer, ServiceInv, Stored, StoredOf, Working
  <2>2. asked' = asked /\ answered' = answered \cup {<<target[q], q>>}
    BY <1>0, <1>5, <2>1, PairsAdd DEF SaveAnswer
  <2>3. <<target[q], q>> \in asked \ answered
    BY <2>1 DEF Pairs
  <2>4. UNCHANGED <<owner, asker>>
    BY <1>5 DEF SaveAnswer, request
  <2> QED
    BY <2>2, <2>3, <2>4 DEF C!Answer, Pairs
<1>6. ASSUME NEW q \in Questions,
             FindSession(q) \/ Plan(q) \/ GenerateSql(q) \/ RunQuery(q) \/ Summarize(q) \/ FailStorage(q)
      PROVE  UNCHANGED <<owner, asker, saved>>
  BY <1>6 DEF FindSession, Plan, GenerateSql, RunQuery, Summarize, FailStorage, store, request
<1>7. ASSUME Restart \/ UNCHANGED service
      PROVE  UNCHANGED <<owner, asker, saved>>
  BY <1>7 DEF Restart, service, store, request
<1>8. \A q \in Questions : step[q] \in {"ask", "save"} => target[q] \in Sessions
  BY DEF ServiceInv, Stored, StoredOf
<1> QED
  BY <1>1, <1>2, <1>3, <1>4, <1>5, <1>6, <1>7, <1>8
     DEF ServiceNext, Serve, C!Next, SaveQuestion, SaveAnswer

\* Whatever fails, is lost or runs at the same time: a question is stored once, in a session
\* of its browser, and answered at most once, there (run_message, add_message).
THEOREM KeepsConversationAlways == ServiceSpec => KeepsConversation
<1>1. [C!Next]_<<owner, asker, Pairs("user"), Pairs("assistant")>>
        => [C!Next]_<<owner, asker, {p \in Sessions \X Questions : <<p[1], p[2], "user">> \in saved},
                      {p \in Sessions \X Questions : <<p[1], p[2], "assistant">> \in saved}>>
  BY DEF Pairs
<1> QED
  BY InitInv, StepInv, CInit, CNext, <1>1, PTL DEF ServiceSpec, KeepsConversation, C!Spec

-----------------------------------------------------------------------------
(* The titles of sessions. *)

\* What TitleTruth says of one session.
TrueTitle(s) ==
  IF title[s] = "New conversation"
  THEN \A q \in Questions : <<s, q, "user">> \in saved => q \in Untitled
  ELSE <<s, title[s], "user">> \in saved /\ title[s] \notin Untitled

LEMMA TitleTyped == ServiceInv => title \in [Sessions -> Questions \cup {"New conversation"}]
BY DEF ServiceInv, ServiceTypeOK

LEMMA TitleStep ==
  ASSUME ServiceInv, TitleTruth, [ServiceNext]_service
  PROVE  TitleTruth'
<1> SUFFICES ASSUME NEW s \in Sessions PROVE TrueTitle(s)'
  BY DEF TitleTruth, TrueTitle
<1>0. TrueTitle(s)
  BY DEF TitleTruth, TrueTitle
<1>1. ASSUME UNCHANGED <<title, saved>> PROVE TrueTitle(s)'
  BY <1>0, <1>1 DEF TrueTitle
<1>2. ASSUME NEW q \in Questions, SaveQuestion(q) PROVE TrueTitle(s)'
  <2>1. saved' = saved \cup {<<target[q], q, "user">>} /\ GiveTitle(target[q], q)
    BY <1>2 DEF SaveQuestion
  <2>2. target[q] \in Sessions
    BY <1>2 DEF SaveQuestion, ServiceInv, Stored, StoredOf
  <2>3. CASE s # target[q]
    BY <1>0, <2>1, <2>2, <2>3, TitleTyped DEF TrueTitle, GiveTitle
  <2>4. CASE s = target[q] /\ title[s] = "New conversation" /\ q \notin Untitled
    BY <2>1, <2>2, <2>4, TitleTyped, ChatAssumption DEF TrueTitle, GiveTitle
  <2>5. CASE s = target[q] /\ ~(title[s] = "New conversation" /\ q \notin Untitled)
    BY <1>0, <2>1, <2>2, <2>5, TitleTyped DEF TrueTitle, GiveTitle
  <2> QED
    BY <2>3, <2>4, <2>5
<1>3. ASSUME NEW q \in Questions, SaveAnswer(q) PROVE TrueTitle(s)'
  BY <1>0, <1>3 DEF TrueTitle, SaveAnswer
<1>4. ASSUME NEW q \in Questions,
             FindSession(q) \/ Plan(q) \/ GenerateSql(q) \/ RunQuery(q) \/ Summarize(q) \/ FailStorage(q)
      PROVE  UNCHANGED <<title, saved>>
  BY <1>4 DEF FindSession, Plan, GenerateSql, RunQuery, Summarize, FailStorage, store
<1>5. ASSUME Restart \/ UNCHANGED service
             \/ (\E z \in Sessions, b \in Browsers : CreateSession(z, b))
             \/ (\E q \in Questions, b \in Browsers, z \in Sessions : PostMessage(q, b, z))
      PROVE  UNCHANGED <<title, saved>>
  BY <1>5 DEF Restart, CreateSession, PostMessage, service, store
<1> QED
  BY <1>1, <1>2, <1>3, <1>4, <1>5 DEF ServiceNext, Serve

\* A session is named after the first question stored in it that makes a title, and keeps
\* the default name until there is one, however many add_message transactions race.
THEOREM TitleTruthAlways == ServiceSpec => []TitleTruth
<1>1. ServiceInit => TitleTruth
  BY DEF ServiceInit, TitleTruth
<1> QED
  BY InitInv, StepInv, TitleStep, <1>1, PTL DEF ServiceSpec

\* Once a session has a name of its own, no later question changes it (the CASE of add_message).
THEOREM TitleSettlesAlways == ServiceSpec => TitleSettles
<1>1. ASSUME ServiceInv, [ServiceNext]_service
      PROVE  [\A s \in Sessions : title[s] # "New conversation" => title'[s] = title[s]]_service
  <2>1. ASSUME NEW q \in Questions, SaveQuestion(q), NEW s \in Sessions, title[s] # "New conversation"
        PROVE  title'[s] = title[s]
    BY <1>1, <2>1, TitleTyped DEF SaveQuestion, GiveTitle
  <2>2. ASSUME NEW q \in Questions, Serve(q), ~SaveQuestion(q)
        PROVE  UNCHANGED title
    BY <2>2 DEF Serve, FindSession, Plan, GenerateSql, RunQuery, Summarize, SaveAnswer, FailStorage, store
  <2>3. ASSUME Restart
             \/ (\E z \in Sessions, b \in Browsers : CreateSession(z, b))
             \/ (\E q \in Questions, b \in Browsers, z \in Sessions : PostMessage(q, b, z))
        PROVE  UNCHANGED title
    BY <2>3 DEF Restart, CreateSession, PostMessage, store
  <2> QED
    BY <1>1, <2>1, <2>2, <2>3 DEF ServiceNext
<1> QED
  BY InitInv, StepInv, <1>1, PTL DEF ServiceSpec, TitleSettles
-----------------------------------------------------------------------------
(* The history of a session. *)

Message == Questions \X Role

\* How History goes on with the n-th of the stamped messages.
Onward(s, h, n) ==
  IF n = 0 THEN <<>>
  ELSE IF <<s, stamped[n][1], stamped[n][2]>> \in saved THEN Append(h[n - 1], stamped[n])
  ELSE h[n - 1]

\* The recursion in History has a solution.
LEMMA HistoryRecursion ==
  ASSUME NEW s, stamped \in Seq(Message)
  PROVE  \E h : /\ History(s) = h[Len(stamped)]
                /\ \A n \in 0 .. Len(stamped) : h[n] = Onward(s, h, n)
<1> DEFINE N == Len(stamped)
           Solves(h, k) == h = [n \in 0 .. k |-> Onward(s, h, n)]
           P == {k \in Nat : \E h : Solves(h, k)}
<1>1. N \in Nat
  OBVIOUS
<1>2. 0 \in P
  <2>1. Solves([n \in 0 .. 0 |-> <<>>], 0)
    BY DEF Onward
  <2> QED
    BY <2>1
<1>3. ASSUME NEW k \in 0 .. N - 1, k \in P PROVE k + 1 \in P
  <2>1. PICK h : Solves(h, k)
    BY <1>3
  <2> DEFINE g == [n \in 0 .. k + 1 |-> IF n = k + 1 THEN Onward(s, h, n) ELSE h[n]]
  <2>2. \A n \in 0 .. k + 1 : Onward(s, g, n) = Onward(s, h, n)
    BY DEF Onward
  <2>3. \A n \in 0 .. k + 1 : g[n] = Onward(s, g, n)
    <3>1. \A n \in 0 .. k : h[n] = Onward(s, h, n)
      BY <2>1
    <3> QED
      BY <2>2, <3>1
  <2>4. Solves(g, k + 1)
    BY <2>3
  <2>5. k + 1 \in Nat
    BY <1>1
  <2> HIDE DEF Solves
  <2> QED
    BY <2>4, <2>5
<1>4. N \in P
  <2> HIDE DEF P
  <2> QED
    BY <1>1, <1>2, <1>3, CountInduction
<1> DEFINE h == CHOOSE h : Solves(h, N)
<1>5. Solves(h, N)
  BY <1>4
<1>6. History(s) = h[N]
  BY DEF History, Onward
<1> HIDE DEF h
<1>7. \A n \in 0 .. N : h[n] = Onward(s, h, n)
  BY <1>5
<1> QED
  BY <1>6, <1>7

\* The history of a session is the messages of it, in the order of their stamps: f says
\* where they are among the stamped ones.
Picks(s, h, n, f) ==
  /\ h \in Seq(Message)
  /\ f \in [1 .. Len(h) -> 1 .. n]
  /\ \A i, j \in 1 .. Len(h) : i < j => f[i] < f[j]
  /\ \A i \in 1 .. Len(h) : h[i] = stamped[f[i]] /\ <<s, h[i][1], h[i][2]>> \in saved
  /\ \A m \in 1 .. n : <<s, stamped[m][1], stamped[m][2]>> \in saved => \E i \in 1 .. Len(h) : f[i] = m

\* One message more.
LEMMA PicksOneMore ==
  ASSUME stamped \in Seq(Message), NEW s, NEW k \in 0 .. Len(stamped) - 1, NEW h, NEW f, Picks(s, h, k, f),
         NEW next, next = IF <<s, stamped[k + 1][1], stamped[k + 1][2]>> \in saved
                          THEN Append(h, stamped[k + 1]) ELSE h
  PROVE  \E g : Picks(s, next, k + 1, g)
<1> DEFINE m == stamped[k + 1]
           l == Len(h)
<1>1. m \in Message /\ h \in Seq(Message) /\ l \in Nat /\ k \in Nat
  BY DEF Picks
<1>2. /\ \A i \in 1 .. l : f[i] \in 1 .. k
      /\ \A i, j \in 1 .. l : i < j => f[i] < f[j]
  BY DEF Picks
<1>3. \A i \in 1 .. l : h[i] = stamped[f[i]] /\ <<s, h[i][1], h[i][2]>> \in saved
  BY DEF Picks
<1>4. \A n \in 1 .. k : <<s, stamped[n][1], stamped[n][2]>> \in saved => \E i \in 1 .. l : f[i] = n
  BY DEF Picks
<1>5. CASE <<s, m[1], m[2]>> \in saved
  <2> DEFINE g == [i \in 1 .. l + 1 |-> IF i = l + 1 THEN k + 1 ELSE f[i]]
  <2>1. next = Append(h, m)
    BY <1>5
  <2>2. /\ next \in Seq(Message) /\ Len(next) = l + 1 /\ next[l + 1] = m
        /\ \A i \in 1 .. l : next[i] = h[i]
    BY <1>1, <2>1
  <2>3. g[l + 1] = k + 1 /\ \A i \in 1 .. l : g[i] = f[i]
    BY <1>1
  <2>4. g \in [1 .. l + 1 -> 1 .. k + 1]
    <3>1. ASSUME NEW i \in 1 .. l + 1 PROVE g[i] \in 1 .. k + 1
      BY <1>1, <1>2, <2>3
    <3> QED
      BY <3>1
  <2> HIDE DEF g
  <2>5. ASSUME NEW i \in 1 .. l + 1, NEW j \in 1 .. l + 1, i < j PROVE g[i] < g[j]
    <3>1. i \in 1 .. l
      BY <1>1, <2>5
    <3>2. CASE j = l + 1
      BY <1>1, <1>2, <2>3, <3>1, <3>2
    <3>3. CASE j # l + 1
      BY <1>1, <1>2, <2>3, <2>5, <3>1, <3>3
    <3> QED
      BY <3>2, <3>3
  <2>6. ASSUME NEW i \in 1 .. l + 1
        PROVE  next[i] = stamped[g[i]] /\ <<s, next[i][1], next[i][2]>> \in saved
    <3>1. CASE i = l + 1
      BY <1>5, <2>2, <2>3, <3>1
    <3>2. CASE i # l + 1
      <4>1. i \in 1 .. l
        BY <1>1, <3>2
      <4> QED
        BY <1>3, <2>2, <2>3, <4>1
    <3> QED
      BY <3>1, <3>2
  <2>7. ASSUME NEW n \in 1 .. k + 1, <<s, stamped[n][1], stamped[n][2]>> \in saved
        PROVE  \E i \in 1 .. l + 1 : g[i] = n
    <3>1. CASE n = k + 1
      <4>1. l + 1 \in 1 .. l + 1
        BY <1>1
      <4> QED
        BY <2>3, <3>1, <4>1
    <3>2. CASE n # k + 1
      <4>1. n \in 1 .. k
        BY <1>1, <3>2
      <4>2. PICK i \in 1 .. l : f[i] = n
        BY <1>4, <2>7, <4>1
      <4>3. i \in 1 .. l + 1
        BY <1>1
      <4> QED
        BY <2>3, <4>2, <4>3
    <3> QED
      BY <3>1, <3>2
  <2>8. Picks(s, next, k + 1, g)
    BY <2>2, <2>4, <2>5, <2>6, <2>7 DEF Picks
  <2> QED
    BY <2>8
<1>6. CASE <<s, m[1], m[2]>> \notin saved
  <2>1. next = h
    BY <1>6
  <2>2. f \in [1 .. l -> 1 .. k + 1]
    <3>1. f \in [1 .. l -> 1 .. k] /\ 1 .. k \subseteq 1 .. k + 1
      BY <1>1 DEF Picks
    <3> QED
      BY <3>1
  <2>3. \A n \in 1 .. k + 1 : <<s, stamped[n][1], stamped[n][2]>> \in saved => \E i \in 1 .. l : f[i] = n
    <3>1. ASSUME NEW n \in 1 .. k + 1, <<s, stamped[n][1], stamped[n][2]>> \in saved
          PROVE  n \in 1 .. k
      BY <1>1, <1>6, <3>1
    <3> QED
      BY <1>4, <3>1
  <2>4. Picks(s, h, k + 1, f)
    BY <1>1, <1>2, <1>3, <2>2, <2>3 DEF Picks
  <2> QED
    BY <2>1, <2>4
<1> QED
  BY <1>5, <1>6

LEMMA HistoryPicks ==
  ASSUME NEW s, stamped \in Seq(Message)
  PROVE  \E f : Picks(s, History(s), Len(stamped), f)
<1>1. PICK h : /\ History(s) = h[Len(stamped)]
               /\ \A n \in 0 .. Len(stamped) : h[n] = Onward(s, h, n)
  BY HistoryRecursion
<1> DEFINE N == Len(stamped)
           P == {n \in 0 .. N : \E f : Picks(s, h[n], n, f)}
<1>2. N \in Nat
  OBVIOUS
<1>3. 0 \in P
  <2>0. 0 \in 0 .. N
    BY <1>2
  <2>1. h[0] = <<>>
    BY <1>1, <2>0 DEF Onward
  <2>2. Picks(s, <<>>, 0, [i \in 1 .. 0 |-> 1])
    <3>1. <<>> \in Seq(Message) /\ Len(<<>>) = 0
      OBVIOUS
    <3> QED
      BY <3>1 DEF Picks
  <2>3. \E f : Picks(s, h[0], 0, f)
    BY <2>1, <2>2
  <2> QED
    BY <2>0, <2>3
<1>4. ASSUME NEW k \in 0 .. N - 1, k \in P PROVE k + 1 \in P
  <2>1. PICK f : Picks(s, h[k], k, f)
    BY <1>4
  <2>2. k + 1 \in 0 .. N /\ k + 1 # 0 /\ (k + 1) - 1 = k
    BY <1>2
  <2>3. h[k + 1] = IF <<s, stamped[k + 1][1], stamped[k + 1][2]>> \in saved
                   THEN Append(h[k], stamped[k + 1]) ELSE h[k]
    BY <1>1, <2>2 DEF Onward
  <2>4. \E g : Picks(s, h[k + 1], k + 1, g)
    BY <2>1, <2>3, PicksOneMore
  <2> QED
    BY <2>2, <2>4
<1> HIDE DEF P
<1>5. N \in P
  BY <1>2, <1>3, <1>4, CountInduction
<1> QED
  BY <1>1, <1>5 DEF P

\* The order of the stamps: those of a question are there by its step, each once, that of
\* the answer after that of the question.
StampOf(q) ==
  /\ step[q] \in {"new", "find"} => \A i \in DOMAIN stamped : stamped[i][1] # q
  /\ step[q] \in {"ask", "plan", "sql", "query", "summary"} =>
       \A i \in DOMAIN stamped : stamped[i] # <<q, "assistant">>
  /\ step[q] \in Working \ {"find"} => \E i \in DOMAIN stamped : stamped[i] = <<q, "user">>
StampsOnce == \A i, j \in DOMAIN stamped : stamped[i] = stamped[j] => i = j
StampsOrdered ==
  \A i \in DOMAIN stamped : stamped[i][2] = "assistant" =>
    \E h \in 1 .. i - 1 : stamped[h] = <<stamped[i][1], "user">>
Stamps == StampsOnce /\ StampsOrdered /\ \A q \in Questions : StampOf(q)

LEMMA StampsInit == ServiceInit => Stamps
<1> SUFFICES ASSUME ServiceInit PROVE Stamps
  OBVIOUS
<1>0. stamped = <<>> /\ step = [q \in Questions |-> "new"]
  BY DEF ServiceInit
<1>1. (\A i : i \notin DOMAIN stamped) /\ \A q \in Questions : step[q] = "new"
  BY <1>0
<1>2. \A q \in Questions : StampOf(q)
  BY <1>1 DEF StampOf, Working
<1>3. StampsOnce /\ StampsOrdered
  BY <1>1 DEF StampsOnce, StampsOrdered
<1> QED
  BY <1>2, <1>3 DEF Stamps

\* A message gets a stamp.
LEMMA StampsGrow ==
  ASSUME stamped \in Seq(Message), NEW m \in Message, stamped' = Append(stamped, m)
  PROVE  /\ DOMAIN stamped = 1 .. Len(stamped) /\ DOMAIN stamped' = 1 .. Len(stamped) + 1
         /\ Len(stamped) \in Nat
         /\ stamped'[Len(stamped) + 1] = m
         /\ \A i \in DOMAIN stamped : stamped'[i] = stamped[i] /\ stamped[i] \in Message
         /\ DOMAIN stamped \subseteq DOMAIN stamped'
         /\ \A i \in DOMAIN stamped' : i \in DOMAIN stamped \/ i = Len(stamped) + 1
OBVIOUS

LEMMA StampsAdd ==
  ASSUME stamped \in Seq(Message), StampsOnce, StampsOrdered,
         NEW m \in Message, stamped' = Append(stamped, m),
         \A i \in DOMAIN stamped : stamped[i] # m,
         m[2] = "assistant" => \E i \in DOMAIN stamped : stamped[i] = <<m[1], "user">>
  PROVE  StampsOnce' /\ StampsOrdered'
<1> DEFINE N == Len(stamped)
<1> USE StampsGrow
<1>1. ASSUME NEW i \in DOMAIN stamped', NEW j \in DOMAIN stamped', stamped'[i] = stamped'[j]
      PROVE  i = j
  <2>1. CASE i \in DOMAIN stamped /\ j \in DOMAIN stamped
    BY <1>1, <2>1 DEF StampsOnce
  <2>2. CASE ~(i \in DOMAIN stamped /\ j \in DOMAIN stamped)
    BY <1>1, <2>2
  <2> QED
    BY <2>1, <2>2
<1>2. ASSUME NEW i \in DOMAIN stamped', stamped'[i][2] = "assistant"
      PROVE  \E h \in 1 .. i - 1 : stamped'[h] = <<stamped'[i][1], "user">>
  <2>1. CASE i \in DOMAIN stamped
    <3>1. PICK h \in 1 .. i - 1 : stamped[h] = <<stamped[i][1], "user">>
      BY <1>2, <2>1 DEF StampsOrdered
    <3>2. h \in DOMAIN stamped
      BY <2>1, <3>1
    <3> QED
      BY <2>1, <3>1, <3>2
  <2>2. CASE i = N + 1
    <3>1. PICK h \in DOMAIN stamped : stamped[h] = <<m[1], "user">>
      BY <1>2, <2>2
    <3> QED
      BY <2>2, <3>1
  <2> QED
    BY <2>1, <2>2
<1> QED
  BY <1>1, <1>2 DEF StampsOnce, StampsOrdered

LEMMA StampsOfOthers ==
  ASSUME stamped \in Seq(Message), NEW m \in Message, stamped' = Append(stamped, m),
         NEW p \in Questions, p # m[1], step'[p] = step[p], StampOf(p)
  PROVE  StampOf(p)'
<1>1. /\ \A i \in DOMAIN stamped' : stamped'[i] = m \/ (i \in DOMAIN stamped /\ stamped'[i] = stamped[i])
      /\ \A i \in DOMAIN stamped : i \in DOMAIN stamped' /\ stamped'[i] = stamped[i]
  BY StampsGrow
<1>2. step[p] \in {"new", "find"} => \A i \in DOMAIN stamped' : stamped'[i][1] # p
  BY <1>1 DEF StampOf
<1>3. step[p] \in {"ask", "plan", "sql", "query", "summary"} =>
        \A i \in DOMAIN stamped' : stamped'[i] # <<p, "assistant">>
  <2>1. m # <<p, "assistant">>
    OBVIOUS
  <2> QED
    BY <1>1, <2>1 DEF StampOf
<1>4. step[p] \in Working \ {"find"} => \E i \in DOMAIN stamped' : stamped'[i] = <<p, "user">>
  BY <1>1 DEF StampOf
<1> QED
  BY <1>2, <1>3, <1>4 DEF StampOf

\* run_message composes an answer.
LEMMA StampsCompose ==
  ASSUME ServiceInv, Stamps, NEW q \in Questions, NEW text, Compose(q, text),
         step[q] \in {"plan", "sql", "query", "summary"}
  PROVE  Stamps'
<1>1. /\ stamped \in Seq(Message) /\ <<q, "assistant">> \in Message
      /\ stamped' = Append(stamped, <<q, "assistant">>)
      /\ step' = [step EXCEPT ![q] = "save"] /\ step \in [Questions -> {"new"} \cup Working \cup Ended]
  BY DEF ServiceInv, ServiceTypeOK, Compose, Go, Message, Role
<1>2. /\ \A i \in DOMAIN stamped : stamped[i] # <<q, "assistant">>
      /\ \E i \in DOMAIN stamped : stamped[i] = <<q, "user">>
  BY DEF Stamps, StampOf, Working
<1>3. StampsOnce' /\ StampsOrdered'
  BY <1>1, <1>2, StampsAdd DEF Stamps
<1>4. ASSUME NEW p \in Questions PROVE StampOf(p)'
  <2>1. CASE p = q
    BY <1>1, <1>2, <2>1, StampsGrow DEF StampOf
  <2>2. CASE p # q
    <3>1. step'[p] = step[p] /\ StampOf(p)
      BY <1>1, <2>2 DEF Stamps
    <3> QED
      BY <1>1, <2>2, <3>1, StampsOfOthers
  <2> QED
    BY <2>1, <2>2
<1> QED
  BY <1>3, <1>4 DEF Stamps

\* Steps that stamp nothing.
LEMMA StampsKept ==
  ASSUME Stamps, UNCHANGED stamped,
         \A q \in Questions :
           \/ step'[q] = step[q] \/ step'[q] \in Ended
           \/ step[q] = "new" /\ step'[q] = "find"
           \/ step[q] = "ask" /\ step'[q] = "plan"
           \/ step[q] = "plan" /\ step'[q] = "sql"
           \/ step[q] = "sql" /\ step'[q] = "query"
           \/ step[q] = "query" /\ step'[q] = "summary"
  PROVE  Stamps'
<1>1. ASSUME NEW q \in Questions PROVE StampOf(q)'
  <2>1. StampOf(q)
    BY DEF Stamps
  <2> QED
    BY <2>1 DEF StampOf, Working, Ended
<1>2. StampsOnce' /\ StampsOrdered'
  BY DEF Stamps, StampsOnce, StampsOrdered
<1> QED
  BY <1>1, <1>2 DEF Stamps

LEMMA StampsStep ==
  ASSUME ServiceInv, Stamps, [ServiceNext]_service
  PROVE  Stamps'
<1>0. step \in [Questions -> {"new"} \cup Working \cup Ended]
  BY DEF ServiceInv, ServiceTypeOK
<1>1. ASSUME NEW q \in Questions, FindSession(q), owner[target[q]] = asker[q] PROVE Stamps'
  <2>1. /\ stamped \in Seq(Message) /\ <<q, "user">> \in Message
        /\ stamped' = Append(stamped, <<q, "user">>)
        /\ step[q] = "find" /\ step' = [step EXCEPT ![q] = "ask"]
    BY <1>1 DEF ServiceInv, ServiceTypeOK, FindSession, Go, Message, Role
  <2>2. \A i \in DOMAIN stamped : stamped[i][1] # q
    BY <2>1 DEF Stamps, StampOf
  <2>3. StampsOnce' /\ StampsOrdered'
    BY <2>1, <2>2, StampsAdd DEF Stamps
  <2>4. ASSUME NEW p \in Questions PROVE StampOf(p)'
    <3>1. CASE p = q
      <4>1. step'[q] = "ask"
        BY <1>0, <2>1
      <4>2. \A i \in DOMAIN stamped' :
              stamped'[i] = <<q, "user">> \/ (i \in DOMAIN stamped /\ stamped'[i] = stamped[i])
        BY <2>1, StampsGrow
      <4>3. \E i \in DOMAIN stamped' : stamped'[i] = <<q, "user">>
        BY <2>1, StampsGrow
      <4>4. \A i \in DOMAIN stamped' : stamped'[i] # <<q, "assistant">>
        BY <2>2, <4>2
      <4> QED
        BY <3>1, <4>1, <4>3, <4>4 DEF StampOf
    <3>2. CASE p # q
      <4>1. step'[p] = step[p] /\ StampOf(p)
        BY <2>1, <3>2 DEF Stamps
      <4> QED
        BY <2>1, <3>2, <4>1, StampsOfOthers
    <3> QED
      BY <3>1, <3>2
  <2> QED
    BY <2>3, <2>4 DEF Stamps
<1>2. ASSUME NEW q \in Questions, NEW text, Compose(q, text), step[q] \in {"plan", "sql", "query", "summary"}
      PROVE  Stamps'
  BY <1>2, StampsCompose
<1>3. ASSUME NEW q \in Questions, UNCHANGED stamped,
             \/ Go(q, "notfound") \/ Go(q, "failed") \/ Go(q, "done")
             \/ step[q] = "new" /\ Go(q, "find")
             \/ step[q] = "ask" /\ Go(q, "plan")
             \/ step[q] = "plan" /\ Go(q, "sql")
             \/ step[q] = "sql" /\ Go(q, "query")
             \/ step[q] = "query" /\ Go(q, "summary")
      PROVE  Stamps'
  BY <1>0, <1>3, StampsKept DEF Go, Ended
<1>4. ASSUME NEW q \in Questions, Serve(q) PROVE Stamps'
  <2>1. CASE FindSession(q)
    BY <1>1, <1>3, <2>1 DEF FindSession
  <2>2. CASE SaveQuestion(q)
    BY <1>3, <2>2 DEF SaveQuestion
  <2>3. CASE Plan(q)
    BY <1>2, <1>3, <2>3 DEF Plan, Raise
  <2>4. CASE GenerateSql(q)
    BY <1>2, <1>3, <2>4 DEF GenerateSql, Raise
  <2>5. CASE RunQuery(q)
    BY <1>2, <1>3, <2>5 DEF RunQuery
  <2>6. CASE Summarize(q)
    BY <1>2, <1>3, <2>6 DEF Summarize, Raise
  <2>7. CASE SaveAnswer(q)
    BY <1>3, <2>7 DEF SaveAnswer
  <2>8. CASE FailStorage(q)
    BY <1>3, <2>8 DEF FailStorage, Raise
  <2> QED
    BY <1>4, <2>1, <2>2, <2>3, <2>4, <2>5, <2>6, <2>7, <2>8 DEF Serve
<1>5. ASSUME NEW q \in Questions, NEW b \in Browsers, NEW s \in Sessions, PostMessage(q, b, s) PROVE Stamps'
  BY <1>3, <1>5 DEF PostMessage
<1>6. ASSUME Restart PROVE Stamps'
  BY <1>0, <1>6, StampsKept DEF Restart, Ended
<1>7. ASSUME NEW s \in Sessions, NEW b \in Browsers, CreateSession(s, b) PROVE Stamps'
  BY <1>7, StampsKept DEF CreateSession
<1>8. ASSUME UNCHANGED service PROVE Stamps'
  BY <1>8, StampsKept DEF service
<1> QED
  BY <1>4, <1>5, <1>6, <1>7, <1>8 DEF ServiceNext

\* A history of session s, as it is or as it once was: messages of it, each once, and
\* every answer after its question.
HistoryOf(s, h) ==
  /\ h \in Seq(Message)
  /\ \A i \in DOMAIN h : <<s, h[i][1], h[i][2]>> \in saved
  /\ \A i, j \in DOMAIN h : h[i] = h[j] => i = j
  /\ \A i \in DOMAIN h : h[i][2] = "assistant" => \E j \in 1 .. i - 1 : h[j] = <<h[i][1], "user">>

LEMMA HistoryIsOf ==
  ASSUME ServiceInv, Stamps, NEW s \in Sessions
  PROVE  HistoryOf(s, History(s))
<1> DEFINE N == Len(stamped)
<1>0. stamped \in Seq(Message)
  BY DEF ServiceInv, ServiceTypeOK, Message
<1>1. stamped \in Seq(Message) /\ N \in Nat /\ DOMAIN stamped = 1 .. N
  BY <1>0
<1>2. PICK f : Picks(s, History(s), N, f)
  BY <1>1, HistoryPicks
<1> DEFINE h == History(s)
           l == Len(h)
<1> HIDE DEF h
<1>3. /\ h \in Seq(Message) /\ l \in Nat /\ DOMAIN h = 1 .. l
      /\ \A i \in 1 .. l : f[i] \in 1 .. N /\ h[i] = stamped[f[i]] /\ h[i] \in Message
  <2>1. h \in Seq(Message) /\ f \in [1 .. l -> 1 .. N] /\ \A i \in 1 .. l : h[i] = stamped[f[i]]
    BY <1>2 DEF Picks, h
  <2>2. l \in Nat /\ DOMAIN h = 1 .. l /\ \A i \in 1 .. l : h[i] \in Message
    BY <2>1
  <2> QED
    BY <2>1, <2>2
<1>4. \A i, j \in 1 .. l : i < j => f[i] < f[j]
  BY <1>2 DEF Picks, h
<1>5. \A i \in 1 .. l : <<s, h[i][1], h[i][2]>> \in saved
  BY <1>2 DEF Picks, h
<1>6. \A m \in 1 .. N : <<s, stamped[m][1], stamped[m][2]>> \in saved => \E i \in 1 .. l : f[i] = m
  BY <1>2 DEF Picks, h
<1>7. ASSUME NEW i \in 1 .. l, NEW j \in 1 .. l, h[i] = h[j] PROVE i = j
  <2>1. f[i] = f[j]
    BY <1>1, <1>3, <1>7 DEF Stamps, StampsOnce
  <2>2. f[i] \in Nat /\ f[j] \in Nat
    BY <1>1, <1>3
  <2> QED
    BY <1>3, <1>4, <2>1, <2>2
<1>8. ASSUME NEW i \in 1 .. l, h[i][2] = "assistant"
      PROVE  \E j \in 1 .. i - 1 : h[j] = <<h[i][1], "user">>
  <2>1. stamped[f[i]][2] = "assistant" /\ f[i] \in DOMAIN stamped
    BY <1>1, <1>3, <1>8
  <2>2. PICK m \in 1 .. f[i] - 1 : stamped[m] = <<h[i][1], "user">>
    BY <1>3, <2>1 DEF Stamps, StampsOrdered
  <2>3. m \in 1 .. N /\ f[i] \in Nat
    BY <1>1, <1>3
  <2>4. <<s, h[i][1], "assistant">> \in saved /\ h[i][1] \in Questions
    BY <1>3, <1>5, <1>8 DEF Message
  <2>5. <<s, h[i][1], "user">> \in saved
    BY <2>4 DEF ServiceInv, Stored, StoredOf
  <2>6. PICK j \in 1 .. l : f[j] = m
    BY <1>6, <2>2, <2>3, <2>5
  <2>7. j < i
    BY <1>3, <1>4, <2>3, <2>6
  <2> QED
    BY <1>3, <2>2, <2>6, <2>7
<1>9. HistoryOf(s, h)
  BY <1>3, <1>5, <1>7, <1>8 DEF HistoryOf
<1> QED
  BY <1>9 DEF h

\* However threads interleave and whatever fails: in the history that get_session returns,
\* an answer comes after its question.
THEOREM QuestionFirstAlways == ServiceSpec => []QuestionFirst
<1>1. ASSUME ServiceInv, Stamps PROVE QuestionFirst
  <2>1. ASSUME NEW s \in Sessions, NEW j \in 1 .. Len(History(s)), History(s)[j][2] = "assistant"
        PROVE  \E i \in 1 .. j - 1 : History(s)[i] = <<History(s)[j][1], "user">>
    <3>1. HistoryOf(s, History(s))
      BY <1>1, HistoryIsOf
    <3>2. DOMAIN History(s) = 1 .. Len(History(s))
      BY <3>1 DEF HistoryOf
    <3> QED
      BY <2>1, <3>1, <3>2 DEF HistoryOf
  <2> QED
    BY <2>1 DEF QuestionFirst
<1> QED
  BY InitInv, StepInv, StampsInit, StampsStep, <1>1, PTL DEF ServiceSpec

====
