---- MODULE Conversation ----
(***************************************************************************)
(* What the chat service promises: a question is put once, to a session of *)
(* the one who asks; it gets at most one answer, in that session; nothing  *)
(* that was said is taken back and no session changes hands.               *)
(***************************************************************************)
CONSTANTS Browsers, NoOne, Sessions, Questions

VARIABLES
  owner,    \* who opened the session
  asker,    \* who put the question
  asked,    \* pairs of session and question
  answered  \* pairs of session and question

Init ==
  /\ owner = [s \in Sessions |-> NoOne]
  /\ asker = [q \in Questions |-> NoOne]
  /\ asked = {} /\ answered = {}

Open(s, b) ==
  /\ owner[s] = NoOne /\ owner' = [owner EXCEPT ![s] = b]
  /\ UNCHANGED <<asker, asked, answered>>

Submit(q, b) ==
  /\ asker[q] = NoOne /\ asker' = [asker EXCEPT ![q] = b]
  /\ UNCHANGED <<owner, asked, answered>>

Ask(s, q) ==
  /\ owner[s] = asker[q] /\ asker[q] # NoOne
  /\ \A other \in Sessions : <<other, q>> \notin asked
  /\ asked' = asked \cup {<<s, q>>}
  /\ UNCHANGED <<owner, asker, answered>>

Answer(s, q) ==
  /\ <<s, q>> \in asked \ answered
  /\ answered' = answered \cup {<<s, q>>}
  /\ UNCHANGED <<owner, asker, asked>>

Next ==
  \/ \E s \in Sessions, b \in Browsers : Open(s, b)
  \/ \E q \in Questions, b \in Browsers : Submit(q, b)
  \/ \E s \in Sessions, q \in Questions : Ask(s, q) \/ Answer(s, q)

Spec == Init /\ [][Next]_<<owner, asker, asked, answered>>
====
