---- MODULE MCChatTab ----
(* Instances of ChatTab for TLC: the constants of the runs. *)
EXTENDS ChatTab, TLC

CONSTANTS b1, b2, b3, b4, b5, s1, s2, q1, q2, c1, c2

FiveBrowsers == {b1, b2, b3, b4, b5}
TwoSessions == {s1, s2}
OneSession == {s1}
TwoQuestions == {q1, q2}
OneQuestion == {q1}
AllTitled == {}
OneCall == {c1}
TwoCalls == {c1, c2}

Symmetry == Permutations(TwoSessions) \cup Permutations(TwoQuestions)
====
