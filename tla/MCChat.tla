---- MODULE MCChat ----
(* Instances of ChatService for TLC: the constants of the runs. *)
EXTENDS ChatService

CONSTANTS b1, b2, s1, s2, q1, q2

TwoBrowsers == {b1, b2}
TwoSessions == {s1, s2}
TwoQuestions == {q1, q2}
FirstUntitled == {q1}
====
