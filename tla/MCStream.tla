---- MODULE MCStream ----
(* Instances of StreamQuery for TLC: the constants of the runs. *)
EXTENDS StreamQuery

NoDeadline == {}
BothDeadlines == {"timeout", "stop_after"}
NoPoison == {}
SecondPoison == {2}
FourthPoison == {4}
====
