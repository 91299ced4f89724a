---- MODULE MCBenchmark ----
(***************************************************************************)
(* Two months.  Rows 1 and 2 are one event, 5 breaks a rule and comes with *)
(* the second version of the input, which replaces row 3 by row 4.         *)
(***************************************************************************)
EXTENDS Benchmark

MCRow == 1 .. 5
MCKeyOf == <<1, 1, 3, 4, 5>>
MCMonthOf == <<1, 2, 2, 2, 2>>
MCInvalid == {5}
MCKept == {1, 2, 3, 4}
MCContent == <<{1, 2, 3}, {1, 2, 4, 5}>>
MCBootstrapRows == {1}
\* A staging path may be reused without the cache, a bootstrap path is for the cache.
MCPlans == {[cached |-> c, reuse |-> ~c /\ special, boot |-> c /\ special, chunked |-> ch, batch |-> ~ch] :
              c \in BOOLEAN, special \in BOOLEAN, ch \in BOOLEAN}
====
