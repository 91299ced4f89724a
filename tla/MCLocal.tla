---- MODULE MCLocal ----
(***************************************************************************)
(* Two runs of Bronze and Silver, one of Gold.  Of the input, four rows are *)
(* there at first: a view, a row without a time, the same view spelled in  *)
(* another way, a cart of the next date.  A purchase without price comes on *)
(* its own, and so does a view of the year 1; a view without user comes    *)
(* with a row that has too many fields.                                    *)
(***************************************************************************)
EXTENDS LocalPipeline, TLC

Fields(t, ty, pr, u) == [long |-> FALSE, missing |-> FALSE, time |-> t, type |-> ty, price |-> pr,
                         user |-> u, product |-> "7"]
MCRow == 1 .. 8
MCPayload == <<Fields("10:00", "view", "5", "1"), Fields("", "view", "5", "1"), Fields("10:00Z", " View", "5", "1"),
               Fields("tomorrow", "cart", "nan", "1"), Fields("10:00", "view", "5", ""),
               Fields("tomorrow", "purchase", "", "1"), [Fields("tomorrow", "view", "5", "1") EXCEPT !.long = TRUE],
               Fields("0001-01-01", "view", "5", "1")>>
MCDay == 86400
MCParse == [t \in {"10:00", "10:00Z", "tomorrow", "0001-01-01", ""} |->
              IF t = "" THEN Garbled ELSE IF t = "0001-01-01" THEN Odd ELSE IF t = "tomorrow" THEN MCDay + 5 ELSE 36000]
MCLower == [t \in {"view", " View", "cart", "purchase"} |-> IF t = " View" THEN "view" ELSE t]
MCNumber == [t \in {"1", "5", "7", "nan", ""} |-> IF t = "" THEN None ELSE IF t = "nan" THEN NaN ELSE IF t = "1" THEN 1 ELSE 5]
MCFirst == {1, 2, 3, 4}
MCLater == {MCFirst \cup S : S \in {{5, 7}, {6}, {8}}}
Symmetry == Permutations(BronzeRun) \cup Permutations(SilverRun)
====
