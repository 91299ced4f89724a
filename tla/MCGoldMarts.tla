---- MODULE MCGoldMarts ----
(***************************************************************************)
(* Rows for every rule of the builders: sessions with and without an id,   *)
(* gaps of exactly and of more than 30 minutes, a session across midnight, *)
(* one shared by two users, events of one second, a month's end, a return  *)
(* after the RFM window, more rows without an id than lpad counts here, and *)
(* NULL users, products and prices.                                        *)
(***************************************************************************)
EXTENDS GoldMarts

MCDay == 86400
MCMonthOf == [d \in 0 .. 99 |-> d \div 31]
At(d, s) == d * MCDay + s
Ev(id, t, u, s, p, ty, pr) == [id |-> id, time |-> t, user |-> u, session |-> IF s = None THEN None ELSE <<s>>, product |-> p, type |-> ty, price |-> pr]

Browse == Ev(1, At(0, 100), 1, None, 1, "view", 500)
Fill == Ev(3, At(0, 1900), 1, None, 1, "cart", 500)
Buy == Ev(2, At(0, 3701), 1, None, 1, "purchase", 500)
Other == Ev(4, At(0, 1000), 1, "s1", 2, "view", 300)
AtOnce == Ev(5, At(0, 1000), 1, "s1", 2, "purchase", 300)
Late == Ev(6, At(0, 86390), 2, "s2", 1, "view", 500)
PastMidnight == Ev(7, At(1, 20), 2, "s2", 1, "purchase", None)
Pair == Ev(8, At(1, 90), 2, "s2", 2, "purchase", 700)
Again == Ev(13, At(0, 9000), 1, None, 1, "view", 500)
Return == Ev(9, At(31, 50), 1, None, 1, "purchase", 500)
Stranger == Ev(10, At(31, 60), None, None, None, "view", None)
Lapsed == Ev(11, At(95, 10), 2, "s4", 3, "purchase", 100)
Shared4 == Ev(12, At(95, 15), 3, "s4", 1, "purchase", 900)

MCEvent == {Browse, Fill, Buy, Again, Other, AtOnce, Late, PastMidnight, Pair, Return, Stranger, Lapsed, Shared4}
MCCategoryOf == [p \in {1, 2, 3, None} |-> IF p = None THEN None ELSE IF p = 3 THEN 20 ELSE 10]
MCBatch == {{e} : e \in MCEvent \ {Other, Lapsed}} \cup {{Late, Other}, {Browse, Lapsed}, {Other}, {Lapsed}}
====
