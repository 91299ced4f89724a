---- MODULE SilverEvents ----
(***************************************************************************)
(* The rows of Silver as the Gold builders see them, and the vocabulary    *)
(* both implementations of Gold share.  A row is a record                  *)
(*   [id, time, user, session, product, type, price]                       *)
(* with the time in seconds, the price in cents, and None where the column *)
(* is NULL.  The date is the one Silver derives from the time; a product   *)
(* has one category, and months are given as numbers of consecutive months.*)
(***************************************************************************)
EXTENDS Integers, FiniteSets, FiniteSetsExt, Functions

CONSTANTS Event,       \* the rows that may come to Silver
          None,        \* NULL
          Day,         \* seconds of a day
          MonthOf,     \* the month of each date
          CategoryOf   \* the category of each product, and of None

\* The ids are hashes, compared as numbers here; what reaches Gold has one of the three types.
ASSUME SilverAssumption ==
  /\ IsFiniteSet(Event) /\ Day \in Nat \ {0}
  /\ \A e \in Event : /\ {e.id, e.time} \subseteq Int /\ {e.user, e.product, e.price} \subseteq {None} \cup Int
                      /\ e.type \in {"view", "cart", "purchase"}
  /\ \A e, f \in Event : e.id = f.id => e = f

Date(e) == e.time \div Day

\* The order of every window and every sort of the builders.
Before(e, f) == e.time < f.time \/ (e.time = f.time /\ e.id < f.id)

OfType(S, t) == {e \in S : e.type = t}
Price(e) == IF e.price = None THEN 0 ELSE e.price
Revenue(S) == SumFunction([e \in OfType(S, "purchase") |-> Price(e)])
Users(S) == {e.user : e \in S} \ {None}
Dates(S) == {Date(e) : e \in S}
OnDates(S, D) == {e \in S : Date(e) \in D}

\* Every date that occurs has a month, and no later date an earlier one.
ASSUME CalendarAssumption ==
  /\ Dates(Event) \subseteq DOMAIN MonthOf /\ DOMAIN MonthOf \subseteq Int /\ IsFiniteSet(DOMAIN MonthOf)
  /\ \A c, d \in DOMAIN MonthOf : MonthOf[d] \in Int /\ (c <= d => MonthOf[c] <= MonthOf[d])

\* The counters of the marts; the funnels have no revenue.
Stages(S) == [views |-> Cardinality(OfType(S, "view")), carts |-> Cardinality(OfType(S, "cart")),
              purchases |-> Cardinality(OfType(S, "purchase"))]
Counts(S) == [views |-> Cardinality(OfType(S, "view")), carts |-> Cardinality(OfType(S, "cart")),
              purchases |-> Cardinality(OfType(S, "purchase")), revenue |-> Revenue(S)]

\* GROUP BY: the groups of S whose rows agree on key; NULL is a key like any other.
Groups(S, key) == {{e \in S : key[e] = k} : k \in {key[e] : e \in S}}

Earliest(S) == Min({e.time : e \in S})
Latest(S) == Max({e.time : e \in S})

\* Purchases by a known user, which is all that the customer marts look at.
Purchases(S) == {e \in OfType(S, "purchase") : e.user # None}

\* The histogram of the seconds from the first view to the first purchase.
TimeBucket(seconds) == CASE seconds <= 60 -> "0-60s"
                         [] seconds > 60 /\ seconds <= 300 -> "61-300s"
                         [] seconds > 300 /\ seconds <= 1800 -> "301-1800s"
                         [] seconds > 1800 /\ seconds <= 86400 -> "1801-86400s"
                         [] seconds > 86400 -> ">86400s"

Segment(r, f, m) == IF r >= 4 /\ f >= 4 /\ m >= 4 THEN "champions"
                    ELSE IF r >= 4 /\ f <= 2 THEN "new_customers"
                    ELSE IF r <= 2 /\ f >= 3 THEN "at_risk"
                    ELSE IF r <= 2 /\ f <= 2 THEN "hibernating"
                    ELSE IF f >= 4 THEN "loyal_customers" ELSE "potential"
====
