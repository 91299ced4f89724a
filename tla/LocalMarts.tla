---- MODULE LocalMarts ----
(***************************************************************************)
(* The Gold builders of the local pipeline, which loop over the rows of    *)
(* Silver with dictionaries where the Spark builders group and join.       *)
(* Columns left out are those left out of SparkMarts.                      *)
(***************************************************************************)
EXTENDS SparkMarts

\* The dictionaries of build_gold_tables: the rows of a key are one entry.
UserEntry(S) == [e \in S |-> <<Date(e), e.user>>]
ProductEntry(S) == [e \in S |-> <<Date(e), e.product>>]
CategoryEntry(S) == [e \in S |-> <<Date(e), CategoryOf[e.product]>>]
SessionEntry(S) == [e \in S |-> <<e.user, e.session, Date(e)>>]

\* A set of products here may hold NULL, unlike a countDistinct.
UserActivitySummary(S) ==
  {[date |-> DateOf(G), user |-> Shared(UserEntry(S), G)[2], events |-> Cardinality(G),
    products |-> Cardinality({e.product : e \in G}), first |-> Earliest(G), last |-> Latest(G),
    counts |-> Counts(G)] : G \in Groups(S, UserEntry(S))}

ProductPopularity(S) ==
  {[date |-> DateOf(G), product |-> Shared(ProductEntry(S), G)[2], users |-> Cardinality(Users(G)),
    counts |-> Counts(G)] : G \in Groups(S, ProductEntry(S))}

RevenueByCategory(S) ==
  {[date |-> DateOf(G), category |-> Shared(CategoryEntry(S), G)[2],
    purchases |-> Cardinality(OfType(G, "purchase")), revenue |-> Revenue(G),
    buyers |-> Cardinality(Users(OfType(G, "purchase")))] : G \in Groups(S, CategoryEntry(S))}

ConversionFunnel(S) == {[date |-> d, stages |-> Stages(OnDates(S, {d}))] : d \in Dates(S)}

SessionSummary(S) ==
  {[date |-> DateOf(G), user |-> Shared(SessionEntry(S), G)[1], session |-> Shared(SessionEntry(S), G)[2],
    start |-> Earliest(G), end |-> Latest(G), events |-> Cardinality(G), counts |-> Counts(G)] :
      G \in Groups(S, SessionEntry(S))}

\* setdefault keeps the month of the first purchase in the order of time and id.
LastPurchase(P, u) == CHOOSE e \in P : e.user = u /\ \A f \in P : f.user = u => f = e \/ Before(f, e)
FirstPurchase(P, u) == CHOOSE e \in P : e.user = u /\ \A f \in P : f.user = u => f = e \/ Before(e, f)

LocalCohortRetention(S) ==
  LET P == Purchases(S)
      first_purchase_month == [u \in Users(P) |-> MonthOf[Date(FirstPurchase(P, u))]]
      retained(c, k) == {u \in Users(P) : /\ first_purchase_month[u] = c
                                          /\ \E e \in P : e.user = u /\ MonthOf[Date(e)] - c = k}
      offsets == {<<first_purchase_month[e.user], MonthOf[Date(e)] - first_purchase_month[e.user]>> : e \in P}
  IN {[cohort |-> o[1], offset |-> o[2],
       users |-> Cardinality({u \in Users(P) : first_purchase_month[u] = o[1]}),
       active |-> Cardinality(retained(o[1], o[2]))] : o \in {p \in offsets : p[2] >= 0}}

\* sorted by date alone: the first date of a user is the least.
LocalRepeatPurchase(S) ==
  LET P == Purchases(S)
      first_purchase_date == [u \in Users(P) |-> Min({Date(e) : e \in {f \in P : f.user = u}})]
      month_start(m) == Min({d \in DOMAIN MonthOf : MonthOf[d] = m})
  IN {[month |-> m, purchasers |-> Cardinality(Users({e \in P : MonthOf[Date(e)] = m})),
       repeats |-> Cardinality({u \in Users({e \in P : MonthOf[Date(e)] = m}) :
                                  first_purchase_date[u] < month_start(m)})] : m \in {MonthOf[Date(e)] : e \in P}}

LocalProductAffinity(S) ==
  PairsOf({<<SessionEntry(S)[e], e.product>> : e \in {f \in OfType(S, "purchase") : f.product # None}})

LocalTimeToConversion(S) == Histogram(Groups(S, SessionEntry(S)))

QuintileScore(k, n) == 5 - (IF ((k - 1) * 5) \div n > 4 THEN 4 ELSE ((k - 1) * 5) \div n)

\* The window ends at the last date of any row, not of any purchase.
LocalRfmSegmentation(S) ==
  IF S = {} THEN {}
  ELSE LET base == RfmBase(S, Max(Dates(S)))
           n == Cardinality(DOMAIN base)
       IN RfmRows(Max(Dates(S)), base, [k \in 1..n |-> QuintileScore(k, n)])
====
