---- MODULE SparkMarts ----
(***************************************************************************)
(* The Gold builders of the Iceberg pipeline: one operator per mart, from  *)
(* a set of Silver rows to the set of rows of the mart.  Columns that are  *)
(* functions of others (rates, averages, durations) and rounding are left  *)
(* out; a lift is the pair of numerator and denominator.                   *)
(***************************************************************************)
EXTENDS SilverEvents, SequencesExt

CONSTANTS Inactivity,   \* seconds after which a session without id ends
          PadLimit,     \* the first number that lpad to four digits cuts
          TopProducts,  \* ranks kept per date
          TopPairs,     \* pairs kept
          Lookback      \* days of the RFM window

ASSUME MartAssumption == {Inactivity, PadLimit, TopProducts, TopPairs, Lookback} \subseteq Nat

(***************************************************************************)
(* Sessions.                                                               *)
(***************************************************************************)

\* The rows of the window: NULL users of a date share one partition.
WindowOfUser(S, e) == {f \in S : f.user = e.user}
Window(S, e) == {f \in S : Date(f) = Date(e) /\ f.user = e.user}
Previous(S, e) == LET W == {f \in Window(S, e) : Before(f, e)}
                  IN {f \in W : \A g \in W : g = f \/ Before(g, f)}

BreakAtLimit(S, e) == /\ e.session = None
                      /\ \A p \in Previous(S, e) : p.session # None \/ e.time - p.time >= Inactivity
DerivedBreak(S, e) == /\ e.session = None
                      /\ \A p \in Previous(S, e) : p.session # None \/ e.time - p.time > Inactivity

DerivedIndex(S, e) == Cardinality({f \in Window(S, e) : (f = e \/ Before(f, e)) /\ DerivedBreak(S, f)})
Lpad(n) == IF n < PadLimit THEN n ELSE n \div 10

SessionId(S, e) == IF e.session # None THEN e.session
                   ELSE <<"derived", e.user, Date(e), Lpad(DerivedIndex(S, e))>>

\* Silver with the column session_id, as a function from rows to ids.
Sessionized(S) == [e \in S |-> SessionId(S, e)]

(***************************************************************************)
(* The six marts that are refreshed by date.                               *)
(***************************************************************************)

ByDate(S) == [e \in S |-> Date(e)]
DateOf(G) == CHOOSE d \in Dates(G) : TRUE
\* The value of a column that all rows of the group share.
Shared(key, G) == key[CHOOSE e \in G : TRUE]

DailyRevenue(S) ==
  {[date |-> DateOf(G), purchases |-> Cardinality(G), revenue |-> Revenue(G), buyers |-> Cardinality(Users(G))] :
      G \in Groups(OfType(S, "purchase"), ByDate(S))}

ConversionFunnelDaily(S) == {[date |-> DateOf(G), stages |-> Stages(G)] : G \in Groups(S, ByDate(S))}

ByCategory(S) == [e \in S |-> <<Date(e), CategoryOf[e.product]>>]
CategoryPerformance(S) ==
  {[date |-> DateOf(G), category |-> Shared(ByCategory(S), G)[2],
    buyers |-> Cardinality(Users(OfType(G, "purchase"))), counts |-> Counts(G)] : G \in Groups(S, ByCategory(S))}

ByProduct(S) == [e \in S |-> <<Date(e), e.product>>]
ProductAgg(S) ==
  {[date |-> DateOf(G), product |-> Shared(ByProduct(S), G)[2], users |-> Cardinality(Users(G)),
    counts |-> Counts(G)] : G \in Groups(S, ByProduct(S))}
\* ORDER BY revenue DESC, purchases DESC, views DESC, product NULLS LAST.
Outranks(p, q) ==
  LET a == p.counts
      b == q.counts
  IN \/ a.revenue > b.revenue
     \/ a.revenue = b.revenue /\ a.purchases > b.purchases
     \/ <<a.revenue, a.purchases>> = <<b.revenue, b.purchases>> /\ a.views > b.views
     \/ /\ <<a.revenue, a.purchases, a.views>> = <<b.revenue, b.purchases, b.views>>
        /\ p.product # None
        /\ q.product = None \/ p.product < q.product
ProductRank(A, p) == 1 + Cardinality({q \in A : q.date = p.date /\ Outranks(q, p)})
TopProductsDaily(S) ==
  {[date |-> p.date, rank |-> ProductRank(ProductAgg(S), p), row |-> p] :
      p \in {q \in ProductAgg(S) : ProductRank(ProductAgg(S), q) <= TopProducts}}

\* The stages of a group in the order of their first events; equal times sort by name.
Reached(G) == {t \in {"cart", "purchase", "view"} : OfType(G, t) # {}}
Sooner(G, s, t) ==
  LET name == [cart |-> 1, purchase |-> 2, view |-> 3]
      first(x) == Earliest(OfType(G, x))
  IN first(s) < first(t) \/ (first(s) = first(t) /\ name[s] < name[t])
PathLabel(G) ==
  CHOOSE p \in SetToSeqs(Reached(G)) : \A i, j \in DOMAIN p : i < j => Sooner(G, p[i], p[j])

BySessionOnly(S, sid) == [e \in S |-> <<Date(e), (CHOOSE f \in S : sid[f] = sid[e]).user, sid[e]>>]
BySession(S, sid) == [e \in S |-> <<Date(e), e.user, sid[e]>>]
SessionFunnel(S, sid) ==
  {[date |-> DateOf(G), user |-> Shared(BySession(S, sid), G)[2], session |-> Shared(BySession(S, sid), G)[3],
    start |-> Earliest(G), end |-> Latest(G), events |-> Cardinality(G),
    products |-> Cardinality({e.product : e \in G} \ {None}), label |-> PathLabel(G),
    converted |-> OfType(G, "purchase") # {}, counts |-> Counts(G)] : G \in Groups(S, BySession(S, sid))}

ByUser(S) == [e \in S |-> <<Date(e), e.user>>]
UserConversionPath(S, sid) ==
  {[date |-> DateOf(G), user |-> Shared(ByUser(S), G)[2], sessions |-> Cardinality({sid[e] : e \in G}),
    first |-> Earliest(G), last |-> Latest(G), label |-> PathLabel(G),
    converted |-> OfType(G, "purchase") # {}, counts |-> Counts(G)] : G \in Groups(S, ByUser(S))}

(***************************************************************************)
(* The five marts that depend on all of history.                           *)
(***************************************************************************)

FirstPurchaseDate(P, u) == Min(Dates({e \in P : e.user = u}))
LatestMonth(P, u) == MonthOf[Max(Dates({e \in P : e.user = u}))]
CohortMonth(P, u) == MonthOf[FirstPurchaseDate(P, u)]

CohortRetention(S) ==
  LET P == Purchases(S)
      month == [u \in Users(P) |-> CohortMonth(P, u)]
      active == {<<month[e.user], MonthOf[Date(e)] - month[e.user], e.user>> : e \in P}
  IN {[cohort |-> a[1], offset |-> a[2],
       users |-> Cardinality({u \in Users(P) : month[u] = a[1]}),
       active |-> Cardinality({b \in active : b[1] = a[1] /\ b[2] = a[2]})] : a \in {b \in active : b[2] >= 0}}

RepeatPurchase(S) ==
  LET P == Purchases(S)
      buyers(m) == Users({e \in P : MonthOf[Date(e)] = m})
  IN {[month |-> m, purchasers |-> Cardinality(buyers(m)),
       repeats |-> Cardinality({u \in buyers(m) : CohortMonth(P, u) < m})] : m \in {MonthOf[d] : d \in Dates(P)}}

\* Pairs of products bought in one session, the most frequent first, cut off at TopPairs.
RankedPairs(pairs) ==
  {p \in pairs : TopPairs > Cardinality({q \in pairs :  \/ q.together > p.together
                                                        \/ q.together = p.together /\ q.a < p.a
                                                        \/ q.together = p.together /\ q.a = p.a /\ q.b < p.b})}

\* bought is a set of <<session, product>>.
PairsOf(bought) ==
  LET baskets == {b[1] : b \in bought}
      with(p) == {s \in baskets : <<s, p>> \in bought}
      products == {b[2] : b \in bought}
  IN RankedPairs({[a |-> ab[1], b |-> ab[2], together |-> Cardinality(with(ab[1]) \cap with(ab[2])),
                   lift |-> <<Cardinality(with(ab[1]) \cap with(ab[2])) * Cardinality(baskets),
                              Cardinality(with(ab[1])) * Cardinality(with(ab[2]))>>] :
                     ab \in {pq \in products \X products : pq[1] < pq[2] /\ with(pq[1]) \cap with(pq[2]) # {}}})

ProductAffinity(S, sid) == PairsOf({<<sid[e], e.product>> : e \in {f \in OfType(S, "purchase") : f.product # None}})

\* Groups of one session that saw a view and, not before it, a purchase.
Converting(groups) ==
  {G \in groups : /\ OfType(G, "view") # {} /\ OfType(G, "purchase") # {}
                  /\ Earliest(OfType(G, "purchase")) >= Earliest(OfType(G, "view"))}
Histogram(groups) ==
  LET bar == [G \in Converting(groups) |->
                <<DateOf(G), TimeBucket(Earliest(OfType(G, "purchase")) - Earliest(OfType(G, "view")))>>]
  IN {[date |-> b[1], bucket |-> b[2], conversions |-> Cardinality({G \in DOMAIN bar : bar[G] = b})] :
        b \in Range(bar)}

TimeToConversion(S, sid) == Histogram(Groups(S, [e \in S |-> <<Date(e), sid[e]>>]))

\* ntile(5) of the k-th of n rows: the first n % 5 tiles have one row more.
Ntile(k, n) == LET size == n \div 5
                   larger == n % 5
               IN IF k <= larger * (size + 1) THEN ((k - 1) \div (size + 1)) + 1
                  ELSE larger + ((k - 1 - larger * (size + 1)) \div size) + 1

\* The position of u when users are ordered by a value, ties by user id.
Position(value, u) == 1 + Cardinality({v \in DOMAIN value : value[v] < value[u] \/ (value[v] = value[u] /\ v < u)})

\* What every buyer of the window did; asOf is the date it ends.
RfmBase(S, asOf) ==
  LET P == {e \in Purchases(S) : Date(e) > asOf - Lookback /\ Date(e) <= asOf}
      of(u) == {e \in P : e.user = u}
  IN [u \in Users(P) |-> [recency |-> asOf - Max(Dates(of(u))), frequency |-> Cardinality(of(u)),
                          monetary |-> Revenue(of(u))]]

\* score[k] is the score of the k-th user.
RfmRows(asOf, base, score) ==
  LET r == [u \in DOMAIN base |-> score[Position([v \in DOMAIN base |-> base[v].recency], u)]]
      f == [u \in DOMAIN base |-> score[Position([v \in DOMAIN base |-> -base[v].frequency], u)]]
      m == [u \in DOMAIN base |-> score[Position([v \in DOMAIN base |-> -base[v].monetary], u)]]
  IN {[asOf |-> asOf, user |-> u, r |-> r[u], f |-> f[u], m |-> m[u], segment |-> Segment(r[u], f[u], m[u]),
       base |-> base[u]] : u \in DOMAIN base}

RfmSegmentation(S) ==
  IF Purchases(S) = {} THEN {}
  ELSE LET asOf == Max(Dates(Purchases(S)))
           base == RfmBase(S, asOf)
           n == Cardinality(DOMAIN base)
       IN RfmRows(asOf, base, [k \in 1..n |-> 6 - Ntile(k, n)])
====
